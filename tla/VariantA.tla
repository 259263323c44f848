------------------------------- MODULE VariantA -------------------------------
(***************************************************************************)
(* Variant A: stores of one event stream behind their source servers.      *)
(* mcp/servers/builder.py feeds the stream to the stores, mcp/tools/ reads *)
(* one store per call, mcp/server_base.py puts authentication, fault       *)
(* injection and the clock in front of each read, and eval/conditions.py   *)
(* chooses the faults.  All of it runs in one thread: nothing but the      *)
(* clock moves while a call is delayed.  The clock is time.time(), which   *)
(* is set as well as advanced, so it may step back between any two reads.  *)
(*                                                                         *)
(* What a store holds follows from how far it has read its topic, so a     *)
(* store is reduced to positions in the stream; VariantAStores says that   *)
(* each is a ServingStore.                                                 *)
(***************************************************************************)
EXTENDS Integers, Sequences, FiniteSets

CONSTANTS
  Stores,      \* the stores of the bundle that the instance looks at
  Keys,        \* the keys that tools look up
  LagOf,       \* replication_lag_ms of each server
  TtlOf,       \* cache_ttl_ms of each server
  Conditions,  \* the conditions the harness applies
  Latency,     \* 200: the latency of the slow source
  Sleeps,      \* inject_sleep
  Scopes,      \* Scopes[t]: the scopes that the registry grants token t
  Presented,   \* the tokens presented, known or not
  Batches,     \* what a feed may bring: sequences of topics
  MaxFeeds,    \* bound on the feeds
  MaxCalls,    \* bound on the calls
  MaxInputs,   \* bound on the feeds and the calls together
  MaxClock     \* bound on the clock

VARIABLES
  clock,       \* clock_ms()
  stream,      \* the events fed so far, over all topics, in the stream's order
  applied,     \* applied[s]: the position of the last event in s's view
  visibleAt,   \* _last_visible_at of each store
  cachedAt,    \* _cache_first_served_at of each store
  cachedAsOf,  \* _cache_value: the position the copy was taken at
  faults,      \* the fault profile of each store
  pending,     \* the call that is being delayed, <<>> when none
  transcript   \* what the agent has been told, in order

reads == <<applied, visibleAt, cachedAt, cachedAsOf>>
vars  == <<clock, stream, reads, faults, pending, transcript>>

NotCached == -1

\* SERVER_TO_STORES, inverted.
ServerOf == [customers |-> "customers", customer_tier_changes |-> "customers",
             orders |-> "orders", order_items |-> "orders",
             inventory |-> "inventory", returns |-> "returns",
             support_tickets |-> "support", payment_events |-> "payments"]

Servers == {ServerOf[s] : s \in DOMAIN ServerOf}

\* _STORE_SPECS: the projector of each store.
ProjectorOf == [customers |-> "by_version", customer_tier_changes |-> "append",
                orders |-> "by_time", order_items |-> "append",
                inventory |-> "by_time", returns |-> "by_time",
                support_tickets |-> "by_time", payment_events |-> "append"]

\* The stores that a tool reads with get(), and with view().
GetTools  == {"customers", "orders", "inventory", "returns", "support_tickets"}
ViewTools == DOMAIN ServerOf \ {"customers"}

ASSUME StoresAssumption  == Stores \subseteq DOMAIN ServerOf
ASSUME ProfileAssumption == LagOf \in [Servers -> Nat] /\ TtlOf \in [Servers -> Nat]
ASSUME BatchAssumption   == Batches \subseteq Seq(Stores)
ASSUME BoundsAssumption  ==
  MaxFeeds \in Nat /\ MaxCalls \in Nat /\ MaxInputs \in Nat /\ MaxClock \in Nat
ASSUME FaultAssumption   == Latency \in Nat /\ Sleeps \in BOOLEAN

ReplicationLag(s) == LagOf[ServerOf[s]]
CacheTtl(s) == TtlOf[ServerOf[s]]

\* The profiles that a choice of sources gives the stores, which are configured store
\* by store.
Profiles(latencySrc, errorSrc) ==
  [s \in Stores |-> [slow |-> ServerOf[s] = latencySrc, fails |-> ServerOf[s] = errorSrc]]

NoFaults == [s \in Stores |-> [slow |-> FALSE, fails |-> FALSE]]

\* apply_condition: no faults, or one slow source and another one that fails.
Conditioned(condition) ==
  IF condition = "clean"
  THEN {NoFaults}
  ELSE UNION {{Profiles(latencySrc, errorSrc) : errorSrc \in Servers \ {latencySrc}} :
                latencySrc \in Servers}

Init ==
  /\ clock = 0 /\ stream = <<>>
  /\ applied = [s \in Stores |-> 0]
  /\ visibleAt = [s \in Stores |-> -1]
  /\ cachedAt = [s \in Stores |-> [k \in Keys |-> NotCached]]
  /\ cachedAsOf = [s \in Stores |-> [k \in Keys |-> 0]]
  /\ faults \in UNION {Conditioned(condition) : condition \in Conditions}
  /\ pending = <<>> /\ transcript = <<>>

\* The positions of a topic's events, and how many there are up to position p.
Own(s) == {p \in DOMAIN stream : stream[p].store = s}
Rank(s, p) == Cardinality({q \in Own(s) : q <= p})

\* The feeds so far, and the bound on them and the calls.
Feeds == IF stream = <<>> THEN 0 ELSE stream[Len(stream)].feed
MoreInputs == Feeds + Len(transcript) < MaxInputs

\* feed(): one batch, about one key, stamped no earlier than the one before it.
\* Each store is given its topic's events, and no call comes in between.
Feed ==
  /\ pending = <<>> /\ Feeds < MaxFeeds /\ MoreInputs
  /\ \E batch \in Batches, k \in Keys, at \in 0..MaxClock :
       LET version(s) == IF s = "customers"
                         THEN Cardinality({p \in Own(s) : stream[p].key = k}) + 1 ELSE 0
       IN /\ stream # <<>> => at >= stream[Len(stream)].at
          /\ stream' = stream \o
               [i \in DOMAIN batch |->
                  [store |-> batch[i], key |-> k, at |-> at, ver |-> version(batch[i]),
                   fedAt |-> clock, feed |-> Feeds + 1]]
  /\ UNCHANGED <<clock, reads, faults, pending, transcript>>

\* Time passes, for the pending call as well.
AdvanceClock ==
  /\ \E t \in clock + 1 .. MaxClock :
       LET left(call) == call.rest - (t - clock)
       IN /\ clock' = t
          /\ pending' = [i \in DOMAIN pending |->
               [pending[i] EXCEPT !.rest = IF left(pending[i]) > 0 THEN left(pending[i]) ELSE 0]]
  /\ UNCHANGED <<stream, reads, faults, transcript>>

\* The clock is set, in either direction, while no time passes.
SetClock ==
  /\ clock' \in 0..MaxClock \ {clock}
  /\ UNCHANGED <<stream, reads, faults, pending, transcript>>

-------------------------------------------------------------------------------
\* The agent is told the outcome of its call.
Tell(entry) == transcript' = Append(transcript, entry)

\* TokenRegistry.check: no token, an unknown one, or one without the scope.
Authorised(token, s) ==
  token \in DOMAIN Scopes /\ ServerOf[s] \in Scopes[token]

\* maybe_inject's sleep, when the bundle was built with it.
Delay(s) == IF Sleeps /\ faults[s].slow THEN Latency ELSE 0

\* A tool is called: get() for a key, or view().
Called(s, op) ==
  /\ pending = <<>> /\ Len(transcript) < MaxCalls /\ MoreInputs
  /\ s \in IF op = "get" THEN GetTools ELSE ViewTools

\* A refused call ends before the faults and the store, and reads no clock.
Refuse(s, op, k, token) ==
  /\ Called(s, op) /\ ~Authorised(token, s)
  /\ Tell([store |-> s, op |-> op, key |-> k, now |-> 0, waited |-> 0, asOf |-> 0,
           outcome |-> "auth_error"])
  /\ UNCHANGED <<clock, stream, reads, faults, pending>>

Admit(s, op, k, token) ==
  /\ Called(s, op) /\ Authorised(token, s)
  /\ pending' = <<[store |-> s, op |-> op, key |-> k, rest |-> Delay(s)]>>
  /\ UNCHANGED <<clock, stream, reads, faults, transcript>>

\* The delay of the pending call is over.
Awake(call) == call.rest = 0

\* What the agent is told at the end of the pending call: of the reading now of the
\* clock, or of no reading.
Entry(call, now, asOf, outcome) ==
  [store |-> call.store, op |-> call.op, key |-> call.key, now |-> now,
   waited |-> Delay(call.store), asOf |-> asOf, outcome |-> outcome]

\* The scan of the store's topic stops before the first event that is too new.
Frontier(s, p, cutoff) ==
  /\ p \in {applied[s]} \cup {q \in Own(s) : q > applied[s]}
  /\ \A q \in Own(s) : applied[s] < q /\ q <= p => stream[q].at <= cutoff
  /\ \A q \in Own(s) : q > p =>
       \E first \in Own(s) : p < first /\ first <= q /\ stream[first].at > cutoff

\* Mutated: applied is left at the next event instead of the last.
ApplyVisibleNext(s) ==
  LET cutoff == clock - ReplicationLag(s)
  IN IF cutoff <= visibleAt[s]
     THEN UNCHANGED <<applied, visibleAt>>
     ELSE /\ \E p \in 0..Len(stream) :
               Frontier(s, p, cutoff) /\ applied' = [applied EXCEPT ![s] = p + 1]
          /\ visibleAt' = [visibleAt EXCEPT ![s] = cutoff]

\* ServingStore._apply_visible(clock).
ApplyVisible(s) ==
  LET cutoff == clock - ReplicationLag(s)
  IN IF cutoff <= visibleAt[s]
     THEN UNCHANGED <<applied, visibleAt>>
     ELSE /\ \E p \in 0..Len(stream) :
               Frontier(s, p, cutoff) /\ applied' = [applied EXCEPT ![s] = p]
          /\ visibleAt' = [visibleAt EXCEPT ![s] = cutoff]

\* The view as of position p has an entry for the key.
Found(s, k, p) == \E q \in Own(s) : q <= p /\ stream[q].key = k

\* Mutated: the fault is injected after the tool body has run.
InjectAfterRead ==
  \E call \in {pending[i] : i \in DOMAIN pending} :
    /\ Awake(call) /\ faults[call.store].fails
    /\ ApplyVisible(call.store)
    /\ Tell(Entry(call, 0, 0, "source_error"))
    /\ pending' = <<>>
    /\ UNCHANGED <<clock, stream, cachedAt, cachedAsOf, faults>>

\* The fault is injected in place of the tool body.
Inject ==
  \E call \in {pending[i] : i \in DOMAIN pending} :
    /\ Awake(call) /\ faults[call.store].fails
    /\ Tell(Entry(call, 0, 0, "source_error"))
    /\ pending' = <<>>
    /\ UNCHANGED <<clock, stream, reads, faults>>

CacheHit(s, k) ==
  CacheTtl(s) > 0 /\ cachedAt[s][k] # NotCached /\ clock - cachedAt[s][k] <= CacheTtl(s)

Outcome(s, k, p) == IF Found(s, k, p) THEN "ok" ELSE "not_found"

\* store.get(key, now) or {"error": "not_found"}
AnswerGet ==
  \E call \in {pending[i] : i \in DOMAIN pending} :
    LET s == call.store
        k == call.key
    IN /\ Awake(call) /\ call.op = "get"
       /\ ApplyVisible(s)
       /\ IF CacheHit(s, k)
          THEN /\ Tell(Entry(call, clock, cachedAsOf[s][k], Outcome(s, k, cachedAsOf[s][k])))
               /\ UNCHANGED <<cachedAt, cachedAsOf>>
          ELSE /\ Tell(Entry(call, clock, applied'[s], Outcome(s, k, applied'[s])))
               /\ IF CacheTtl(s) > 0
                  THEN /\ cachedAt' = [cachedAt EXCEPT ![s][k] = clock]
                       /\ cachedAsOf' = [cachedAsOf EXCEPT ![s][k] = applied'[s]]
                  ELSE UNCHANGED <<cachedAt, cachedAsOf>>
       /\ pending' = <<>>
       /\ UNCHANGED <<clock, stream, faults>>

\* Mutated: view() returns the view without applying the events that are due.
AnswerViewUnapplied ==
  \E call \in {pending[i] : i \in DOMAIN pending} :
    /\ Awake(call) /\ call.op = "view"
    /\ Tell(Entry(call, clock, applied[call.store], "ok"))
    /\ pending' = <<>>
    /\ UNCHANGED <<clock, stream, reads, faults>>

\* store.view(now), of which a tool selects the entries about the key.
AnswerView ==
  \E call \in {pending[i] : i \in DOMAIN pending} :
    /\ Awake(call) /\ call.op = "view"
    /\ ApplyVisible(call.store)
    /\ Tell(Entry(call, clock, applied'[call.store], "ok"))
    /\ pending' = <<>>
    /\ UNCHANGED <<clock, stream, cachedAt, cachedAsOf, faults>>

Next ==
  \/ Feed
  \/ AdvanceClock \/ SetClock
  \/ \E s \in Stores, op \in {"get", "view"}, k \in Keys, token \in Presented :
       Refuse(s, op, k, token) \/ Admit(s, op, k, token)
  \/ Inject \/ AnswerGet \/ AnswerView

Spec == Init /\ [][Next]_vars

-------------------------------------------------------------------------------
StreamEvent == [store : Stores, key : Keys, at : 0..MaxClock, ver : Nat,
                fedAt : 0..MaxClock, feed : 1..MaxFeeds]
Call == [store : Stores, op : {"get", "view"}, key : Keys, rest : 0..Latency]

\* The state's types: positions lie within the stream and the bounds hold.
TypeOK ==
  /\ clock \in 0..MaxClock
  /\ stream \in Seq(StreamEvent)
  /\ applied \in [Stores -> 0..Len(stream)]
  /\ visibleAt \in [Stores -> -1..MaxClock]
  /\ cachedAt \in [Stores -> [Keys -> 0..MaxClock \cup {NotCached}]]
  /\ cachedAsOf \in [Stores -> [Keys -> 0..Len(stream)]]
  /\ faults \in [Stores -> [slow : BOOLEAN, fails : BOOLEAN]]
  /\ pending \in {<<>>} \cup {<<call>> : call \in Call}
  /\ transcript \in Seq([store : Stores, op : {"get", "view"}, key : Keys,
                          now : 0..MaxClock, waited : Nat, asOf : 0..Len(stream),
                          outcome : {"ok", "not_found", "auth_error", "source_error"}])
  /\ Len(transcript) <= MaxCalls

Answered(entry) == entry.outcome \in {"ok", "not_found"}

\* The readings at which the calls up to the i-th have read store s.
ReadAt(s, i) == {transcript[h].now : h \in {g \in 1..i : /\ transcript[g].store = s
                                                         /\ Answered(transcript[g])}}

\* How far two sources can be apart, which is what an agent that joins them has to
\* know: an unfiltered read of b, made late enough after an answer of a to make up
\* for the difference of their lags, and later than b's own reads before that answer,
\* shows every event of b's topic that the stream has before what the answer of a
\* showed.  So an order's items are there once the order is, a tier change once the
\* customer carries it, and a chargeback a while after the rejection that it caused.
\* Late is by all the readings that a has been read at, and not by the last: where the
\* clock has stepped back, a's answer shows what an earlier and higher reading let in.
SourcesAreCausal ==
  \A i, j \in DOMAIN transcript :
    LET a == transcript[i]
        b == transcript[j]
    IN /\ i < j /\ Answered(a) /\ Answered(b) /\ b.op = "view"
       /\ \A t \in ReadAt(a.store, i) :
            t - ReplicationLag(a.store) <= b.now - ReplicationLag(b.store)
       /\ \A t \in ReadAt(b.store, i) : t < b.now
       => Rank(b.store, a.asOf) <= Rank(b.store, b.asOf)

\* "degraded: latency added to one randomly-chosen source per task" (conditions.py:6):
\* a call that the slow source has let through was delayed, so that the condition the
\* rows are labelled with is the one the agent met.
SlowSourceIsDelayed ==
  \A i \in DOMAIN transcript :
    LET e == transcript[i]
    IN e.outcome # "auth_error" /\ faults[e.store].slow => e.waited >= Latency

===============================================================================
