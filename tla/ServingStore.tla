----------------------------- MODULE ServingStore -----------------------------
(***************************************************************************)
(* One per-source serving store: serving/store.py, driven by the clock of  *)
(* mcp/server_base.py.  Events are ingested in arrival order and projected *)
(* into a view when a read finds them Lag old; get() puts a time-to-live   *)
(* cache in front of the view, view() does not.  A store runs in one       *)
(* thread, so each method is one step.  An ingest of several events is as  *)
(* many steps of Ingest.                                                   *)
(***************************************************************************)
EXTENDS Integers, Sequences, Projectors

CONSTANTS
  Keys,              \* the keys of the view
  Times,             \* values of the store's time_field
  Versions,          \* values of an event's version
  Projector,         \* the projector's kind
  Lag,               \* profile.replication_lag_ms
  Ttl,               \* profile.cache_ttl_ms
  ClockMayStepBack,  \* time.time() is not monotonic
  MaxEvents,         \* bound on the events ingested
  MaxClock           \* bound on the clock

ASSUME LagTtlAssumption  == Lag \in Nat /\ Ttl \in Nat
ASSUME TimesAssumption   == Times \subseteq Nat
ASSUME VersionsAssumption == Versions \subseteq Int
ASSUME BoundsAssumption  == MaxEvents \in Nat /\ MaxClock \in Nat
ASSUME SwitchAssumption  == ClockMayStepBack \in BOOLEAN
ASSUME ProjectorAssumption == Projector \in Kinds

VARIABLES
  clock,               \* clock_ms()
  events,              \* _events
  lastAppliedIdx,      \* _last_applied_idx + 1: how many events are in the view
  lastVisibleAt,       \* _last_visible_at
  view,                \* _view
  cacheFirstServedAt,  \* _cache_first_served_at, NotCached when absent
  cacheValue,          \* _cache_value
  answer,              \* what the last read returned
  reply,               \* history: which read that was, and from which prefix
  arrived,             \* history: the clock when events[i] was ingested
  servedAsOf,          \* history: the prefix the last get of k answered from
  viewAsOf             \* history: the prefix the last view answered from

store == <<lastAppliedIdx, lastVisibleAt, view>>
cache == <<cacheFirstServedAt, cacheValue>>
vars  == <<clock, events, store, cache, answer, reply, arrived, servedAsOf, viewAsOf>>

NotCached == -1

Event == [key : Keys, at : Times, ver : Versions, no : 1..MaxEvents]

\* The appending projectors mutate the list they gave out (setdefault().append()),
\* so a cached list is the live one; the others replace the record.
InPlace == Projector = "append"

\* The view that the first n events make.
Projected(n) == ProjectAll(Projector, [k \in Keys |-> <<>>], SubSeq(events, 1, n))

Init ==
  /\ clock = 0
  /\ events = <<>> /\ arrived = <<>>
  /\ lastAppliedIdx = 0
  /\ lastVisibleAt = -1
  /\ view = [k \in Keys |-> <<>>]
  /\ cacheFirstServedAt = [k \in Keys |-> NotCached]
  /\ cacheValue = [k \in Keys |-> <<>>]
  /\ servedAsOf = [k \in Keys |-> 0]
  /\ viewAsOf = 0
  /\ answer = <<>>
  /\ reply = [op |-> "none", now |-> 0, asOf |-> 0]

Ingest(e) ==
  /\ Len(events) < MaxEvents
  /\ e.no = Len(events) + 1
  /\ events' = Append(events, e)
  /\ arrived' = Append(arrived, clock)
  /\ UNCHANGED <<clock, store, cache, answer, reply, servedAsOf, viewAsOf>>

\* Mutated: a scan that continues past an event that is too new.
FrontierContinues(n, cutoff) ==
  /\ n > lastAppliedIdx => events[n].at <= cutoff
  /\ \A i \in n + 1 .. Len(events) : events[i].at > cutoff

\* The scan of the events not yet applied stops at the first one that is too
\* new, even when later ones are not.
Frontier(n, cutoff) ==
  /\ \A i \in lastAppliedIdx + 1 .. n : events[i].at <= cutoff
  /\ n < Len(events) => events[n + 1].at > cutoff

\* Mutated: _last_applied_idx is left at the next event instead of the last.
ApplyVisibleNextIdx ==
  /\ clock - Lag > lastVisibleAt
  /\ \E n \in lastAppliedIdx .. Len(events) :
       /\ Frontier(n, clock - Lag)
       /\ view' = ProjectAll(Projector, view, SubSeq(events, lastAppliedIdx + 1, n))
       /\ lastAppliedIdx' = n + 1
  /\ lastVisibleAt' = clock - Lag

\* Mutated: the scan starts again at the last event applied.
ApplyVisibleTwice ==
  /\ clock - Lag > lastVisibleAt
  /\ \E n \in lastAppliedIdx .. Len(events) :
       /\ Frontier(n, clock - Lag)
       /\ view' = ProjectAll(Projector, view,
                             SubSeq(events, IF lastAppliedIdx = 0 THEN 1 ELSE lastAppliedIdx, n))
       /\ lastAppliedIdx' = n
  /\ lastVisibleAt' = clock - Lag

\* Mutated: the view is rebuilt for each clock reading.
ApplyVisibleRebuilt ==
  /\ \E n \in 0 .. Len(events) :
       /\ \A i \in 1..n : events[i].at <= clock - Lag
       /\ n < Len(events) => events[n + 1].at > clock - Lag
       /\ view' = Projected(n)
       /\ lastAppliedIdx' = n
  /\ lastVisibleAt' = clock - Lag

\* _apply_visible(clock): part of every read.
ApplyVisible ==
  LET cutoff == clock - Lag
  IN \/ /\ cutoff <= lastVisibleAt
        /\ UNCHANGED store
     \/ /\ cutoff > lastVisibleAt
        /\ \E n \in lastAppliedIdx .. Len(events) :
             /\ Frontier(n, cutoff)
             /\ view' = ProjectAll(Projector, view,
                                   SubSeq(events, lastAppliedIdx + 1, n))
             /\ lastAppliedIdx' = n
        /\ lastVisibleAt' = cutoff

\* A cached entry that may be served again, the boundary included.
CacheHit(k) ==
  /\ Ttl > 0
  /\ cacheFirstServedAt[k] # NotCached
  /\ clock - cacheFirstServedAt[k] <= Ttl

\* An entry that is a list shared with the view.
Live(k) == InPlace /\ cacheValue[k] # <<>>

AnswerGet(k, value, asOf) ==
  /\ reply' = [op |-> "get", key |-> k, now |-> clock, asOf |-> asOf]
  /\ answer' = value
  /\ servedAsOf' = [servedAsOf EXCEPT ![k] = asOf]

\* Mutated: serving an entry renews it.
GetCachedRenewed(k) ==
  /\ CacheHit(k)
  /\ ApplyVisible
  /\ IF Live(k) THEN AnswerGet(k, view'[k], lastAppliedIdx')
                ELSE AnswerGet(k, cacheValue[k], servedAsOf[k])
  /\ cacheFirstServedAt' = [cacheFirstServedAt EXCEPT ![k] = clock]
  /\ UNCHANGED <<clock, events, arrived, cacheValue, viewAsOf>>

GetCached(k) ==
  /\ CacheHit(k)
  /\ ApplyVisible
  /\ IF Live(k) THEN AnswerGet(k, view'[k], lastAppliedIdx')
                ELSE AnswerGet(k, cacheValue[k], servedAsOf[k])
  /\ UNCHANGED <<clock, events, arrived, cache, viewAsOf>>

\* Mutated: the cache keeps the record as it was before the events were applied.
GetFromViewEarlier(k) ==
  /\ ~CacheHit(k)
  /\ ApplyVisible
  /\ AnswerGet(k, view'[k], lastAppliedIdx')
  /\ IF Ttl > 0
     THEN /\ cacheFirstServedAt' = [cacheFirstServedAt EXCEPT ![k] = clock]
          /\ cacheValue' = [cacheValue EXCEPT ![k] = view[k]]
     ELSE UNCHANGED cache
  /\ UNCHANGED <<clock, events, arrived, viewAsOf>>

GetFromView(k) ==
  /\ ~CacheHit(k)
  /\ ApplyVisible
  /\ AnswerGet(k, view'[k], lastAppliedIdx')
  /\ IF Ttl > 0
     THEN /\ cacheFirstServedAt' = [cacheFirstServedAt EXCEPT ![k] = clock]
          /\ cacheValue' = [cacheValue EXCEPT ![k] = view'[k]]
     ELSE UNCHANGED cache
  /\ UNCHANGED <<clock, events, arrived, viewAsOf>>

View ==
  /\ ApplyVisible
  /\ reply' = [op |-> "view", now |-> clock, asOf |-> lastAppliedIdx']
  /\ answer' = view'
  /\ viewAsOf' = lastAppliedIdx'
  /\ UNCHANGED <<clock, events, arrived, cache, servedAsOf>>

AdvanceClock ==
  /\ \E t \in clock + 1 .. MaxClock : clock' = t
  /\ UNCHANGED <<events, store, cache, answer, reply, arrived, servedAsOf, viewAsOf>>

StepBack ==
  /\ ClockMayStepBack
  /\ \E t \in 0 .. clock - 1 : clock' = t
  /\ UNCHANGED <<events, store, cache, answer, reply, arrived, servedAsOf, viewAsOf>>

Next ==
  \/ \E e \in Event : Ingest(e)
  \/ \E k \in Keys : GetCached(k) \/ GetFromView(k)
  \/ View
  \/ AdvanceClock
  \/ StepBack

Spec == Init /\ [][Next]_vars

-------------------------------------------------------------------------------
\* The state's types.  What the view and the cache hold is pinned down by
\* ViewIsProjection and AnswersAreConsistent.
TypeOK ==
  /\ clock \in 0..MaxClock
  /\ events \in Seq(Event) /\ Len(events) <= MaxEvents
  /\ arrived \in Seq(Nat) /\ Len(arrived) = Len(events)
  /\ lastAppliedIdx \in 0..Len(events)
  /\ lastVisibleAt \in Int /\ lastVisibleAt >= -1
  /\ cacheValue = [k \in Keys |-> cacheValue[k]]
  /\ cacheFirstServedAt \in [Keys -> Nat \cup {NotCached}]
  /\ servedAsOf \in [Keys -> 0..Len(events)]
  /\ viewAsOf \in 0..Len(events)
  /\ reply.now \in 0..MaxClock /\ reply.asOf \in 0..Len(events)

\* Each event is projected exactly once and in arrival order, whatever reads and
\* clock readings come in between (_apply_visible's index bookkeeping), and the
\* projectors keep what their order says: the highest version, the latest time
\* with ties to the later arrival, or every event of the key.
ViewIsProjection ==
  /\ view = Projected(lastAppliedIdx)
  /\ \A k \in Keys :
       view[k] = Kept(Projector, SubSeq(events, 1, lastAppliedIdx), k)

\* The same log read by the stores of each kind of projector leaves in each what
\* its order says, so the kinds differ in what they keep and in nothing else: a
\* customer's record is decided by versions even where the times disagree.
KindsKeepTheirOrder ==
  \A kind \in Kinds : \A k \in Keys :
    ProjectAll(kind, [c \in Keys |-> <<>>], events)[k] = Kept(kind, events, k)

\* Every answer, cached ones included, is the record as it stood at some point of
\* the log that get() or view() had reached: a cache entry is never a mixture.
AnswersAreConsistent ==
  /\ reply.op = "get"  => answer = Projected(reply.asOf)[reply.key]
  /\ reply.op = "view" => answer = Projected(reply.asOf)

\* "Reads at time T see only events with occurred_at_ms <= T - replication_lag_ms"
\* (store.py, the class's doc): no event of the prefix an answer came from is
\* newer than that.
ReadsSeeOnlyLagged ==
  reply.op # "none" =>
    \A i \in 1..reply.asOf : events[i].at <= reply.now - Lag

\* A key's gets never go back in the log, nor do the views, whatever the clock
\* does: the cache may hold a record back but never returns to an older one.
ReadsNeverRegress ==
  [][/\ \A k \in Keys : servedAsOf'[k] >= servedAsOf[k]
     /\ viewAsOf' >= viewAsOf]_vars

\* The store implements bounded staleness (see BoundedStaleness): its hidden state
\* is the applied prefix and the cache, its promise the bounds on each answer.
Promise == INSTANCE BoundedStaleness WITH
  log       <- events,
  floor     <- servedAsOf,
  scanFloor <- viewAsOf

\* Checked with a clock that never steps back.
ImplementsBoundedStaleness == Promise!Spec

-------------------------------------------------------------------------------
\* The inductive invariant behind the theorems of ServingStoreProofs, for a clock
\* that never steps back: the view is as of the last cutoff, a cached copy is as of
\* its own time, and neither has left out an event it owed its readers.
Reached ==
  /\ \A k \in Keys : servedAsOf[k] <= lastAppliedIdx
  /\ viewAsOf <= lastAppliedIdx

LaggedInv ==
  /\ \A i \in 1..lastAppliedIdx : events[i].at <= lastVisibleAt
  /\ lastVisibleAt = -1 \/ lastVisibleAt <= clock - Lag

FreshInv ==
  /\ \A i \in 1..Len(events) :
       Promise!Owed(i, lastVisibleAt + Lag) => i <= lastAppliedIdx
  /\ \A k \in Keys : cacheFirstServedAt[k] # NotCached =>
       /\ cacheFirstServedAt[k] <= clock
       /\ \A i \in 1..Len(events) :
            Promise!Owed(i, cacheFirstServedAt[k]) => i <= servedAsOf[k]

ReadInv == Reached /\ LaggedInv /\ FreshInv /\ ReadsSeeOnlyLagged
===============================================================================
