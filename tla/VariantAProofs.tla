---------------------------- MODULE VariantAProofs ----------------------------
(***************************************************************************)
(* Proofs about variant A, for any stores, lags, times to live, tokens and *)
(* conditions, and any length of the stream and of the transcript.         *)
(***************************************************************************)
EXTENDS VariantA, TLAPS, SequenceTheorems, FiniteSetTheorems

\* Facts about the constants and the bounds of the state's integers.
LEMMA Profiled ==
  ASSUME NEW s \in Stores
  PROVE  ServerOf[s] \in Servers /\ ReplicationLag(s) \in Nat /\ CacheTtl(s) \in Nat
<1>1. ServerOf[s] \in Servers
  BY StoresAssumption DEF Servers
<1> QED
  BY <1>1, ProfileAssumption DEF ReplicationLag, CacheTtl

LEMMA Clocked ==
  ASSUME TypeOK
  PROVE  /\ clock \in Nat /\ clock <= MaxClock /\ MaxClock \in Nat
         /\ Len(stream) \in Nat /\ DOMAIN stream = 1..Len(stream)
         /\ \A q \in 1..Len(stream) :
              /\ stream[q] \in StreamEvent /\ stream[q].store \in Stores
              /\ stream[q].at \in Nat /\ stream[q].fedAt \in Nat
         /\ \A s \in Stores : /\ applied[s] \in 0..Len(stream)
                              /\ visibleAt[s] \in Int /\ visibleAt[s] >= -1
<1>1. clock \in Nat /\ clock <= MaxClock /\ MaxClock \in Nat
  BY BoundsAssumption DEF TypeOK
<1>2. stream \in Seq(StreamEvent)
  BY DEF TypeOK
<1>3. Len(stream) \in Nat /\ DOMAIN stream = 1..Len(stream)
  BY <1>2, LenProperties
<1>4. ASSUME NEW q \in 1..Len(stream)
      PROVE  /\ stream[q] \in StreamEvent /\ stream[q].store \in Stores
             /\ stream[q].at \in Nat /\ stream[q].fedAt \in Nat
  <2>1. stream[q] \in StreamEvent
    BY <1>2, <1>3, ElementOfSeq
  <2>2. stream[q].store \in Stores /\ stream[q].at \in 0..MaxClock
        /\ stream[q].fedAt \in 0..MaxClock
    BY <2>1 DEF StreamEvent
  <2> QED
    BY <1>1, <2>1, <2>2
<1>5. ASSUME NEW s \in Stores
      PROVE  /\ applied[s] \in 0..Len(stream)
             /\ visibleAt[s] \in Int /\ visibleAt[s] >= -1
  BY <1>1 DEF TypeOK
<1> QED
  BY <1>1, <1>3, <1>4, <1>5

LEMMA FinitelyMany ==
  ASSUME TypeOK
  PROVE  IsFiniteSet(DOMAIN stream)
<1>1. Len(stream) \in Int /\ DOMAIN stream = 1..Len(stream)
  BY Clocked
<1>2. IsFiniteSet(1..Len(stream))
  BY <1>1, FS_Interval
<1> QED
  BY <1>1, <1>2

-------------------------------------------------------------------------------
\* The parts of a step that several actions share.

\* The view goes on to a position of the stream, as of the cutoff.
LEMMA Applying ==
  ASSUME TypeOK, NEW s \in Stores, ApplyVisible(s)
  PROVE  /\ applied' \in [Stores -> 0..Len(stream)]
         /\ visibleAt' \in [Stores -> -1..MaxClock]
         /\ \A c \in Stores : c # s => applied'[c] = applied[c] /\ visibleAt'[c] = visibleAt[c]
<1>1. PICK cutoff : cutoff = clock - ReplicationLag(s)
  OBVIOUS
<1>2. cutoff \in Int /\ cutoff <= MaxClock
  BY <1>1, Profiled, Clocked
<1>3. CASE cutoff <= visibleAt[s]
  <2>1. UNCHANGED <<applied, visibleAt>>
    BY <1>1, <1>3 DEF ApplyVisible
  <2> QED
    BY <2>1 DEF TypeOK
<1>4. CASE ~(cutoff <= visibleAt[s])
  <2>1. PICK p \in 0..Len(stream) : applied' = [applied EXCEPT ![s] = p]
    BY <1>1, <1>4 DEF ApplyVisible
  <2>2. visibleAt' = [visibleAt EXCEPT ![s] = cutoff]
    BY <1>1, <1>4 DEF ApplyVisible
  <2>3. cutoff \in -1..MaxClock
    BY <1>2, <1>4, Clocked
  <2> QED
    BY <2>1, <2>2, <2>3 DEF TypeOK
<1> QED
  BY <1>3, <1>4

\* Feed puts a batch of well-formed events, stamped now, at the end of the stream.
Batch(new, at) ==
  /\ new \in Seq(StreamEvent)
  /\ \A i \in 1..Len(new) : new[i].at = at /\ new[i].fedAt = clock
  /\ stream' = stream \o new
  /\ at \in 0..MaxClock
  /\ stream # <<>> => at >= stream[Len(stream)].at

LEMMA Feeding ==
  ASSUME TypeOK, Feed
  PROVE  \E new, at : Batch(new, at)
<1> DEFINE version(s, k) ==
             IF s = "customers"
             THEN Cardinality({p \in Own(s) : stream[p].key = k}) + 1 ELSE 0
<1>1. PICK feeds : feeds = Feeds
  OBVIOUS
<1>2. PICK batch \in Batches, k \in Keys, at \in 0..MaxClock :
        /\ feeds < MaxFeeds
        /\ stream # <<>> => at >= stream[Len(stream)].at
        /\ stream' = stream \o
             [i \in DOMAIN batch |->
                [store |-> batch[i], key |-> k, at |-> at, ver |-> version(batch[i], k),
                 fedAt |-> clock, feed |-> feeds + 1]]
  BY <1>1 DEF Feed
<1>3. PICK new : new = [i \in DOMAIN batch |->
                [store |-> batch[i], key |-> k, at |-> at, ver |-> version(batch[i], k),
                 fedAt |-> clock, feed |-> feeds + 1]]
  OBVIOUS
<1>4. batch \in Seq(Stores)
  BY BatchAssumption
<1>5. Len(batch) \in Nat /\ DOMAIN batch = 1..Len(batch)
  BY <1>4, LenProperties
<1>6. feeds + 1 \in 1..MaxFeeds
  <2>1. CASE stream = <<>>
    BY <1>1, <1>2, <2>1, BoundsAssumption DEF Feeds
  <2>2. CASE stream # <<>>
    <3>1. Len(stream) \in 1..Len(stream)
      BY <2>2, Clocked
    <3>2. PICK last \in StreamEvent : last = stream[Len(stream)]
      BY <3>1, Clocked
    <3>3. last.feed \in 1..MaxFeeds
      BY <3>2 DEF StreamEvent
    <3>4. feeds = last.feed
      BY <1>1, <2>2, <3>2 DEF Feeds
    <3> QED
      BY <1>2, <3>3, <3>4, BoundsAssumption
  <2> QED
    BY <2>1, <2>2
<1>7. ASSUME NEW s PROVE version(s, k) \in Nat
  <2>1. IsFiniteSet(DOMAIN stream)
    BY FinitelyMany
  <2>2. {p \in Own(s) : stream[p].key = k} \subseteq DOMAIN stream
    BY DEF Own
  <2>3. Cardinality({p \in Own(s) : stream[p].key = k}) \in Nat
    BY <2>1, <2>2, FS_Subset, FS_CardinalityType
  <2> QED
    BY <2>3
<1> HIDE DEF version
<1>8. ASSUME NEW i \in 1..Len(batch)
      PROVE  new[i] \in StreamEvent /\ new[i].at = at /\ new[i].fedAt = clock
  <2>1. batch[i] \in Stores
    BY <1>4, <1>5, ElementOfSeq
  <2>2. new[i] = [store |-> batch[i], key |-> k, at |-> at, ver |-> version(batch[i], k),
                  fedAt |-> clock, feed |-> feeds + 1]
    BY <1>3, <1>5
  <2>3. clock \in 0..MaxClock /\ version(batch[i], k) \in Nat
    BY <1>7 DEF TypeOK
  <2> QED
    BY <1>6, <2>1, <2>2, <2>3 DEF StreamEvent
<1>9. DOMAIN new = 1..Len(batch) /\ new = [i \in 1..Len(batch) |-> new[i]]
  BY <1>3, <1>5
<1>10. new \in Seq(StreamEvent) /\ Len(new) = Len(batch)
  BY <1>5, <1>8, <1>9, IsASeq, LenProperties
<1>11. stream # <<>> => at >= stream[Len(stream)].at
  BY <1>2
<1>12. stream' = stream \o new
  BY <1>2, <1>3
<1> QED
  BY <1>8, <1>10, <1>11, <1>12 DEF Batch

\* What a fed batch leaves: the old positions, and new events stamped now.
LEMMA Fed ==
  ASSUME TypeOK, NEW new, NEW at, Batch(new, at)
  PROVE  /\ stream' \in Seq(StreamEvent)
         /\ Len(stream') \in Nat /\ DOMAIN stream' = 1..Len(stream')
         /\ Len(stream') >= Len(stream)
         /\ \A q \in 1..Len(stream) : stream'[q] = stream[q]
         /\ \A q \in 1..Len(stream') : q > Len(stream) =>
              stream'[q].at = at /\ stream'[q].fedAt = clock
<1>1. stream \in Seq(StreamEvent) /\ new \in Seq(StreamEvent) /\ stream' = stream \o new
  BY DEF TypeOK, Batch
<1>2. /\ Len(stream) \in Nat /\ Len(new) \in Nat
      /\ stream \o new \in Seq(StreamEvent)
      /\ Len(stream \o new) = Len(stream) + Len(new)
      /\ \A q \in 1..Len(stream) + Len(new) :
           (stream \o new)[q] = IF q <= Len(stream) THEN stream[q] ELSE new[q - Len(stream)]
  BY <1>1, ConcatProperties, LenProperties
<1>3. PICK n \in Nat, m \in Nat : n = Len(stream) /\ m = Len(new)
  BY <1>2
<1>4. Len(stream') = n + m
  BY <1>1, <1>2, <1>3
<1>5. \A q \in 1..n : stream'[q] = stream[q]
  BY <1>1, <1>2, <1>3
<1>6. ASSUME NEW q \in 1..n + m, q > n PROVE stream'[q].at = at /\ stream'[q].fedAt = clock
  <2>1. q - n \in 1..m /\ ~(q <= n)
    BY <1>6
  <2>2. stream'[q] = new[q - n]
    BY <1>1, <1>2, <1>3, <2>1
  <2> QED
    BY <1>3, <2>1, <2>2 DEF Batch
<1>7. stream' \in Seq(StreamEvent)
  BY <1>1, <1>2
<1> QED
  BY <1>3, <1>4, <1>5, <1>6, <1>7, LenProperties

\* The call that an action ends.
LEMMA PendingCall ==
  ASSUME TypeOK, NEW call \in {pending[i] : i \in DOMAIN pending}
  PROVE  call \in Call /\ pending = <<call>>
<1>1. CASE pending = <<>>
  BY <1>1
<1>2. ASSUME NEW c \in Call, pending = <<c>> PROVE call = c
  <2>1. DOMAIN <<c>> = {1} /\ <<c>>[1] = c
    OBVIOUS
  <2> QED
    BY <1>2, <2>1
<1> QED
  BY <1>1, <1>2 DEF TypeOK

\* What the agent has been told so far, positions of the stream up to n.
Entries(n) == [store : Stores, op : {"get", "view"}, key : Keys,
               now : 0..MaxClock, waited : Nat, asOf : 0..n,
               outcome : {"ok", "not_found", "auth_error", "source_error"}]

\* An entry is well formed.
LEMMA TellingTyped ==
  ASSUME TypeOK, NEW call \in Call, NEW now \in 0..MaxClock, NEW asOf \in 0..Len(stream),
         NEW outcome \in {"ok", "not_found", "auth_error", "source_error"}
  PROVE  Entry(call, now, asOf, outcome) \in Entries(Len(stream))
<1>1. call.store \in Stores /\ call.op \in {"get", "view"} /\ call.key \in Keys
  BY DEF Call
<1>2. Delay(call.store) \in Nat
  BY FaultAssumption DEF Delay
<1> QED
  BY <1>1, <1>2 DEF Entry, Entries

\* Telling one thing more keeps the transcript well formed.
LEMMA ToldTyped ==
  ASSUME TypeOK, NEW entry \in Entries(Len(stream)), Tell(entry), Len(transcript) < MaxCalls
  PROVE  /\ transcript' \in Seq(Entries(Len(stream)))
         /\ Len(transcript') <= MaxCalls
<1>1. transcript \in Seq(Entries(Len(stream)))
  BY DEF TypeOK, Entries
<1> QED
  BY <1>1, BoundsAssumption DEF Tell

\* A read that is answered leaves the types as they are.
LEMMA AnswerTyped ==
  ASSUME TypeOK, NEW call \in Call, NEW now \in 0..MaxClock, NEW asOf \in 0..Len(stream),
         NEW outcome \in {"ok", "not_found", "auth_error", "source_error"},
         Len(transcript) < MaxCalls, Tell(Entry(call, now, asOf, outcome)),
         UNCHANGED <<clock, stream, faults>>, pending' = <<>>,
         applied' \in [Stores -> 0..Len(stream)], visibleAt' \in [Stores -> -1..MaxClock],
         cachedAt' \in [Stores -> [Keys -> 0..MaxClock \cup {NotCached}]],
         cachedAsOf' \in [Stores -> [Keys -> 0..Len(stream)]]
  PROVE  TypeOK'
<1>1. transcript' \in Seq(Entries(Len(stream))) /\ Len(transcript') <= MaxCalls
  BY TellingTyped, ToldTyped
<1> QED
  BY <1>1 DEF TypeOK, Entries

-------------------------------------------------------------------------------
\* While a call is pending there is room for its outcome.
TypeInv == TypeOK /\ (pending # <<>> => Len(transcript) < MaxCalls)

LEMMA NextTyped == TypeInv /\ [Next]_vars => TypeInv'
<1> SUFFICES ASSUME TypeInv, [Next]_vars PROVE TypeInv'
  OBVIOUS
<1> USE DEF TypeInv
<1>1. CASE Feed
  <2>1. PICK new, at : Batch(new, at)
    BY <1>1, Feeding
  <2>2. stream' \in Seq(StreamEvent) /\ Len(stream') \in Nat /\ Len(stream') >= Len(stream)
    BY <2>1, Fed
  <2>3. Len(stream) \in Nat /\ \A n : n \in 0..Len(stream) => n \in 0..Len(stream')
    BY <2>2, Clocked
  <2>4. UNCHANGED <<clock, applied, visibleAt, cachedAt, cachedAsOf, faults, pending, transcript>>
    BY <1>1 DEF Feed, reads
  <2>5. applied' \in [Stores -> 0..Len(stream')]
    BY <2>3, <2>4 DEF TypeOK
  <2>6. cachedAsOf' \in [Stores -> [Keys -> 0..Len(stream')]]
    BY <2>3, <2>4 DEF TypeOK
  <2>7. transcript' \in Seq(Entries(Len(stream')))
    <3>1. Entries(Len(stream)) \subseteq Entries(Len(stream'))
      BY <2>3 DEF Entries
    <3>2. transcript \in Seq(Entries(Len(stream)))
      BY DEF TypeOK, Entries
    <3> QED
      BY <2>4, <3>1, <3>2, SeqMonotonic
  <2> QED
    BY <2>2, <2>4, <2>5, <2>6, <2>7 DEF TypeOK, Entries
<1>2. CASE AdvanceClock
  <2>1. PICK t \in clock + 1 .. MaxClock :
          /\ clock' = t
          /\ pending' = [i \in DOMAIN pending |->
               [pending[i] EXCEPT !.rest = IF pending[i].rest - (t - clock) > 0
                                           THEN pending[i].rest - (t - clock) ELSE 0]]
          /\ UNCHANGED <<stream, applied, visibleAt, cachedAt, cachedAsOf, faults, transcript>>
    BY <1>2 DEF AdvanceClock, reads
  <2>2. clock' \in 0..MaxClock
    BY <2>1, Clocked
  <2>3. pending' \in {<<>>} \cup {<<call>> : call \in Call} /\ (pending' # <<>> => pending # <<>>)
    <3>1. CASE pending = <<>>
      BY <2>1, <3>1
    <3>2. ASSUME NEW call \in Call, pending = <<call>>
          PROVE  pending' \in {<<c>> : c \in Call}
      <4>1. PICK rest : rest = IF call.rest - (t - clock) > 0 THEN call.rest - (t - clock) ELSE 0
        OBVIOUS
      <4>2. rest \in 0..Latency
        <5>1. call.rest \in 0..Latency
          BY DEF Call
        <5>2. PICK r \in Nat, d \in Nat : r = call.rest /\ d = t - clock
          BY <2>1, <5>1, Clocked, FaultAssumption
        <5> QED
          BY <4>1, <5>1, <5>2, FaultAssumption
      <4>3. PICK c : c = [call EXCEPT !.rest = rest]
        OBVIOUS
      <4>4. c \in Call
        BY <4>2, <4>3 DEF Call
      <4>5. DOMAIN pending = {1} /\ pending[1] = call
        BY <3>2
      <4>6. pending' = [i \in {1} |-> c]
        BY <2>1, <4>1, <4>3, <4>5
      <4>7. pending' = <<c>>
        BY <4>6
      <4> QED
        BY <4>4, <4>7
    <3> QED
      BY <3>1, <3>2 DEF TypeOK
  <2> QED
    BY <2>1, <2>2, <2>3 DEF TypeOK
<1>9. CASE SetClock
  BY <1>9 DEF SetClock, TypeOK, reads
<1>3. ASSUME NEW s \in Stores, NEW op \in {"get", "view"}, NEW k \in Keys, NEW token,
             Refuse(s, op, k, token)
      PROVE  TypeInv'
  <2>1. PICK entry : entry = [store |-> s, op |-> op, key |-> k, now |-> 0, waited |-> 0,
                              asOf |-> 0, outcome |-> "auth_error"]
    OBVIOUS
  <2>2. entry \in Entries(Len(stream))
    <3>1. 0 \in 0..Len(stream) /\ 0 \in 0..MaxClock
      BY Clocked
    <3> QED
      BY <2>1, <3>1 DEF Entries
  <2>3. Tell(entry) /\ Len(transcript) < MaxCalls /\ pending = <<>>
    BY <1>3, <2>1 DEF Refuse, Called
  <2>4. transcript' \in Seq(Entries(Len(stream))) /\ Len(transcript') <= MaxCalls
    BY <2>2, <2>3, ToldTyped
  <2> QED
    BY <1>3, <2>3, <2>4 DEF Refuse, TypeOK, Entries, reads
<1>4. ASSUME NEW s \in Stores, NEW op \in {"get", "view"}, NEW k \in Keys, NEW token,
             Admit(s, op, k, token)
      PROVE  TypeInv'
  <2>1. PICK call : call = [store |-> s, op |-> op, key |-> k, rest |-> Delay(s)]
    OBVIOUS
  <2>2. call \in Call
    BY <2>1, FaultAssumption DEF Call, Delay
  <2>3. pending' = <<call>> /\ Len(transcript) < MaxCalls
    BY <1>4, <2>1 DEF Admit, Called
  <2> QED
    BY <1>4, <2>2, <2>3 DEF Admit, TypeOK, reads
<1>5. CASE Inject
  <2>1. PICK call \in {pending[i] : i \in DOMAIN pending} :
          /\ Tell(Entry(call, 0, 0, "source_error"))
          /\ pending' = <<>>
          /\ UNCHANGED <<clock, stream, applied, visibleAt, cachedAt, cachedAsOf, faults>>
    BY <1>5 DEF Inject, reads
  <2>2. call \in Call /\ pending # <<>>
    BY PendingCall
  <2>3. 0 \in 0..Len(stream) /\ 0 \in 0..MaxClock
    BY Clocked
  <2>4. /\ applied' \in [Stores -> 0..Len(stream)] /\ visibleAt' \in [Stores -> -1..MaxClock]
        /\ cachedAt' \in [Stores -> [Keys -> 0..MaxClock \cup {NotCached}]]
        /\ cachedAsOf' \in [Stores -> [Keys -> 0..Len(stream)]]
    BY <2>1 DEF TypeOK
  <2>5. TypeOK'
    BY <2>1, <2>2, <2>3, <2>4, AnswerTyped
  <2> QED
    BY <2>1, <2>5
<1>6. CASE AnswerGet
  <2>1. PICK call \in {pending[i] : i \in DOMAIN pending} :
          /\ ApplyVisible(call.store)
          /\ IF CacheHit(call.store, call.key)
             THEN /\ Tell(Entry(call, clock, cachedAsOf[call.store][call.key],
                                Outcome(call.store, call.key, cachedAsOf[call.store][call.key])))
                  /\ UNCHANGED <<cachedAt, cachedAsOf>>
             ELSE /\ Tell(Entry(call, clock, applied'[call.store],
                                Outcome(call.store, call.key, applied'[call.store])))
                  /\ IF CacheTtl(call.store) > 0
                     THEN /\ cachedAt' = [cachedAt EXCEPT ![call.store][call.key] = clock]
                          /\ cachedAsOf' = [cachedAsOf EXCEPT ![call.store][call.key]
                                              = applied'[call.store]]
                     ELSE UNCHANGED <<cachedAt, cachedAsOf>>
          /\ pending' = <<>>
          /\ UNCHANGED <<clock, stream, faults>>
    BY <1>6 DEF AnswerGet
  <2>2. call \in Call /\ pending # <<>>
    BY PendingCall
  <2>3. call.store \in Stores /\ call.key \in Keys
    BY <2>2 DEF Call
  <2>4. \A p : Outcome(call.store, call.key, p)
                 \in {"ok", "not_found", "auth_error", "source_error"}
    BY DEF Outcome
  <2>5. /\ applied' \in [Stores -> 0..Len(stream)] /\ visibleAt' \in [Stores -> -1..MaxClock]
        /\ applied'[call.store] \in 0..Len(stream)
    BY <2>1, <2>3, Applying
  <2>6. cachedAsOf[call.store][call.key] \in 0..Len(stream)
    BY <2>3 DEF TypeOK
  <2>7. /\ cachedAt' \in [Stores -> [Keys -> 0..MaxClock \cup {NotCached}]]
        /\ cachedAsOf' \in [Stores -> [Keys -> 0..Len(stream)]]
    <3>1. CASE UNCHANGED <<cachedAt, cachedAsOf>>
      BY <3>1 DEF TypeOK
    <3>2. CASE /\ cachedAt' = [cachedAt EXCEPT ![call.store][call.key] = clock]
               /\ cachedAsOf' = [cachedAsOf EXCEPT ![call.store][call.key]
                                   = applied'[call.store]]
      BY <2>3, <2>5, <3>2 DEF TypeOK
    <3> QED
      BY <2>1, <3>1, <3>2
  <2>8. PICK asOf \in 0..Len(stream),
             outcome \in {"ok", "not_found", "auth_error", "source_error"} :
          Tell(Entry(call, clock, asOf, outcome))
    <3>1. PICK given \in 0..Len(stream) :
            Tell(Entry(call, clock, given, Outcome(call.store, call.key, given)))
      BY <2>1, <2>5, <2>6
    <3> QED
      BY <2>4, <3>1
  <2>9. TypeOK'
    <3>1. clock \in 0..MaxClock
      BY DEF TypeOK
    <3> QED
      BY <2>1, <2>2, <2>5, <2>7, <2>8, <3>1, AnswerTyped
  <2> QED
    BY <2>1, <2>9
<1>7. CASE AnswerView
  <2>1. PICK call \in {pending[i] : i \in DOMAIN pending} :
          /\ ApplyVisible(call.store)
          /\ Tell(Entry(call, clock, applied'[call.store], "ok"))
          /\ pending' = <<>>
          /\ UNCHANGED <<clock, stream, cachedAt, cachedAsOf, faults>>
    BY <1>7 DEF AnswerView
  <2>2. call \in Call /\ pending # <<>> /\ call.store \in Stores
    BY PendingCall DEF Call
  <2>3. /\ applied' \in [Stores -> 0..Len(stream)] /\ visibleAt' \in [Stores -> -1..MaxClock]
        /\ applied'[call.store] \in 0..Len(stream)
    BY <2>1, <2>2, Applying
  <2>4. /\ cachedAt' \in [Stores -> [Keys -> 0..MaxClock \cup {NotCached}]]
        /\ cachedAsOf' \in [Stores -> [Keys -> 0..Len(stream)]]
    BY <2>1 DEF TypeOK
  <2>5. TypeOK'
    <3>1. clock \in 0..MaxClock
      BY DEF TypeOK
    <3> QED
      BY <2>1, <2>2, <2>3, <2>4, <3>1, AnswerTyped
  <2> QED
    BY <2>1, <2>5
<1>8. CASE UNCHANGED vars
  BY <1>8 DEF vars, reads, TypeOK
<1> QED
  BY <1>1, <1>2, <1>3, <1>4, <1>5, <1>6, <1>7, <1>8, <1>9 DEF Next

\* The faults that a condition chooses are of the type of fault profiles.
LEMMA ChosenFaults ==
  ASSUME NEW condition, NEW f \in Conditioned(condition)
  PROVE  f \in [Stores -> [slow : BOOLEAN, fails : BOOLEAN]]
<1>1. CASE f = NoFaults
  BY <1>1 DEF NoFaults
<1>2. ASSUME NEW latencySrc, NEW errorSrc, f = Profiles(latencySrc, errorSrc)
      PROVE  f \in [Stores -> [slow : BOOLEAN, fails : BOOLEAN]]
  BY <1>2 DEF Profiles
<1>3. CASE condition = "clean"
  BY <1>1, <1>3 DEF Conditioned
<1>4. CASE condition # "clean"
  <2>1. PICK latencySrc \in Servers :
          f \in {Profiles(latencySrc, errorSrc) : errorSrc \in Servers \ {latencySrc}}
    BY <1>4 DEF Conditioned
  <2>2. PICK errorSrc \in Servers \ {latencySrc} : f = Profiles(latencySrc, errorSrc)
    BY <2>1
  <2> QED
    BY <1>2, <2>2
<1> QED
  BY <1>3, <1>4

LEMMA InitFaults ==
  ASSUME Init
  PROVE  \E condition : faults \in Conditioned(condition)
BY DEF Init

LEMMA InitTyped == Init => TypeInv
<1> SUFFICES ASSUME Init PROVE TypeInv
  OBVIOUS
<1>1. faults \in [Stores -> [slow : BOOLEAN, fails : BOOLEAN]]
  BY InitFaults, ChosenFaults
<1>2. stream = <<>> /\ Len(stream) = 0 /\ transcript = <<>> /\ Len(transcript) = 0
  BY DEF Init
<1>3. 0 \in 0..MaxClock /\ -1 \in -1..MaxClock /\ 0 <= MaxCalls
  BY BoundsAssumption
<1> QED
  BY <1>1, <1>2, <1>3 DEF Init, TypeInv, TypeOK

LEMMA TypeInvariant == Spec => []TypeInv
BY InitTyped, NextTyped, PTL DEF Spec

\* Positions stay within the stream and the delayed call is one call, whatever the
\* sources and their profiles.
THEOREM TypeCorrect == Spec => []TypeOK
BY TypeInvariant, PTL DEF TypeInv

-------------------------------------------------------------------------------
\* What a step tells is the last entry of the transcript, and the only new one.
LEMMA OneMoreEntry ==
  ASSUME TypeInv, NEW e, Tell(e)
  PROVE  /\ Len(transcript) \in Nat /\ DOMAIN transcript = 1..Len(transcript)
         /\ DOMAIN transcript' = 1..Len(transcript) + 1
         /\ \A i \in 1..Len(transcript) : transcript'[i] = transcript[i]
         /\ transcript'[Len(transcript) + 1] = e
<1>1. PICK S : transcript \in Seq(S)
  BY DEF TypeInv, TypeOK
<1>2. transcript' = Append(transcript, e)
  BY DEF Tell
<1> QED
  BY <1>1, <1>2

LEMMA NamedFields ==
  ASSUME NEW call, NEW now, NEW asOf, NEW outcome
  PROVE  /\ Entry(call, now, asOf, outcome).store = call.store
         /\ Entry(call, now, asOf, outcome).op = call.op
         /\ Entry(call, now, asOf, outcome).now = now
         /\ Entry(call, now, asOf, outcome).asOf = asOf
         /\ Entry(call, now, asOf, outcome).outcome = outcome
BY DEF Entry

\* The positions of the state and its transcript.
LEMMA Positions ==
  ASSUME TypeInv
  PROVE  /\ DOMAIN transcript = 1..Len(transcript) /\ Len(transcript) \in Nat
         /\ \A i \in DOMAIN transcript :
              /\ transcript[i].now \in Nat /\ transcript[i].asOf \in 0..Len(stream)
              /\ transcript[i].store \in Stores
         /\ \A s \in Stores, k \in Keys : cachedAsOf[s][k] \in 0..Len(stream)
<1>1. transcript \in Seq(Entries(Len(stream)))
  BY DEF TypeInv, TypeOK, Entries
<1>2. DOMAIN transcript = 1..Len(transcript) /\ Len(transcript) \in Nat
  BY <1>1, LenProperties
<1>3. ASSUME NEW i \in DOMAIN transcript
      PROVE  /\ transcript[i].now \in Nat /\ transcript[i].asOf \in 0..Len(stream)
             /\ transcript[i].store \in Stores
  <2>1. transcript[i] \in Entries(Len(stream))
    BY <1>1, <1>2, ElementOfSeq
  <2>2. transcript[i].now \in 0..MaxClock /\ transcript[i].asOf \in 0..Len(stream)
        /\ transcript[i].store \in Stores
    BY <2>1 DEF Entries
  <2> QED
    BY <2>2, BoundsAssumption
<1>4. \A s \in Stores, k \in Keys : cachedAsOf[s][k] \in 0..Len(stream)
  BY DEF TypeInv, TypeOK
<1> QED
  BY <1>2, <1>3, <1>4

-------------------------------------------------------------------------------
\* The invariant behind SourcesAreCausal speaks of the stream, E, and of the transcript,
\* T, so that it can be carried over to longer ones.

\* Position n of the stream is behind events of up to v, and of the events of store s up
\* to position m it has left out none of up to v.
Past(E, n, v) == \A q \in 1..n : E[q].at <= v
Complete(E, s, n, m, v) == \A q \in 1..m : E[q].store = s /\ E[q].at <= v => q <= n

\* The call of entry h has read store s, as of the cutoff v.
ReadBy(T, h, s) == T[h].store = s /\ Answered(T[h])
Cutoff(T, h) == T[h].now - ReplicationLag(T[h].store)

\* The position n of store s was made by the call of entry h, as of v: whatever had been
\* told by then and was due is in it.
MadeBy(E, T, s, n, v, h) ==
  /\ ReadBy(T, h, s) /\ v = Cutoff(T, h)
  /\ \A g \in 1..h : Complete(E, s, n, T[g].asOf, v)

\* An answer is as of the cutoff of some read of its store until then.
AnswerPast(E, T, i) ==
  \/ T[i].asOf = 0
  \/ \E h \in 1..i : ReadBy(T, h, T[i].store) /\ Past(E, T[i].asOf, Cutoff(T, h))

\* A view leaves nothing out that was due and told before, if it is later than the reads
\* of its store by then.
ViewComplete(E, T, i) ==
  T[i].op = "view" =>
    \A g \in 1..i :
      g < i /\ (\A h \in 1..g : ReadBy(T, h, T[i].store) => T[h].now < T[i].now)
      => Complete(E, T[i].store, T[i].asOf, T[g].asOf, Cutoff(T, i))

Sound(E, T, i) == Answered(T[i]) => AnswerPast(E, T, i) /\ ViewComplete(E, T, i)

\* The stream is in the order of its time stamps.
StreamInOrder == \A p, q \in 1..Len(stream) : p <= q => stream[p].at <= stream[q].at

\* A store that has been read is as of its last cutoff, which was that of a call.
StoreInv ==
  \A s \in Stores :
    IF visibleAt[s] = -1
    THEN applied[s] = 0
    ELSE /\ Past(stream, applied[s], visibleAt[s])
         /\ \E h \in DOMAIN transcript :
              MadeBy(stream, transcript, s, applied[s], visibleAt[s], h)

\* A cached copy is not ahead of the view, and the answers given are sound.
CopyInv == \A s \in Stores, k \in Keys : cachedAsOf[s][k] <= applied[s]
ToldInv == \A i \in DOMAIN transcript : Sound(stream, transcript, i)

CausalInv == StreamInOrder /\ StoreInv /\ CopyInv /\ ToldInv

\* A stream and a transcript that go on where E and T end.
GoesOn(E, L, F, T, N, U) ==
  /\ L \in Nat /\ N \in Nat
  /\ \A q \in 1..L : F[q] = E[q]
  /\ \A i \in 1..N : U[i] = T[i] /\ T[i].asOf \in 0..L

\* What holds of positions within the stream stays so.
LEMMA GoingOn ==
  ASSUME NEW E, NEW L, NEW F, NEW T, NEW N, NEW U, GoesOn(E, L, F, T, N, U),
         NEW n \in 0..L, NEW v
  PROVE  /\ Past(E, n, v) => Past(F, n, v)
         /\ \A s, m : Complete(E, s, m, n, v) => Complete(F, s, m, n, v)
<1>1. \A q \in 1..n : F[q] = E[q]
  BY DEF GoesOn
<1> QED
  BY <1>1 DEF Past, Complete

LEMMA StillMade ==
  ASSUME NEW E, NEW L, NEW F, NEW T, NEW N, NEW U, GoesOn(E, L, F, T, N, U),
         NEW h \in 1..N, NEW s, NEW n, NEW v, MadeBy(E, T, s, n, v, h)
  PROVE  MadeBy(F, U, s, n, v, h)
<1>1. U[h] = T[h] /\ \A g \in 1..h : g \in 1..N
  BY DEF GoesOn
<1>2. ASSUME NEW g \in 1..h PROVE Complete(F, s, n, U[g].asOf, v)
  <2>1. U[g] = T[g] /\ T[g].asOf \in 0..L
    BY <1>1, <1>2 DEF GoesOn
  <2>2. Complete(E, s, n, T[g].asOf, v)
    BY <1>2 DEF MadeBy
  <2>3. Complete(F, s, n, T[g].asOf, v)
    BY <2>1, <2>2, GoingOn
  <2> QED
    BY <2>1, <2>3
<1>3. ReadBy(U, h, s) /\ v = Cutoff(U, h)
  BY <1>1 DEF MadeBy, ReadBy, Cutoff
<1> QED
  BY <1>2, <1>3 DEF MadeBy

LEMMA StillSound ==
  ASSUME NEW E, NEW L, NEW F, NEW T, NEW N, NEW U, GoesOn(E, L, F, T, N, U),
         NEW i \in 1..N, Sound(E, T, i)
  PROVE  Sound(F, U, i)
<1>1. \A h \in 1..i : h \in 1..N /\ U[h] = T[h] /\ T[h].asOf \in 0..L
  BY DEF GoesOn
<1>2. U[i] = T[i] /\ T[i].asOf \in 0..L
  BY DEF GoesOn
<1>3. ASSUME AnswerPast(E, T, i) PROVE AnswerPast(F, U, i)
  <2>1. CASE T[i].asOf = 0
    BY <1>2, <2>1 DEF AnswerPast
  <2>2. ASSUME NEW h \in 1..i, ReadBy(T, h, T[i].store), Past(E, T[i].asOf, Cutoff(T, h))
        PROVE  AnswerPast(F, U, i)
    <3>1. Past(F, T[i].asOf, Cutoff(T, h))
      BY <1>2, <2>2, GoingOn
    <3>2. U[h] = T[h]
      BY <1>1, <2>2
    <3>3. ReadBy(U, h, U[i].store) /\ Past(F, U[i].asOf, Cutoff(U, h))
      BY <1>2, <2>2, <3>1, <3>2 DEF ReadBy, Cutoff
    <3> QED
      BY <2>2, <3>3 DEF AnswerPast
  <2> QED
    BY <1>3, <2>1, <2>2 DEF AnswerPast
<1>4. ASSUME ViewComplete(E, T, i), U[i].op = "view", NEW g \in 1..i, g < i,
             \A h \in 1..g : ReadBy(U, h, U[i].store) => U[h].now < U[i].now
      PROVE  Complete(F, U[i].store, U[i].asOf, U[g].asOf, Cutoff(U, i))
  <2>1. U[g] = T[g] /\ T[g].asOf \in 0..L
    BY <1>1, <1>4
  <2>2. ASSUME NEW h \in 1..g, ReadBy(T, h, T[i].store) PROVE T[h].now < T[i].now
    <3>1. U[h] = T[h]
      BY <1>1, <1>4
    <3> QED
      BY <1>2, <1>4, <2>2, <3>1 DEF ReadBy
  <2>3. Complete(E, T[i].store, T[i].asOf, T[g].asOf, Cutoff(T, i))
    BY <1>2, <1>4, <2>2 DEF ViewComplete
  <2>4. Complete(F, T[i].store, T[i].asOf, T[g].asOf, Cutoff(T, i))
    BY <2>1, <2>3, GoingOn
  <2> QED
    BY <1>2, <2>1, <2>4 DEF Cutoff
<1>5. ASSUME ViewComplete(E, T, i) PROVE ViewComplete(F, U, i)
  BY <1>4, <1>5 DEF ViewComplete
<1> QED
  BY <1>2, <1>3, <1>5 DEF Sound

-------------------------------------------------------------------------------
\* Reading a store finds it as of a cutoff that is no earlier, or takes it to its own.
LEMMA ReadAsOf ==
  ASSUME TypeOK, StreamInOrder, StoreInv, NEW s \in Stores, ApplyVisible(s),
         NEW cutoff, cutoff = clock - ReplicationLag(s)
  PROVE  /\ applied'[s] \in 0..Len(stream) /\ applied'[s] >= applied[s]
         /\ \/ /\ cutoff <= visibleAt[s] /\ UNCHANGED <<applied, visibleAt>>
            \/ /\ visibleAt'[s] = cutoff /\ cutoff # -1
               /\ Past(stream, applied'[s], cutoff)
               /\ Complete(stream, s, applied'[s], Len(stream), cutoff)
<1>1. cutoff \in Int
  BY Profiled, Clocked
<1>2. CASE cutoff <= visibleAt[s]
  <2>1. UNCHANGED <<applied, visibleAt>>
    BY <1>2 DEF ApplyVisible
  <2> QED
    BY <1>2, <2>1, Clocked
<1>3. CASE ~(cutoff <= visibleAt[s])
  <2>1. PICK p \in 0..Len(stream) :
          Frontier(s, p, cutoff) /\ applied' = [applied EXCEPT ![s] = p]
    BY <1>3 DEF ApplyVisible
  <2>2. visibleAt' = [visibleAt EXCEPT ![s] = cutoff]
    BY <1>3 DEF ApplyVisible
  <2>3. applied'[s] = p /\ visibleAt'[s] = cutoff /\ cutoff # -1
    BY <1>1, <1>3, <2>1, <2>2, Clocked DEF TypeOK
  <2>4. p >= applied[s]
    <3>1. CASE p = applied[s]
      BY <3>1, Clocked
    <3>2. CASE p # applied[s]
      <4>1. applied[s] < p
        BY <2>1, <3>2 DEF Frontier
      <4> QED
        BY <4>1, Clocked
    <3> QED
      BY <3>1, <3>2
  <2>5. \A q \in 1..p : stream[q].at <= cutoff
    <3>1. CASE p = applied[s]
      <4>1. CASE visibleAt[s] = -1
        <5>1. p = 0
          BY <3>1, <4>1 DEF StoreInv
        <5> QED
          BY <5>1
      <4>2. CASE visibleAt[s] # -1
        <5>1. Past(stream, applied[s], visibleAt[s])
          BY <4>2 DEF StoreInv
        <5>2. ASSUME NEW q \in 1..p PROVE stream[q].at <= cutoff
          <6>1. stream[q].at <= visibleAt[s]
            BY <3>1, <5>1 DEF Past
          <6>2. stream[q].at \in Nat /\ visibleAt[s] \in Int
            BY Clocked
          <6> QED
            BY <1>1, <1>3, <6>1, <6>2
        <5> QED
          BY <5>2
      <4> QED
        BY <4>1, <4>2
    <3>2. CASE p # applied[s]
      <4>1. p \in Own(s) /\ applied[s] < p
        BY <2>1, <3>2 DEF Frontier
      <4>2. p \in 1..Len(stream)
        BY <4>1, Clocked DEF Own
      <4>3. stream[p].at <= cutoff
        BY <2>1, <4>1, <4>2 DEF Frontier
      <4>4. ASSUME NEW q \in 1..p PROVE stream[q].at <= cutoff
        <5>1. q \in 1..Len(stream) /\ q <= p
          BY <4>2, Clocked
        <5>2. stream[q].at <= stream[p].at /\ stream[q].at \in Nat /\ stream[p].at \in Nat
          BY <4>2, <5>1, Clocked DEF StreamInOrder
        <5> QED
          BY <1>1, <4>3, <5>2
      <4> QED
        BY <4>4
    <3> QED
      BY <3>1, <3>2
  <2>6. ASSUME NEW q \in 1..Len(stream), stream[q].store = s, stream[q].at <= cutoff
        PROVE  q <= p
    <3> SUFFICES ASSUME q > p PROVE FALSE
      BY Clocked
    <3>1. q \in Own(s)
      BY <2>6, Clocked DEF Own
    <3>2. PICK first \in Own(s) : first <= q /\ stream[first].at > cutoff
      BY <2>1, <3>1 DEF Frontier
    <3>3. first \in 1..Len(stream)
      BY Clocked DEF Own
    <3>4. stream[first].at <= stream[q].at /\ stream[first].at \in Nat /\ stream[q].at \in Nat
      BY <3>2, <3>3, Clocked DEF StreamInOrder
    <3> QED
      BY <1>1, <2>6, <3>2, <3>4
  <2> QED
    BY <2>1, <2>3, <2>4, <2>5, <2>6 DEF Past, Complete
<1> QED
  BY <1>2, <1>3

\* What was due by a cutoff was due by a later one.
LEMMA DueLater ==
  ASSUME NEW E, NEW s, NEW n \in Int, NEW m \in Nat, NEW l \in Nat, NEW v \in Int, NEW w \in Int,
         \A q \in 1..l : E[q].at \in Nat,
         Complete(E, s, n, l, w), m <= l, v <= w
  PROVE  Complete(E, s, n, m, v)
<1>1. ASSUME NEW q \in 1..m, E[q].store = s, E[q].at <= v PROVE q <= n
  <2>1. q \in 1..l /\ E[q].at \in Nat
    BY <1>1
  <2>2. E[q].at <= w
    BY <1>1, <2>1
  <2> QED
    BY <1>1, <2>1, <2>2 DEF Complete
<1> QED
  BY <1>1 DEF Complete

\* A call that is answered from no further than its store has got, and by view() from
\* just there, leaves the invariant.
LEMMA AnswerCausal ==
  ASSUME TypeInv, CausalInv, CopyInv', NEW s \in Stores, ApplyVisible(s),
         NEW e, Tell(e), Answered(e), e.store = s, e.now = clock,
         e.asOf \in 0..Len(stream), e.asOf <= applied'[s],
         e.op = "view" => e.asOf = applied'[s],
         UNCHANGED <<clock, stream>>
  PROVE  CausalInv'
<1> USE DEF TypeInv
<1>1. PICK N \in Nat, L \in Nat, now \in Nat, lag \in Nat, cutoff \in Int :
        /\ N = Len(transcript) /\ L = Len(stream) /\ now = clock
        /\ lag = ReplicationLag(s) /\ cutoff = now - lag
  <2>1. PICK N \in Nat, L \in Nat, now \in Nat, lag \in Nat :
          /\ N = Len(transcript) /\ L = Len(stream) /\ now = clock
          /\ lag = ReplicationLag(s)
    BY Positions, Clocked, Profiled
  <2>2. now - lag \in Int
    OBVIOUS
  <2> QED
    BY <2>1, <2>2
<1>2. PICK E, T, U : E = stream /\ T = transcript /\ U = transcript'
  OBVIOUS
<1>3. /\ DOMAIN T = 1..N /\ DOMAIN U = 1..N + 1
      /\ \A i \in 1..N : U[i] = T[i]
      /\ U[N + 1] = e
  BY <1>1, <1>2, OneMoreEntry
<1>4. \A i \in 1..N : T[i].asOf \in 0..L /\ T[i].now \in Nat
  BY <1>1, <1>2, <1>3, Positions
<1>5. GoesOn(E, L, E, T, N, U)
  BY <1>3, <1>4 DEF GoesOn
<1>6. \A q \in 1..L : E[q].at \in Nat
  BY <1>1, <1>2, Clocked
<1>7. PICK n \in 0..L, p \in 0..L, v \in Int :
        n = applied'[s] /\ p = applied[s] /\ v = visibleAt[s]
  <2>1. applied'[s] \in 0..Len(stream)
    BY Applying
  <2> QED
    BY <1>1, <2>1, Clocked
<1>8. /\ n >= p
      /\ \/ /\ cutoff <= v /\ UNCHANGED <<applied, visibleAt>> /\ n = p
         \/ /\ visibleAt'[s] = cutoff /\ cutoff # -1
            /\ Past(E, n, cutoff) /\ Complete(E, s, n, L, cutoff)
  <2>1. StreamInOrder /\ StoreInv
    BY DEF CausalInv
  <2> QED
    BY <1>1, <1>2, <1>7, <2>1, ReadAsOf
<1>9. IF v = -1 THEN p = 0
      ELSE /\ Past(E, p, v)
           /\ \E h \in 1..N : MadeBy(E, T, s, p, v, h)
  BY <1>2, <1>3, <1>7 DEF CausalInv, StoreInv
<1>10. Cutoff(U, N + 1) = cutoff /\ ReadBy(U, N + 1, s) /\ U[N + 1].asOf \in 0..L
  BY <1>1, <1>3 DEF Cutoff, ReadBy
<1>11. PICK w \in Int : w = visibleAt'[s]
  BY <1>7, <1>8
\* The store read is as of its cutoff.
<1>12. IF w = -1 THEN n = 0
       ELSE /\ Past(E, n, w)
            /\ \E h \in 1..N + 1 : MadeBy(E, U, s, n, w, h)
  <2>1. CASE cutoff <= v /\ UNCHANGED <<applied, visibleAt>> /\ n = p
    <3>1. w = v
      BY <1>7, <1>11, <2>1
    <3>2. ASSUME NEW h \in 1..N, MadeBy(E, T, s, p, v, h)
          PROVE  h \in 1..N + 1 /\ MadeBy(E, U, s, n, w, h)
      BY <1>5, <2>1, <3>1, <3>2, StillMade
    <3> QED
      BY <1>9, <2>1, <3>1, <3>2
  <2>2. CASE /\ visibleAt'[s] = cutoff /\ cutoff # -1
             /\ Past(E, n, cutoff) /\ Complete(E, s, n, L, cutoff)
    <3>1. ASSUME NEW g \in 1..N + 1 PROVE Complete(E, s, n, U[g].asOf, cutoff)
      <4>1. U[g].asOf \in 0..L
        <5>1. CASE g = N + 1
          BY <1>10, <5>1
        <5>2. CASE g # N + 1
          BY <1>3, <1>4, <5>2
        <5> QED
          BY <5>1, <5>2
      <4> QED
        BY <1>6, <2>2, <4>1, DueLater
    <3>2. MadeBy(E, U, s, n, cutoff, N + 1)
      BY <1>10, <3>1 DEF MadeBy
    <3> QED
      BY <1>11, <2>2, <3>2
  <2> QED
    BY <1>8, <2>1, <2>2
<1>13. StoreInv'
  <2>1. stream' = E /\ transcript' = U /\ DOMAIN transcript' = 1..N + 1
    BY <1>2, <1>3
  <2>2. ASSUME NEW c \in Stores, c # s
        PROVE  IF visibleAt'[c] = -1 THEN applied'[c] = 0
               ELSE /\ Past(E, applied'[c], visibleAt'[c])
                    /\ \E h \in 1..N + 1 : MadeBy(E, U, c, applied'[c], visibleAt'[c], h)
    <3>1. applied'[c] = applied[c] /\ visibleAt'[c] = visibleAt[c]
      BY <2>2, Applying
    <3>2. IF visibleAt[c] = -1 THEN applied[c] = 0
          ELSE /\ Past(E, applied[c], visibleAt[c])
               /\ \E h \in 1..N : MadeBy(E, T, c, applied[c], visibleAt[c], h)
      BY <1>2, <1>3 DEF CausalInv, StoreInv
    <3>3. ASSUME NEW h \in 1..N, MadeBy(E, T, c, applied[c], visibleAt[c], h)
          PROVE  h \in 1..N + 1 /\ MadeBy(E, U, c, applied[c], visibleAt[c], h)
      BY <1>5, <3>3, StillMade
    <3> QED
      BY <3>1, <3>2, <3>3
  <2>3. \A c \in Stores : IF visibleAt'[c] = -1 THEN applied'[c] = 0
               ELSE /\ Past(E, applied'[c], visibleAt'[c])
                    /\ \E h \in 1..N + 1 : MadeBy(E, U, c, applied'[c], visibleAt'[c], h)
    BY <1>7, <1>11, <1>12, <2>2
  <2> QED
    BY <2>1, <2>3 DEF StoreInv
\* What the agent is told is sound.
<1>14. AnswerPast(E, U, N + 1)
  <2>1. CASE w = -1
    <3>1. U[N + 1].asOf = 0
      BY <1>3, <1>7, <1>12, <2>1
    <3> QED
      BY <3>1 DEF AnswerPast
  <2>2. CASE w # -1
    <3>1. PICK h \in 1..N + 1 : MadeBy(E, U, s, n, w, h)
      BY <1>12, <2>2
    <3>2. Past(E, n, w)
      BY <1>12, <2>2
    <3>3. Past(E, U[N + 1].asOf, w)
      BY <1>3, <1>7, <3>2 DEF Past
    <3> QED
      BY <1>3, <3>1, <3>3 DEF AnswerPast, MadeBy
  <2> QED
    BY <2>1, <2>2
<1>15. ViewComplete(E, U, N + 1)
  <2> SUFFICES ASSUME U[N + 1].op = "view", NEW g \in 1..N + 1, g < N + 1,
                      \A h \in 1..g : ReadBy(U, h, U[N + 1].store) => U[h].now < U[N + 1].now
               PROVE  Complete(E, U[N + 1].store, U[N + 1].asOf, U[g].asOf, Cutoff(U, N + 1))
    BY DEF ViewComplete
  <2>1. g \in 1..N /\ U[g].asOf \in 0..L
    <3>1. g \in 1..N
      BY <1>3
    <3>2. U[g] = T[g] /\ T[g].asOf \in 0..L
      BY <1>3, <1>4, <3>1
    <3> QED
      BY <3>1, <3>2
  <2>2. U[N + 1].store = s /\ U[N + 1].asOf = n /\ U[N + 1].now = now
    BY <1>1, <1>3, <1>7
  <2>3. Complete(E, s, n, U[g].asOf, cutoff)
    <3>1. CASE Complete(E, s, n, L, cutoff)
      BY <1>6, <2>1, <3>1, DueLater
    <3>2. CASE cutoff <= v /\ n = p /\ v = -1
      <4>1. \A q \in 1..L : ~(E[q].at <= cutoff)
        BY <1>6, <3>2
      <4> QED
        BY <2>1, <4>1 DEF Complete
    <3>3. CASE cutoff <= v /\ n = p /\ v # -1
      <4>1. PICK h \in 1..N : MadeBy(E, T, s, p, v, h)
        BY <1>9, <3>3
      <4>2. MadeBy(E, U, s, n, v, h)
        BY <1>5, <3>3, <4>1, StillMade
      <4>3. ReadBy(U, h, s) /\ v = Cutoff(U, h) /\ U[h].store = s
        BY <4>2 DEF MadeBy, ReadBy
      <4>4. U[h].now \in Nat /\ v = U[h].now - lag
        BY <1>1, <1>3, <1>4, <4>3 DEF Cutoff
      <4>5. ~(U[h].now < now)
        BY <1>1, <3>3, <4>4
      <4>6. ~(h \in 1..g)
        BY <2>2, <4>3, <4>5
      <4>7. g \in 1..h
        BY <2>1, <4>6
      <4>8. Complete(E, s, n, U[g].asOf, v)
        BY <4>2, <4>7 DEF MadeBy
      <4> QED
        BY <1>6, <2>1, <3>3, <4>8, DueLater
    <3> QED
      BY <1>8, <3>1, <3>2, <3>3
  <2> QED
    BY <1>10, <2>2, <2>3
<1>16. ToldInv'
  <2>1. ASSUME NEW i \in 1..N + 1 PROVE Sound(E, U, i)
    <3>1. CASE i = N + 1
      BY <1>14, <1>15, <3>1 DEF Sound
    <3>2. CASE i # N + 1
      <4>1. i \in 1..N
        BY <3>2
      <4>2. Sound(E, T, i)
        BY <1>2, <1>3, <4>1 DEF CausalInv, ToldInv
      <4> QED
        BY <1>5, <4>1, <4>2, StillSound
    <3> QED
      BY <3>1, <3>2
  <2>2. stream' = E /\ transcript' = U /\ DOMAIN transcript' = 1..N + 1
    BY <1>2, <1>3
  <2> QED
    BY <2>1, <2>2 DEF ToldInv
<1>17. StreamInOrder'
  BY DEF CausalInv, StreamInOrder
<1> QED
  BY <1>13, <1>16, <1>17 DEF CausalInv

\* A step that reads no store, and may feed the stream or tell of a call that read none,
\* leaves the invariant.
LEMMA QuietCausal ==
  ASSUME TypeInv, CausalInv, StreamInOrder', UNCHANGED <<applied, visibleAt, cachedAsOf>>,
         \A q \in 1..Len(stream) : stream'[q] = stream[q],
         \/ transcript' = transcript
         \/ \E e : Tell(e) /\ ~Answered(e)
  PROVE  CausalInv'
<1>1. PICK N \in Nat, L \in Nat : N = Len(transcript) /\ L = Len(stream)
  BY Positions, Clocked DEF TypeInv
<1>2. PICK E, F, T, U : E = stream /\ F = stream' /\ T = transcript /\ U = transcript'
  OBVIOUS
<1>3. /\ DOMAIN T = 1..N
      /\ \A i \in 1..N : i \in DOMAIN U /\ U[i] = T[i]
      /\ \A i \in DOMAIN U : i \in 1..N \/ ~Answered(U[i])
  <2>1. CASE transcript' = transcript
    BY <1>1, <1>2, <2>1, Positions
  <2>2. ASSUME NEW e, Tell(e), ~Answered(e)
        PROVE  /\ DOMAIN T = 1..N
               /\ \A i \in 1..N : i \in DOMAIN U /\ U[i] = T[i]
               /\ \A i \in DOMAIN U : i \in 1..N \/ ~Answered(U[i])
    <3>1. /\ DOMAIN T = 1..N /\ DOMAIN U = 1..N + 1
          /\ \A i \in 1..N : U[i] = T[i]
          /\ U[N + 1] = e
      BY <1>1, <1>2, <2>2, OneMoreEntry
    <3>2. \A i \in 1..N + 1 : i \in 1..N \/ i = N + 1
      OBVIOUS
    <3> QED
      BY <2>2, <3>1, <3>2
  <2> QED
    BY <2>1, <2>2
<1>4. GoesOn(E, L, F, T, N, U)
  BY <1>1, <1>2, <1>3, Positions DEF GoesOn
<1>5. StoreInv'
  <2>1. ASSUME NEW s \in Stores, visibleAt[s] # -1
        PROVE  /\ Past(F, applied[s], visibleAt[s])
               /\ \E h \in DOMAIN U : MadeBy(F, U, s, applied[s], visibleAt[s], h)
    <3>1. PICK h \in 1..N : MadeBy(E, T, s, applied[s], visibleAt[s], h)
      BY <1>2, <1>3, <2>1 DEF CausalInv, StoreInv
    <3>2. Past(E, applied[s], visibleAt[s])
      BY <1>2, <2>1 DEF CausalInv, StoreInv
    <3>3. applied[s] \in 0..L
      BY <1>1, Clocked DEF TypeInv
    <3>4. Past(F, applied[s], visibleAt[s])
      BY <1>4, <3>2, <3>3, GoingOn
    <3>5. h \in DOMAIN U /\ MadeBy(F, U, s, applied[s], visibleAt[s], h)
      BY <1>3, <1>4, <3>1, StillMade
    <3> QED
      BY <3>4, <3>5
  <2>2. \A s \in Stores : visibleAt[s] = -1 => applied[s] = 0
    BY DEF CausalInv, StoreInv
  <2> QED
    BY <1>2, <2>1, <2>2 DEF StoreInv
<1>6. ToldInv'
  <2>1. ASSUME NEW i \in DOMAIN U PROVE Sound(F, U, i)
    <3>1. CASE i \in 1..N
      <4>1. Sound(E, T, i)
        BY <1>2, <1>3, <3>1 DEF CausalInv, ToldInv
      <4> QED
        BY <1>4, <3>1, <4>1, StillSound
    <3>2. CASE ~Answered(U[i])
      BY <3>2 DEF Sound
    <3> QED
      BY <1>3, <3>1, <3>2
  <2> QED
    BY <1>2, <2>1 DEF ToldInv
<1>7. CopyInv'
  BY DEF CausalInv, CopyInv
<1> QED
  BY <1>5, <1>6, <1>7 DEF CausalInv

LEMMA FeedCausal ==
  ASSUME TypeInv, CausalInv, Feed
  PROVE  CausalInv'
<1> USE DEF TypeInv
<1>1. PICK new, at : Batch(new, at)
  BY Feeding
<1>2. UNCHANGED <<applied, visibleAt, cachedAsOf, transcript>>
  BY DEF Feed, reads
<1>3. /\ Len(stream') \in Nat /\ Len(stream') >= Len(stream)
      /\ \A q \in 1..Len(stream) : stream'[q] = stream[q]
      /\ \A q \in 1..Len(stream') : q > Len(stream) => stream'[q].at = at
  BY <1>1, Fed
<1>4. PICK L \in Nat, M \in Nat : L = Len(stream) /\ M = Len(stream') /\ L <= M
  BY <1>3, Clocked
<1>5. at \in Nat /\ \A q \in 1..L : stream[q].at \in Nat /\ stream[q].at <= at
  <2>1. at \in Nat
    BY <1>1, BoundsAssumption DEF Batch
  <2>2. ASSUME NEW q \in 1..L PROVE stream[q].at \in Nat /\ stream[q].at <= at
    <3>1. L \in 1..L /\ stream # <<>>
      BY <1>4, Clocked
    <3>2. stream[L].at <= at
      BY <1>1, <1>4, <3>1 DEF Batch
    <3>3. stream[q].at <= stream[L].at
      BY <1>4, <3>1 DEF CausalInv, StreamInOrder
    <3>4. stream[q].at \in Nat /\ stream[L].at \in Nat
      BY <1>4, <3>1, Clocked
    <3> QED
      BY <2>1, <3>2, <3>3, <3>4
  <2> QED
    BY <2>1, <2>2
<1>6. ASSUME NEW x \in 1..M, NEW y \in 1..M, x <= y
      PROVE  stream'[x].at <= stream'[y].at
  <2>1. CASE y <= L
    <3>1. x \in 1..L /\ y \in 1..L
      BY <1>6, <2>1
    <3>2. stream[x].at <= stream[y].at
      BY <1>4, <1>6, <3>1 DEF CausalInv, StreamInOrder
    <3> QED
      BY <1>3, <1>4, <3>1, <3>2
  <2>2. CASE ~(y <= L)
    <3>1. stream'[y].at = at
      BY <1>3, <1>4, <2>2
    <3>2. stream'[x].at <= at
      <4>1. CASE x <= L
        <5>1. x \in 1..L
          BY <4>1
        <5> QED
          BY <1>3, <1>4, <1>5, <5>1
      <4>2. CASE ~(x <= L)
        <5>1. stream'[x].at = at
          BY <1>3, <1>4, <4>2
        <5> QED
          BY <1>5, <5>1
      <4> QED
        BY <4>1, <4>2
    <3> QED
      BY <3>1, <3>2
  <2> QED
    BY <2>1, <2>2
<1>7. StreamInOrder'
  BY <1>4, <1>6 DEF StreamInOrder
<1> QED
  BY <1>2, <1>3, <1>7, QuietCausal

\* A record that is served is a cached copy, which the view is ahead of, or the view's.
LEMMA GetCausal == TypeInv /\ CausalInv /\ AnswerGet => CausalInv'
<1> SUFFICES ASSUME TypeInv, CausalInv, AnswerGet PROVE CausalInv'
  OBVIOUS
<1> USE DEF TypeInv
<1>1. PICK call \in {pending[i] : i \in DOMAIN pending} :
        /\ call.op = "get"
        /\ ApplyVisible(call.store)
        /\ IF CacheHit(call.store, call.key)
           THEN /\ Tell(Entry(call, clock, cachedAsOf[call.store][call.key],
                              Outcome(call.store, call.key, cachedAsOf[call.store][call.key])))
                /\ UNCHANGED <<cachedAt, cachedAsOf>>
           ELSE /\ Tell(Entry(call, clock, applied'[call.store],
                              Outcome(call.store, call.key, applied'[call.store])))
                /\ IF CacheTtl(call.store) > 0
                   THEN /\ cachedAt' = [cachedAt EXCEPT ![call.store][call.key] = clock]
                        /\ cachedAsOf' = [cachedAsOf EXCEPT ![call.store][call.key]
                                            = applied'[call.store]]
                   ELSE UNCHANGED <<cachedAt, cachedAsOf>>
        /\ UNCHANGED <<clock, stream>>
  BY DEF AnswerGet
<1>2. PICK s \in Stores, k \in Keys : s = call.store /\ k = call.key
  BY PendingCall DEF Call
<1>3. ApplyVisible(s)
  BY <1>1, <1>2
<1>4. \A c \in Stores : /\ applied'[c] \in 0..Len(stream) /\ applied[c] \in 0..Len(stream)
                        /\ applied'[c] >= applied[c]
  <2>1. StreamInOrder /\ StoreInv
    BY DEF CausalInv
  <2>2. applied'[s] \in 0..Len(stream) /\ applied'[s] >= applied[s]
    BY <1>3, <2>1, ReadAsOf
  <2>3. \A c \in Stores : c # s => applied'[c] = applied[c]
    BY <1>3, Applying
  <2> QED
    BY <2>2, <2>3, Clocked
<1>5. PICK m \in 0..Len(stream), n \in 0..Len(stream) :
        m = cachedAsOf[s][k] /\ n = applied'[s] /\ m <= n
  <2>1. cachedAsOf[s][k] \in 0..Len(stream) /\ cachedAsOf[s][k] <= applied[s]
    BY Positions DEF CausalInv, CopyInv
  <2> QED
    BY <1>4, <2>1, Clocked
<1>6. \A r \in Stores, j \in Keys : cachedAsOf[r][j] <= applied'[r]
  <2>1. ASSUME NEW r \in Stores, NEW j \in Keys PROVE cachedAsOf[r][j] <= applied'[r]
    <3>1. cachedAsOf[r][j] \in 0..Len(stream) /\ cachedAsOf[r][j] <= applied[r]
      BY Positions DEF CausalInv, CopyInv
    <3> QED
      BY <1>4, <3>1, Clocked
  <2> QED
    BY <2>1
<1>7. CopyInv'
  <2>1. CASE UNCHANGED cachedAsOf
    BY <1>6, <2>1 DEF CopyInv
  <2>2. CASE cachedAsOf' = [cachedAsOf EXCEPT ![s][k] = n]
    <3>1. ASSUME NEW r \in Stores, NEW j \in Keys PROVE cachedAsOf'[r][j] <= applied'[r]
      <4>1. CASE r = s /\ j = k
        <5>1. cachedAsOf'[r][j] = n
          BY <2>2, <4>1 DEF TypeOK
        <5> QED
          BY <1>5, <4>1, <5>1, Clocked
      <4>2. CASE ~(r = s /\ j = k)
        <5>1. cachedAsOf'[r][j] = cachedAsOf[r][j]
          BY <2>2, <4>2 DEF TypeOK
        <5> QED
          BY <1>6, <5>1
      <4> QED
        BY <4>1, <4>2
    <3> QED
      BY <3>1 DEF CopyInv
  <2> QED
    BY <1>1, <1>2, <1>5, <2>1, <2>2
<1>8. PICK asOf \in 0..Len(stream) : /\ Tell(Entry(call, clock, asOf, Outcome(s, k, asOf)))
                                     /\ asOf <= n
  <2>1. CASE CacheHit(s, k)
    BY <1>1, <1>2, <1>5, <2>1
  <2>2. CASE ~CacheHit(s, k)
    <3>1. n <= n
      BY Clocked
    <3> QED
      BY <1>1, <1>2, <1>5, <2>2, <3>1
  <2> QED
    BY <2>1, <2>2
<1>9. PICK e : e = Entry(call, clock, asOf, Outcome(s, k, asOf))
  OBVIOUS
<1>10. e.store = s /\ e.op = "get" /\ e.now = clock /\ e.asOf = asOf /\ Answered(e)
  <2>1. e.outcome \in {"ok", "not_found"}
    BY <1>9, NamedFields DEF Outcome
  <2> QED
    BY <1>1, <1>2, <1>9, <2>1, NamedFields DEF Answered
<1>11. Tell(e)
  BY <1>8, <1>9
<1> QED
  BY <1>1, <1>3, <1>5, <1>7, <1>8, <1>10, <1>11, AnswerCausal

\* A view is what its store has got to.
LEMMA ViewCausal == TypeInv /\ CausalInv /\ AnswerView => CausalInv'
<1> SUFFICES ASSUME TypeInv, CausalInv, AnswerView PROVE CausalInv'
  OBVIOUS
<1> USE DEF TypeInv
<1>1. PICK call \in {pending[i] : i \in DOMAIN pending} :
        /\ ApplyVisible(call.store)
        /\ Tell(Entry(call, clock, applied'[call.store], "ok"))
        /\ UNCHANGED <<clock, stream, cachedAt, cachedAsOf>>
  BY DEF AnswerView
<1>2. PICK s \in Stores : s = call.store
  BY PendingCall DEF Call
<1>3. ApplyVisible(s)
  BY <1>1, <1>2
<1>4. \A c \in Stores : /\ applied'[c] \in 0..Len(stream) /\ applied[c] \in 0..Len(stream)
                        /\ applied'[c] >= applied[c]
  <2>1. StreamInOrder /\ StoreInv
    BY DEF CausalInv
  <2>2. applied'[s] \in 0..Len(stream) /\ applied'[s] >= applied[s]
    BY <1>3, <2>1, ReadAsOf
  <2>3. \A c \in Stores : c # s => applied'[c] = applied[c]
    BY <1>3, Applying
  <2> QED
    BY <2>2, <2>3, Clocked
<1>5. CopyInv'
  <2>1. ASSUME NEW r \in Stores, NEW j \in Keys PROVE cachedAsOf[r][j] <= applied'[r]
    <3>1. cachedAsOf[r][j] \in 0..Len(stream) /\ cachedAsOf[r][j] <= applied[r]
      BY Positions DEF CausalInv, CopyInv
    <3> QED
      BY <1>4, <3>1, Clocked
  <2> QED
    BY <1>1, <2>1 DEF CopyInv
<1>6. PICK n \in 0..Len(stream) : n = applied'[s] /\ n <= n
  BY <1>4, Clocked
<1>7. PICK e : e = Entry(call, clock, n, "ok")
  OBVIOUS
<1>8. e.store = s /\ e.now = clock /\ e.asOf = n /\ Answered(e)
  BY <1>2, <1>7, NamedFields DEF Answered
<1>9. Tell(e)
  BY <1>1, <1>2, <1>6, <1>7
<1> QED
  BY <1>1, <1>3, <1>5, <1>6, <1>8, <1>9, AnswerCausal

LEMMA NextCausal == TypeInv /\ CausalInv /\ [Next]_vars => CausalInv'
<1> SUFFICES ASSUME TypeInv, CausalInv, [Next]_vars PROVE CausalInv'
  OBVIOUS
<1>1. CASE Feed
  BY <1>1, FeedCausal
<1>2. ASSUME UNCHANGED <<stream, applied, visibleAt, cachedAsOf>>,
             transcript' = transcript \/ \E e : Tell(e) /\ ~Answered(e)
      PROVE  CausalInv'
  <2>1. StreamInOrder'
    BY <1>2 DEF CausalInv, StreamInOrder
  <2> QED
    BY <1>2, <2>1, QuietCausal
<1>3. CASE AdvanceClock \/ SetClock \/ UNCHANGED vars
  BY <1>2, <1>3 DEF AdvanceClock, SetClock, vars, reads
<1>4. ASSUME NEW s, NEW op, NEW k, NEW token, Refuse(s, op, k, token)
      PROVE  CausalInv'
  <2>1. PICK e : e = [store |-> s, op |-> op, key |-> k, now |-> 0, waited |-> 0,
                      asOf |-> 0, outcome |-> "auth_error"]
    OBVIOUS
  <2>2. Tell(e) /\ ~Answered(e)
    BY <1>4, <2>1 DEF Refuse, Answered
  <2> QED
    BY <1>2, <1>4, <2>2 DEF Refuse, reads
<1>5. ASSUME NEW s, NEW op, NEW k, NEW token, Admit(s, op, k, token)
      PROVE  CausalInv'
  BY <1>2, <1>5 DEF Admit, reads
<1>6. CASE Inject
  <2>1. PICK call : /\ Tell(Entry(call, 0, 0, "source_error"))
                    /\ UNCHANGED <<stream, applied, visibleAt, cachedAsOf>>
    BY <1>6 DEF Inject, reads
  <2>2. ~Answered(Entry(call, 0, 0, "source_error"))
    BY NamedFields DEF Answered
  <2> QED
    BY <1>2, <2>1, <2>2
<1> QED
  BY <1>1, <1>3, <1>4, <1>5, <1>6, GetCausal, ViewCausal DEF Next

\* What is ahead of a position of one store's answer is shown by a late enough view of
\* another: the sources are causal, however their lags and copies differ and the clock
\* is set.
THEOREM SourcesCausal == Spec => []SourcesAreCausal
<1>1. Init => CausalInv
  <2> SUFFICES ASSUME Init PROVE CausalInv
    OBVIOUS
  <2>1. Len(stream) = 0 /\ DOMAIN transcript = {}
    BY DEF Init
  <2>2. \A s \in Stores : visibleAt[s] = -1 /\ applied[s] = 0
    BY DEF Init
  <2>3. \A s \in Stores, k \in Keys : cachedAsOf[s][k] = 0 /\ 0 <= 0
    BY DEF Init
  <2> QED
    BY <2>1, <2>2, <2>3 DEF CausalInv, StreamInOrder, StoreInv, CopyInv, ToldInv
<1>2. TypeInv /\ CausalInv => SourcesAreCausal
  <2> SUFFICES ASSUME TypeInv, CausalInv, NEW i \in DOMAIN transcript,
                      NEW j \in DOMAIN transcript, i < j,
                      Answered(transcript[i]), Answered(transcript[j]),
                      transcript[j].op = "view",
                      \A t \in ReadAt(transcript[i].store, i) :
                        t - ReplicationLag(transcript[i].store)
                          <= transcript[j].now - ReplicationLag(transcript[j].store),
                      \A t \in ReadAt(transcript[j].store, i) : t < transcript[j].now
               PROVE  Rank(transcript[j].store, transcript[i].asOf)
                        <= Rank(transcript[j].store, transcript[j].asOf)
    BY DEF SourcesAreCausal
  <2>1. PICK a, b : a = transcript[i] /\ b = transcript[j]
    OBVIOUS
  <2>2. i \in 1..Len(transcript) /\ j \in 1..Len(transcript) /\ Len(transcript) \in Nat
    BY Positions
  <2>3. /\ a.store \in Stores /\ b.store \in Stores /\ b.now \in Nat
        /\ a.asOf \in 0..Len(stream) /\ b.asOf \in 0..Len(stream)
    BY <2>1, Positions
  <2>4. PICK lagA \in Nat, lagB \in Nat :
          lagA = ReplicationLag(a.store) /\ lagB = ReplicationLag(b.store)
    BY <2>3, Profiled
  <2>5. ASSUME NEW h \in 1..i, NEW s, ReadBy(transcript, h, s)
        PROVE  transcript[h].now \in ReadAt(s, i)
    BY <2>5 DEF ReadBy, ReadAt
  <2>6. Complete(stream, b.store, b.asOf, a.asOf, b.now - lagB)
    <3>1. ViewComplete(stream, transcript, j)
      BY DEF CausalInv, ToldInv, Sound
    <3>2. i \in 1..j
      BY <2>2
    <3>3. \A h \in 1..i : ReadBy(transcript, h, b.store) => transcript[h].now < b.now
      BY <2>1, <2>5
    <3>4. Cutoff(transcript, j) = b.now - lagB
      BY <2>1, <2>4 DEF Cutoff
    <3> QED
      BY <2>1, <3>1, <3>2, <3>3, <3>4 DEF ViewComplete
  <2>7. a.asOf = 0 \/ Past(stream, a.asOf, b.now - lagB)
    <3>1. AnswerPast(stream, transcript, i)
      BY DEF CausalInv, ToldInv, Sound
    <3>2. ASSUME NEW h \in 1..i, ReadBy(transcript, h, a.store),
                 Past(stream, a.asOf, Cutoff(transcript, h))
          PROVE  Past(stream, a.asOf, b.now - lagB)
      <4>1. PICK t \in Nat : t = transcript[h].now
        BY <2>2, <3>2, Positions
      <4>2. t - lagA <= b.now - lagB
        BY <2>1, <2>4, <2>5, <3>2, <4>1
      <4>3. Cutoff(transcript, h) = t - lagA
        BY <2>4, <3>2, <4>1 DEF Cutoff, ReadBy
      <4>4. ASSUME NEW q \in 1..a.asOf PROVE stream[q].at <= b.now - lagB
        <5>1. stream[q].at <= t - lagA
          BY <3>2, <4>3, <4>4 DEF Past
        <5>2. stream[q].at \in Nat
          BY <2>3, <4>4, Clocked DEF TypeInv
        <5> QED
          BY <2>3, <4>2, <5>1, <5>2
      <4> QED
        BY <4>4 DEF Past
    <3> QED
      BY <2>1, <3>1, <3>2 DEF AnswerPast
  <2>8. ASSUME NEW q \in Own(b.store), q <= a.asOf PROVE q <= b.asOf
    <3>1. q \in 1..Len(stream) /\ stream[q].store = b.store /\ q \in 1..a.asOf
      BY <2>3, <2>8, Clocked DEF Own, TypeInv
    <3>2. stream[q].at <= b.now - lagB
      BY <2>3, <2>7, <3>1 DEF Past
    <3> QED
      BY <2>6, <3>1, <3>2 DEF Complete
  <2>9. PICK A, B : /\ A = {q \in Own(b.store) : q <= a.asOf}
                    /\ B = {q \in Own(b.store) : q <= b.asOf}
    OBVIOUS
  <2>10. A \subseteq B
    BY <2>8, <2>9
  <2>11. IsFiniteSet(B)
    <3>1. IsFiniteSet(DOMAIN stream)
      BY FinitelyMany DEF TypeInv
    <3>2. B \subseteq DOMAIN stream
      BY <2>9 DEF Own
    <3> QED
      BY <3>1, <3>2, FS_Subset
  <2>12. Cardinality(A) <= Cardinality(B)
    BY <2>10, <2>11, FS_Subset
  <2> QED
    BY <2>1, <2>9, <2>12 DEF Rank
<1> QED
  BY <1>1, <1>2, NextCausal, TypeInvariant, PTL DEF Spec
===============================================================================
