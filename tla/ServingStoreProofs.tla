-------------------------- MODULE ServingStoreProofs --------------------------
(***************************************************************************)
(* Proofs about ServingStore for every set of keys, every lag and ttl and  *)
(* every projector.  Most of the argument is about indices and times only: *)
(* how far the view has got, as of when, and as of when each cached copy   *)
(* was made.  The last part is about what the view and the copies hold.    *)
(***************************************************************************)
EXTENDS ServingStore, ProjectorProofs, SequenceTheorems

\* Facts about functions used throughout.
LEMMA ExceptType ==
  ASSUME NEW S, NEW T, NEW f \in [S -> T], NEW k \in S, NEW v \in T
  PROVE  [f EXCEPT ![k] = v] \in [S -> T]
  OBVIOUS

LEMMA ExceptValue ==
  ASSUME NEW S, NEW T, NEW f \in [S -> T], NEW k \in S, NEW v, NEW c \in S
  PROVE  [f EXCEPT ![k] = v][c] = IF c = k THEN v ELSE f[c]
  OBVIOUS

\* What happened before a cutoff happened before any later one.
LEMMA LaterCutoff ==
  ASSUME NEW m \in Int, NEW x \in Int, NEW c \in Int, NEW t \in Int, c <= t
  PROVE  /\ m < c => m < t
         /\ x <= c - Lag => x <= t - Lag
  BY LagTtlAssumption

\* The two indices count events, so they are numbers.
LEMMA IndexTypes ==
  ASSUME TypeOK
  PROVE  /\ clock \in Nat /\ Len(events) \in Nat
         /\ lastAppliedIdx \in Nat /\ viewAsOf \in Nat
         /\ \A k \in Keys : servedAsOf[k] \in Nat
         /\ \A i \in 1..Len(events) : events[i].at \in Nat /\ arrived[i] \in Nat
<1>1. Len(events) \in Nat /\ clock \in Nat
  BY BoundsAssumption DEF TypeOK
<1>2. lastAppliedIdx \in Nat /\ viewAsOf \in Nat
  BY <1>1 DEF TypeOK
<1>3. ASSUME NEW k \in Keys PROVE servedAsOf[k] \in Nat
  BY <1>1 DEF TypeOK
<1>4. ASSUME NEW i \in 1..Len(events) PROVE events[i].at \in Nat /\ arrived[i] \in Nat
  <2>1. events[i] \in Event /\ arrived[i] \in Nat
    BY <1>1 DEF TypeOK
  <2> QED
    BY <2>1, TimesAssumption DEF Event
<1> QED
  BY <1>1, <1>2, <1>3, <1>4

\* What a read's refresh of the view (_apply_visible) does to the indices.
LEMMA ApplyIndices ==
  ASSUME TypeOK, ApplyVisible
  PROVE  /\ lastAppliedIdx' \in lastAppliedIdx .. Len(events)
         /\ lastVisibleAt' \in Int /\ lastVisibleAt' >= -1
         /\ lastVisibleAt' >= clock - Lag
         /\ \/ lastVisibleAt' = lastVisibleAt /\ lastAppliedIdx' = lastAppliedIdx
            \/ lastVisibleAt' = clock - Lag
  BY LagTtlAssumption, BoundsAssumption DEF TypeOK, ApplyVisible, store

\* A get changes nothing but the view's state, the cache and its own key's index,
\* which becomes the view's unless the cached copy is answered.
LEMMA GetEffect ==
  ASSUME TypeOK, NEW k \in Keys, GetCached(k) \/ GetFromView(k)
  PROVE  /\ ApplyVisible
         /\ UNCHANGED <<clock, events, arrived, viewAsOf>>
         /\ servedAsOf'[k] \in {servedAsOf[k], lastAppliedIdx'}
         /\ servedAsOf' = [servedAsOf EXCEPT ![k] = servedAsOf'[k]]
         /\ reply' = [op |-> "get", key |-> k, now |-> clock, asOf |-> servedAsOf'[k]]
<1>1. ApplyVisible /\ UNCHANGED <<clock, events, arrived, viewAsOf>>
  BY DEF GetCached, GetFromView
<1>2. PICK n \in {servedAsOf[k], lastAppliedIdx'} :
        /\ servedAsOf' = [servedAsOf EXCEPT ![k] = n]
        /\ reply' = [op |-> "get", key |-> k, now |-> clock, asOf |-> n]
  BY DEF GetCached, GetFromView, AnswerGet
<1>3. servedAsOf'[k] = n
  BY <1>2 DEF TypeOK
<1> QED
  BY <1>1, <1>2, <1>3

\* What a get does to the cache.
LEMMA GetCacheEffect ==
  ASSUME TypeOK, NEW k \in Keys, GetCached(k) \/ GetFromView(k)
  PROVE  /\ \/ cacheFirstServedAt' = cacheFirstServedAt
            \/ /\ cacheFirstServedAt' = [cacheFirstServedAt EXCEPT ![k] = clock]
               /\ servedAsOf'[k] = lastAppliedIdx'
         /\ cacheValue' = [c \in Keys |-> cacheValue'[c]]
<1>1. CASE GetCached(k)
  BY <1>1 DEF GetCached, cache, TypeOK
<1>2. CASE GetFromView(k) /\ Ttl > 0
  <2>1. servedAsOf' = [servedAsOf EXCEPT ![k] = lastAppliedIdx']
    BY <1>2 DEF GetFromView, AnswerGet
  <2>2. servedAsOf'[k] = lastAppliedIdx'
    BY <2>1 DEF TypeOK
  <2>3. /\ cacheFirstServedAt' = [cacheFirstServedAt EXCEPT ![k] = clock]
        /\ cacheValue' = [cacheValue EXCEPT ![k] = view'[k]]
    BY <1>2 DEF GetFromView
  <2> QED
    BY <2>2, <2>3 DEF TypeOK
<1>3. CASE GetFromView(k) /\ ~(Ttl > 0)
  BY <1>3 DEF GetFromView, cache, TypeOK
<1> QED
  BY <1>1, <1>2, <1>3

-------------------------------------------------------------------------------
\* TypeOK is inductive: the log only grows, and every index a read remembers
\* is an index of the log.
THEOREM TypeCorrect == Spec => []TypeOK
<1>1. Init => TypeOK
  BY LagTtlAssumption, BoundsAssumption DEF Init, TypeOK, NotCached, Event
<1>2. TypeOK /\ [Next]_vars => TypeOK'
  <2> SUFFICES ASSUME TypeOK, [Next]_vars PROVE TypeOK'
    OBVIOUS
  <2>1. ASSUME NEW e \in Event, Ingest(e) PROVE TypeOK'
    <3>1. /\ events' \in Seq(Event) /\ Len(events') = Len(events) + 1
          /\ arrived' \in Seq(Nat) /\ Len(arrived') = Len(arrived) + 1
      BY <2>1, BoundsAssumption, AppendProperties DEF Ingest, TypeOK
    <3>2. /\ UNCHANGED <<clock, lastAppliedIdx, lastVisibleAt>>
          /\ UNCHANGED <<cacheFirstServedAt, cacheValue, reply, servedAsOf, viewAsOf>>
          /\ Len(events) < MaxEvents
      BY <2>1 DEF Ingest, store, cache
    <3>3. Len(events) \in Nat /\ 0..Len(events) \subseteq 0..Len(events')
      BY <3>1 DEF TypeOK
    <3>4. servedAsOf' \in [Keys -> 0..Len(events')]
      BY <3>2, <3>3 DEF TypeOK
    <3>5. /\ lastAppliedIdx' \in 0..Len(events') /\ viewAsOf' \in 0..Len(events')
          /\ reply'.asOf \in 0..Len(events') /\ reply'.now \in 0..MaxClock
      BY <3>2, <3>3 DEF TypeOK
    <3>6. Len(events') <= MaxEvents /\ Len(arrived') = Len(events')
      BY <3>1, <3>2, <3>3, BoundsAssumption DEF TypeOK
    <3>7. /\ clock' \in 0..MaxClock /\ lastVisibleAt' \in Int /\ lastVisibleAt' >= -1
          /\ cacheValue' = [c \in Keys |-> cacheValue'[c]]
          /\ cacheFirstServedAt' \in [Keys -> Nat \cup {NotCached}]
      BY <3>2 DEF TypeOK
    <3> QED
      BY <3>1, <3>4, <3>5, <3>6, <3>7 DEF TypeOK
  <2>2. ASSUME NEW k \in Keys, GetCached(k) \/ GetFromView(k) PROVE TypeOK'
    <3>1. /\ UNCHANGED <<clock, events, arrived, viewAsOf>>
          /\ reply'.now = clock /\ reply'.asOf = servedAsOf'[k]
      BY <2>2, GetEffect
    <3>2. /\ lastAppliedIdx' \in 0..Len(events)
          /\ lastVisibleAt' \in Int /\ lastVisibleAt' >= -1
      BY <2>2, GetEffect, ApplyIndices DEF TypeOK
    <3>3. servedAsOf'[k] \in 0..Len(events)
      BY <2>2, <3>2, GetEffect DEF TypeOK
    <3>4. servedAsOf' \in [Keys -> 0..Len(events)]
      <4>1. servedAsOf' = [servedAsOf EXCEPT ![k] = servedAsOf'[k]]
        BY <2>2, GetEffect
      <4>2. servedAsOf \in [Keys -> 0..Len(events)]
        BY DEF TypeOK
      <4> QED
        BY <3>3, <4>1, <4>2, ExceptType
    <3>5. clock \in Nat \cup {NotCached}
      BY BoundsAssumption DEF TypeOK
    <3>6. cacheFirstServedAt' \in [Keys -> Nat \cup {NotCached}]
      BY <2>2, <3>5, GetCacheEffect, ExceptType DEF TypeOK
    <3>7. cacheValue' = [c \in Keys |-> cacheValue'[c]]
      BY <2>2, GetCacheEffect
    <3> QED
      BY <3>1, <3>2, <3>3, <3>4, <3>6, <3>7 DEF TypeOK
  <2>3. CASE View
    BY <2>3, ApplyIndices DEF View, TypeOK, cache
  <2>4. CASE AdvanceClock \/ StepBack
    <3>1. clock' \in 0..MaxClock
      BY <2>4, BoundsAssumption DEF AdvanceClock, StepBack, TypeOK
    <3> QED
      BY <2>4, <3>1 DEF AdvanceClock, StepBack, TypeOK, store, cache
  <2>5. CASE UNCHANGED vars
    BY <2>5 DEF vars, TypeOK, store, cache
  <2> QED
    BY <2>1, <2>2, <2>3, <2>4, <2>5 DEF Next
<1> QED
  BY <1>1, <1>2, PTL DEF Spec

\* No read is ahead of the view.
LEMMA ReachedInvariant == Spec => []Reached
<1>1. Init => Reached
  BY DEF Init, Reached
<1>2. TypeOK /\ Reached /\ [Next]_vars => Reached'
  <2> SUFFICES ASSUME TypeOK, Reached, [Next]_vars PROVE Reached'
    OBVIOUS
  <2>1. ASSUME UNCHANGED <<lastAppliedIdx, servedAsOf, viewAsOf>> PROVE Reached'
    BY <2>1 DEF Reached
  <2>2. ASSUME NEW k \in Keys, GetCached(k) \/ GetFromView(k) PROVE Reached'
    <3>1. lastAppliedIdx' \in lastAppliedIdx .. Len(events)
      BY <2>2, GetEffect, ApplyIndices
    <3>2. /\ servedAsOf'[k] <= lastAppliedIdx'
          /\ viewAsOf' <= lastAppliedIdx'
      <4>1. /\ servedAsOf'[k] \in {servedAsOf[k], lastAppliedIdx'}
            /\ viewAsOf' = viewAsOf
        BY <2>2, GetEffect
      <4>2. servedAsOf[k] <= lastAppliedIdx /\ viewAsOf <= lastAppliedIdx
        BY DEF Reached
      <4> QED
        BY <3>1, <4>1, <4>2, IndexTypes
    <3>3. ASSUME NEW c \in Keys, c # k PROVE servedAsOf'[c] = servedAsOf[c]
      BY <2>2, <3>3, GetEffect, ExceptValue DEF TypeOK
    <3>4. ASSUME NEW c \in Keys PROVE servedAsOf'[c] <= lastAppliedIdx'
      BY <3>1, <3>2, <3>3 DEF TypeOK, Reached
    <3> QED
      BY <3>2, <3>4 DEF Reached
  <2>3. CASE View
    BY <2>3, ApplyIndices DEF View, TypeOK, Reached
  <2> QED
    BY <2>1, <2>2, <2>3 DEF Next, Ingest, AdvanceClock, StepBack, vars, store
<1> QED
  BY <1>1, <1>2, TypeCorrect, PTL DEF Spec

\* Two gets of a key, or two views, never go back in the log, whatever the clock
\* does (_last_visible_at only grows; a cached entry is replaced, never restored).
THEOREM NeverRegress == Spec => ReadsNeverRegress
<1> DEFINE Forward == /\ \A k \in Keys : servedAsOf'[k] >= servedAsOf[k]
                      /\ viewAsOf' >= viewAsOf
<1>1. TypeOK /\ Reached /\ [Next]_vars => [Forward]_vars
  <2> SUFFICES ASSUME TypeOK, Reached, [Next]_vars, ~ UNCHANGED vars
               PROVE  Forward
    OBVIOUS
  <2>1. ASSUME NEW k \in Keys, GetCached(k) \/ GetFromView(k) PROVE Forward
    <3>1. servedAsOf'[k] >= servedAsOf[k] /\ viewAsOf' >= viewAsOf
      <4>1. lastAppliedIdx' \in lastAppliedIdx .. Len(events)
        BY <2>1, GetEffect, ApplyIndices
      <4>2. /\ servedAsOf'[k] \in {servedAsOf[k], lastAppliedIdx'}
            /\ viewAsOf' = viewAsOf
        BY <2>1, GetEffect
      <4>3. servedAsOf[k] <= lastAppliedIdx
        BY DEF Reached
      <4> QED
        BY <4>1, <4>2, <4>3, IndexTypes
    <3>2. ASSUME NEW c \in Keys, c # k PROVE servedAsOf'[c] = servedAsOf[c]
      BY <2>1, <3>2, GetEffect, ExceptValue DEF TypeOK
    <3>3. ASSUME NEW c \in Keys PROVE servedAsOf'[c] >= servedAsOf[c]
      BY <3>1, <3>2, IndexTypes
    <3> QED
      BY <3>1, <3>3
  <2>2. CASE View
    BY <2>2, ApplyIndices DEF View, TypeOK, Reached
  <2>3. ASSUME UNCHANGED <<servedAsOf, viewAsOf>> PROVE Forward
    BY <2>3, IndexTypes
  <2> QED
    BY <2>1, <2>2, <2>3 DEF Next, Ingest, AdvanceClock, StepBack, vars
<1> QED
  BY <1>1, TypeCorrect, ReachedInvariant, PTL DEF Spec, ReadsNeverRegress

-------------------------------------------------------------------------------
(***************************************************************************)
(* From here on the clock does not step back.                              *)
(***************************************************************************)

\* A clock that only advances keeps the view within its lag.
LEMMA ApplyLagged ==
  ASSUME TypeOK, LaggedInv, ApplyVisible
  PROVE  /\ \A i \in 1..lastAppliedIdx' : events[i].at <= lastVisibleAt'
         /\ \A i \in 1..lastAppliedIdx' : events[i].at <= clock - Lag
         /\ lastVisibleAt' = -1 \/ lastVisibleAt' <= clock - Lag
<1> USE LagTtlAssumption, IndexTypes
<1>1. lastAppliedIdx' \in lastAppliedIdx .. Len(events) /\ lastVisibleAt' \in Int
  BY ApplyIndices
<1>2. CASE lastVisibleAt' = lastVisibleAt /\ lastAppliedIdx' = lastAppliedIdx
  <2>1. ASSUME NEW i \in 1..lastAppliedIdx PROVE events[i].at <= clock - Lag
    <3>1. events[i].at \in Nat /\ events[i].at <= lastVisibleAt
      BY <1>1 DEF LaggedInv
    <3> QED
      BY <3>1, <1>1, <1>2 DEF LaggedInv
  <2> QED
    BY <1>2, <2>1 DEF LaggedInv
<1>3. CASE clock - Lag > lastVisibleAt
  <2>1. PICK n \in lastAppliedIdx .. Len(events) :
          /\ Frontier(n, clock - Lag)
          /\ lastAppliedIdx' = n /\ lastVisibleAt' = clock - Lag
    BY <1>3 DEF ApplyVisible, TypeOK
  <2>2. ASSUME NEW i \in 1..n PROVE events[i].at <= clock - Lag
    <3>1. CASE i <= lastAppliedIdx
      <4>1. events[i].at <= lastVisibleAt
        BY <3>1 DEF LaggedInv
      <4>2. i \in 1..Len(events)
        BY <2>2
      <4>3. events[i].at \in Nat
        BY <4>2
      <4>4. lastVisibleAt \in Int
        BY DEF TypeOK
      <4> QED
        BY <4>1, <4>3, <4>4, <1>3
    <3>2. CASE i > lastAppliedIdx
      BY <3>2, <2>1 DEF Frontier
    <3> QED
      BY <3>1, <3>2
  <2> QED
    BY <2>1, <2>2
<1> QED
  BY <1>2, <1>3 DEF ApplyVisible, TypeOK, store

\* LaggedInv is kept by every step of an advancing clock.
LEMMA LaggedStep ==
  ASSUME ~ClockMayStepBack, TypeOK, LaggedInv, [Next]_vars
  PROVE  LaggedInv'
<1>1. ASSUME NEW e \in Event, Ingest(e) PROVE LaggedInv'
  <2>1. \A i \in 1..lastAppliedIdx : events'[i] = events[i]
    BY <1>1, AppendProperties, IndexTypes DEF Ingest, TypeOK
  <2> QED
    BY <1>1, <2>1 DEF Ingest, LaggedInv, store
<1>2. ASSUME ApplyVisible, UNCHANGED <<clock, events>> PROVE LaggedInv'
  BY <1>2, ApplyLagged DEF LaggedInv
<1>3. CASE AdvanceClock
  BY <1>3, LagTtlAssumption, IndexTypes DEF AdvanceClock, LaggedInv, TypeOK, store
<1>4. CASE UNCHANGED vars
  BY <1>4 DEF vars, LaggedInv, store
<1>5. ASSUME NEW k \in Keys, GetCached(k) \/ GetFromView(k) PROVE LaggedInv'
  BY <1>2, <1>5, GetEffect
<1> QED
  BY <1>1, <1>2, <1>3, <1>4, <1>5 DEF Next, View, StepBack

\* No answer is ahead of what its time allows: what an answer was taken from is
\* part of the view, and the view is within its lag.
LEMMA ReadsStep ==
  ASSUME ~ClockMayStepBack, TypeOK, Reached, LaggedInv, ReadsSeeOnlyLagged, [Next]_vars
  PROVE  ReadsSeeOnlyLagged'
<1>1. ASSUME NEW e \in Event, Ingest(e) PROVE ReadsSeeOnlyLagged'
  <2>1. \A i \in 1..reply.asOf : events'[i] = events[i]
    BY <1>1, AppendProperties, IndexTypes DEF Ingest, TypeOK
  <2> QED
    BY <1>1, <2>1 DEF Ingest, ReadsSeeOnlyLagged
<1>2. ASSUME NEW k \in Keys, GetCached(k) \/ GetFromView(k) PROVE ReadsSeeOnlyLagged'
  <2>1. /\ lastAppliedIdx' \in lastAppliedIdx .. Len(events)
        /\ \A i \in 1..lastAppliedIdx' : events[i].at <= clock - Lag
    BY <1>2, GetEffect, ApplyIndices, ApplyLagged
  <2>2. servedAsOf'[k] <= lastAppliedIdx' /\ servedAsOf'[k] \in Nat
    BY <1>2, <2>1, GetEffect, IndexTypes DEF Reached
  <2>3. /\ reply'.now = clock /\ reply'.asOf = servedAsOf'[k]
        /\ events' = events
    BY <1>2, GetEffect
  <2>4. \A i \in 1..servedAsOf'[k] : events[i].at <= clock - Lag
    BY <2>1, <2>2, IndexTypes
  <2> QED
    BY <2>3, <2>4 DEF ReadsSeeOnlyLagged
<1>3. CASE View
  BY <1>3, ApplyLagged DEF View, ReadsSeeOnlyLagged
<1>4. ASSUME UNCHANGED <<events, reply>> PROVE ReadsSeeOnlyLagged'
  BY <1>4 DEF ReadsSeeOnlyLagged
<1> QED
  BY <1>1, <1>2, <1>3, <1>4 DEF Next, AdvanceClock, StepBack, vars

\* "Reads at time T see only events with occurred_at_ms <= T - replication_lag_ms"
\* (store.py), for any store whose clock does not step back.
THEOREM LaggedReads ==
  ASSUME ~ClockMayStepBack
  PROVE  Spec => []ReadsSeeOnlyLagged
<1>1. Init => LaggedInv /\ ReadsSeeOnlyLagged
  BY DEF Init, LaggedInv, ReadsSeeOnlyLagged
<1>2. TypeOK /\ Reached /\ LaggedInv /\ ReadsSeeOnlyLagged /\ [Next]_vars
        => LaggedInv' /\ ReadsSeeOnlyLagged'
  BY LaggedStep, ReadsStep
<1> QED
  BY <1>1, <1>2, TypeCorrect, ReachedInvariant, PTL DEF Spec

-------------------------------------------------------------------------------
\* A read leaves out no event it owes: the scan stops only at an event that is too
\* new, and a read with no new cutoff repeats one made at the same time.
LEMMA ApplyFresh ==
  ASSUME TypeOK, LaggedInv, FreshInv, ApplyVisible,
         NEW i \in 1..Len(events), Promise!Owed(i, clock)
  PROVE  i <= lastAppliedIdx'
<1> USE LagTtlAssumption, IndexTypes
<1>1. \A j \in 1..i : arrived[j] < clock /\ events[j].at <= clock - Lag
  BY DEF Promise!Owed
<1>2. CASE clock - Lag <= lastVisibleAt
  <2>1. lastAppliedIdx' = lastAppliedIdx
    BY <1>2 DEF ApplyVisible, store, TypeOK
  <2>2. lastVisibleAt \in Int /\ lastVisibleAt >= -1
    BY DEF TypeOK
  <2>3. events[1].at \in Nat /\ events[1].at <= clock - Lag
    BY <1>1
  <2>4. lastVisibleAt + Lag = clock
    <3>1. lastVisibleAt = -1 \/ lastVisibleAt <= clock - Lag
      BY DEF LaggedInv
    <3>2. clock \in Nat /\ Lag \in Nat
      OBVIOUS
    <3>3. clock - Lag >= 0
      BY <2>3, <3>2
    <3> QED
      BY <1>2, <2>2, <3>1, <3>2, <3>3
  <2> QED
    BY <2>1, <2>4 DEF FreshInv
<1>3. CASE clock - Lag > lastVisibleAt
  <2>1. PICK n \in lastAppliedIdx .. Len(events) :
          Frontier(n, clock - Lag) /\ lastAppliedIdx' = n
    BY <1>3 DEF ApplyVisible, TypeOK
  <2>2. SUFFICES ASSUME n < i PROVE FALSE
    BY <2>1
  <2>3. events[n + 1].at > clock - Lag
    BY <2>1, <2>2 DEF Frontier
  <2>4. n + 1 \in 1..i
    BY <2>1, <2>2
  <2>5. events[n + 1].at \in Nat /\ events[n + 1].at <= clock - Lag
    BY <1>1, <2>4
  <2> QED
    BY <2>3, <2>5
<1> QED
  BY <1>2, <1>3 DEF TypeOK

\* An event that arrives now is not owed to a read made before now.
LEMMA IngestOwed ==
  ASSUME TypeOK, NEW e \in Event, Ingest(e), NEW t \in Int, t <= clock,
         NEW i \in 1..Len(events'), Promise!Owed(i, t)'
  PROVE  i \in 1..Len(events) /\ Promise!Owed(i, t)
<1>1. /\ Len(events') = Len(events) + 1 /\ Len(events) \in Nat
      /\ \A j \in 1..Len(events) : events'[j] = events[j] /\ arrived'[j] = arrived[j]
      /\ arrived'[Len(events) + 1] = clock
  BY AppendProperties, IndexTypes DEF Ingest, TypeOK
<1>2. \A j \in 1..i : arrived'[j] < t /\ events'[j].at <= t - Lag
  BY DEF Promise!Owed
<1>3. i # Len(events) + 1
  BY <1>1, <1>2, IndexTypes
<1>4. i \in 1..Len(events)
  BY <1>1, <1>3
<1> QED
  BY <1>1, <1>2, <1>4 DEF Promise!Owed

\* FreshInv is kept by every step of an advancing clock.
LEMMA FreshStep ==
  ASSUME ~ClockMayStepBack, TypeOK, TypeOK', Reached, LaggedInv, FreshInv, [Next]_vars
  PROVE  FreshInv'
<1> USE LagTtlAssumption, IndexTypes
<1>1. ASSUME NEW e \in Event, Ingest(e) PROVE FreshInv'
  <2>1. UNCHANGED <<clock, lastAppliedIdx, lastVisibleAt, cacheFirstServedAt, servedAsOf>>
    BY <1>1 DEF Ingest, store, cache
  <2>2. ASSUME NEW i \in 1..Len(events'), Promise!Owed(i, lastVisibleAt + Lag)'
        PROVE  i <= lastAppliedIdx
    <3>1. CASE lastVisibleAt = -1
      <4>1. events'[1].at <= -1
        <5>1. 1 \in 1..i /\ lastVisibleAt' = -1 /\ (lastVisibleAt + Lag)' - Lag = -1
          BY <2>1, <2>2, <3>1
        <5>2. events'[1].at <= (lastVisibleAt + Lag)' - Lag
          BY <2>2, <5>1 DEF Promise!Owed
        <5> QED
          BY <5>1, <5>2
      <4>2. events'[1] \in Event
        <5>1. events' \in Seq(Event)
          BY DEF TypeOK
        <5> QED
          BY <2>2, <5>1
      <4>3. events'[1].at \in Nat
        BY <4>2, TimesAssumption DEF Event
      <4> QED
        BY <4>1, <4>3
    <3>2. CASE lastVisibleAt <= clock - Lag
      <4>1. lastVisibleAt + Lag \in Int /\ lastVisibleAt + Lag <= clock
        <5>1. lastVisibleAt \in Int /\ clock \in Nat /\ Lag \in Nat
          BY DEF TypeOK
        <5> QED
          BY <3>2, <5>1
      <4>2. Promise!Owed(i, lastVisibleAt + Lag) /\ i \in 1..Len(events)
        BY <1>1, <2>1, <2>2, <4>1, IngestOwed DEF Promise!Owed
      <4> QED
        BY <4>2 DEF FreshInv
    <3>3. lastVisibleAt = -1 \/ lastVisibleAt <= clock - Lag
      BY DEF LaggedInv
    <3> QED
      BY <3>1, <3>2, <3>3
  <2>3. ASSUME NEW k \in Keys, cacheFirstServedAt[k] # NotCached,
               NEW i \in 1..Len(events'), Promise!Owed(i, cacheFirstServedAt[k])'
        PROVE  i <= servedAsOf[k]
    <3>1. cacheFirstServedAt[k] \in Int /\ cacheFirstServedAt[k] <= clock
      BY <2>3 DEF FreshInv, TypeOK
    <3>2. Promise!Owed(i, cacheFirstServedAt[k]) /\ i \in 1..Len(events)
      BY <1>1, <2>1, <2>3, <3>1, IngestOwed DEF Promise!Owed
    <3> QED
      BY <2>3, <3>2 DEF FreshInv
  <2> QED
    BY <2>1, <2>2, <2>3 DEF FreshInv
<1>2. ASSUME ApplyVisible, UNCHANGED <<events, arrived>>,
             NEW i \in 1..Len(events), Promise!Owed(i, lastVisibleAt + Lag)'
      PROVE  i <= lastAppliedIdx'
  <2>1. Promise!Owed(i, lastVisibleAt' + Lag)
    BY <1>2 DEF Promise!Owed
  <2>2. CASE lastVisibleAt' = lastVisibleAt /\ lastAppliedIdx' = lastAppliedIdx
    BY <2>1, <2>2 DEF FreshInv
  <2>3. CASE lastVisibleAt' = clock - Lag
    <3>1. lastVisibleAt' + Lag = clock
      BY <2>3
    <3> QED
      BY <1>2, <2>1, <3>1, ApplyFresh
  <2> QED
    BY <1>2, <2>2, <2>3, ApplyIndices
<1>3. ASSUME NEW k \in Keys, GetCached(k) \/ GetFromView(k) PROVE FreshInv'
  <2>1. ApplyVisible /\ UNCHANGED <<clock, events, arrived>>
    BY <1>3, GetEffect
  <2>2. lastAppliedIdx' \in lastAppliedIdx .. Len(events)
    BY <2>1, ApplyIndices
  <2>3. ASSUME NEW c \in Keys, cacheFirstServedAt'[c] # NotCached,
               NEW i \in 1..Len(events), Promise!Owed(i, cacheFirstServedAt[c])'
        PROVE  cacheFirstServedAt'[c] <= clock /\ i <= servedAsOf'[c]
    <3>1. Promise!Owed(i, cacheFirstServedAt'[c])
      BY <2>1, <2>3 DEF Promise!Owed
    <3>2. CASE cacheFirstServedAt'[c] = cacheFirstServedAt[c]
      <4>1. cacheFirstServedAt[c] <= clock /\ i <= servedAsOf[c]
        BY <2>3, <3>1, <3>2 DEF FreshInv
      <4>2. servedAsOf'[c] \in Nat /\ servedAsOf[c] <= servedAsOf'[c]
        <5>1. CASE c # k
          <6>1. servedAsOf' = [servedAsOf EXCEPT ![k] = servedAsOf'[k]]
            BY <1>3, GetEffect
          <6>2. servedAsOf'[c] = servedAsOf[c]
            BY <5>1, <6>1 DEF TypeOK
          <6> QED
            BY <6>2
        <5>2. CASE c = k
          <6>1. servedAsOf[k] \in Nat /\ lastAppliedIdx' \in Nat
            BY <2>2
          <6>2. servedAsOf[k] <= lastAppliedIdx /\ lastAppliedIdx <= lastAppliedIdx'
            BY <2>2 DEF Reached
          <6>3. servedAsOf'[k] \in {servedAsOf[k], lastAppliedIdx'}
            BY <1>3, GetEffect
          <6> QED
            BY <5>2, <6>1, <6>2, <6>3
        <5> QED
          BY <5>1, <5>2
      <4> QED
        BY <3>2, <4>1, <4>2
    <3>3. CASE c = k /\ cacheFirstServedAt'[c] = clock /\ servedAsOf'[c] = lastAppliedIdx'
      BY <2>1, <3>1, <3>3, ApplyFresh
    <3>4. cacheFirstServedAt \in [Keys -> Nat \cup {NotCached}]
      BY DEF TypeOK
    <3>5. CASE cacheFirstServedAt' = cacheFirstServedAt
      BY <3>2, <3>5
    <3>6. CASE /\ cacheFirstServedAt' = [cacheFirstServedAt EXCEPT ![k] = clock]
               /\ servedAsOf'[k] = lastAppliedIdx'
      <4>1. CASE c = k
        BY <3>3, <3>4, <3>6, <4>1
      <4>2. CASE c # k
        BY <3>2, <3>4, <3>6, <4>2
      <4> QED
        BY <4>1, <4>2
    <3> QED
      BY <1>3, <3>5, <3>6, GetCacheEffect
  <2>4. ASSUME NEW c \in Keys, cacheFirstServedAt'[c] # NotCached
        PROVE  cacheFirstServedAt'[c] <= clock
    <3>1. CASE cacheFirstServedAt'[c] = cacheFirstServedAt[c]
      BY <2>4, <3>1 DEF FreshInv
    <3>2. CASE cacheFirstServedAt'[c] = clock
      BY <3>2
    <3>3. cacheFirstServedAt \in [Keys -> Nat \cup {NotCached}]
      BY DEF TypeOK
    <3>4. \/ cacheFirstServedAt' = cacheFirstServedAt
          \/ cacheFirstServedAt' = [cacheFirstServedAt EXCEPT ![k] = clock]
      BY <1>3, GetCacheEffect
    <3>5. \/ cacheFirstServedAt'[c] = cacheFirstServedAt[c]
          \/ cacheFirstServedAt'[c] = clock
      BY <3>3, <3>4
    <3> QED
      BY <3>1, <3>2, <3>5
  <2> QED
    BY <1>2, <2>1, <2>3, <2>4 DEF FreshInv
<1>4. CASE View
  <2>1. /\ ApplyVisible
        /\ UNCHANGED <<clock, events, arrived, cacheFirstServedAt, servedAsOf>>
    BY <1>4 DEF View, cache
  <2>2. ASSUME NEW c \in Keys, cacheFirstServedAt[c] # NotCached,
               NEW i \in 1..Len(events), Promise!Owed(i, cacheFirstServedAt[c])'
        PROVE  i <= servedAsOf[c]
    BY <2>1, <2>2 DEF FreshInv, Promise!Owed
  <2> QED
    BY <1>2, <2>1, <2>2 DEF FreshInv
<1>5. ASSUME UNCHANGED <<events, arrived, store, cacheFirstServedAt, servedAsOf>>,
             clock' >= clock
      PROVE  FreshInv'
  <2>1. ASSUME NEW t \in Int, NEW i \in 1..Len(events)
        PROVE  (\A j \in 1..i : arrived'[j] < t /\ events'[j].at <= t - Lag)
                 <=> Promise!Owed(i, t)
    BY <1>5 DEF Promise!Owed
  <2>2. \A k \in Keys : cacheFirstServedAt[k] \in Int
    BY DEF TypeOK, NotCached
  <2>3. ASSUME NEW k \in Keys, cacheFirstServedAt[k] # NotCached
        PROVE  cacheFirstServedAt[k] <= clock'
    <3>1. cacheFirstServedAt[k] <= clock
      BY <2>3 DEF FreshInv
    <3>2. clock' \in Int
      BY BoundsAssumption DEF TypeOK
    <3> QED
      BY <1>5, <2>2, <3>1, <3>2
  <2> QED
    BY <1>5, <2>1, <2>2, <2>3 DEF FreshInv, Promise!Owed, store, TypeOK
<1>6. CASE AdvanceClock
  BY <1>5, <1>6 DEF AdvanceClock, cache
<1>7. CASE UNCHANGED vars
  BY <1>5, <1>7 DEF vars, cache
<1> QED
  BY <1>1, <1>3, <1>4, <1>6, <1>7 DEF Next, StepBack

\* The inductive invariant: it says of the view, and of each cached copy, as of
\* which cutoff it is and that it left out nothing owed at that cutoff.
THEOREM ReadInvariant ==
  ASSUME ~ClockMayStepBack
  PROVE  Spec => []ReadInv
<1>1. Init => LaggedInv /\ FreshInv
  BY DEF Init, LaggedInv, FreshInv, NotCached
<1>2. TypeOK /\ TypeOK' /\ Reached /\ LaggedInv /\ FreshInv /\ [Next]_vars
        => LaggedInv' /\ FreshInv'
  BY LaggedStep, FreshStep
<1> QED
  BY <1>1, <1>2, TypeCorrect, ReachedInvariant, LaggedReads, PTL DEF Spec, ReadInv

-------------------------------------------------------------------------------
\* A get answers from a prefix that BoundedStaleness allows: the view's, or the one
\* of a copy taken at most Ttl ago.
LEMMA GetAnswers ==
  ASSUME ~ClockMayStepBack, TypeOK, Reached, LaggedInv, FreshInv,
         NEW k \in Keys, GetCached(k) \/ GetFromView(k)
  PROVE  /\ servedAsOf'[k] \in servedAsOf[k] .. Len(events)
         /\ Promise!Answers(servedAsOf'[k], Ttl)
<1> USE LagTtlAssumption
<1>1. ApplyVisible /\ servedAsOf'[k] \in {servedAsOf[k], lastAppliedIdx'}
  BY GetEffect
<1>2. /\ lastAppliedIdx' \in lastAppliedIdx .. Len(events)
      /\ \A i \in 1..lastAppliedIdx' : events[i].at <= clock - Lag
  BY <1>1, ApplyIndices, ApplyLagged
<1>3. /\ servedAsOf'[k] \in servedAsOf[k] .. Len(events)
      /\ servedAsOf'[k] <= lastAppliedIdx'
  <2>1. servedAsOf[k] <= lastAppliedIdx
    BY DEF Reached
  <2> QED
    BY <1>1, <1>2, <2>1, IndexTypes
<1>4. Promise!Visible(servedAsOf'[k], clock)
  BY <1>2, <1>3, IndexTypes DEF Promise!Visible
<1>5. ASSUME NEW i \in 1..Len(events), Promise!Owed(i, clock - Ttl)
      PROVE  i <= servedAsOf'[k]
  <2>1. ASSUME NEW t \in Int, clock - Ttl <= t PROVE Promise!Owed(i, t)
    <3>1. ASSUME NEW j \in 1..i PROVE arrived[j] < t /\ events[j].at <= t - Lag
      <4>1. arrived[j] < clock - Ttl /\ events[j].at <= (clock - Ttl) - Lag
        BY <1>5 DEF Promise!Owed
      <4>2. j \in 1..Len(events)
        BY IndexTypes
      <4>3. arrived[j] \in Int /\ events[j].at \in Int /\ clock - Ttl \in Int
        BY <4>2, IndexTypes
      <4> QED
        BY <2>1, <4>1, <4>3, LaterCutoff
    <3> QED
      BY <3>1 DEF Promise!Owed
  <2>2. i <= lastAppliedIdx'
    <3>1. Promise!Owed(i, clock)
      BY <2>1, IndexTypes
    <3> QED
      BY <1>1, <3>1, ApplyFresh
  <2>4. CASE GetCached(k)
    <3>1. cacheFirstServedAt[k] # NotCached /\ clock - cacheFirstServedAt[k] <= Ttl
      BY <2>4 DEF GetCached, CacheHit
    <3>2. cacheFirstServedAt[k] \in Int
      BY DEF TypeOK, NotCached
    <3>3. Promise!Owed(i, cacheFirstServedAt[k])
      <4>1. clock - Ttl <= cacheFirstServedAt[k]
        BY <3>1, <3>2, IndexTypes
      <4> QED
        BY <2>1, <3>2, <4>1
    <3>4. i <= servedAsOf[k]
      BY <3>1, <3>3 DEF FreshInv
    <3> QED
      BY <3>4, <1>3, IndexTypes
  <2>5. CASE GetFromView(k)
    <3>1. servedAsOf' = [servedAsOf EXCEPT ![k] = lastAppliedIdx']
      BY <2>5 DEF GetFromView, AnswerGet
    <3>2. servedAsOf'[k] = lastAppliedIdx'
      BY <3>1 DEF TypeOK
    <3> QED
      BY <2>2, <3>2
  <2> QED
    BY <2>4, <2>5
<1> QED
  BY <1>3, <1>4, <1>5 DEF Promise!Answers

\* The store keeps the promise of BoundedStaleness: each of its steps is one of
\* the promise's or changes nothing the promise speaks of.
THEOREM Refinement ==
  ASSUME ~ClockMayStepBack
  PROVE  Spec => ImplementsBoundedStaleness
<1> USE LagTtlAssumption
<1>1. Init => Promise!Init
  BY DEF Init, Promise!Init
<1>2. TypeOK /\ Reached /\ LaggedInv /\ FreshInv /\ [Next]_vars
        => [Promise!Next]_(Promise!vars)
  <2> SUFFICES ASSUME TypeOK, Reached, LaggedInv, FreshInv, [Next]_vars
               PROVE  [Promise!Next]_(Promise!vars)
    OBVIOUS
  <2>1. ASSUME NEW e \in Event, Ingest(e) PROVE Promise!Next
    BY <2>1 DEF Ingest, Promise!Next, Promise!Ingest
  <2>2. ASSUME NEW k \in Keys, GetCached(k) \/ GetFromView(k) PROVE Promise!Next
    <3>1. /\ servedAsOf'[k] \in servedAsOf[k] .. Len(events)
          /\ Promise!Answers(servedAsOf'[k], Ttl)
      BY <2>2, GetAnswers
    <3>2. Promise!Get(k)
      BY <2>2, <3>1, GetEffect DEF Promise!Get
    <3> QED
      BY <3>2 DEF Promise!Next
  <2>3. CASE View
    <3>1. /\ ApplyVisible
          /\ viewAsOf' = lastAppliedIdx'
          /\ reply' = [op |-> "view", now |-> clock, asOf |-> lastAppliedIdx']
          /\ UNCHANGED <<clock, events, arrived, servedAsOf>>
      BY <2>3 DEF View
    <3>2. /\ lastAppliedIdx' \in lastAppliedIdx .. Len(events)
          /\ \A i \in 1..lastAppliedIdx' : events[i].at <= clock - Lag
      BY <3>1, ApplyIndices, ApplyLagged
    <3>3. lastAppliedIdx' \in viewAsOf .. Len(events)
      BY <3>2, IndexTypes DEF Reached
    <3>4. \A i \in 1..Len(events) : Promise!Owed(i, clock) => i <= lastAppliedIdx'
      BY <3>1, ApplyFresh
    <3>5. clock - 0 = clock
      BY IndexTypes
    <3>6. Promise!Answers(lastAppliedIdx', 0)
      BY <3>2, <3>4, <3>5 DEF Promise!Answers, Promise!Visible
    <3>7. Promise!Scan
      BY <3>1, <3>3, <3>6 DEF Promise!Scan
    <3> QED
      BY <3>7 DEF Promise!Next
  <2>4. CASE AdvanceClock
    BY <2>4 DEF AdvanceClock, Promise!Next, Promise!AdvanceClock
  <2>5. CASE UNCHANGED vars
    BY <2>5 DEF vars, Promise!vars
  <2> QED
    BY <2>1, <2>2, <2>3, <2>4, <2>5 DEF Next, StepBack
<1>3. Spec => [](TypeOK /\ Reached /\ LaggedInv /\ FreshInv)
  BY TypeCorrect, ReadInvariant, PTL DEF ReadInv
<1> QED
  BY <1>1, <1>2, <1>3, PTL DEF Spec, Promise!Spec, ImplementsBoundedStaleness

-------------------------------------------------------------------------------
\* A cached copy is what the log made of its key when it was last served, unless it
\* is a list that the view goes on appending to.
CopiesAreConsistent ==
  \A k \in Keys : cacheFirstServedAt[k] # NotCached =>
    /\ Ttl > 0
    /\ Live(k) \/ cacheValue[k] = Projected(servedAsOf[k])[k]

ValueInv == /\ view = Projected(lastAppliedIdx)
            /\ CopiesAreConsistent
            /\ AnswersAreConsistent

\* The events of the store are such as the projectors are about.
LEMMA LogOfEvents == AreEvents(Event, Keys)
<1>1. ASSUME NEW e \in Event
      PROVE  e.key \in Keys /\ e.at \in Times /\ e.ver \in Versions
  BY DEF Event
<1>2. \A e \in Event : e.key \in Keys /\ e.at \in Int /\ e.ver \in Int
  <2>1. Times \subseteq Int
    BY TimesAssumption
  <2> QED
    BY <1>1, <2>1, VersionsAssumption
<1> QED
  BY <1>2 DEF AreEvents

\* What a prefix makes depends on the log's prefix only.
LEMMA ProjectedStays ==
  ASSUME TypeOK, events' = events \/ \E e \in Event : events' = Append(events, e),
         NEW n \in 0..Len(events)
  PROVE  Projected(n)' = Projected(n)
<1>1. CASE events' = events
  BY <1>1 DEF Projected
<1>2. ASSUME NEW e \in Event, events' = Append(events, e)
      PROVE  Projected(n)' = Projected(n)
  <2>1. SubSeq(Append(events, e), 1, n) = SubSeq(events, 1, n)
    BY DEF TypeOK
  <2>2. SubSeq(events', 1, n) = SubSeq(events, 1, n)
    BY <1>2, <2>1
  <2> QED
    BY <2>2 DEF Projected
<1> QED
  BY <1>1, <1>2

\* Applying the events that a read finds old enough goes on from the view.
LEMMA ApplyProjects ==
  ASSUME TypeOK, ApplyVisible, UNCHANGED events, view = Projected(lastAppliedIdx)
  PROVE  view' = Projected(lastAppliedIdx')
<1>1. CASE UNCHANGED store
  BY <1>1 DEF store
<1>2. ASSUME NEW n \in lastAppliedIdx .. Len(events), lastAppliedIdx' = n,
             view' = ProjectAll(Projector, view, SubSeq(events, lastAppliedIdx + 1, n))
      PROVE  view' = Projected(lastAppliedIdx')
  <2>1. PICK a, b : a = SubSeq(events, 1, lastAppliedIdx)
                    /\ b = SubSeq(events, lastAppliedIdx + 1, n)
    OBVIOUS
  <2>2. lastAppliedIdx \in 0..Len(events) /\ events \in Seq(Event) /\ Len(events) \in Nat
    BY DEF TypeOK
  <2>3. a \in Seq(Event) /\ b \in Seq(Event) /\ SubSeq(events, 1, n) = a \o b
    BY <2>1, <2>2
  <2>4. PICK empty : empty = [k \in Keys |-> <<>>]
    OBVIOUS
  <2>5. \A i : Projected(i) = ProjectAll(Projector, empty, SubSeq(events, 1, i))
    BY <2>4 DEF Projected
  <2>6. view = ProjectAll(Projector, empty, a)
    BY <2>1, <2>5
  <2>7. ProjectAll(Projector, empty, a \o b)
          = ProjectAll(Projector, ProjectAll(Projector, empty, a), b)
    BY <2>3, ProjectGoesOn
  <2>8. view' = ProjectAll(Projector, empty, a \o b)
    BY <1>2, <2>1, <2>6, <2>7
  <2>9. view' = Projected(n)
    BY <2>3, <2>5, <2>8
  <2> QED
    BY <1>2, <2>9
<1> QED
  BY <1>1, <1>2 DEF ApplyVisible

\* A get answers from the view, or from a copy that is as of its own time or live.
LEMMA GetValues ==
  ASSUME TypeOK, TypeOK', ValueInv, NEW k \in Keys, GetCached(k) \/ GetFromView(k)
  PROVE  ValueInv'
<1>1. /\ ApplyVisible
      /\ UNCHANGED <<clock, events, arrived, viewAsOf>>
      /\ servedAsOf' = [servedAsOf EXCEPT ![k] = servedAsOf'[k]]
      /\ reply' = [op |-> "get", key |-> k, now |-> clock, asOf |-> servedAsOf'[k]]
  BY GetEffect
<1>2. view' = Projected(lastAppliedIdx')
  BY <1>1, ApplyProjects DEF ValueInv
<1>3. \A n : Projected(n)' = Projected(n)
  BY <1>1 DEF Projected
<1>4. /\ servedAsOf'[k] \in Nat
      /\ \A c \in Keys : c # k => servedAsOf'[c] = servedAsOf[c]
  BY <1>1, IndexTypes DEF TypeOK
<1>5. ASSUME answer' = Projected(servedAsOf'[k])[k] PROVE AnswersAreConsistent'
  BY <1>1, <1>3, <1>5 DEF AnswersAreConsistent
<1>6. CASE GetCached(k) /\ Live(k)
  <2>1. answer' = view'[k] /\ servedAsOf' = [servedAsOf EXCEPT ![k] = lastAppliedIdx']
    BY <1>6 DEF GetCached, AnswerGet
  <2>2. servedAsOf'[k] = lastAppliedIdx'
    BY <2>1 DEF TypeOK
  <2>3. UNCHANGED <<cacheFirstServedAt, cacheValue>>
    BY <1>6 DEF GetCached, cache
  <2>4. CopiesAreConsistent'
    BY <1>3, <1>4, <1>6, <2>3 DEF ValueInv, CopiesAreConsistent, Live, InPlace
  <2> QED
    BY <1>2, <1>5, <2>1, <2>2, <2>4, <1>3 DEF ValueInv
<1>7. CASE GetCached(k) /\ ~Live(k)
  <2>1. answer' = cacheValue[k] /\ servedAsOf' = [servedAsOf EXCEPT ![k] = servedAsOf[k]]
    BY <1>7 DEF GetCached, AnswerGet
  <2>2. servedAsOf'[k] = servedAsOf[k]
    BY <2>1 DEF TypeOK
  <2>3. UNCHANGED <<cacheFirstServedAt, cacheValue>> /\ cacheFirstServedAt[k] # NotCached
    BY <1>7 DEF GetCached, cache, CacheHit
  <2>4. CopiesAreConsistent'
    BY <1>3, <1>4, <2>2, <2>3 DEF ValueInv, CopiesAreConsistent, Live, InPlace
  <2>5. answer' = Projected(servedAsOf'[k])[k]
    BY <1>7, <2>1, <2>2, <2>3 DEF ValueInv, CopiesAreConsistent
  <2> QED
    BY <1>2, <1>3, <1>5, <2>4, <2>5 DEF ValueInv
<1>8. CASE GetFromView(k)
  <2>1. answer' = view'[k] /\ servedAsOf' = [servedAsOf EXCEPT ![k] = lastAppliedIdx']
    BY <1>8 DEF GetFromView, AnswerGet
  <2>2. servedAsOf'[k] = lastAppliedIdx'
    BY <2>1 DEF TypeOK
  <2>3. CASE Ttl > 0
    <3>1. /\ cacheFirstServedAt' = [cacheFirstServedAt EXCEPT ![k] = clock]
          /\ cacheValue' = [cacheValue EXCEPT ![k] = view'[k]]
      BY <1>8, <2>3 DEF GetFromView
    <3>2. \A c \in Keys : /\ cacheValue'[c] = IF c = k THEN view'[k] ELSE cacheValue[c]
                          /\ c # k => cacheFirstServedAt'[c] = cacheFirstServedAt[c]
      BY <3>1 DEF TypeOK
    <3>3. CopiesAreConsistent'
      BY <1>2, <1>3, <1>4, <2>2, <2>3, <3>2
         DEF ValueInv, CopiesAreConsistent, Live, InPlace
    <3> QED
      BY <1>2, <1>3, <1>5, <2>1, <2>2, <3>3 DEF ValueInv
  <2>4. CASE ~(Ttl > 0)
    <3>1. UNCHANGED cacheFirstServedAt
      BY <1>8, <2>4 DEF GetFromView, cache
    <3>2. CopiesAreConsistent'
      BY <2>4, <3>1 DEF ValueInv, CopiesAreConsistent
    <3> QED
      BY <1>2, <1>3, <1>5, <2>1, <2>2, <3>2 DEF ValueInv
  <2> QED
    BY <2>3, <2>4
<1> QED
  BY <1>6, <1>7, <1>8

\* Every step keeps the view the projection of its prefix, and each copy of its own.
LEMMA ValueStep == TypeOK /\ TypeOK' /\ ValueInv /\ [Next]_vars => ValueInv'
<1> SUFFICES ASSUME TypeOK, TypeOK', ValueInv, [Next]_vars PROVE ValueInv'
  OBVIOUS
<1>1. ASSUME NEW e \in Event, Ingest(e) PROVE ValueInv'
  <2>1. /\ events' = Append(events, e)
        /\ UNCHANGED <<lastAppliedIdx, view, cacheFirstServedAt, cacheValue, answer, reply,
                       servedAsOf>>
    BY <1>1 DEF Ingest, store, cache
  <2>2. \A n \in 0..Len(events) : Projected(n)' = Projected(n)
    BY <2>1, ProjectedStays
  <2>3. /\ lastAppliedIdx \in 0..Len(events) /\ reply.asOf \in 0..Len(events)
        /\ \A k \in Keys : servedAsOf[k] \in 0..Len(events)
    BY DEF TypeOK
  <2>4. CopiesAreConsistent'
    BY <2>1, <2>2, <2>3 DEF ValueInv, CopiesAreConsistent, Live, InPlace
  <2>5. AnswersAreConsistent'
    BY <2>1, <2>2, <2>3 DEF ValueInv, AnswersAreConsistent
  <2>6. view' = Projected(lastAppliedIdx)'
    BY <2>1, <2>2, <2>3 DEF ValueInv
  <2> QED
    BY <2>4, <2>5, <2>6 DEF ValueInv
<1>2. ASSUME NEW k \in Keys, GetCached(k) \/ GetFromView(k) PROVE ValueInv'
  BY <1>2, GetValues
<1>3. CASE View
  <2>1. /\ ApplyVisible
        /\ reply' = [op |-> "view", now |-> clock, asOf |-> lastAppliedIdx']
        /\ answer' = view'
        /\ UNCHANGED <<events, cacheFirstServedAt, cacheValue, servedAsOf>>
    BY <1>3 DEF View, cache
  <2>2. view' = Projected(lastAppliedIdx')
    BY <2>1, ApplyProjects DEF ValueInv
  <2>3. \A n : Projected(n)' = Projected(n)
    BY <2>1 DEF Projected
  <2>4. CopiesAreConsistent'
    BY <2>1, <2>3 DEF ValueInv, CopiesAreConsistent, Live, InPlace
  <2>5. AnswersAreConsistent'
    BY <2>1, <2>2, <2>3 DEF AnswersAreConsistent
  <2> QED
    BY <2>2, <2>3, <2>4, <2>5 DEF ValueInv
<1>4. ASSUME UNCHANGED <<events, lastAppliedIdx, view, cacheFirstServedAt, cacheValue,
                         answer, reply, servedAsOf>>
      PROVE  ValueInv'
  BY <1>4 DEF ValueInv, Projected, CopiesAreConsistent, Live, InPlace, AnswersAreConsistent
<1>5. CASE AdvanceClock \/ StepBack
  BY <1>4, <1>5 DEF AdvanceClock, StepBack, store, cache
<1>6. CASE UNCHANGED vars
  BY <1>4, <1>6 DEF vars, store, cache
<1> QED
  BY <1>1, <1>2, <1>3, <1>5, <1>6 DEF Next

\* With any clock, every answer is what the projector makes of one prefix of the log.
LEMMA ValueInvariant == Spec => []ValueInv
<1>1. Init => ValueInv
  <2> SUFFICES ASSUME Init PROVE ValueInv
    OBVIOUS
  <2>1. SubSeq(events, 1, 0) = <<>>
    BY DEF Init
  <2>2. Projected(0) = [k \in Keys |-> <<>>]
    BY <2>1, ProjectNone DEF Projected
  <2> QED
    BY <2>2 DEF Init, ValueInv, CopiesAreConsistent, AnswersAreConsistent
<1> QED
  BY <1>1, ValueStep, TypeCorrect, PTL DEF Spec

\* No answer is a mixture: a get's, from the cache or not, and a view's are what one
\* prefix of the log makes.
THEOREM AnswersConsistent == Spec => []AnswersAreConsistent
BY ValueInvariant, PTL DEF ValueInv

\* Each event is projected once and in arrival order, and what is kept for a key is
\* the highest version, the latest time with ties to the later arrival, or every event.
THEOREM ViewProjects == Spec => []ViewIsProjection
<1>1. TypeOK /\ ValueInv => ViewIsProjection
  <2> SUFFICES ASSUME TypeOK, ValueInv PROVE ViewIsProjection
    OBVIOUS
  <2>1. PICK es : es = SubSeq(events, 1, lastAppliedIdx)
    OBVIOUS
  <2>2. es \in Seq(Event)
    BY <2>1 DEF TypeOK
  <2>3. view = ProjectAll(Projector, Empty(Keys), es)
    BY <2>1 DEF ValueInv, Projected, Empty
  <2>4. \A k \in Keys : view[k] = Kept(Projector, es, k)
    BY <2>2, <2>3, LogOfEvents, ProjectorsKeep, ProjectorAssumption
  <2> QED
    BY <2>1, <2>4 DEF ViewIsProjection, ValueInv
<1> QED
  BY <1>1, ValueInvariant, TypeCorrect, PTL

\* Each kind of projector keeps what its order says of the same log.
THEOREM KindsKeep == Spec => []KindsKeepTheirOrder
<1>1. TypeOK => KindsKeepTheirOrder
  <2> SUFFICES ASSUME TypeOK, NEW kind \in Kinds, NEW k \in Keys
               PROVE  ProjectAll(kind, [c \in Keys |-> <<>>], events)[k]
                        = Kept(kind, events, k)
    BY DEF KindsKeepTheirOrder
  <2>1. events \in Seq(Event)
    BY DEF TypeOK
  <2>2. ProjectAll(kind, Empty(Keys), events)[k] = Kept(kind, events, k)
    BY <2>1, LogOfEvents, ProjectorsKeep
  <2> QED
    BY <2>2 DEF Empty
<1> QED
  BY <1>1, TypeCorrect, PTL
===============================================================================
