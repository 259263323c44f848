--------------------------- MODULE ProjectorProofs ---------------------------
(***************************************************************************)
(* Proof that the projectors, called on the events of any log in turn,     *)
(* keep for each key what Kept says directly.                              *)
(***************************************************************************)
EXTENDS Projectors, TLAPS

\* Events as the projectors need them: of a key in K, with an integer time and version.
AreEvents(S, K) == \A e \in S : e.key \in K /\ e.at \in Int /\ e.ver \in Int

\* The projector calls as a fold, and the selection of a key's events as another.
Calls == INSTANCE Folding WITH op <- Project

SelectKey(k, kept, e) == IF e.key = k THEN Append(kept, e) ELSE kept
Selects == INSTANCE Folding WITH op <- SelectKey

\* An empty view.
Empty(K) == [c \in K |-> <<>>]

LEMMA ProjectIsFold ==
  \A kind, view, es : ProjectAll(kind, view, es) = Calls!Folded(kind, view, es)
BY DEF ProjectAll, FoldLeft, MapThenFoldSet, Max,
       Calls!Folded, Calls!FoldLeft, Calls!MapThenFoldSet, Calls!Max

LEMMA OfKeyIsFold == \A es, k : OfKey(es, k) = Selects!Folded(k, <<>>, es)
BY DEF OfKey, FoldLeft, MapThenFoldSet, Max, SelectKey,
       Selects!Folded, Selects!FoldLeft, Selects!MapThenFoldSet, Selects!Max

\* The projectors are called on one event after the other.
THEOREM ProjectNone == \A kind, view : ProjectAll(kind, view, <<>>) = view
BY ProjectIsFold, Calls!FoldEmpty

THEOREM ProjectOneMore ==
  \A kind, view, e, S : \A es \in Seq(S) :
    ProjectAll(kind, view, Append(es, e)) = Project(kind, ProjectAll(kind, view, es), e)
BY ProjectIsFold, Calls!FoldSnoc

THEOREM ProjectGoesOn ==
  \A kind, view, S : \A es, fs \in Seq(S) :
    ProjectAll(kind, view, es \o fs) = ProjectAll(kind, ProjectAll(kind, view, es), fs)
BY ProjectIsFold, Calls!FoldConcat

LEMMA OfKeyNone == \A k : OfKey(<<>>, k) = <<>>
BY OfKeyIsFold, Selects!FoldEmpty

LEMMA OfKeyOneMore ==
  \A k, e, S : \A es \in Seq(S) :
    OfKey(Append(es, e), k) = IF e.key = k THEN Append(OfKey(es, k), e) ELSE OfKey(es, k)
BY OfKeyIsFold, Selects!FoldSnoc DEF SelectKey

-------------------------------------------------------------------------------
\* The order in which the records of a kind replace each other.
Priority(kind, e) == IF kind = "by_version" THEN e.ver ELSE e.at

\* What a projector of records keeps for k, when it is val: no event, or the winner.
KeepsWinner(kind, es, k, val) ==
  \/ val = <<>> /\ \A i \in 1..Len(es) : es[i].key # k
  \/ \E i \in 1..Len(es) : val = <<es[i]>> /\ Wins(kind, es, k, i)

\* Calling it on an event makes next of a view: the event replaces what it outdoes.
CallMakes(kind, K, S, view, e, next) ==
  /\ next \in [K -> Seq(S)]
  /\ \A k \in K : next[k] =
       IF k = e.key /\ (view[k] = <<>> \/ Priority(kind, e) >= Priority(kind, view[k][1]))
       THEN <<e>> ELSE view[k]

\* One call of a projector of records.
LEMMA RecordCall ==
  ASSUME NEW kind \in {"by_version", "by_time"}, NEW K, NEW S, AreEvents(S, K),
         NEW view \in [K -> Seq(S)], NEW e \in S
  PROVE  CallMakes(kind, K, S, view, e, Project(kind, view, e))
<1>1. e.key \in K /\ <<e>> \in Seq(S)
  BY DEF AreEvents
<1>2. CASE kind = "by_version"
  BY <1>1, <1>2 DEF Project, ByVersion, Priority, CallMakes
<1>3. CASE kind = "by_time"
  BY <1>1, <1>3 DEF Project, ByTime, Priority, CallMakes
<1> QED
  BY <1>2, <1>3

\* Another event of a log changes the winner only of its own key.
LEMMA WinnerStays ==
  ASSUME NEW kind \in {"by_version", "by_time"}, NEW K, NEW S, AreEvents(S, K),
         NEW es \in Seq(S), NEW e \in S, NEW k \in K, NEW i \in 1..Len(es),
         Wins(kind, es, k, i), e.key = k => Priority(kind, e) < Priority(kind, es[i])
  PROVE  /\ i \in 1..Len(Append(es, e))
         /\ Append(es, e)[i] = es[i]
         /\ Wins(kind, Append(es, e), k, i)
<1>1. PICK n \in Nat : n = Len(es)
  OBVIOUS
<1>2. PICK fs : fs = Append(es, e)
  OBVIOUS
<1>3. Len(fs) = n + 1 /\ fs[n + 1] = e /\ \A j \in 1..n : fs[j] = es[j]
  BY <1>1, <1>2
<1>4. i \in 1..n /\ fs[i] = es[i] /\ es[i].key = k
  BY <1>1, <1>3 DEF Wins
<1>5. ASSUME NEW j \in 1..n + 1, fs[j].key = k, j # i
      PROVE  \/ Priority(kind, fs[j]) < Priority(kind, fs[i])
             \/ Priority(kind, fs[j]) = Priority(kind, fs[i]) /\ j < i
  <2>1. CASE j = n + 1
    BY <1>3, <1>4, <1>5, <2>1
  <2>2. CASE j \in 1..n
    BY <1>1, <1>3, <1>4, <1>5, <2>2 DEF Wins, Priority
  <2> QED
    BY <1>1, <2>1, <2>2
<1>6. Wins(kind, fs, k, i)
  BY <1>3, <1>4, <1>5 DEF Wins, Priority
<1> QED
  BY <1>1, <1>2, <1>3, <1>4, <1>6

\* An event that is not before the winner of its key is the next winner.
LEMMA NewWinner ==
  ASSUME NEW kind \in {"by_version", "by_time"}, NEW K, NEW S, AreEvents(S, K),
         NEW es \in Seq(S), NEW e \in S,
         \A j \in 1..Len(es) : es[j].key = e.key => Priority(kind, es[j]) <= Priority(kind, e)
  PROVE  \E i \in 1..Len(Append(es, e)) :
           <<e>> = <<Append(es, e)[i]>> /\ Wins(kind, Append(es, e), e.key, i)
<1>1. PICK n \in Nat : n = Len(es)
  OBVIOUS
<1>2. PICK fs : fs = Append(es, e)
  OBVIOUS
<1>3. Len(fs) = n + 1 /\ fs[n + 1] = e /\ \A j \in 1..n : fs[j] = es[j] /\ es[j] \in S
  BY <1>1, <1>2
<1>4. ASSUME NEW j \in 1..n + 1, fs[j].key = e.key, j # n + 1
      PROVE  \/ Priority(kind, fs[j]) < Priority(kind, fs[n + 1])
             \/ Priority(kind, fs[j]) = Priority(kind, fs[n + 1]) /\ j < n + 1
  <2>1. j \in 1..n /\ j < n + 1
    BY <1>4
  <2>2. Priority(kind, fs[j]) <= Priority(kind, fs[n + 1])
    BY <1>1, <1>3, <1>4, <2>1
  <2>3. Priority(kind, fs[j]) \in Int /\ Priority(kind, fs[n + 1]) \in Int
    BY <1>3, <2>1 DEF AreEvents, Priority
  <2> QED
    BY <2>1, <2>2, <2>3
<1>5. Wins(kind, fs, e.key, n + 1)
  BY <1>3, <1>4 DEF Wins, Priority
<1>6. n + 1 \in 1..Len(fs)
  BY <1>3
<1> QED
  BY <1>2, <1>3, <1>5, <1>6

\* Whatever the log, a projector of records keeps the winner of each key.
THEOREM RecordsKeep ==
  ASSUME NEW kind \in {"by_version", "by_time"}, NEW K, NEW S, AreEvents(S, K)
  PROVE  \A es \in Seq(S) :
           /\ ProjectAll(kind, Empty(K), es) \in [K -> Seq(S)]
           /\ \A k \in K : KeepsWinner(kind, es, k, ProjectAll(kind, Empty(K), es)[k])
<1> DEFINE T == {es \in Seq(S) :
                   /\ ProjectAll(kind, Empty(K), es) \in [K -> Seq(S)]
                   /\ \A k \in K : KeepsWinner(kind, es, k, ProjectAll(kind, Empty(K), es)[k])}
<1>1. <<>> \in T
  <2>1. ProjectAll(kind, Empty(K), <<>>) = Empty(K)
    BY ProjectNone
  <2>2. Empty(K) \in [K -> Seq(S)] /\ \A k \in K : Empty(K)[k] = <<>>
    BY DEF Empty
  <2>3. \A k \in K : KeepsWinner(kind, <<>>, k, <<>>)
    BY DEF KeepsWinner
  <2> QED
    BY <2>1, <2>2, <2>3
<1>2. ASSUME NEW es \in Seq(S), NEW e \in S, es \in T PROVE Append(es, e) \in T
  <2>1. PICK view : view = ProjectAll(kind, Empty(K), es)
    OBVIOUS
  <2>2. view \in [K -> Seq(S)] /\ \A k \in K : KeepsWinner(kind, es, k, view[k])
    BY <1>2, <2>1
  <2>3. PICK next : next = Project(kind, view, e)
    OBVIOUS
  <2>4. ProjectAll(kind, Empty(K), Append(es, e)) = next
    BY <2>1, <2>3, ProjectOneMore
  <2>5. /\ next \in [K -> Seq(S)]
        /\ \A k \in K : next[k] =
             IF k = e.key /\ (view[k] = <<>> \/ Priority(kind, e) >= Priority(kind, view[k][1]))
             THEN <<e>> ELSE view[k]
    <3>1. view \in [K -> Seq(S)]
      BY <2>2
    <3>2. CallMakes(kind, K, S, view, e, next)
      BY <2>3, <3>1, RecordCall
    <3> QED
      BY <3>2 DEF CallMakes
  <2>6. ASSUME NEW k \in K PROVE KeepsWinner(kind, Append(es, e), k, next[k])
    <3>1. CASE view[k] = <<>> /\ \A i \in 1..Len(es) : es[i].key # k
      <4>1. CASE k = e.key
        <5>1. next[k] = <<e>>
          BY <2>5, <3>1, <4>1
        <5>2. \E i \in 1..Len(Append(es, e)) :
                <<e>> = <<Append(es, e)[i]>> /\ Wins(kind, Append(es, e), e.key, i)
          BY <3>1, <4>1, NewWinner
        <5> QED
          BY <4>1, <5>1, <5>2 DEF KeepsWinner
      <4>2. CASE k # e.key
        <5>1. next[k] = <<>>
          BY <2>5, <3>1, <4>2
        <5>2. \A i \in 1..Len(Append(es, e)) : Append(es, e)[i].key # k
          BY <3>1, <4>2
        <5> QED
          BY <5>1, <5>2 DEF KeepsWinner
      <4> QED
        BY <4>1, <4>2
    <3>2. ASSUME NEW i \in 1..Len(es), view[k] = <<es[i]>>, Wins(kind, es, k, i)
          PROVE  KeepsWinner(kind, Append(es, e), k, next[k])
      <4>1. view[k] # <<>> /\ view[k][1] = es[i] /\ es[i] \in S
        BY <3>2
      <4>2. Priority(kind, es[i]) \in Int /\ Priority(kind, e) \in Int
        BY <4>1 DEF AreEvents, Priority
      <4>3. CASE k = e.key /\ Priority(kind, e) >= Priority(kind, es[i])
        <5>1. next[k] = <<e>>
          BY <2>5, <4>1, <4>3
        <5>2. ASSUME NEW j \in 1..Len(es), es[j].key = e.key
              PROVE  Priority(kind, es[j]) <= Priority(kind, e)
          <6>1. Priority(kind, es[j]) \in Int
            BY DEF AreEvents, Priority
          <6>2. j # i => Priority(kind, es[j]) <= Priority(kind, es[i])
            BY <3>2, <4>2, <4>3, <5>2, <6>1 DEF Wins, Priority
          <6> QED
            BY <4>2, <4>3, <6>1, <6>2
        <5>3. \E j \in 1..Len(Append(es, e)) :
                <<e>> = <<Append(es, e)[j]>> /\ Wins(kind, Append(es, e), e.key, j)
          BY <5>2, NewWinner
        <5> QED
          BY <4>3, <5>1, <5>3 DEF KeepsWinner
      <4>4. CASE ~(k = e.key /\ Priority(kind, e) >= Priority(kind, es[i]))
        <5>1. next[k] = <<es[i]>>
          BY <2>5, <3>2, <4>1, <4>4
        <5>2. e.key = k => Priority(kind, e) < Priority(kind, es[i])
          BY <4>2, <4>4
        <5>3. /\ i \in 1..Len(Append(es, e))
              /\ Append(es, e)[i] = es[i]
              /\ Wins(kind, Append(es, e), k, i)
          BY <3>2, <5>2, WinnerStays
        <5> QED
          BY <5>1, <5>3 DEF KeepsWinner
      <4> QED
        BY <4>3, <4>4
    <3> QED
      BY <2>2, <3>1, <3>2 DEF KeepsWinner
  <2>7. Append(es, e) \in Seq(S)
    OBVIOUS
  <2> QED
    BY <2>4, <2>5, <2>6, <2>7
<1> HIDE DEF T
<1>3. Seq(S) \subseteq T
  BY <1>1, <1>2, Calls!AllSeqs
<1> QED
  BY <1>3 DEF T

\* A log has at most one winner for a key.
LEMMA OneWinner ==
  ASSUME NEW kind \in {"by_version", "by_time"}, NEW K, NEW S, AreEvents(S, K),
         NEW es \in Seq(S), NEW k, NEW i \in 1..Len(es), NEW j \in 1..Len(es),
         Wins(kind, es, k, i), Wins(kind, es, k, j)
  PROVE  i = j
<1> SUFFICES ASSUME i # j PROVE FALSE
  OBVIOUS
<1>1. es[i] \in S /\ es[j] \in S /\ es[i].key = k /\ es[j].key = k
  BY DEF Wins
<1>2. Priority(kind, es[i]) \in Int /\ Priority(kind, es[j]) \in Int
  BY <1>1 DEF AreEvents, Priority
<1>3. \/ Priority(kind, es[j]) < Priority(kind, es[i])
      \/ Priority(kind, es[j]) = Priority(kind, es[i]) /\ j < i
  BY <1>1 DEF Wins, Priority
<1>4. \/ Priority(kind, es[i]) < Priority(kind, es[j])
      \/ Priority(kind, es[i]) = Priority(kind, es[j]) /\ i < j
  BY <1>1 DEF Wins, Priority
<1> QED
  BY <1>2, <1>3, <1>4

\* What keeps the winner is what Kept says.
LEMMA WinnerIsKept ==
  ASSUME NEW kind \in {"by_version", "by_time"}, NEW K, NEW S, AreEvents(S, K),
         NEW es \in Seq(S), NEW k, NEW val, KeepsWinner(kind, es, k, val)
  PROVE  val = Kept(kind, es, k)
<1>1. PICK winners : winners = {i \in 1..Len(es) : Wins(kind, es, k, i)}
  OBVIOUS
<1>2. Kept(kind, es, k) = IF winners = {} THEN <<>> ELSE <<es[CHOOSE i \in winners : TRUE]>>
  BY <1>1 DEF Kept
<1>3. CASE val = <<>> /\ \A i \in 1..Len(es) : es[i].key # k
  <2>1. winners = {}
    BY <1>1, <1>3 DEF Wins
  <2> QED
    BY <1>2, <1>3, <2>1
<1>4. ASSUME NEW i \in 1..Len(es), val = <<es[i]>>, Wins(kind, es, k, i)
      PROVE  val = Kept(kind, es, k)
  <2>1. winners = {i}
    BY <1>1, <1>4, OneWinner
  <2>2. (CHOOSE j \in winners : TRUE) = i
    BY <2>1
  <2> QED
    BY <1>2, <1>4, <2>1, <2>2
<1> QED
  BY <1>3, <1>4 DEF KeepsWinner

\* Whatever the log, a projector that appends keeps the events of each key.
THEOREM ListsKeep ==
  ASSUME NEW K, NEW S, AreEvents(S, K)
  PROVE  \A es \in Seq(S) :
           /\ ProjectAll("append", Empty(K), es) \in [K -> Seq(S)]
           /\ \A k \in K : ProjectAll("append", Empty(K), es)[k] = OfKey(es, k)
<1> DEFINE T == {es \in Seq(S) :
                   /\ ProjectAll("append", Empty(K), es) \in [K -> Seq(S)]
                   /\ \A k \in K : ProjectAll("append", Empty(K), es)[k] = OfKey(es, k)}
<1>1. <<>> \in T
  <2>1. Empty(K) \in [K -> Seq(S)] /\ \A k \in K : Empty(K)[k] = <<>>
    BY DEF Empty
  <2> QED
    BY <2>1, ProjectNone, OfKeyNone
<1>2. ASSUME NEW es \in Seq(S), NEW e \in S, es \in T PROVE Append(es, e) \in T
  <2>1. PICK view : view = ProjectAll("append", Empty(K), es)
    OBVIOUS
  <2>2. view \in [K -> Seq(S)] /\ \A k \in K : view[k] = OfKey(es, k)
    BY <1>2, <2>1
  <2>3. ProjectAll("append", Empty(K), Append(es, e)) = Appended(view, e)
    BY <2>1, ProjectOneMore DEF Project
  <2>4. e.key \in K
    BY DEF AreEvents
  <2>5. /\ Appended(view, e) \in [K -> Seq(S)]
        /\ \A k \in K : Appended(view, e)[k] =
             IF e.key = k THEN Append(view[k], e) ELSE view[k]
    BY <2>2, <2>4 DEF Appended
  <2>6. ASSUME NEW k \in K PROVE Appended(view, e)[k] = OfKey(Append(es, e), k)
    <3>1. PICK kept : kept = OfKey(es, k)
      OBVIOUS
    <3>2. OfKey(Append(es, e), k) = IF e.key = k THEN Append(kept, e) ELSE kept
      BY <3>1, OfKeyOneMore
    <3> QED
      BY <2>2, <2>5, <3>1, <3>2
  <2>7. Append(es, e) \in Seq(S)
    OBVIOUS
  <2> QED
    BY <2>3, <2>5, <2>6, <2>7
<1> HIDE DEF T
<1>3. Seq(S) \subseteq T
  BY <1>1, <1>2, Calls!AllSeqs
<1> QED
  BY <1>3 DEF T

\* What a sequence holds after one more.
LEMMA ToSetAppend ==
  ASSUME NEW S, NEW s \in Seq(S), NEW m \in S
  PROVE  ToSet(Append(s, m)) = ToSet(s) \cup {m}
<1>1. DOMAIN Append(s, m) = DOMAIN s \cup {Len(s) + 1}
  OBVIOUS
<1>2. \A i \in DOMAIN s : Append(s, m)[i] = s[i]
  OBVIOUS
<1>3. Append(s, m)[Len(s) + 1] = m
  OBVIOUS
<1> QED BY <1>1, <1>2, <1>3, Zenon DEF ToSet

\* The events of k, as a set.
EventsOf(es, k) == {es[i] : i \in {j \in 1..Len(es) : es[j].key = k}}

\* The selection of a key's events loses none of them, and takes no others.
THEOREM OfKeyHolds ==
  ASSUME NEW S, NEW k
  PROVE  \A es \in Seq(S) : OfKey(es, k) \in Seq(S) /\ ToSet(OfKey(es, k)) = EventsOf(es, k)
<1> DEFINE T == {es \in Seq(S) : /\ OfKey(es, k) \in Seq(S)
                                /\ ToSet(OfKey(es, k)) = EventsOf(es, k)}
<1>1. <<>> \in T
  <2>1. PICK es : es = <<>>
    OBVIOUS
  <2>2. es \in Seq(S) /\ DOMAIN es = {} /\ 1..Len(es) = {}
    BY <2>1
  <2>3. ToSet(es) = {}
    BY <2>2, Zenon DEF ToSet
  <2>4. EventsOf(es, k) = {}
    BY <2>2, Zenon DEF EventsOf
  <2>5. OfKey(es, k) = es
    BY <2>1, OfKeyNone, Zenon
  <2>6. es \in T
    BY <2>2, <2>3, <2>4, <2>5, Zenon
  <2> QED
    BY <2>1, <2>6, Zenon
<1>2. ASSUME NEW es \in Seq(S), NEW e \in S, es \in T PROVE Append(es, e) \in T
  <2>1. PICK kept : kept = OfKey(es, k)
    OBVIOUS
  <2>2. kept \in Seq(S) /\ ToSet(kept) = EventsOf(es, k)
    BY <1>2, <2>1
  <2>3. OfKey(Append(es, e), k) = IF e.key = k THEN Append(kept, e) ELSE kept
    BY <2>1, OfKeyOneMore
  <2>4. EventsOf(Append(es, e), k) = EventsOf(es, k) \cup (IF e.key = k THEN {e} ELSE {})
    <3>1. PICK n \in Nat : n = Len(es)
      OBVIOUS
    <3>2. PICK fs : fs = Append(es, e)
      OBVIOUS
    <3>3. Len(fs) = n + 1 /\ fs[n + 1] = e /\ \A i \in 1..n : fs[i] = es[i]
      BY <3>1, <3>2
    <3>4. 1..(n + 1) = (1..n) \cup {n + 1}
      OBVIOUS
    <3>5. /\ EventsOf(es, k) = {es[i] : i \in {j \in 1..n : es[j].key = k}}
          /\ EventsOf(fs, k) = {fs[i] : i \in {j \in 1..(n + 1) : fs[j].key = k}}
      BY <3>1, <3>3 DEF EventsOf
    <3>6. CASE e.key = k
      <4>1. {j \in 1..(n + 1) : fs[j].key = k} = {j \in 1..n : es[j].key = k} \cup {n + 1}
        BY <3>3, <3>4, <3>6
      <4>2. EventsOf(fs, k) = EventsOf(es, k) \cup {e}
        BY <3>3, <3>5, <4>1
      <4> QED
        BY <3>2, <3>6, <4>2
    <3>7. CASE e.key # k
      <4>1. {j \in 1..(n + 1) : fs[j].key = k} = {j \in 1..n : es[j].key = k}
        BY <3>3, <3>4, <3>7
      <4>2. EventsOf(fs, k) = EventsOf(es, k)
        BY <3>3, <3>5, <4>1
      <4> QED
        BY <3>2, <3>7, <4>2
    <3> QED
      BY <3>6, <3>7
  <2>5. ToSet(Append(kept, e)) = ToSet(kept) \cup {e}
    BY <2>2, ToSetAppend
  <2>6. Append(kept, e) \in Seq(S)
    BY <2>2
  <2>7. /\ OfKey(Append(es, e), k) \in Seq(S)
        /\ ToSet(OfKey(Append(es, e), k)) = EventsOf(Append(es, e), k)
    <3>1. CASE e.key = k
      BY <2>2, <2>3, <2>4, <2>5, <2>6, <3>1
    <3>2. CASE e.key # k
      <4>1. EventsOf(Append(es, e), k) = EventsOf(es, k)
        BY <2>4, <3>2
      <4>2. OfKey(Append(es, e), k) = kept
        BY <2>3, <3>2
      <4> QED
        BY <2>2, <4>1, <4>2
    <3> QED
      BY <3>1, <3>2
  <2>8. Append(es, e) \in Seq(S)
    OBVIOUS
  <2> QED
    BY <2>7, <2>8
<1> HIDE DEF T
<1>3. Seq(S) \subseteq T
  BY <1>1, <1>2, Calls!AllSeqs
<1> QED
  BY <1>3 DEF T

\* Whatever the log and the kind, a projector keeps what its order says.
THEOREM ProjectorsKeep ==
  ASSUME NEW kind \in Kinds, NEW K, NEW S, AreEvents(S, K), NEW es \in Seq(S), NEW k \in K
  PROVE  ProjectAll(kind, Empty(K), es)[k] = Kept(kind, es, k)
<1>1. CASE kind = "append"
  BY <1>1, ListsKeep DEF Kept
<1>2. CASE kind \in {"by_version", "by_time"}
  BY <1>2, RecordsKeep, WinnerIsKept
<1> QED
  BY <1>1, <1>2 DEF Kinds
===============================================================================
