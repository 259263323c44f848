--------------------------- MODULE EvaluationProofs ---------------------------
(***************************************************************************)
(* Proofs that the tasks are fair: what the sources hold of any prefix of  *)
(* World's stream, for any number of customers, orders, ticks and          *)
(* scenarios, and how that decides an honest agent's answers.              *)
(***************************************************************************)
EXTENDS Evaluation, WorldProofs, ProjectorProofs

-------------------------------------------------------------------------------
(* What is read. *)

\* The function that Reading defines by recursion.
ReadsUpTo(offsets, n, h) ==
  h = [i \in 0..n |-> IF i = 0 THEN <<>>
                      ELSE IF i \in offsets THEN Append(h[i - 1], stream[i]) ELSE h[i - 1]]

LEMMA ReadsExists ==
  ASSUME NEW offsets, NEW n \in Nat
  PROVE  \E h : ReadsUpTo(offsets, n, h)
<1> DEFINE T == {m \in Nat : \E h : ReadsUpTo(offsets, m, h)}
<1>1. 0 \in T
  <2>1. PICK h : h = [i \in 0..0 |-> <<>>]
    OBVIOUS
  <2>2. ReadsUpTo(offsets, 0, h)
    BY <2>1 DEF ReadsUpTo
  <2> QED
    BY <2>2
<1>2. ASSUME NEW m \in Nat, m \in T PROVE m + 1 \in T
  <2>1. PICK g : ReadsUpTo(offsets, m, g)
    BY <1>2
  <2>2. PICK last : last = IF m + 1 \in offsets THEN Append(g[m], stream[m + 1]) ELSE g[m]
    OBVIOUS
  <2>3. PICK h : h = [i \in 0..m + 1 |-> IF i = m + 1 THEN last ELSE g[i]]
    OBVIOUS
  <2>4. ASSUME NEW i \in 0..m + 1
        PROVE  h[i] = IF i = 0 THEN <<>>
                      ELSE IF i \in offsets THEN Append(h[i - 1], stream[i]) ELSE h[i - 1]
    <3>1. CASE i = m + 1
      <4>1. i - 1 = m /\ m \in 0..m + 1 /\ m # m + 1 /\ i # 0
        BY <3>1
      <4>2. h[i] = last /\ h[i - 1] = g[m]
        BY <2>3, <3>1, <4>1
      <4> QED
        BY <2>2, <3>1, <4>1, <4>2
    <3>2. CASE i # m + 1
      <4>1. i \in 0..m /\ h[i] = g[i]
        BY <2>3, <3>2
      <4>2. CASE i = 0
        BY <2>1, <4>1, <4>2 DEF ReadsUpTo
      <4>3. CASE i # 0
        <5>1. i - 1 \in 0..m + 1 /\ i - 1 # m + 1
          BY <4>1, <4>3
        <5>2. h[i - 1] = g[i - 1]
          BY <2>3, <5>1
        <5>3. g[i] = IF i \in offsets THEN Append(g[i - 1], stream[i]) ELSE g[i - 1]
          BY <2>1, <4>1, <4>3 DEF ReadsUpTo
        <5> QED
          BY <4>1, <4>3, <5>2, <5>3
      <4> QED
        BY <4>2, <4>3
    <3> QED
      BY <3>1, <3>2
  <2>5. ReadsUpTo(offsets, m + 1, h)
    <3>1. h = [i \in 0..m + 1 |-> h[i]]
      BY <2>3
    <3> QED
      BY <2>4, <3>1 DEF ReadsUpTo
  <2> QED
    BY <2>5
<1> HIDE DEF T
<1>3. Nat \subseteq T
  BY <1>1, <1>2, Calls!AllNats
<1> QED
  BY <1>3 DEF T

\* Reading less goes through the same values.
LEMMA ReadsAgree ==
  ASSUME NEW offsets, NEW n \in Nat, NEW h, ReadsUpTo(offsets, n + 1, h), NEW g, ReadsUpTo(offsets, n, g)
  PROVE  h[n] = g[n]
<1> DEFINE T == {m \in Nat : m <= n => h[m] = g[m]}
<1>1. 0 \in T
  <2>1. 0 \in 0..n + 1 /\ 0 \in 0..n
    OBVIOUS
  <2>2. h[0] = <<>> /\ g[0] = <<>>
    BY <2>1 DEF ReadsUpTo
  <2> QED
    BY <2>2
<1>2. ASSUME NEW m \in Nat, m \in T PROVE m + 1 \in T
  <2>1. CASE m + 1 <= n
    <3>1. m + 1 \in 0..n + 1 /\ m + 1 \in 0..n /\ m + 1 # 0 /\ (m + 1) - 1 = m /\ m <= n
      BY <2>1
    <3>2. h[m + 1] = IF m + 1 \in offsets THEN Append(h[m], stream[m + 1]) ELSE h[m]
      BY <3>1 DEF ReadsUpTo
    <3>3. g[m + 1] = IF m + 1 \in offsets THEN Append(g[m], stream[m + 1]) ELSE g[m]
      BY <3>1 DEF ReadsUpTo
    <3> QED
      BY <1>2, <3>1, <3>2, <3>3
  <2>2. CASE ~(m + 1 <= n)
    BY <2>2
  <2> QED
    BY <2>1, <2>2
<1> HIDE DEF T
<1>3. Nat \subseteq T
  BY <1>1, <1>2, Calls!AllNats
<1> QED
  BY <1>3 DEF T

\* It reads one message after the other.
LEMMA ReadingIs ==
  ASSUME NEW offsets, NEW n \in Nat
  PROVE  \E h : ReadsUpTo(offsets, n, h) /\ Reading(offsets, n) = h[n]
<1>1. \E h : ReadsUpTo(offsets, n, h)
  BY ReadsExists
<1>2. PICK h : h = CHOOSE g : ReadsUpTo(offsets, n, g)
  OBVIOUS
<1>3. ReadsUpTo(offsets, n, h)
  BY <1>1, <1>2
<1>4. Reading(offsets, n) = h[n]
  BY <1>2 DEF Reading, ReadsUpTo
<1> QED
  BY <1>3, <1>4

LEMMA ReadingNone ==
  ASSUME NEW offsets
  PROVE  Reading(offsets, 0) = <<>>
<1>1. PICK h : ReadsUpTo(offsets, 0, h) /\ Reading(offsets, 0) = h[0]
  BY ReadingIs
<1>2. 0 \in 0..0
  OBVIOUS
<1> QED
  BY <1>1, <1>2 DEF ReadsUpTo

LEMMA ReadingOneMore ==
  ASSUME NEW offsets, NEW n \in Nat
  PROVE  Reading(offsets, n + 1) = IF n + 1 \in offsets
                                   THEN Append(Reading(offsets, n), stream[n + 1])
                                   ELSE Reading(offsets, n)
<1>1. PICK g : ReadsUpTo(offsets, n, g) /\ Reading(offsets, n) = g[n]
  BY ReadingIs
<1>2. PICK h : ReadsUpTo(offsets, n + 1, h) /\ Reading(offsets, n + 1) = h[n + 1]
  <2>1. n + 1 \in Nat
    OBVIOUS
  <2> QED
    BY <2>1, ReadingIs
<1>3. h[n] = g[n]
  BY <1>1, <1>2, ReadsAgree
<1>4. n + 1 \in 0..n + 1 /\ n + 1 # 0 /\ (n + 1) - 1 = n
  OBVIOUS
<1>5. h[n + 1] = IF n + 1 \in offsets THEN Append(h[n], stream[n + 1]) ELSE h[n]
  BY <1>2, <1>4 DEF ReadsUpTo
<1> QED
  BY <1>1, <1>2, <1>3, <1>5

\* The messages at the offsets.
MessagesAt(offsets) == {stream[i] : i \in offsets}

\* The sequence s holds the messages at the offsets up to n and no others, the last at
\* its end.
Gathered(offsets, n, s) ==
  /\ s \in Seq(MessagesAt(offsets))
  /\ \A i \in 1..Len(s) : \E j \in 1..n : j \in offsets /\ s[i] = stream[j]
  /\ \A j \in 1..n : j \in offsets => \E i \in 1..Len(s) : s[i] = stream[j]
  /\ s # <<>> => \E j \in 1..n : /\ j \in offsets /\ s[Len(s)] = stream[j]
                                 /\ \A i \in 1..n : i \in offsets => i <= j

\* Another message of the offsets goes to the end.
LEMMA GatheredMore ==
  ASSUME NEW offsets, NEW n \in Nat, NEW s, Gathered(offsets, n, s), n + 1 \in offsets
  PROVE  Gathered(offsets, n + 1, Append(s, stream[n + 1]))
<1>1. PICK S, e, t : S = MessagesAt(offsets) /\ e = stream[n + 1] /\ t = Append(s, e)
  OBVIOUS
<1>2. s \in Seq(S) /\ e \in S
  BY <1>1 DEF Gathered, MessagesAt
<1>3. /\ t \in Seq(S) /\ DOMAIN t = 1..Len(s) + 1 /\ DOMAIN s = 1..Len(s) /\ Len(s) \in Nat
      /\ t[Len(s) + 1] = e
      /\ \A i \in DOMAIN s : t[i] = s[i]
  BY <1>1, <1>2, Appending
<1>4. Len(t) = Len(s) + 1 /\ t # <<>>
  BY <1>1, <1>2, AppendProperties
<1>5. ASSUME NEW i \in 1..Len(t)
      PROVE  \E j \in 1..n + 1 : j \in offsets /\ t[i] = stream[j]
  <2>1. CASE i = Len(s) + 1
    BY <1>1, <1>3, <2>1
  <2>2. CASE i # Len(s) + 1
    <3>1. i \in 1..Len(s) /\ t[i] = s[i]
      BY <1>3, <1>4, <2>2
    <3>2. PICK j \in 1..n : j \in offsets /\ s[i] = stream[j]
      BY <3>1 DEF Gathered
    <3> QED
      BY <3>1, <3>2
  <2> QED
    BY <2>1, <2>2
<1>6. ASSUME NEW j \in 1..n + 1, j \in offsets
      PROVE  \E i \in 1..Len(t) : t[i] = stream[j]
  <2>1. CASE j = n + 1
    <3>1. Len(s) + 1 \in 1..Len(t)
      BY <1>3, <1>4
    <3> QED
      BY <1>1, <1>3, <2>1, <3>1
  <2>2. CASE j # n + 1
    <3>1. j \in 1..n
      BY <2>2
    <3>2. PICK i \in 1..Len(s) : s[i] = stream[j]
      BY <1>6, <3>1 DEF Gathered
    <3>3. i \in 1..Len(t) /\ t[i] = s[i]
      BY <1>3, <1>4
    <3> QED
      BY <3>2, <3>3
  <2> QED
    BY <2>1, <2>2
<1>7. \E j \in 1..n + 1 : /\ j \in offsets /\ t[Len(t)] = stream[j]
                          /\ \A i \in 1..n + 1 : i \in offsets => i <= j
  <2>1. n + 1 \in 1..n + 1 /\ \A i \in 1..n + 1 : i <= n + 1
    OBVIOUS
  <2> QED
    BY <1>1, <1>3, <1>4, <2>1
<1>8. Gathered(offsets, n + 1, t)
  BY <1>1, <1>3, <1>5, <1>6, <1>7 DEF Gathered
<1> QED
  BY <1>1, <1>8

LEMMA GatheredSame ==
  ASSUME NEW offsets, NEW n \in Nat, NEW s, Gathered(offsets, n, s), n + 1 \notin offsets
  PROVE  Gathered(offsets, n + 1, s)
<1>1. /\ \A j \in 1..n : j \in 1..n + 1
      /\ \A j \in 1..n + 1 : j \in offsets => j \in 1..n
  OBVIOUS
<1>2. \A i \in 1..Len(s) : \E j \in 1..n + 1 : j \in offsets /\ s[i] = stream[j]
  BY <1>1 DEF Gathered
<1>3. \A j \in 1..n + 1 : j \in offsets => \E i \in 1..Len(s) : s[i] = stream[j]
  BY <1>1 DEF Gathered
<1>4. s # <<>> => \E j \in 1..n + 1 : /\ j \in offsets /\ s[Len(s)] = stream[j]
                                     /\ \A i \in 1..n + 1 : i \in offsets => i <= j
  BY <1>1 DEF Gathered
<1>5. s \in Seq(MessagesAt(offsets))
  BY DEF Gathered
<1> QED
  BY <1>2, <1>3, <1>4, <1>5 DEF Gathered

\* What is read is what there is to read.
LEMMA ReadingGathers ==
  ASSUME NEW offsets, NEW n \in Nat
  PROVE  Gathered(offsets, n, Reading(offsets, n))
<1> DEFINE T == {m \in Nat : Gathered(offsets, m, Reading(offsets, m))}
<1>1. 0 \in T
  <2>1. <<>> \in Seq(MessagesAt(offsets)) /\ Len(<<>>) = 0
    OBVIOUS
  <2>2. Gathered(offsets, 0, <<>>)
    BY <2>1 DEF Gathered
  <2> QED
    BY <2>2, ReadingNone
<1>2. ASSUME NEW m \in Nat, m \in T PROVE m + 1 \in T
  <2>1. Gathered(offsets, m, Reading(offsets, m)) /\ m + 1 \in Nat
    BY <1>2
  <2>2. CASE m + 1 \in offsets
    <3>1. Reading(offsets, m + 1) = Append(Reading(offsets, m), stream[m + 1])
      BY <2>2, ReadingOneMore
    <3>2. Gathered(offsets, m + 1, Append(Reading(offsets, m), stream[m + 1]))
      BY <2>1, <2>2, GatheredMore, Zenon
    <3> QED
      BY <2>1, <3>1, <3>2, Zenon
  <2>3. CASE m + 1 \notin offsets
    <3>1. Reading(offsets, m + 1) = Reading(offsets, m)
      BY <2>3, ReadingOneMore
    <3> QED
      BY <2>1, <2>3, <3>1, GatheredSame
  <2> QED
    BY <2>2, <2>3
<1> HIDE DEF T
<1>3. Nat \subseteq T
  BY <1>1, <1>2, Calls!AllNats
<1> QED
  BY <1>3 DEF T

\* What is read is the same until there is another message of the offsets.
LEMMA ReadingSame ==
  ASSUME NEW offsets, NEW m \in Nat, NEW n \in Nat, m <= n,
         \A i \in m + 1 .. n : i \notin offsets
  PROVE  Reading(offsets, n) = Reading(offsets, m)
<1> DEFINE T == {k \in Nat : m <= k /\ k <= n => Reading(offsets, k) = Reading(offsets, m)}
<1>1. 0 \in T
  <2>1. m <= 0 => m = 0
    OBVIOUS
  <2> QED
    BY <2>1
<1>2. ASSUME NEW k \in Nat, k \in T PROVE k + 1 \in T
  <2>1. CASE m <= k /\ k + 1 <= n
    <3>1. k <= n /\ k + 1 \in m + 1 .. n
      BY <2>1
    <3>2. Reading(offsets, k) = Reading(offsets, m)
      BY <1>2, <2>1, <3>1
    <3>3. Reading(offsets, k + 1) = Reading(offsets, k)
      BY <3>1, ReadingOneMore
    <3> QED
      BY <3>2, <3>3
  <2>2. CASE ~(m <= k)
    <3>1. m <= k + 1 => k + 1 = m
      BY <2>2
    <3> QED
      BY <3>1
  <2>3. CASE ~(k + 1 <= n)
    BY <2>3
  <2> QED
    BY <2>1, <2>2, <2>3
<1> HIDE DEF T
<1>3. Nat \subseteq T
  BY <1>1, <1>2, Calls!AllNats
<1> QED
  BY <1>3 DEF T

-------------------------------------------------------------------------------
(* What the stores and the views make of it. *)

\* The last of what has been read, as a store or a LAST_VALUE gives it.
Latest(s) == IF s = <<>> THEN <<>> ELSE <<s[Len(s)]>>

\* The messages at the offsets are about k, none behind an earlier one in the order by
\* which its projector replaces records.
AboutOne(offsets, k) ==
  \A i \in offsets : /\ i \in Nat
                     /\ stream[i].key = k /\ stream[i].at \in Int /\ stream[i].ver \in Int
Sorted(kind, offsets) ==
  \A i, j \in offsets : i <= j => Priority(kind, stream[i]) <= Priority(kind, stream[j])

LEMMA AreAboutOne ==
  ASSUME NEW offsets, NEW k, AboutOne(offsets, k)
  PROVE  AreEvents(MessagesAt(offsets), {k})
BY DEF AboutOne, MessagesAt, AreEvents

\* A store of records that reads in this order has the last one.
LEMMA RecordKept ==
  ASSUME NEW kind \in {"by_version", "by_time"}, NEW offsets, NEW k,
         AboutOne(offsets, k), Sorted(kind, offsets), NEW n \in Nat
  PROVE  ProjectAll(kind, Empty({k}), Reading(offsets, n))[k] = Latest(Reading(offsets, n))
<1> DEFINE Got(m) == ProjectAll(kind, Empty({k}), Reading(offsets, m))[k]
           T == {m \in Nat : Got(m) = Latest(Reading(offsets, m))}
<1>1. 0 \in T
  <2>1. Reading(offsets, 0) = <<>>
    BY ReadingNone
  <2>2. ProjectAll(kind, Empty({k}), Reading(offsets, 0)) = Empty({k})
    BY <2>1, ProjectNone, Zenon
  <2>3. Empty({k})[k] = <<>>
    BY DEF Empty
  <2>4. Got(0) = <<>> /\ Latest(Reading(offsets, 0)) = <<>>
    BY <2>1, <2>2, <2>3 DEF Latest
  <2> QED
    BY <2>4
<1>2. ASSUME NEW m \in Nat, m \in T PROVE m + 1 \in T
  <2>1. CASE m + 1 \notin offsets
    <3>1. Reading(offsets, m + 1) = Reading(offsets, m)
      BY <2>1, ReadingOneMore
    <3> QED
      BY <1>2, <3>1
  <2>2. CASE m + 1 \in offsets
    <3>1. PICK es, e, S : /\ es = Reading(offsets, m) /\ e = stream[m + 1]
                          /\ S = MessagesAt(offsets)
      OBVIOUS
    <3>2. PICK view, next, t : /\ view = ProjectAll(kind, Empty({k}), es)
                               /\ next = Project(kind, view, e) /\ t = Append(es, e)
      OBVIOUS
    <3>3. es \in Seq(S) /\ e \in S /\ e.key = k
      <4>1. Gathered(offsets, m, es)
        BY <3>1, ReadingGathers
      <4>2. e \in S
        BY <2>2, <3>1 DEF MessagesAt
      <4> QED
        BY <2>2, <3>1, <4>1, <4>2 DEF Gathered, AboutOne
    <3>4. AreEvents(S, {k})
      BY <3>1, AreAboutOne
    <3>5. view \in [{k} -> Seq(S)]
      BY <3>2, <3>3, <3>4, RecordsKeep
    <3>6. view[k] = Latest(es)
      BY <1>2, <3>1, <3>2
    <3>7. next[k] = IF view[k] = <<>> \/ Priority(kind, e) >= Priority(kind, view[k][1])
                    THEN <<e>> ELSE view[k]
      <4>1. CallMakes(kind, {k}, S, view, e, next)
        BY <3>2, <3>3, <3>4, <3>5, RecordCall
      <4> QED
        BY <3>3, <4>1 DEF CallMakes
    <3>8. next[k] = <<e>>
      <4>1. CASE es = <<>>
        BY <3>6, <3>7, <4>1 DEF Latest
      <4>2. CASE es # <<>>
        <5>1. PICK j \in 1..m : j \in offsets /\ es[Len(es)] = stream[j]
          <6>1. Gathered(offsets, m, es)
            BY <3>1, ReadingGathers
          <6> QED
            BY <4>2, <6>1 DEF Gathered
        <5>2. view[k] = <<stream[j]>>
          BY <3>6, <4>2, <5>1 DEF Latest
        <5>3. Priority(kind, stream[j]) <= Priority(kind, e)
          BY <2>2, <3>1, <5>1 DEF Sorted
        <5>4. Priority(kind, stream[j]) \in Int /\ Priority(kind, e) \in Int
          BY <2>2, <3>1, <5>1 DEF AboutOne, Priority
        <5>5. Priority(kind, e) >= Priority(kind, view[k][1])
          BY <5>2, <5>3, <5>4
        <5> QED
          BY <3>7, <5>5
      <4> QED
        BY <4>1, <4>2
    <3>9. ProjectAll(kind, Empty({k}), t) = next
      BY <3>2, <3>3, ProjectOneMore
    <3>10. Reading(offsets, m + 1) = t
      BY <2>2, <3>1, <3>2, ReadingOneMore
    <3>11. Latest(t) = <<e>>
      <4>1. t # <<>> /\ t[Len(t)] = e
        BY <3>2, <3>3, AppendProperties
      <4> QED
        BY <4>1 DEF Latest
    <3>12. Got(m + 1) = Latest(Reading(offsets, m + 1))
      BY <3>8, <3>9, <3>10, <3>11
    <3> HIDE DEF Got
    <3> QED
      BY <3>12
  <2> QED
    BY <2>1, <2>2
<1> HIDE DEF T
<1>3. Nat \subseteq T
  BY <1>1, <1>2, Calls!AllNats
<1> QED
  BY <1>3 DEF T

\* A store of lists has them all.
LEMMA ListKept ==
  ASSUME NEW offsets, NEW k, AboutOne(offsets, k), NEW n \in Nat
  PROVE  ProjectAll("append", Empty({k}), Reading(offsets, n))[k] = Reading(offsets, n)
<1> DEFINE Got(m) == ProjectAll("append", Empty({k}), Reading(offsets, m))
           T == {m \in Nat : Got(m) = [x \in {k} |-> Reading(offsets, m)]}
<1>1. 0 \in T
  <2>1. Reading(offsets, 0) = <<>>
    BY ReadingNone
  <2>2. Got(0) = Empty({k})
    BY <2>1, ProjectNone, Zenon
  <2>3. Got(0) = [x \in {k} |-> Reading(offsets, 0)]
    BY <2>1, <2>2 DEF Empty
  <2> HIDE DEF Got
  <2> QED
    BY <2>3
<1>2. ASSUME NEW m \in Nat, m \in T PROVE m + 1 \in T
  <2>1. Got(m) = [x \in {k} |-> Reading(offsets, m)]
    BY <1>2
  <2>2. CASE m + 1 \notin offsets
    <3>1. Reading(offsets, m + 1) = Reading(offsets, m)
      BY <2>2, ReadingOneMore
    <3> QED
      BY <2>1, <3>1
  <2>3. CASE m + 1 \in offsets
    <3>1. PICK es, e, view : /\ es = Reading(offsets, m) /\ e = stream[m + 1]
                             /\ view = [x \in {k} |-> es]
      OBVIOUS
    <3>2. es \in Seq(MessagesAt(offsets)) /\ e.key = k
      <4>1. Gathered(offsets, m, es)
        BY <3>1, ReadingGathers
      <4> QED
        BY <2>3, <3>1, <4>1 DEF Gathered, AboutOne
    <3>3. Reading(offsets, m + 1) = Append(es, e)
      BY <2>3, <3>1, ReadingOneMore
    <3>4. Got(m + 1) = Project("append", view, e)
      <4>1. ProjectAll("append", Empty({k}), Append(es, e))
              = Project("append", ProjectAll("append", Empty({k}), es), e)
        BY <3>2, ProjectOneMore
      <4> QED
        BY <2>1, <3>1, <3>3, <4>1
    <3>5. Project("append", view, e) = [x \in {k} |-> Append(es, e)]
      BY <3>1, <3>2 DEF Project, Appended
    <3>6. Got(m + 1) = [x \in {k} |-> Reading(offsets, m + 1)]
      BY <3>3, <3>4, <3>5
    <3> HIDE DEF Got
    <3> QED
      BY <3>6
  <2> QED
    BY <2>2, <2>3
<1> HIDE DEF T
<1>3. Nat \subseteq T
  BY <1>1, <1>2, Calls!AllNats
<1>4. ProjectAll("append", Empty({k}), Reading(offsets, n)) = [x \in {k} |-> Reading(offsets, n)]
  BY <1>3 DEF T
<1> QED
  BY <1>4

-------------------------------------------------------------------------------
(* What a step emits. *)

\* The sequence t goes on from s: they have u and n messages.
Goes(s, t, n, u) ==
  /\ n \in Nat /\ u \in Nat /\ n <= u
  /\ n = Len(s) /\ u = Len(t) /\ DOMAIN s = 1..n /\ DOMAIN t = 1..u
  /\ \A i \in 1..n : t[i] = s[i]

\* It goes on with msgs.
GoesWith(s, t, n, u, msgs) ==
  /\ Goes(s, t, n, u)
  /\ u = n + Len(msgs) /\ Len(msgs) \in Nat
  /\ \A k \in 1..Len(msgs) : t[n + k] = msgs[k]
  /\ \A i \in 1..u : i \notin 1..n => \E k \in 1..Len(msgs) : i = n + k /\ t[i] = msgs[k]

LEMMA GoesOn ==
  ASSUME StreamInv, NEW T, NEW msgs \in Seq(T), NEW t, t = stream', t = stream \o msgs
  PROVE  \E n, u \in Nat : GoesWith(stream, t, n, u, msgs)
<1>1. PICK n, u : n = Len(stream) /\ u = Len(t)
  OBVIOUS
<1>2. /\ n \in Nat /\ u \in Nat /\ Len(msgs) \in Nat /\ u = n + Len(msgs)
      /\ DOMAIN stream = 1..n /\ DOMAIN t = 1..u
      /\ \A i \in 1..n : t[i] = stream[i]
      /\ \A k \in 1..Len(msgs) : t[n + k] = msgs[k]
      /\ \A i \in 1..u : i \in 1..n \/ \E k \in 1..Len(msgs) : i = n + k /\ t[i] = msgs[k]
  BY <1>1, Grown
<1>3. n <= u
  BY <1>2
<1>4. GoesWith(stream, t, n, u, msgs)
  BY <1>1, <1>2, <1>3 DEF GoesWith, Goes
<1> QED
  BY <1>2, <1>4

\* The new messages are numbered, and of some of the topics.
NewOnes(t, n, u, topics) ==
  \A i \in 1..u : i \notin 1..n => t[i].ver \in Nat /\ t[i].topic \in topics

\* The steps that emit nothing about customers, orders, returns and tickets,
Calm(t, n, u) ==
  /\ UNCHANGED <<customers, orders, returns, tickets>>
  /\ NewOnes(t, n, u, {"inventory", "payments"})

\* the step that emits a ticket,
Opened(t, n, u) ==
  /\ UNCHANGED <<customers, orders, returns>>
  /\ NewOnes(t, n, u, {"tickets"})
  /\ u = n + 1
  /\ t[u].key = Len(tickets) + 1 /\ \E tic : tickets' = Append(tickets, tic)

\* the step that emits an order and then its items,
Placed(t, n, u) ==
  /\ UNCHANGED <<customers, returns, tickets>>
  /\ NewOnes(t, n, u, {"orders", "order_items"})
  /\ n + 2 <= u
  /\ t[n + 1].topic = "orders" /\ t[n + 1].key = Len(orders) + 1
  /\ t[n + 1].body.status = "CREATED"
  /\ \A i \in n + 2 .. u : /\ t[i].topic = "order_items" /\ t[i].key = Len(orders) + 1
                           /\ t[i].body.row \in Rows
  /\ \E ord \in Order : ord.status = "CREATED" /\ orders' = Append(orders, ord)

\* that of an order's next status,
MovedOn(t, n, u) ==
  /\ UNCHANGED <<customers, returns, tickets>>
  /\ NewOnes(t, n, u, {"orders", "payments"})
  /\ n + 1 <= u
  /\ \A i \in n + 2 .. u : t[i].topic = "payments"
  /\ \E o \in 1..Len(orders) : \E ord \in Order :
       /\ t[n + 1].topic = "orders" /\ t[n + 1].key = o /\ t[n + 1].body.status = ord.status
       /\ orders[o].status \in DOMAIN NextStatus /\ ord.status = NextStatus[orders[o].status]
       /\ orders' = [orders EXCEPT ![o] = ord]

\* that of a return,
Requested(t, n, u) ==
  /\ UNCHANGED <<customers, orders, tickets>>
  /\ NewOnes(t, n, u, {"returns"})
  /\ u = n + 1
  /\ t[u].key = Len(returns) + 1 /\ t[u].body \in Return /\ returns' = Append(returns, t[u].body)
  /\ t[u].body.status = "REQUESTED" /\ t[u].body.reason = "customer_request"

\* and that of a firing.
HasFired(t, n, u) ==
  /\ UNCHANGED <<orders, tickets>>
  /\ NewOnes(t, n, u, {"payments", "tier_changes", "customers", "returns"})
  /\ u = n + 4
  /\ t[n + 1].topic = "payments"
  /\ \E c \in Customers : \E new :
       /\ new.version = customers[c].version + 1
       /\ customers' = [customers EXCEPT ![c] = new]
       /\ t[n + 2].topic = "tier_changes" /\ t[n + 2].key = c
       /\ t[n + 2].body.from = customers[c].tier /\ t[n + 2].body.to = new.tier
       /\ t[n + 3].topic = "customers" /\ t[n + 3].key = c
       /\ t[n + 3].ver = new.version /\ t[n + 3].body.tier = new.tier
  /\ t[u].topic = "returns" /\ t[u].key = Len(returns) + 1
  /\ t[u].body \in Return /\ returns' = Append(returns, t[u].body)
  /\ t[u].body.status = "REJECTED" /\ t[u].body.reason = "chargeback_already_filed"

Emits(t, n, u) ==
  \/ Calm(t, n, u) \/ Opened(t, n, u) \/ Placed(t, n, u) \/ MovedOn(t, n, u) \/ Requested(t, n, u)
  \/ HasFired(t, n, u)

\* A step that emits nothing, or messages of topics that keep nothing of the state.
LEMMA CalmEmits ==
  ASSUME StreamInv, UNCHANGED <<customers, orders, returns, tickets>>,
         NEW T, \A e \in T : e.ver \in Nat /\ e.topic \in {"inventory", "payments"},
         NEW msgs \in Seq(T), NEW t, t = stream', t = stream \o msgs
  PROVE  \E n, u : Goes(stream, t, n, u) /\ Emits(t, n, u)
<1>1. PICK n, u \in Nat : GoesWith(stream, t, n, u, msgs)
  BY GoesOn
<1>2. ASSUME NEW i \in 1..u, i \notin 1..n
      PROVE  t[i].ver \in Nat /\ t[i].topic \in {"inventory", "payments"}
  <2>1. PICK k \in 1..Len(msgs) : t[i] = msgs[k]
    BY <1>1, <1>2 DEF GoesWith
  <2>2. msgs[k] \in T
    BY ElementOfSeq
  <2> QED
    BY <2>1, <2>2
<1>3. Calm(t, n, u)
  BY <1>2 DEF Calm, NewOnes
<1> QED
  BY <1>1, <1>3 DEF Emits, GoesWith

LEMMA SilenceEmits ==
  ASSUME StreamInv, UNCHANGED <<customers, orders, returns, tickets, stream>>, NEW t, t = stream'
  PROVE  \E n, u : Goes(stream, t, n, u) /\ Emits(t, n, u)
<1>1. PICK n : n = Len(stream)
  OBVIOUS
<1>2. n \in Nat /\ DOMAIN stream = 1..n
  BY <1>1, LenProperties DEF StreamInv, Causal
<1>3. t = stream /\ Len(t) = n
  BY <1>1
<1>4. Goes(stream, t, n, n)
  BY <1>1, <1>2, <1>3 DEF Goes
<1>5. Calm(t, n, n)
  BY DEF Calm, NewOnes
<1> QED
  BY <1>4, <1>5 DEF Emits

\* One message more.
LEMMA OneEmits ==
  ASSUME StreamInv, NEW m, NEW t, t = stream', t = stream \o <<m>>
  PROVE  \E n, u : Goes(stream, t, n, u) /\ u = n + 1 /\ n \in Nat /\ t[u] = m
<1>1. PICK T, msgs : T = {m} /\ msgs = <<m>>
  OBVIOUS
<1>2. msgs \in Seq(T) /\ Len(msgs) = 1 /\ msgs[1] = m
  BY <1>1
<1>3. PICK n, u \in Nat : GoesWith(stream, t, n, u, msgs)
  BY <1>1, <1>2, GoesOn
<1>4. 1 \in 1..Len(msgs)
  BY <1>2
<1>5. t[n + 1] = msgs[1] /\ u = n + 1
  BY <1>2, <1>3, <1>4 DEF GoesWith
<1> QED
  BY <1>2, <1>3, <1>5 DEF GoesWith

LEMMA NewOne ==
  ASSUME NEW n \in Nat, NEW u, u = n + 1, NEW t, NEW topics,
         t[u].ver \in Nat, t[u].topic \in topics
  PROVE  NewOnes(t, n, u, topics)
<1>1. \A i \in 1..u : i \notin 1..n => i = u
  OBVIOUS
<1> QED
  BY <1>1 DEF NewOnes

LEMMA RequestEmits ==
  ASSUME TypeOK, TypeOK', StreamInv, RequestReturn, NEW t, t = stream'
  PROVE  \E n, u : Goes(stream, t, n, u) /\ Emits(t, n, u)
<1>1. PICK o, ret, m :
        /\ o \in 1..Len(orders)
        /\ ret = [order |-> o, status |-> "REQUESTED", reason |-> "customer_request"]
        /\ m = ReturnMsg(Len(returns) + 1, ret)
        /\ returns' = Append(returns, ret)
        /\ t = stream \o <<m>>
  BY DEF RequestReturn, Emit
<1>2. ret \in Return
  BY <1>1, Sizes DEF Return
<1>3. m.topic = "returns" /\ m.key = Len(returns) + 1 /\ m.body = ret /\ m.ver = 0
  BY <1>1 DEF ReturnMsg, Message
<1>4. PICK n, u : Goes(stream, t, n, u) /\ u = n + 1 /\ n \in Nat /\ t[u] = m
  BY <1>1, OneEmits
<1>5. UNCHANGED <<customers, orders, tickets>>
  BY DEF RequestReturn
<1>6. NewOnes(t, n, u, {"returns"})
  BY <1>3, <1>4, NewOne
<1>7. /\ t[u].key = Len(returns) + 1 /\ t[u].body = ret
      /\ ret.status = "REQUESTED" /\ ret.reason = "customer_request"
  BY <1>1, <1>3, <1>4
<1>8. returns' = Append(returns, t[u].body) /\ t[u].body \in Return
  BY <1>1, <1>2, <1>7
<1>9. Requested(t, n, u)
  BY <1>4, <1>5, <1>6, <1>7, <1>8 DEF Requested
<1> QED
  BY <1>4, <1>9 DEF Emits

LEMMA TicketEmits ==
  ASSUME StreamInv, OpenTicket, NEW t, t = stream'
  PROVE  \E n, u : Goes(stream, t, n, u) /\ Emits(t, n, u)
<1>1. PICK tic, m : /\ m = TicketMsg(Len(tickets) + 1, tic)
                    /\ tickets' = Append(tickets, tic) /\ t = stream \o <<m>>
  BY DEF OpenTicket, Emit
<1>2. m.topic = "tickets" /\ m.key = Len(tickets) + 1 /\ m.ver = 0
  BY <1>1 DEF TicketMsg, Message
<1>3. PICK n, u : Goes(stream, t, n, u) /\ u = n + 1 /\ n \in Nat /\ t[u] = m
  BY <1>1, OneEmits
<1>4. UNCHANGED <<customers, orders, returns>>
  BY DEF OpenTicket
<1>5. NewOnes(t, n, u, {"tickets"})
  BY <1>2, <1>3, NewOne
<1>6. Opened(t, n, u)
  BY <1>1, <1>2, <1>3, <1>4, <1>5 DEF Opened
<1> QED
  BY <1>3, <1>6 DEF Emits

LEMMA AdvanceEmits ==
  ASSUME TypeOK, TypeOK', StreamInv, AdvanceOrder, NEW t, t = stream'
  PROVE  \E n, u : Goes(stream, t, n, u) /\ Emits(t, n, u)
<1>1. PICK o \in 1..Len(orders), ord \in Order :
        /\ orders[o].status \in DOMAIN NextStatus
        /\ ord.status = NextStatus[orders[o].status]
        /\ orders' = [orders EXCEPT ![o] = ord]
        /\ t = stream \o AdvanceMsgs(o, ord)
  BY Advanced DEF AdvanceOrder, Emit
<1>2. PICK a, b, msgs, T : /\ a = OrderMsg(o, ord) /\ b = PaymentMsg(o, "CAPTURED")
                           /\ msgs = AdvanceMsgs(o, ord) /\ T = {a, b}
  OBVIOUS
<1>3. msgs = <<a, b>> \/ msgs = <<a>>
  BY <1>2 DEF AdvanceMsgs
<1>4. msgs \in Seq(T) /\ msgs[1] = a /\ Len(msgs) \in {1, 2} /\ (Len(msgs) = 2 => msgs[2] = b)
  <2>1. /\ <<a, b>> \in Seq({a, b}) /\ <<a>> \in Seq({a, b})
        /\ <<a, b>>[1] = a /\ <<a, b>>[2] = b /\ <<a>>[1] = a
        /\ Len(<<a, b>>) = 2 /\ Len(<<a>>) = 1
    OBVIOUS
  <2>2. CASE msgs = <<a, b>>
    BY <1>2, <2>1, <2>2
  <2>3. CASE msgs = <<a>>
    BY <1>2, <2>1, <2>3
  <2> QED
    BY <1>3, <2>2, <2>3
<1>5. /\ a.topic = "orders" /\ a.key = o /\ a.body.status = ord.status /\ a.ver = 0
      /\ b.topic = "payments" /\ b.ver = 0
  BY <1>2 DEF OrderMsg, PaymentMsg, Message
<1>6. PICK n, u \in Nat : GoesWith(stream, t, n, u, msgs)
  BY <1>1, <1>2, <1>4, GoesOn
<1>7. /\ n + 1 <= u /\ t[n + 1] = a
      /\ \A i \in 1..u : i \notin 1..n => i = n + 1 \/ t[i] = b
      /\ \A i \in n + 2 .. u : i \in 1..u /\ i \notin 1..n /\ i # n + 1
  <2>1. 1 \in 1..Len(msgs) /\ n + 1 <= u
    BY <1>4, <1>6 DEF GoesWith
  <2>2. t[n + 1] = a
    BY <1>4, <1>6, <2>1 DEF GoesWith
  <2>3. ASSUME NEW i \in 1..u, i \notin 1..n PROVE i = n + 1 \/ t[i] = b
    <3>1. PICK k \in 1..Len(msgs) : i = n + k /\ t[i] = msgs[k]
      BY <1>6, <2>3 DEF GoesWith
    <3>2. k = 1 \/ (k = 2 /\ Len(msgs) = 2)
      BY <1>4, SecondOfTwo
    <3> QED
      BY <1>4, <3>1, <3>2
  <2>4. \A i \in n + 2 .. u : i \in 1..u /\ i \notin 1..n /\ i # n + 1
    OBVIOUS
  <2> QED
    BY <2>1, <2>2, <2>3, <2>4
<1>8. UNCHANGED <<customers, returns, tickets>>
  BY DEF AdvanceOrder
<1>9. NewOnes(t, n, u, {"orders", "payments"})
  BY <1>5, <1>7 DEF NewOnes
<1>10. \A i \in n + 2 .. u : t[i].topic = "payments"
  BY <1>5, <1>7
<1>11. MovedOn(t, n, u)
  BY <1>1, <1>5, <1>7, <1>8, <1>9, <1>10 DEF MovedOn
<1> QED
  BY <1>6, <1>11 DEF Emits, GoesWith

LEMMA PlaceEmits ==
  ASSUME TypeOK, TypeOK', StreamInv, PlaceOrder, NEW t, t = stream'
  PROVE  \E n, u : Goes(stream, t, n, u) /\ Emits(t, n, u)
<1>1. PICK items, ord, o, tail :
        /\ items = draft[1].items /\ items # <<>>
        /\ ord = [customer |-> draft[1].customer, status |-> "CREATED", items |-> items]
        /\ o = Len(orders) + 1
        /\ orders' = Append(orders, ord)
        /\ tail = [i \in DOMAIN items |-> ItemMsg(o, items[i])]
        /\ t = stream \o (<<OrderMsg(o, ord)>> \o tail)
  BY DEF PlaceOrder, Emit
<1>2. items \in Seq(Item) /\ ord \in Order /\ ord.status = "CREATED"
  <2>1. draft[1] \in Draft
    BY EmptySeq, ElementOfSeq DEF PlaceOrder, TypeOK
  <2> QED
    BY <1>1, <2>1 DEF Draft, Order, Statuses
<1>3. PICK a, I, msgs : /\ a = OrderMsg(o, ord)
                        /\ I = {ItemMsg(o, items[i]) : i \in DOMAIN items}
                        /\ msgs = <<a>> \o tail
  OBVIOUS
<1>4. tail \in Seq(I) /\ Len(tail) >= 1
  <2>1. DOMAIN items = 1..Len(items) /\ Len(items) \in Nat /\ Len(items) # 0
    BY <1>1, <1>2, LenProperties, EmptySeq
  <2>2. tail = [i \in 1..Len(items) |-> ItemMsg(o, items[i])]
    BY <1>1, <2>1
  <2>3. \A i \in 1..Len(items) : ItemMsg(o, items[i]) \in I
    BY <1>3, <2>1
  <2>4. tail \in Seq(I)
    BY <2>1, <2>2, <2>3, IsASeq
  <2>5. Len(tail) = Len(items)
    BY <2>1, <2>2, <2>4, LenProperties
  <2> QED
    BY <2>1, <2>4, <2>5
<1>5. \A e \in I : e.topic = "order_items" /\ e.key = o /\ e.ver = 0 /\ e.body.row \in Rows
  <2>1. \A i \in DOMAIN items : items[i] \in Item
    BY <1>2, LenProperties, ElementOfSeq
  <2> QED
    BY <1>3, <2>1 DEF ItemMsg, Message, Item
<1>6. a.topic = "orders" /\ a.key = o /\ a.body.status = "CREATED" /\ a.ver = 0
  BY <1>2, <1>3 DEF OrderMsg, Message
<1>7. /\ msgs \in Seq({a} \cup I) /\ Len(msgs) = 1 + Len(tail) /\ Len(tail) \in Nat
      /\ msgs[1] = a
      /\ \A i \in 1..Len(tail) : msgs[1 + i] = tail[i]
  BY <1>3, <1>4, Heading
<1>8. t = stream \o msgs
  BY <1>1, <1>3
<1>9. PICK n, u \in Nat : GoesWith(stream, t, n, u, msgs)
  BY <1>7, <1>8, GoesOn
<1>10. n + 2 <= u /\ t[n + 1] = a
  <2>1. 1 \in 1..Len(msgs)
    BY <1>7
  <2> QED
    BY <1>4, <1>7, <1>9, <2>1 DEF GoesWith
<1>11. ASSUME NEW i \in 1..u, i \notin 1..n, i # n + 1
       PROVE  t[i] \in I
  <2>1. PICK k \in 1..Len(msgs) : i = n + k /\ t[i] = msgs[k]
    BY <1>9, <1>11 DEF GoesWith
  <2>2. k - 1 \in 1..Len(tail) /\ 1 + (k - 1) = k
    BY <1>7, <1>11, <2>1
  <2>3. tail[k - 1] \in I
    BY <1>4, <2>2, ElementOfSeq
  <2> QED
    BY <1>7, <2>1, <2>2, <2>3
<1>12. \A i \in n + 2 .. u : i \in 1..u /\ i \notin 1..n /\ i # n + 1
  OBVIOUS
<1>13. \A i \in n + 2 .. u : /\ t[i].topic = "order_items" /\ t[i].key = Len(orders) + 1
                            /\ t[i].body.row \in Rows
  BY <1>1, <1>5, <1>11, <1>12
<1>14. NewOnes(t, n, u, {"orders", "order_items"})
  BY <1>5, <1>6, <1>10, <1>11 DEF NewOnes
<1>15. UNCHANGED <<customers, returns, tickets>>
  BY DEF PlaceOrder
<1>16. Placed(t, n, u)
  BY <1>1, <1>2, <1>6, <1>10, <1>13, <1>14, <1>15 DEF Placed
<1> QED
  BY <1>9, <1>16 DEF Emits, GoesWith

\* Four numbers.
LEMMA OneOfFour == \A k \in 1..4 : k = 1 \/ k = 2 \/ k = 3 \/ k = 4
OBVIOUS

LEMMA FireEmits ==
  ASSUME TypeOK, TypeOK', StreamInv, Fire, NEW t, t = stream'
  PROVE  \E n, u : Goes(stream, t, n, u) /\ Emits(t, n, u)
<1> DEFINE Cust(p) == orders[p].customer
           After(rec) == [tier |-> OneStepDown(rec.tier), version |-> rec.version + 1,
                          updatedAt |-> Now]
<1>1. PICK o \in Eligible :
        /\ customers' = [customers EXCEPT ![Cust(o)] = After(customers[Cust(o)])]
        /\ returns' = Append(returns, Rejected(o))
        /\ t = stream \o FireMsgs(o, Cust(o), customers[Cust(o)],
                                  After(customers[Cust(o)]), Len(returns) + 1)
  BY DEF Fire, Emit
<1>2. PICK c, old, new, num :
        c = Cust(o) /\ old = customers[c] /\ new = After(old) /\ num = Len(returns) + 1
  OBVIOUS
<1>3. /\ new.version = customers[c].version + 1 /\ old = customers[c]
      /\ customers' = [customers EXCEPT ![c] = new]
      /\ t = stream \o FireMsgs(o, c, old, new, num)
  BY <1>1, <1>2
<1>4. c \in Customers /\ o \in 1..Len(orders)
  <2>1. o \in 1..Len(orders)
    BY DEF Eligible
  <2>2. orders[o] \in Order
    BY <2>1, ElementOfSeq DEF TypeOK
  <2> QED
    BY <1>2, <2>1, <2>2 DEF Order
<1> HIDE DEF Cust, After
<1>5. PICK a, b, d, e, msgs, T :
        /\ a = PaymentMsg(o, "CHARGEBACK") /\ b = TierMsg(c, old.tier, new.tier)
        /\ d = CustomerMsg(c, new) /\ e = ReturnMsg(num, Rejected(o))
        /\ msgs = <<a, b, d, e>> /\ T = {a, b, d, e}
  OBVIOUS
<1>6. /\ msgs \in Seq(T) /\ Len(msgs) = 4
      /\ msgs[1] = a /\ msgs[2] = b /\ msgs[3] = d /\ msgs[4] = e
  BY <1>5
<1>7. t = stream \o msgs
  BY <1>3, <1>5 DEF FireMsgs
<1>8. PICK n, u \in Nat : GoesWith(stream, t, n, u, msgs)
  BY <1>6, <1>7, GoesOn
<1>9. u = n + 4 /\ t[n + 1] = a /\ t[n + 2] = b /\ t[n + 3] = d /\ t[u] = e
  <2>1. 1 \in 1..4 /\ 2 \in 1..4 /\ 3 \in 1..4 /\ 4 \in 1..4
    OBVIOUS
  <2>2. u = n + 4 /\ \A k \in 1..4 : t[n + k] = msgs[k]
    BY <1>6, <1>8 DEF GoesWith
  <2>3. t[n + 1] = msgs[1] /\ t[n + 2] = msgs[2] /\ t[n + 3] = msgs[3] /\ t[n + 4] = msgs[4]
    BY <2>1, <2>2, Zenon
  <2> QED
    BY <1>6, <2>2, <2>3
<1>10. /\ a.topic = "payments" /\ a.ver = 0
       /\ b.topic = "tier_changes" /\ b.key = c /\ b.ver = 0
       /\ b.body.from = old.tier /\ b.body.to = new.tier
  BY <1>5 DEF PaymentMsg, TierMsg, Message
<1>11. /\ d.topic = "customers" /\ d.key = c /\ d.ver = new.version /\ d.body.tier = new.tier
       /\ e.topic = "returns" /\ e.key = num /\ e.ver = 0 /\ e.body = Rejected(o)
  BY <1>5 DEF CustomerMsg, ReturnMsg, Message
<1>12. new.version \in Nat
  BY <1>3, <1>4 DEF TypeOK, Customer
<1>13. ASSUME NEW i \in 1..u, i \notin 1..n
       PROVE  t[i].ver \in Nat /\ t[i].topic \in {"payments", "tier_changes", "customers", "returns"}
  <2>1. PICK k \in 1..4 : t[i] = msgs[k]
    BY <1>6, <1>8, <1>13 DEF GoesWith
  <2>2. t[i] \in {a, b, d, e}
    BY <1>6, <2>1, OneOfFour
  <2> QED
    BY <1>10, <1>11, <1>12, <2>2
<1>14. NewOnes(t, n, u, {"payments", "tier_changes", "customers", "returns"})
  BY <1>13 DEF NewOnes
<1>15. Rejected(o) \in Return /\ Rejected(o).status = "REJECTED"
       /\ Rejected(o).reason = "chargeback_already_filed"
  BY <1>4, Sizes DEF Return, Rejected
<1>16. /\ t[u].topic = "returns" /\ t[u].key = Len(returns) + 1 /\ t[u].body = Rejected(o)
  BY <1>2, <1>9, <1>11
<1>17. /\ t[u].body \in Return /\ returns' = Append(returns, t[u].body)
       /\ t[u].body.status = "REJECTED" /\ t[u].body.reason = "chargeback_already_filed"
  BY <1>1, <1>15, <1>16
<1>18. /\ t[n + 2].topic = "tier_changes" /\ t[n + 2].key = c
       /\ t[n + 2].body.from = customers[c].tier /\ t[n + 2].body.to = new.tier
       /\ t[n + 3].topic = "customers" /\ t[n + 3].key = c
       /\ t[n + 3].ver = new.version /\ t[n + 3].body.tier = new.tier
  BY <1>3, <1>9, <1>10, <1>11
<1>19. UNCHANGED <<orders, tickets>>
  BY DEF Fire
<1>20. HasFired(t, n, u)
  BY <1>3, <1>4, <1>9, <1>10, <1>14, <1>16, <1>17, <1>18, <1>19 DEF HasFired
<1> QED
  BY <1>8, <1>20 DEF Emits, GoesWith

\* Every step emits messages as one of these, or none.
LEMMA StepEmits ==
  ASSUME TypeOK, TypeOK', StreamInv, [Next]_vars, NEW t, t = stream'
  PROVE  \E n, u : Goes(stream, t, n, u) /\ Emits(t, n, u)
<1>1. CASE PlaceOrder
  BY <1>1, PlaceEmits
<1>2. CASE RequestReturn
  BY <1>2, RequestEmits
<1>3. CASE AdvanceOrder
  BY <1>3, AdvanceEmits
<1>4. CASE Fire
  BY <1>4, FireEmits
<1>5. CASE InventorySnapshots
  <2>1. UNCHANGED <<customers, orders, returns, tickets>>
    BY <1>5 DEF InventorySnapshots, state
  <2>2. CASE UNCHANGED stream
    BY <2>1, <2>2, SilenceEmits
  <2>3. CASE stream' = stream \o SnapshotMsgs(inventory)
    <3>1. PICK T, msgs : T = {SnapshotMsg(r, inventory[r]) : r \in Rows} /\ msgs = SnapshotMsgs(inventory)
      OBVIOUS
    <3>2. msgs \in Seq(T)
      BY <3>1, IsASeq, SizesAssumption DEF Rows, SnapshotMsgs
    <3>3. \A e \in T : e.ver \in Nat /\ e.topic = "inventory"
      BY <3>1 DEF SnapshotMsg, Message
    <3>4. t = stream \o msgs
      BY <2>3, <3>1
    <3> QED
      BY <2>1, <3>2, <3>3, <3>4, CalmEmits
  <2> QED
    BY <1>5, <2>2, <2>3 DEF InventorySnapshots, Emit
<1>6. ASSUME NEW m, m.ver \in Nat, m.topic \in {"inventory", "payments"},
             t = stream \o <<m>>, UNCHANGED <<customers, orders, returns, tickets>>
      PROVE  \E n, u : Goes(stream, t, n, u) /\ Emits(t, n, u)
  <2>1. PICK T, msgs : T = {m} /\ msgs = <<m>>
    OBVIOUS
  <2>2. msgs \in Seq(T) /\ t = stream \o msgs
    BY <1>6, <2>1
  <2>3. \A e \in T : e.ver \in Nat /\ e.topic \in {"inventory", "payments"}
    BY <1>6, <2>1
  <2> QED
    BY <1>6, <2>2, <2>3, CalmEmits
<1>7. CASE RandomPayment
  <2>1. PICK o, kind, m : m = PaymentMsg(o, kind) /\ stream' = stream \o <<m>>
    BY <1>7 DEF RandomPayment, Emit
  <2>2. m.ver \in Nat /\ m.topic = "payments"
    BY <2>1 DEF PaymentMsg, Message
  <2>3. UNCHANGED <<customers, orders, returns, tickets>>
    BY <1>7 DEF RandomPayment, state
  <2> QED
    BY <1>6, <2>1, <2>2, <2>3
<1>8. CASE OpenTicket
  BY <1>8, TicketEmits
<1>9. ASSUME UNCHANGED <<customers, orders, returns, tickets, stream>>
      PROVE  \E n, u : Goes(stream, t, n, u) /\ Emits(t, n, u)
  BY <1>9, SilenceEmits
<1>10. CASE DraftOrder \/ DraftItem \/ BootstrapDone \/ OrdersDone
  BY <1>9, <1>10 DEF DraftOrder, DraftItem, BootstrapDone, OrdersDone, state
<1>11. CASE NoReturn \/ NoPayment \/ NoAdvance \/ NoFire
  BY <1>9, <1>11 DEF NoReturn, NoPayment, NoAdvance, NoFire, state
<1>12. CASE ReturnsDone \/ PaymentsDone \/ LifecycleDone \/ TicketsDone \/ TickDone
  BY <1>9, <1>12 DEF ReturnsDone, PaymentsDone, LifecycleDone, TicketsDone, TickDone, Over, state
<1>13. CASE Returned \/ UNCHANGED vars
  BY <1>9, <1>13 DEF Returned, vars, state
<1> QED
  BY <1>1, <1>2, <1>3, <1>4, <1>5, <1>7, <1>8, <1>10, <1>11, <1>12, <1>13 DEF Next

-------------------------------------------------------------------------------
(* What the customers' messages tell. *)

\* Message j is the last about k, of the first n.
IsAbout(m, topic, k) == m.topic = topic /\ m.key = k
LastAbout(s, n, topic, k, j) ==
  /\ j \in 1..n /\ IsAbout(s[j], topic, k)
  /\ \A i \in 1..n : IsAbout(s[i], topic, k) => i <= j

NumberedIn(s) == \A i \in 1..Len(s) : s[i].ver \in Nat

\* A customer's versions never go back, and none is ahead of the customer's.
VersionsIn(s, custs) ==
  /\ \A i \in 1..Len(s) : s[i].topic = "customers" =>
       s[i].key \in Customers /\ s[i].ver <= custs[s[i].key].version
  /\ \A i, j \in 1..Len(s) :
       i <= j /\ s[i].topic = "customers" /\ IsAbout(s[j], "customers", s[i].key)
         => s[i].ver <= s[j].ver

\* The last message about a customer tells its tier.
TiersIn(s, custs) ==
  \A c \in Customers : \A j \in 1..Len(s) :
    LastAbout(s, Len(s), "customers", c, j) => s[j].body.tier = custs[c].tier

\* A tier change starts at the tier last told, and the next message tells where it ends.
ChangesIn(s) ==
  \A i \in 1..Len(s) : s[i].topic = "tier_changes" =>
    /\ i + 1 \in 1..Len(s) /\ IsAbout(s[i + 1], "customers", s[i].key)
    /\ s[i + 1].body.tier = s[i].body.to
    /\ \A j \in 1..i : LastAbout(s, i, "customers", s[i].key, j)
                         => s[j].body.tier = s[i].body.from

\* A message about a customer whose tier has changed comes after its tier change.
PairedIn(s) ==
  \A j \in 1..Len(s) : s[j].topic = "customers" =>
    \/ \A i \in 1..j : ~IsAbout(s[i], "tier_changes", s[j].key)
    \/ j - 1 \in 1..j /\ IsAbout(s[j - 1], "tier_changes", s[j].key)

CustomersIn(s, custs) ==
  NumberedIn(s) /\ VersionsIn(s, custs) /\ TiersIn(s, custs) /\ ChangesIn(s) /\ PairedIn(s)

LEMMA StillNumbered ==
  ASSUME NEW s, NEW t, NEW n, NEW u, Goes(s, t, n, u), NumberedIn(s),
         NEW topics, NewOnes(t, n, u, topics)
  PROVE  NumberedIn(t)
BY DEF Goes, NumberedIn, NewOnes

\* The last of a longer sequence is the last of the first part, if it is there.
LEMMA LastBefore ==
  ASSUME NEW s, NEW t, NEW n, NEW u, Goes(s, t, n, u), NEW topic, NEW k,
         NEW m \in 1..u, NEW j \in 1..n, LastAbout(t, m, topic, k, j), NEW l \in 0..n, l <= m, j <= l
  PROVE  LastAbout(s, l, topic, k, j)
<1>1. \A i \in 1..l : i \in 1..n /\ i \in 1..m
  BY DEF Goes
<1>2. j \in 1..l
  BY DEF Goes
<1> QED
  BY <1>1, <1>2 DEF Goes, LastAbout

\* Messages of other topics leave it as it is.
LEMMA CustomersQuiet ==
  ASSUME NEW s, NEW t, NEW n, NEW u, Goes(s, t, n, u), NEW custs, CustomersIn(s, custs),
         NEW topics, NewOnes(t, n, u, topics),
         "customers" \notin topics, "tier_changes" \notin topics
  PROVE  CustomersIn(t, custs)
<1>1. /\ n \in Nat /\ u \in Nat /\ n <= u /\ n = Len(s) /\ u = Len(t)
      /\ \A i \in 1..n : t[i] = s[i] /\ i \in 1..u
      /\ \A i \in 1..u : t[i].topic \in {"customers", "tier_changes"} => i \in 1..n
  BY DEF Goes, NewOnes
<1>2. NumberedIn(t)
  BY StillNumbered DEF CustomersIn
<1>3. VersionsIn(t, custs)
  <2>1. ASSUME NEW i \in 1..u, t[i].topic = "customers"
        PROVE  t[i].key \in Customers /\ t[i].ver <= custs[t[i].key].version
    BY <1>1, <2>1 DEF CustomersIn, VersionsIn
  <2>2. ASSUME NEW i \in 1..u, NEW j \in 1..u, i <= j,
               t[i].topic = "customers", IsAbout(t[j], "customers", t[i].key)
        PROVE  t[i].ver <= t[j].ver
    <3>1. i \in 1..n /\ j \in 1..n
      BY <1>1, <2>2 DEF IsAbout
    <3> QED
      BY <1>1, <2>2, <3>1 DEF CustomersIn, VersionsIn
  <2> QED
    BY <1>1, <2>1, <2>2 DEF VersionsIn
<1>4. TiersIn(t, custs)
  <2>1. ASSUME NEW c \in Customers, NEW j \in 1..u, LastAbout(t, u, "customers", c, j)
        PROVE  t[j].body.tier = custs[c].tier
    <3>1. j \in 1..n
      BY <1>1, <2>1 DEF LastAbout, IsAbout
    <3>2. u \in 1..u /\ n \in 0..n /\ j <= n
      BY <1>1, <3>1
    <3>3. LastAbout(s, n, "customers", c, j)
      BY <1>1, <2>1, <3>1, <3>2, LastBefore
    <3> QED
      BY <1>1, <3>1, <3>3 DEF CustomersIn, TiersIn
  <2> QED
    BY <1>1, <2>1 DEF TiersIn
<1>5. ChangesIn(t)
  <2>1. ASSUME NEW i \in 1..u, t[i].topic = "tier_changes"
        PROVE  /\ i + 1 \in 1..u /\ IsAbout(t[i + 1], "customers", t[i].key)
               /\ t[i + 1].body.tier = t[i].body.to
               /\ \A j \in 1..i : LastAbout(t, i, "customers", t[i].key, j)
                                    => t[j].body.tier = t[i].body.from
    <3>1. i \in 1..n /\ t[i] = s[i]
      BY <1>1, <2>1
    <3>2. /\ i + 1 \in 1..n /\ IsAbout(s[i + 1], "customers", s[i].key)
          /\ s[i + 1].body.tier = s[i].body.to
      BY <1>1, <2>1, <3>1 DEF CustomersIn, ChangesIn
    <3>3. ASSUME NEW j \in 1..i, LastAbout(t, i, "customers", t[i].key, j)
          PROVE  t[j].body.tier = t[i].body.from
      <4>1. j \in 1..n /\ i \in 0..n /\ i <= i /\ j <= i
        BY <1>1, <3>1
      <4>2. LastAbout(s, i, "customers", t[i].key, j)
        BY <3>3, <4>1, LastBefore
      <4> QED
        BY <1>1, <2>1, <3>1, <4>1, <4>2 DEF CustomersIn, ChangesIn
    <3> QED
      BY <1>1, <3>1, <3>2, <3>3
  <2> QED
    BY <1>1, <2>1 DEF ChangesIn
<1>6. PairedIn(t)
  <2>1. ASSUME NEW j \in 1..u, t[j].topic = "customers"
        PROVE  \/ \A i \in 1..j : ~IsAbout(t[i], "tier_changes", t[j].key)
               \/ j - 1 \in 1..j /\ IsAbout(t[j - 1], "tier_changes", t[j].key)
    <3>1. j \in 1..n /\ \A i \in 1..j : i \in 1..n
      BY <1>1, <2>1
    <3>2. \/ \A i \in 1..j : ~IsAbout(s[i], "tier_changes", s[j].key)
          \/ j - 1 \in 1..j /\ IsAbout(s[j - 1], "tier_changes", s[j].key)
      BY <1>1, <2>1, <3>1 DEF CustomersIn, PairedIn
    <3> QED
      BY <1>1, <3>1, <3>2
  <2> QED
    BY <1>1, <2>1 DEF PairedIn
<1> QED
  BY <1>2, <1>3, <1>4, <1>5, <1>6 DEF CustomersIn

\* The messages p1 to p4, and no others, are new in t; the second and the third are a
\* customer's tier change and its record.
TellsChange(s, t, n, u, c, old, new, p1, p2, p3) ==
  /\ p1 = n + 1 /\ p2 = n + 2 /\ p3 = n + 3 /\ u = n + 4
  /\ t[p1].topic \notin {"customers", "tier_changes"}
  /\ t[u].topic \notin {"customers", "tier_changes"}
  /\ IsAbout(t[p2], "tier_changes", c) /\ t[p2].body.from = old.tier /\ t[p2].body.to = new.tier
  /\ IsAbout(t[p3], "customers", c)
  /\ t[p3].ver = new.version /\ t[p3].body.tier = new.tier

\* The new record is of the next version, and starts at the tier last told.
LEMMA CustomersFired ==
  ASSUME NEW s, NEW t, NEW n, NEW u, Goes(s, t, n, u), NEW custs \in [Customers -> Customer],
         CustomersIn(s, custs), NewOnes(t, n, u, {"payments", "tier_changes", "customers", "returns"}),
         NEW c \in Customers, NEW old, old = custs[c], NEW new, new.version = old.version + 1,
         NEW more, more = [custs EXCEPT ![c] = new],
         NEW p1, NEW p2, NEW p3, TellsChange(s, t, n, u, c, old, new, p1, p2, p3)
  PROVE  CustomersIn(t, more)
<1>1. /\ n \in Nat /\ u \in Nat /\ n <= u /\ n = Len(s) /\ u = Len(t)
      /\ \A i \in 1..n : t[i] = s[i] /\ i \in 1..u
  BY DEF Goes
<1>2. /\ p1 \in 1..u /\ p2 \in 1..u /\ p3 \in 1..u /\ u \in 1..u
      /\ p1 \notin 1..n /\ p2 \notin 1..n /\ p3 \notin 1..n
      /\ \A i \in 1..u : i \in 1..n \/ i = p1 \/ i = p2 \/ i = p3 \/ i = u
  BY <1>1 DEF TellsChange
<1>3. /\ \A i \in 1..u : t[i].topic = "customers" => i \in 1..n \/ i = p3
      /\ \A i \in 1..u : t[i].topic = "tier_changes" => i \in 1..n \/ i = p2
  BY <1>2 DEF TellsChange, IsAbout
<1>4. /\ old.version \in Int /\ old.version <= new.version
      /\ more[c] = new /\ \A x \in Customers : x # c => more[x] = custs[x]
  BY DEF Customer
<1>5. NumberedIn(t)
  BY StillNumbered DEF CustomersIn
<1>6. ASSUME NEW i \in 1..n, t[i].topic = "customers"
      PROVE  t[i].key \in Customers /\ t[i].ver <= custs[t[i].key].version /\ t[i].ver \in Int
  BY <1>1, <1>6 DEF CustomersIn, VersionsIn, NumberedIn
<1>7. VersionsIn(t, more)
  <2>1. ASSUME NEW i \in 1..u, t[i].topic = "customers"
        PROVE  t[i].key \in Customers /\ t[i].ver <= more[t[i].key].version
    <3>1. CASE i = p3
      BY <1>4, <3>1 DEF TellsChange, IsAbout
    <3>2. CASE i \in 1..n
      <4>1. t[i].key \in Customers /\ t[i].ver <= custs[t[i].key].version /\ t[i].ver \in Int
        BY <1>6, <2>1, <3>2
      <4>2. CASE t[i].key = c
        BY <1>4, <4>1, <4>2
      <4>3. CASE t[i].key # c
        BY <1>4, <4>1, <4>3
      <4> QED
        BY <4>2, <4>3
    <3> QED
      BY <1>3, <2>1, <3>1, <3>2
  <2>2. ASSUME NEW i \in 1..u, NEW j \in 1..u, i <= j,
               t[i].topic = "customers", IsAbout(t[j], "customers", t[i].key)
        PROVE  t[i].ver <= t[j].ver
    <3>1. t[j].topic = "customers" /\ t[j].key = t[i].key
      BY <2>2 DEF IsAbout
    <3>2. CASE j \in 1..n
      <4>1. i \in 1..n
        BY <1>1, <2>2, <3>2
      <4> QED
        BY <1>1, <2>2, <3>2, <4>1 DEF CustomersIn, VersionsIn
    <3>3. CASE j = p3 /\ i \in 1..n
      <4>1. t[i].key = c /\ t[j].ver = new.version
        BY <3>1, <3>3 DEF TellsChange, IsAbout
      <4>2. t[i].ver <= old.version /\ t[i].ver \in Int
        BY <1>6, <2>2, <3>3, <4>1
      <4> QED
        BY <1>4, <4>1, <4>2
    <3>4. CASE j = p3 /\ i = p3
      <4>1. t[p3].ver \in Int
        BY <1>1, <1>2, <1>5 DEF NumberedIn
      <4> QED
        BY <3>4, <4>1
    <3> QED
      BY <1>3, <2>2, <3>1, <3>2, <3>3, <3>4
  <2> QED
    BY <1>1, <2>1, <2>2 DEF VersionsIn
<1>8. TiersIn(t, more)
  <2>1. ASSUME NEW x \in Customers, NEW j \in 1..u, LastAbout(t, u, "customers", x, j)
        PROVE  t[j].body.tier = more[x].tier
    <3>1. t[j].topic = "customers" /\ t[j].key = x
      BY <2>1 DEF LastAbout, IsAbout
    <3>2. CASE x = c
      <4>1. p3 <= j
        BY <1>2, <2>1, <3>2 DEF LastAbout, TellsChange
      <4>2. j = p3
        BY <1>1, <1>3, <3>1, <4>1 DEF TellsChange
      <4> QED
        BY <1>4, <3>2, <4>2 DEF TellsChange
    <3>3. CASE x # c
      <4>1. j # p3
        BY <3>1, <3>3 DEF TellsChange, IsAbout
      <4>2. j \in 1..n /\ n \in 0..n /\ n <= u /\ j <= n
        BY <1>1, <1>3, <3>1, <4>1
      <4>3. LastAbout(s, n, "customers", x, j)
        BY <1>2, <2>1, <4>2, LastBefore
      <4>4. s[j].body.tier = custs[x].tier
        BY <1>1, <4>2, <4>3 DEF CustomersIn, TiersIn
      <4> QED
        BY <1>1, <1>4, <3>3, <4>2, <4>4
    <3> QED
      BY <3>2, <3>3
  <2> QED
    BY <1>1, <2>1 DEF TiersIn
<1>9. ChangesIn(t)
  <2>1. ASSUME NEW i \in 1..u, t[i].topic = "tier_changes"
        PROVE  /\ i + 1 \in 1..u /\ IsAbout(t[i + 1], "customers", t[i].key)
               /\ t[i + 1].body.tier = t[i].body.to
               /\ \A j \in 1..i : LastAbout(t, i, "customers", t[i].key, j)
                                    => t[j].body.tier = t[i].body.from
    <3>1. CASE i = p2
      <4>1. i + 1 = p3 /\ t[i].key = c
        BY <1>1, <3>1 DEF TellsChange, IsAbout
      <4>2. /\ i + 1 \in 1..u /\ IsAbout(t[i + 1], "customers", t[i].key)
            /\ t[i + 1].body.tier = t[i].body.to
        BY <1>2, <3>1, <4>1 DEF TellsChange
      <4>3. ASSUME NEW j \in 1..i, LastAbout(t, i, "customers", c, j)
            PROVE  t[j].body.tier = t[i].body.from
        <5>1. t[j].topic = "customers" /\ j \in 1..u /\ j # p3
          BY <1>1, <3>1, <4>3 DEF LastAbout, IsAbout, TellsChange
        <5>2. j \in 1..n /\ n \in 0..n /\ n <= i /\ j <= n
          BY <1>1, <1>3, <3>1, <5>1 DEF TellsChange
        <5>3. LastAbout(s, n, "customers", c, j)
          BY <1>2, <3>1, <4>3, <5>2, LastBefore
        <5>4. s[j].body.tier = custs[c].tier
          BY <1>1, <5>2, <5>3 DEF CustomersIn, TiersIn
        <5> QED
          BY <1>1, <3>1, <5>2, <5>4 DEF TellsChange
      <4> QED
        BY <4>1, <4>2, <4>3
    <3>2. CASE i \in 1..n
      <4>1. /\ i + 1 \in 1..n /\ IsAbout(s[i + 1], "customers", s[i].key)
            /\ s[i + 1].body.tier = s[i].body.to
        BY <1>1, <2>1, <3>2 DEF CustomersIn, ChangesIn
      <4>2. ASSUME NEW j \in 1..i, LastAbout(t, i, "customers", t[i].key, j)
            PROVE  t[j].body.tier = t[i].body.from
        <5>1. j \in 1..n /\ i \in 0..n /\ i <= i /\ j <= i
          BY <1>1, <3>2
        <5>2. LastAbout(s, i, "customers", t[i].key, j)
          BY <4>2, <5>1, LastBefore
        <5> QED
          BY <1>1, <2>1, <3>2, <5>1, <5>2 DEF CustomersIn, ChangesIn
      <4> QED
        BY <1>1, <3>2, <4>1, <4>2
    <3> QED
      BY <1>3, <2>1, <3>1, <3>2
  <2> QED
    BY <1>1, <2>1 DEF ChangesIn
<1>10. PairedIn(t)
  <2>1. ASSUME NEW j \in 1..u, t[j].topic = "customers"
        PROVE  \/ \A i \in 1..j : ~IsAbout(t[i], "tier_changes", t[j].key)
               \/ j - 1 \in 1..j /\ IsAbout(t[j - 1], "tier_changes", t[j].key)
    <3>1. CASE j = p3
      <4>1. j - 1 = p2 /\ p2 \in 1..j /\ t[j].key = c
        BY <1>1, <3>1 DEF TellsChange, IsAbout
      <4> QED
        BY <4>1 DEF TellsChange
    <3>2. CASE j \in 1..n
      <4>1. \A i \in 1..j : i \in 1..n
        BY <1>1, <3>2
      <4>2. \/ \A i \in 1..j : ~IsAbout(s[i], "tier_changes", s[j].key)
            \/ j - 1 \in 1..j /\ IsAbout(s[j - 1], "tier_changes", s[j].key)
        BY <1>1, <2>1, <3>2 DEF CustomersIn, PairedIn
      <4> QED
        BY <1>1, <3>2, <4>1, <4>2
    <3> QED
      BY <1>3, <2>1, <3>1, <3>2
  <2> QED
    BY <1>1, <2>1 DEF PairedIn
<1> QED
  BY <1>5, <1>7, <1>8, <1>9, <1>10 DEF CustomersIn

\* The messages that bootstrap emits.
LEMMA InitTyped ==
  ASSUME TypeOK, Init
  PROVE  /\ Len(stream) \in Nat /\ DOMAIN stream = 1..Len(stream)
         /\ \A i \in 1..Len(stream) :
              /\ stream[i].ver \in Nat /\ stream[i].topic \in {"customers", "inventory"}
              /\ stream[i].topic = "customers" =>
                   /\ stream[i].key \in Customers
                   /\ stream[i].ver = 1 /\ customers[stream[i].key].version = 1
                   /\ stream[i].body.tier = customers[stream[i].key].tier
<1> DEFINE cs == [c \in Customers |-> CustomerMsg(c, customers[c])]
           C  == {CustomerMsg(c, customers[c]) : c \in Customers}
           R  == {SnapshotMsg(r, inventory[r]) : r \in Rows}
<1>1. cs \in Seq(C)
  BY IsASeq, SizesAssumption DEF Customers
<1>2. SnapshotMsgs(inventory) \in Seq(R)
  BY IsASeq, SizesAssumption DEF Rows, SnapshotMsgs
<1>3. stream = cs \o SnapshotMsgs(inventory)
  BY DEF Init
<1>4. \A c \in Customers : customers[c].version = 1
  BY DEF Init
<1>5. ASSUME NEW m \in C \cup R
      PROVE  /\ m.ver \in Nat /\ m.topic \in {"customers", "inventory"}
             /\ m.topic = "customers" =>
                  /\ m.key \in Customers /\ m.ver = 1 /\ customers[m.key].version = 1
                  /\ m.body.tier = customers[m.key].tier
  <2>1. CASE m \in C
    <3>1. PICK c \in Customers : m = CustomerMsg(c, customers[c])
      BY <2>1
    <3>2. m.topic = "customers" /\ m.key = c /\ m.ver = 1 /\ m.body.tier = customers[c].tier
      BY <1>4, <3>1 DEF CustomerMsg, Message
    <3> QED
      BY <1>4, <3>2
  <2>2. CASE m \in R
    <3>1. m.topic = "inventory" /\ m.ver = 0
      BY <2>2 DEF SnapshotMsg, Message
    <3> QED
      BY <3>1
  <2> QED
    BY <2>1, <2>2
<1> HIDE DEF cs, C, R
<1>6. stream \in Seq(C \cup R)
  <2>1. PICK s, t : s = cs /\ t = SnapshotMsgs(inventory)
    OBVIOUS
  <2>2. s \in Seq(C) /\ t \in Seq(R) /\ stream = s \o t
    BY <1>1, <1>2, <1>3, <2>1
  <2> QED
    BY <2>2, Concatenating
<1>7. Len(stream) \in Nat /\ DOMAIN stream = 1..Len(stream)
  BY <1>6, LenProperties
<1>8. \A i \in 1..Len(stream) : stream[i] \in C \cup R
  BY <1>6, ElementOfSeq
<1> QED
  BY <1>5, <1>7, <1>8

CustomerInv == CustomersIn(stream, customers)

LEMMA InitCustomers == TypeOK /\ Init => CustomerInv
<1> SUFFICES ASSUME TypeOK, Init PROVE CustomerInv
  OBVIOUS
<1>1. /\ Len(stream) \in Nat /\ DOMAIN stream = 1..Len(stream)
      /\ \A i \in 1..Len(stream) :
           /\ stream[i].ver \in Nat /\ stream[i].topic \in {"customers", "inventory"}
           /\ stream[i].topic = "customers" =>
                /\ stream[i].key \in Customers
                /\ stream[i].ver = 1 /\ customers[stream[i].key].version = 1
                /\ stream[i].body.tier = customers[stream[i].key].tier
  BY InitTyped
<1>2. NumberedIn(stream)
  BY <1>1 DEF NumberedIn
<1>3. VersionsIn(stream, customers)
  BY <1>1 DEF VersionsIn, IsAbout
<1>4. TiersIn(stream, customers)
  BY <1>1 DEF TiersIn, LastAbout, IsAbout
<1>5. ChangesIn(stream)
  BY <1>1 DEF ChangesIn
<1>6. PairedIn(stream)
  BY <1>1 DEF PairedIn, IsAbout
<1> QED
  BY <1>2, <1>3, <1>4, <1>5, <1>6 DEF CustomerInv, CustomersIn

LEMMA NextCustomers ==
  TypeOK /\ TypeOK' /\ StreamInv /\ CustomerInv /\ [Next]_vars => CustomerInv'
<1> SUFFICES ASSUME TypeOK, TypeOK', StreamInv, CustomerInv, [Next]_vars PROVE CustomerInv'
  OBVIOUS
<1>1. PICK t, more : t = stream' /\ more = customers'
  OBVIOUS
<1>2. PICK n, u : Goes(stream, t, n, u) /\ Emits(t, n, u)
  BY <1>1, StepEmits
<1>3. CustomersIn(stream, customers)
  BY DEF CustomerInv
<1> SUFFICES CustomersIn(t, more)
  BY <1>1 DEF CustomerInv
<1>4. ASSUME NEW topics, NewOnes(t, n, u, topics), UNCHANGED customers,
             "customers" \notin topics, "tier_changes" \notin topics
      PROVE  CustomersIn(t, more)
  <2>1. CustomersIn(t, customers)
    BY <1>2, <1>3, <1>4, CustomersQuiet
  <2> QED
    BY <1>1, <1>4, <2>1
<1>5. CASE Calm(t, n, u) \/ Opened(t, n, u)
  BY <1>4, <1>5 DEF Calm, Opened
<1>6. CASE Placed(t, n, u)
  BY <1>4, <1>6 DEF Placed
<1>7. CASE MovedOn(t, n, u)
  BY <1>4, <1>7 DEF MovedOn
<1>8. CASE Requested(t, n, u)
  BY <1>4, <1>8 DEF Requested
<1>9. CASE HasFired(t, n, u)
  <2>1. PICK c \in Customers : \E new :
          /\ new.version = customers[c].version + 1
          /\ customers' = [customers EXCEPT ![c] = new]
          /\ t[n + 2].topic = "tier_changes" /\ t[n + 2].key = c
          /\ t[n + 2].body.from = customers[c].tier /\ t[n + 2].body.to = new.tier
          /\ t[n + 3].topic = "customers" /\ t[n + 3].key = c
          /\ t[n + 3].ver = new.version /\ t[n + 3].body.tier = new.tier
    BY <1>9 DEF HasFired
  <2>2. PICK new :
          /\ new.version = customers[c].version + 1
          /\ customers' = [customers EXCEPT ![c] = new]
          /\ t[n + 2].topic = "tier_changes" /\ t[n + 2].key = c
          /\ t[n + 2].body.from = customers[c].tier /\ t[n + 2].body.to = new.tier
          /\ t[n + 3].topic = "customers" /\ t[n + 3].key = c
          /\ t[n + 3].ver = new.version /\ t[n + 3].body.tier = new.tier
    BY <2>1
  <2>3. PICK old, p1, p2, p3 : old = customers[c] /\ p1 = n + 1 /\ p2 = n + 2 /\ p3 = n + 3
    OBVIOUS
  <2>4. u = n + 4 /\ t[p1].topic = "payments" /\ t[u].topic = "returns"
    BY <1>9, <2>3 DEF HasFired
  <2>5. TellsChange(stream, t, n, u, c, old, new, p1, p2, p3)
    BY <2>2, <2>3, <2>4 DEF TellsChange, IsAbout
  <2>6. NewOnes(t, n, u, {"payments", "tier_changes", "customers", "returns"})
    BY <1>9 DEF HasFired
  <2>7. customers \in [Customers -> Customer] /\ new.version = old.version + 1
        /\ more = [customers EXCEPT ![c] = new]
    BY <1>1, <2>2, <2>3 DEF TypeOK
  <2> QED
    BY <1>2, <1>3, <2>3, <2>5, <2>6, <2>7, CustomersFired
<1> QED
  BY <1>2, <1>5, <1>6, <1>7, <1>8, <1>9 DEF Emits

-------------------------------------------------------------------------------
(* What the returns' messages tell. *)

\* A return never changes, so every message about it tells what it is, and there is one;
\* it is rejected exactly when it is a scenario's.
ReturnsIn(s, rets) ==
  /\ \A i \in 1..Len(s) : s[i].topic = "returns" =>
       s[i].key \in 1..Len(rets) /\ s[i].body = rets[s[i].key]
  /\ \A r \in 1..Len(rets) :
       /\ \E i \in 1..Len(s) : IsAbout(s[i], "returns", r)
       /\ rets[r].status = "REJECTED" <=> rets[r].reason = "chargeback_already_filed"

ReturnInv == ReturnsIn(stream, returns)

LEMMA ReturnsQuiet ==
  ASSUME NEW s, NEW t, NEW n, NEW u, Goes(s, t, n, u), NEW rets, ReturnsIn(s, rets),
         NEW topics, NewOnes(t, n, u, topics), "returns" \notin topics
  PROVE  ReturnsIn(t, rets)
<1>1. /\ n = Len(s) /\ u = Len(t)
      /\ \A i \in 1..n : t[i] = s[i] /\ i \in 1..u
      /\ \A i \in 1..u : t[i].topic = "returns" => i \in 1..n
  BY DEF Goes, NewOnes
<1>2. \A i \in 1..u : t[i].topic = "returns" => t[i].key \in 1..Len(rets) /\ t[i].body = rets[t[i].key]
  BY <1>1 DEF ReturnsIn
<1>3. ASSUME NEW r \in 1..Len(rets)
      PROVE  /\ \E i \in 1..u : IsAbout(t[i], "returns", r)
             /\ rets[r].status = "REJECTED" <=> rets[r].reason = "chargeback_already_filed"
  <2>1. PICK i \in 1..n : IsAbout(s[i], "returns", r)
    BY <1>1 DEF ReturnsIn
  <2>2. i \in 1..u /\ IsAbout(t[i], "returns", r)
    BY <1>1, <2>1
  <2> QED
    BY <2>2 DEF ReturnsIn
<1> QED
  BY <1>1, <1>2, <1>3 DEF ReturnsIn

\* The last message, and no other of the new ones, is a new return's.
LEMMA ReturnsOneMore ==
  ASSUME NEW s, NEW t, NEW n, NEW u, Goes(s, t, n, u), n < u,
         NEW rets \in Seq(Return), ReturnsIn(s, rets),
         \A i \in 1..u : t[i].topic = "returns" => i \in 1..n \/ i = u,
         NEW ret \in Return, IsAbout(t[u], "returns", Len(rets) + 1), t[u].body = ret,
         ret.status = "REJECTED" <=> ret.reason = "chargeback_already_filed",
         NEW more, more = Append(rets, ret)
  PROVE  ReturnsIn(t, more)
<1>1. /\ n \in Nat /\ u \in Nat /\ n = Len(s) /\ u = Len(t)
      /\ \A i \in 1..n : t[i] = s[i] /\ i \in 1..u
      /\ u \in 1..u
  BY DEF Goes
<1>2. PICK r, r1 : r = Len(rets) /\ r1 = r + 1
  OBVIOUS
<1>3. /\ r \in Nat /\ Len(more) = r1 /\ more[r1] = ret
      /\ \A k \in 1..r : more[k] = rets[k]
  BY <1>2, AppendProperties, LenProperties
<1>4. r1 \in 1..r1 /\ (\A k \in 1..r : k \in 1..r1) /\ (\A k \in 1..r1 : k \in 1..r \/ k = r1)
  BY <1>2, <1>3
<1>5. ASSUME NEW i \in 1..u, t[i].topic = "returns"
      PROVE  t[i].key \in 1..r1 /\ t[i].body = more[t[i].key]
  <2>1. CASE i = u
    BY <1>2, <1>3, <1>4, <2>1 DEF IsAbout
  <2>2. CASE i \in 1..n
    <3>1. t[i].key \in 1..r /\ t[i].body = rets[t[i].key]
      BY <1>1, <1>2, <1>5, <2>2 DEF ReturnsIn
    <3> QED
      BY <1>3, <1>4, <3>1
  <2> QED
    BY <1>5, <2>1, <2>2
<1>6. ASSUME NEW k \in 1..r1
      PROVE  /\ \E i \in 1..u : IsAbout(t[i], "returns", k)
             /\ more[k].status = "REJECTED" <=> more[k].reason = "chargeback_already_filed"
  <2>1. CASE k = r1
    BY <1>1, <1>2, <1>3, <2>1
  <2>2. CASE k \in 1..r
    <3>1. PICK i \in 1..n : IsAbout(s[i], "returns", k)
      BY <1>1, <1>2, <2>2 DEF ReturnsIn
    <3>2. i \in 1..u /\ IsAbout(t[i], "returns", k)
      BY <1>1, <3>1
    <3>3. rets[k].status = "REJECTED" <=> rets[k].reason = "chargeback_already_filed"
      BY <1>2, <2>2 DEF ReturnsIn
    <3> QED
      BY <1>3, <2>2, <3>2, <3>3
  <2> QED
    BY <1>4, <2>1, <2>2
<1> QED
  BY <1>1, <1>3, <1>5, <1>6 DEF ReturnsIn

LEMMA InitReturns == TypeOK /\ Init => ReturnInv
<1> SUFFICES ASSUME TypeOK, Init PROVE ReturnInv
  OBVIOUS
<1>1. \A i \in 1..Len(stream) : stream[i].topic \in {"customers", "inventory"}
  BY InitTyped
<1>2. Len(returns) = 0
  BY DEF Init
<1> QED
  BY <1>1, <1>2 DEF ReturnInv, ReturnsIn

LEMMA NextReturns ==
  TypeOK /\ TypeOK' /\ StreamInv /\ ReturnInv /\ [Next]_vars => ReturnInv'
<1> SUFFICES ASSUME TypeOK, TypeOK', StreamInv, ReturnInv, [Next]_vars PROVE ReturnInv'
  OBVIOUS
<1>1. PICK t, more : t = stream' /\ more = returns'
  OBVIOUS
<1>2. PICK n, u : Goes(stream, t, n, u) /\ Emits(t, n, u)
  BY <1>1, StepEmits
<1>3. ReturnsIn(stream, returns) /\ returns \in Seq(Return)
  BY DEF ReturnInv, TypeOK
<1> SUFFICES ReturnsIn(t, more)
  BY <1>1 DEF ReturnInv
<1>4. ASSUME NEW topics, NewOnes(t, n, u, topics), UNCHANGED returns, "returns" \notin topics
      PROVE  ReturnsIn(t, more)
  <2>1. ReturnsIn(t, returns)
    BY <1>2, <1>3, <1>4, ReturnsQuiet
  <2> QED
    BY <1>1, <1>4, <2>1
<1>5. CASE Calm(t, n, u) \/ Opened(t, n, u)
  BY <1>4, <1>5 DEF Calm, Opened
<1>6. CASE Placed(t, n, u)
  BY <1>4, <1>6 DEF Placed
<1>7. CASE MovedOn(t, n, u)
  BY <1>4, <1>7 DEF MovedOn
<1>8. ASSUME n < u, \A i \in 1..u : t[i].topic = "returns" => i \in 1..n \/ i = u,
             IsAbout(t[u], "returns", Len(returns) + 1), t[u].body \in Return,
             t[u].body.status = "REJECTED" <=> t[u].body.reason = "chargeback_already_filed",
             more = Append(returns, t[u].body)
      PROVE  ReturnsIn(t, more)
  <2>1. PICK ret : ret = t[u].body
    OBVIOUS
  <2>2. /\ ret \in Return /\ more = Append(returns, ret)
        /\ ret.status = "REJECTED" <=> ret.reason = "chargeback_already_filed"
    BY <1>8, <2>1
  <2> QED
    BY <1>2, <1>3, <1>8, <2>1, <2>2, ReturnsOneMore
<1>9. n \in Nat /\ u \in Nat
  BY <1>2 DEF Goes
<1>10. CASE Requested(t, n, u)
  <2>1. u = n + 1 /\ NewOnes(t, n, u, {"returns"}) /\ t[u].key = Len(returns) + 1
    BY <1>10 DEF Requested
  <2>2. u \in 1..u /\ u \notin 1..n /\ n < u /\ \A i \in 1..u : i \in 1..n \/ i = u
    BY <1>9, <2>1
  <2>3. IsAbout(t[u], "returns", Len(returns) + 1)
    BY <2>1, <2>2 DEF NewOnes, IsAbout
  <2>4. t[u].body.status = "REJECTED" <=> t[u].body.reason = "chargeback_already_filed"
    BY <1>10 DEF Requested
  <2>5. more = Append(returns, t[u].body) /\ t[u].body \in Return
    BY <1>1, <1>10 DEF Requested
  <2> QED
    BY <1>8, <2>2, <2>3, <2>4, <2>5
<1>11. CASE HasFired(t, n, u)
  <2>1. PICK p1, p2, p3 : p1 = n + 1 /\ p2 = n + 2 /\ p3 = n + 3
    OBVIOUS
  <2>2. /\ u = n + 4 /\ t[p1].topic = "payments" /\ t[p2].topic = "tier_changes"
        /\ t[p3].topic = "customers"
    BY <1>11, <2>1 DEF HasFired
  <2>3. n < u /\ \A i \in 1..u : i \in 1..n \/ i = p1 \/ i = p2 \/ i = p3 \/ i = u
    BY <1>9, <2>1, <2>2
  <2>4. \A i \in 1..u : t[i].topic = "returns" => i \in 1..n \/ i = u
    BY <2>2, <2>3
  <2>5. IsAbout(t[u], "returns", Len(returns) + 1) /\ t[u].body \in Return
    BY <1>11 DEF HasFired, IsAbout
  <2>6. t[u].body.status = "REJECTED" <=> t[u].body.reason = "chargeback_already_filed"
    BY <1>11 DEF HasFired
  <2>7. more = Append(returns, t[u].body)
    BY <1>1, <1>11 DEF HasFired
  <2> QED
    BY <1>8, <2>3, <2>4, <2>5, <2>6, <2>7
<1> QED
  BY <1>2, <1>5, <1>6, <1>7, <1>10, <1>11 DEF Emits

-------------------------------------------------------------------------------
(* What the orders' messages tell. *)

\* Of the first n messages one is about the order's items, one is its capture.
ItemsSeen(s, n, o)    == \E j \in 1..n : IsAbout(s[j], "order_items", o)
CaptureSeen(s, n, o)  == \E j \in 1..n : IsCapture(s[j], o)

\* What an order's event tells has been told before, and a delivery is its last.
EventIn(s, i, ords) ==
  /\ s[i].key \in 1..Len(ords)
  /\ s[i].body.status # "CREATED" => ItemsSeen(s, i, s[i].key)
  /\ s[i].body.status \in {"SHIPPED", "DELIVERED"} => CaptureSeen(s, i, s[i].key)
  /\ s[i].body.status = "DELIVERED" => ords[s[i].key].status = "DELIVERED"

DeliveryIsLast(s) ==
  \A i, j \in 1..Len(s) : s[i].topic = "orders" /\ s[i].body.status = "DELIVERED"
                          /\ IsAbout(s[j], "orders", s[i].key) => j <= i

\* Every order has items, and its last event tells its status.
OrderIn(s, o, ord) ==
  /\ ItemsSeen(s, Len(s), o)
  /\ \A j \in 1..Len(s) : LastAbout(s, Len(s), "orders", o, j) => s[j].body.status = ord.status

OrdersIn(s, ords) ==
  /\ \A i \in 1..Len(s) : s[i].topic = "orders" => EventIn(s, i, ords)
  /\ DeliveryIsLast(s)
  /\ \A o \in 1..Len(ords) : OrderIn(s, o, ords[o])

OrderInv == OrdersIn(stream, orders)

\* What has been seen of the longer sequence.
LEMMA StillSeen ==
  ASSUME NEW s, NEW t, NEW n, NEW u, Goes(s, t, n, u), NEW m \in 0..n, NEW l \in m..u, NEW o
  PROVE  /\ ItemsSeen(s, m, o) => ItemsSeen(t, l, o)
         /\ CaptureSeen(s, m, o) => CaptureSeen(t, l, o)
<1>1. \A j \in 1..m : j \in 1..l /\ t[j] = s[j]
  BY DEF Goes
<1> QED
  BY <1>1 DEF ItemsSeen, CaptureSeen

\* An earlier event is as it was, for an order that is delivered still.
LEMMA EventStays ==
  ASSUME NEW s, NEW t, NEW n, NEW u, Goes(s, t, n, u), NEW ords, NEW more,
         NEW i \in 1..n, EventIn(s, i, ords), 1..Len(ords) \subseteq 1..Len(more),
         \A o \in 1..Len(ords) : ords[o].status = "DELIVERED" => more[o].status = "DELIVERED"
  PROVE  EventIn(t, i, more)
<1>1. i \in 0..n /\ i \in i..u /\ t[i] = s[i]
  BY DEF Goes
<1>2. /\ ItemsSeen(s, i, s[i].key) => ItemsSeen(t, i, s[i].key)
      /\ CaptureSeen(s, i, s[i].key) => CaptureSeen(t, i, s[i].key)
  BY <1>1, StillSeen
<1> QED
  BY <1>1, <1>2 DEF EventIn

\* So is an order that no new event is about.
LEMMA OrderStays ==
  ASSUME NEW s, NEW t, NEW n, NEW u, Goes(s, t, n, u), NEW o, NEW ord, OrderIn(s, o, ord),
         \A i \in 1..u : IsAbout(t[i], "orders", o) => i \in 1..n
  PROVE  OrderIn(t, o, ord)
<1>1. /\ n \in Nat /\ u \in Nat /\ n <= u /\ n = Len(s) /\ u = Len(t) /\ \A i \in 1..n : t[i] = s[i]
  BY DEF Goes
<1>2. n \in 0..n /\ u \in n..u
  BY <1>1
<1>3. ItemsSeen(t, u, o)
  BY <1>1, <1>2, StillSeen DEF OrderIn
<1>4. ASSUME NEW j \in 1..u, LastAbout(t, u, "orders", o, j)
      PROVE  t[j].body.status = ord.status
  <2>1. j \in 1..n
    BY <1>4 DEF LastAbout
  <2>2. u \in 1..u /\ n <= u /\ j <= n
    BY <1>1, <2>1
  <2>3. LastAbout(s, n, "orders", o, j)
    BY <1>2, <1>4, <2>1, <2>2, LastBefore
  <2> QED
    BY <1>1, <2>1, <2>3 DEF OrderIn
<1> QED
  BY <1>1, <1>3, <1>4 DEF OrderIn

LEMMA OrdersQuiet ==
  ASSUME NEW s, NEW t, NEW n, NEW u, Goes(s, t, n, u), NEW ords, OrdersIn(s, ords),
         NEW topics, NewOnes(t, n, u, topics), "orders" \notin topics
  PROVE  OrdersIn(t, ords)
<1>1. /\ n = Len(s) /\ u = Len(t) /\ \A i \in 1..n : t[i] = s[i] /\ i \in 1..u
      /\ \A i \in 1..u : t[i].topic = "orders" => i \in 1..n
  BY DEF Goes, NewOnes
<1>2. ASSUME NEW i \in 1..u, t[i].topic = "orders" PROVE EventIn(t, i, ords)
  <2>1. i \in 1..n /\ EventIn(s, i, ords)
    BY <1>1, <1>2 DEF OrdersIn
  <2> QED
    BY <2>1, EventStays
<1>3. DeliveryIsLast(t)
  BY <1>1 DEF OrdersIn, DeliveryIsLast, IsAbout
<1>4. ASSUME NEW o \in 1..Len(ords) PROVE OrderIn(t, o, ords[o])
  <2>1. \A i \in 1..u : IsAbout(t[i], "orders", o) => i \in 1..n
    BY <1>1 DEF IsAbout
  <2>2. OrderIn(s, o, ords[o])
    BY DEF OrdersIn
  <2> QED
    BY <2>1, <2>2, OrderStays
<1> QED
  BY <1>1, <1>2, <1>3, <1>4 DEF OrdersIn

\* Of the new messages the first, at p, is an order's event and no other is.
OneEvent(t, n, u, p) ==
  /\ p = n + 1 /\ p \in 1..u /\ t[p].topic = "orders"
  /\ \A i \in 1..u : t[i].topic = "orders" => i \in 1..n \/ i = p

LEMMA OrdersPlaced ==
  ASSUME NEW s, NEW t, NEW n, NEW u, Goes(s, t, n, u), NEW ords \in Seq(Order), OrdersIn(s, ords),
         NEW p, OneEvent(t, n, u, p), NEW o, o = Len(ords) + 1, t[p].key = o,
         t[p].body.status = "CREATED", ItemsSeen(t, u, o),
         NEW ord \in Order, ord.status = "CREATED", NEW more, more = Append(ords, ord)
  PROVE  OrdersIn(t, more)
<1>1. /\ n \in Nat /\ u \in Nat /\ n = Len(s) /\ u = Len(t)
      /\ \A i \in 1..n : t[i] = s[i] /\ i \in 1..u /\ i # p /\ i <= p
  BY DEF Goes, OneEvent
<1>2. PICK r : r = Len(ords)
  OBVIOUS
<1>3. /\ r \in Nat /\ Len(more) = o /\ more[o] = ord /\ o \notin 1..r
      /\ \A k \in 1..r : more[k] = ords[k]
  BY <1>2, AppendProperties, LenProperties
<1>4. o \in 1..o /\ (\A k \in 1..r : k \in 1..o) /\ (\A k \in 1..o : k \in 1..r \/ k = o)
  BY <1>2, <1>3
<1>5. ASSUME NEW i \in 1..u, t[i].topic = "orders" PROVE EventIn(t, i, more)
  <2>1. CASE i = p
    BY <1>3, <1>4, <2>1 DEF EventIn
  <2>2. CASE i \in 1..n
    <3>1. EventIn(s, i, ords)
      BY <1>1, <1>5, <2>2 DEF OrdersIn
    <3> QED
      BY <1>2, <1>3, <1>4, <2>2, <3>1, EventStays
  <2> QED
    BY <1>5, <2>1, <2>2 DEF OneEvent
<1>6. \A i \in 1..n : s[i].topic = "orders" => s[i].key \in 1..r
  BY <1>1, <1>2 DEF OrdersIn, EventIn
<1>7. DeliveryIsLast(t)
  <2>1. ASSUME NEW i \in 1..u, NEW j \in 1..u, t[i].topic = "orders",
               t[i].body.status = "DELIVERED", IsAbout(t[j], "orders", t[i].key)
        PROVE  j <= i
    <3>1. i \in 1..n /\ (j \in 1..n \/ j = p)
      BY <2>1 DEF OneEvent, IsAbout
    <3>2. j # p
      BY <1>1, <1>3, <1>6, <2>1, <3>1 DEF IsAbout
    <3> QED
      BY <1>1, <2>1, <3>1, <3>2 DEF OrdersIn, DeliveryIsLast
  <2> QED
    BY <1>1, <2>1 DEF DeliveryIsLast
<1>8. ASSUME NEW k \in 1..o PROVE OrderIn(t, k, more[k])
  <2>1. CASE k \in 1..r
    <3>1. \A i \in 1..u : IsAbout(t[i], "orders", k) => i \in 1..n
      BY <1>3, <2>1 DEF OneEvent, IsAbout
    <3>2. OrderIn(s, k, more[k])
      BY <1>2, <1>3, <2>1 DEF OrdersIn
    <3> QED
      BY <3>1, <3>2, OrderStays
  <2>2. CASE k = o
    <3>1. ASSUME NEW j \in 1..u, LastAbout(t, u, "orders", o, j)
          PROVE  t[j].body.status = "CREATED"
      <4>1. j \in 1..n \/ j = p
        BY <3>1 DEF LastAbout, IsAbout, OneEvent
      <4>2. j \notin 1..n
        BY <1>1, <1>3, <1>6, <3>1 DEF LastAbout, IsAbout
      <4> QED
        BY <4>1, <4>2
    <3> QED
      BY <1>1, <1>3, <2>2, <3>1 DEF OrderIn
  <2> QED
    BY <1>4, <2>1, <2>2
<1> QED
  BY <1>1, <1>3, <1>5, <1>7, <1>8 DEF OrdersIn

LEMMA OrdersAdvanced ==
  ASSUME NEW s, NEW t, NEW n, NEW u, Goes(s, t, n, u), NEW ords \in Seq(Order), OrdersIn(s, ords),
         \A k \in 1..Len(ords) : ords[k].status # "CREATED" => CaptureSeen(s, n, k),
         NEW p, OneEvent(t, n, u, p), NEW o \in 1..Len(ords), t[p].key = o,
         ords[o].status \in DOMAIN NextStatus,
         NEW ord \in Order, ord.status = NextStatus[ords[o].status],
         t[p].body.status = ord.status, NEW more, more = [ords EXCEPT ![o] = ord]
  PROVE  OrdersIn(t, more)
<1>1. /\ n \in Nat /\ u \in Nat /\ n = Len(s) /\ u = Len(t) /\ n <= p
      /\ \A i \in 1..n : t[i] = s[i] /\ i \in 1..u /\ i # p /\ i <= p
  BY DEF Goes, OneEvent
<1>2. PICK r : r = Len(ords)
  OBVIOUS
<1>3. /\ r \in Nat /\ Len(more) = r /\ more[o] = ord
      /\ \A k \in 1..r : k # o => more[k] = ords[k]
  BY <1>2, ExceptSeq, LenProperties
<1>4. /\ ord.status # "CREATED" /\ ords[o].status # "DELIVERED"
      /\ ord.status \in {"SHIPPED", "DELIVERED"} => ords[o].status # "CREATED"
  BY DEF NextStatus
<1>5. n \in 0..n /\ p \in n..u /\ u \in n..u
  BY <1>1 DEF OneEvent
<1>6. ASSUME NEW i \in 1..u, t[i].topic = "orders" PROVE EventIn(t, i, more)
  <2>1. CASE i = p
    <3>1. ItemsSeen(t, p, o)
      BY <1>1, <1>5, StillSeen DEF OrdersIn, OrderIn
    <3>2. ord.status \in {"SHIPPED", "DELIVERED"} => CaptureSeen(t, p, o)
      BY <1>1, <1>4, <1>5, StillSeen
    <3> QED
      BY <1>2, <1>3, <2>1, <3>1, <3>2 DEF EventIn
  <2>2. CASE i \in 1..n
    <3>1. EventIn(s, i, ords)
      BY <1>1, <1>6, <2>2 DEF OrdersIn
    <3>2. \A k \in 1..Len(ords) : ords[k].status = "DELIVERED" => more[k].status = "DELIVERED"
      BY <1>2, <1>3, <1>4
    <3> QED
      BY <1>2, <1>3, <2>2, <3>1, <3>2, EventStays
  <2> QED
    BY <1>6, <2>1, <2>2 DEF OneEvent
<1>7. DeliveryIsLast(t)
  <2>1. ASSUME NEW i \in 1..u, NEW j \in 1..u, t[i].topic = "orders",
               t[i].body.status = "DELIVERED", IsAbout(t[j], "orders", t[i].key)
        PROVE  j <= i
    <3>1. (i \in 1..n \/ i = p) /\ (j \in 1..n \/ j = p)
      BY <2>1 DEF OneEvent, IsAbout
    <3>2. CASE i = p
      BY <1>1, <3>1, <3>2 DEF OneEvent
    <3>3. CASE i \in 1..n /\ j \in 1..n
      BY <1>1, <2>1, <3>3 DEF OrdersIn, DeliveryIsLast
    <3>4. CASE i \in 1..n /\ j = p
      <4>1. ords[s[i].key].status = "DELIVERED"
        BY <1>1, <2>1, <3>4 DEF OrdersIn, EventIn
      <4> QED
        BY <1>1, <1>4, <2>1, <3>4, <4>1 DEF IsAbout
    <3> QED
      BY <3>1, <3>2, <3>3, <3>4
  <2> QED
    BY <1>1, <2>1 DEF DeliveryIsLast
<1>8. ASSUME NEW k \in 1..r PROVE OrderIn(t, k, more[k])
  <2>1. OrderIn(s, k, ords[k])
    BY <1>2 DEF OrdersIn
  <2>2. CASE k # o
    <3>1. \A i \in 1..u : IsAbout(t[i], "orders", k) => i \in 1..n
      BY <2>2 DEF OneEvent, IsAbout
    <3> QED
      BY <1>3, <2>1, <2>2, <3>1, OrderStays
  <2>3. CASE k = o
    <3>1. ItemsSeen(t, u, o)
      BY <1>1, <1>5, <2>1, <2>3, StillSeen DEF OrderIn
    <3>2. ASSUME NEW j \in 1..u, LastAbout(t, u, "orders", o, j)
          PROVE  t[j].body.status = ord.status
      <4>1. (j \in 1..n \/ j = p) /\ p <= j
        BY <3>2 DEF LastAbout, IsAbout, OneEvent
      <4>2. j = p
        BY <1>1, <4>1 DEF OneEvent
      <4> QED
        BY <4>2
    <3> QED
      BY <1>1, <1>3, <2>3, <3>1, <3>2 DEF OrderIn
  <2> QED
    BY <2>2, <2>3
<1> QED
  BY <1>1, <1>3, <1>6, <1>7, <1>8 DEF OrdersIn

LEMMA InitOrders == TypeOK /\ Init => OrderInv
<1> SUFFICES ASSUME TypeOK, Init PROVE OrderInv
  OBVIOUS
<1>1. \A i \in 1..Len(stream) : stream[i].topic \in {"customers", "inventory"}
  BY InitTyped
<1>2. Len(orders) = 0
  BY DEF Init
<1> QED
  BY <1>1, <1>2 DEF OrderInv, OrdersIn, DeliveryIsLast

\* An order that is past its first status has been captured.
LEMMA CapturesSeen ==
  ASSUME StreamInv, LifecycleInv, NEW o \in 1..Len(orders), orders[o].status # "CREATED"
  PROVE  CaptureSeen(stream, Len(stream), o)
<1>1. PICK i \in 1..Len(stream) : Captures(o) = {i}
  BY DEF LifecycleInv, CapturedOnce
<1>2. IsCapture(stream[i], o)
  BY <1>1 DEF Captures, Payments, IsCapture
<1> QED
  BY <1>2 DEF CaptureSeen

LEMMA NextOrders ==
  TypeOK /\ TypeOK' /\ StreamInv /\ LifecycleInv /\ OrderInv /\ [Next]_vars => OrderInv'
<1> SUFFICES ASSUME TypeOK, TypeOK', StreamInv, LifecycleInv, OrderInv, [Next]_vars
             PROVE  OrderInv'
  OBVIOUS
<1>1. PICK t, more : t = stream' /\ more = orders'
  OBVIOUS
<1>2. PICK n, u : Goes(stream, t, n, u) /\ Emits(t, n, u)
  BY <1>1, StepEmits
<1>3. OrdersIn(stream, orders) /\ orders \in Seq(Order)
  BY DEF OrderInv, TypeOK
<1>4. n \in Nat /\ u \in Nat /\ n = Len(stream)
  BY <1>2 DEF Goes
<1> SUFFICES OrdersIn(t, more)
  BY <1>1 DEF OrderInv
<1>5. ASSUME NEW topics, NewOnes(t, n, u, topics), UNCHANGED orders, "orders" \notin topics
      PROVE  OrdersIn(t, more)
  <2>1. OrdersIn(t, orders)
    BY <1>2, <1>3, <1>5, OrdersQuiet
  <2> QED
    BY <1>1, <1>5, <2>1
<1>6. CASE Calm(t, n, u) \/ Opened(t, n, u)
  BY <1>5, <1>6 DEF Calm, Opened
<1>7. CASE Requested(t, n, u)
  BY <1>5, <1>7 DEF Requested
<1>8. CASE HasFired(t, n, u)
  BY <1>5, <1>8 DEF HasFired
<1>9. CASE Placed(t, n, u)
  <2>1. PICK p, o : p = n + 1 /\ o = Len(orders) + 1
    OBVIOUS
  <2>2. PICK ord \in Order : ord.status = "CREATED" /\ more = Append(orders, ord)
    BY <1>1, <1>9 DEF Placed
  <2>3. n + 2 <= u
    BY <1>9 DEF Placed
  <2>4. /\ p \in 1..u /\ n + 2 \in 1..u /\ n + 2 \in n + 2 .. u
        /\ \A i \in 1..u : i \in 1..n \/ i = p \/ i \in n + 2 .. u
    BY <1>4, <2>1, <2>3
  <2>5. \A i \in n + 2 .. u : t[i].topic = "order_items" /\ t[i].key = o
    BY <1>9, <2>1 DEF Placed
  <2>6. t[p].topic = "orders" /\ t[p].key = o /\ t[p].body.status = "CREATED"
    BY <1>9, <2>1 DEF Placed
  <2>7. \A i \in 1..u : t[i].topic = "orders" => i \in 1..n \/ i = p
    BY <2>4, <2>5
  <2>8. OneEvent(t, n, u, p)
    BY <2>1, <2>4, <2>6, <2>7 DEF OneEvent
  <2>9. ItemsSeen(t, u, o)
    BY <2>4, <2>5 DEF ItemsSeen, IsAbout
  <2> QED
    BY <1>2, <1>3, <2>1, <2>2, <2>6, <2>8, <2>9, OrdersPlaced
<1>10. CASE MovedOn(t, n, u)
  <2>1. PICK o \in 1..Len(orders) : \E ord \in Order :
          /\ t[n + 1].topic = "orders" /\ t[n + 1].key = o /\ t[n + 1].body.status = ord.status
          /\ orders[o].status \in DOMAIN NextStatus /\ ord.status = NextStatus[orders[o].status]
          /\ orders' = [orders EXCEPT ![o] = ord]
    BY <1>10 DEF MovedOn
  <2>2. PICK ord \in Order :
          /\ t[n + 1].topic = "orders" /\ t[n + 1].key = o /\ t[n + 1].body.status = ord.status
          /\ orders[o].status \in DOMAIN NextStatus /\ ord.status = NextStatus[orders[o].status]
          /\ orders' = [orders EXCEPT ![o] = ord]
    BY <2>1
  <2>3. PICK p : p = n + 1
    OBVIOUS
  <2>4. /\ t[p].topic = "orders" /\ t[p].key = o /\ t[p].body.status = ord.status
        /\ more = [orders EXCEPT ![o] = ord]
    BY <1>1, <2>2, <2>3
  <2>5. n + 1 <= u /\ \A i \in n + 2 .. u : t[i].topic = "payments"
    BY <1>10 DEF MovedOn
  <2>6. /\ p \in 1..u
        /\ \A i \in 1..u : i \in 1..n \/ i = p \/ i \in n + 2 .. u
    BY <1>4, <2>3, <2>5
  <2>7. \A i \in 1..u : t[i].topic = "orders" => i \in 1..n \/ i = p
    BY <2>5, <2>6
  <2>8. OneEvent(t, n, u, p)
    BY <2>3, <2>4, <2>6, <2>7 DEF OneEvent
  <2>9. \A k \in 1..Len(orders) : orders[k].status # "CREATED" => CaptureSeen(stream, n, k)
    BY <1>4, CapturesSeen
  <2> QED
    BY <1>2, <1>3, <2>2, <2>4, <2>8, <2>9, OrdersAdvanced
<1> QED
  BY <1>2, <1>6, <1>7, <1>8, <1>9, <1>10 DEF Emits

-------------------------------------------------------------------------------
(* Returns and tickets are told once, stock before it is ordered. *)

\* The messages of the topic number its entities, of which there are count, in order.
NumbersIn(s, topic, count) ==
  /\ \A i \in 1..Len(s) : s[i].topic = topic => s[i].key \in 1..count
  /\ \A i, j \in 1..Len(s) :
       i < j /\ s[i].topic = topic /\ s[j].topic = topic => s[i].key < s[j].key

OnceInv == NumbersIn(stream, "returns", Len(returns)) /\ NumbersIn(stream, "tickets", Len(tickets))

\* The stock of each row has been told, and before an item is of the row.
StockSeen(s, n, r) == \E j \in 1..n : IsAbout(s[j], "inventory", r)
StockIn(s) ==
  /\ \A r \in Rows : StockSeen(s, Len(s), r)
  /\ \A i \in 1..Len(s) : s[i].topic = "order_items" => StockSeen(s, i, s[i].body.row)

StockInv == StockIn(stream)

LEMMA NumbersQuiet ==
  ASSUME NEW s, NEW t, NEW n, NEW u, Goes(s, t, n, u), NEW topic, NEW count,
         NumbersIn(s, topic, count), NEW topics, NewOnes(t, n, u, topics), topic \notin topics
  PROVE  NumbersIn(t, topic, count)
<1>1. /\ n = Len(s) /\ u = Len(t)
      /\ \A i \in 1..n : t[i] = s[i]
      /\ \A i \in 1..u : t[i].topic = topic => i \in 1..n
  BY DEF Goes, NewOnes
<1> QED
  BY <1>1 DEF NumbersIn

LEMMA NumbersOneMore ==
  ASSUME NEW s, NEW t, NEW n, NEW u, Goes(s, t, n, u), NEW topic, NEW count \in Nat,
         NumbersIn(s, topic, count), t[u].key = count + 1,
         \A i \in 1..u : t[i].topic = topic => i \in 1..n \/ i = u
  PROVE  NumbersIn(t, topic, count + 1)
<1>1. /\ n = Len(s) /\ u = Len(t) /\ n \in Nat /\ u \in Nat /\ n <= u
      /\ \A i \in 1..n : t[i] = s[i]
  BY DEF Goes
<1>2. \A i \in 1..n : t[i].topic = topic => t[i].key \in 1..count
  BY <1>1 DEF NumbersIn
<1>3. ASSUME NEW i \in 1..u, t[i].topic = topic
      PROVE  t[i].key \in 1..count + 1
  BY <1>2, <1>3
<1>4. ASSUME NEW i \in 1..u, NEW j \in 1..u, i < j, t[i].topic = topic, t[j].topic = topic
      PROVE  t[i].key < t[j].key
  <2>1. i \in 1..n
    BY <1>1, <1>4
  <2>2. CASE j = u
    BY <1>2, <1>4, <2>1, <2>2
  <2>3. CASE j \in 1..n
    BY <1>1, <1>4, <2>1, <2>3 DEF NumbersIn
  <2> QED
    BY <1>4, <2>2, <2>3
<1> QED
  BY <1>1, <1>3, <1>4 DEF NumbersIn

LEMMA InitOnce == TypeOK /\ Init => OnceInv
<1> SUFFICES ASSUME TypeOK, Init PROVE OnceInv
  OBVIOUS
<1>1. \A i \in 1..Len(stream) : stream[i].topic \in {"customers", "inventory"}
  BY InitTyped
<1> QED
  BY <1>1 DEF OnceInv, NumbersIn

LEMMA NextOnce ==
  TypeOK /\ TypeOK' /\ StreamInv /\ OnceInv /\ [Next]_vars => OnceInv'
<1> SUFFICES ASSUME TypeOK, TypeOK', StreamInv, OnceInv, [Next]_vars PROVE OnceInv'
  OBVIOUS
<1>1. PICK t : t = stream'
  OBVIOUS
<1>2. PICK n, u : Goes(stream, t, n, u) /\ Emits(t, n, u)
  BY <1>1, StepEmits
<1>3. PICK r, r1, k, k1 : r = Len(returns) /\ r1 = Len(returns') /\ k = Len(tickets) /\ k1 = Len(tickets')
  OBVIOUS
<1>4. r \in Nat /\ k \in Nat /\ n \in Nat /\ u \in Nat
  BY <1>2, <1>3, LenProperties DEF TypeOK, Goes
<1>5. NumbersIn(stream, "returns", r) /\ NumbersIn(stream, "tickets", k)
  BY <1>3 DEF OnceInv
<1> SUFFICES NumbersIn(t, "returns", r1) /\ NumbersIn(t, "tickets", k1)
  BY <1>1, <1>3 DEF OnceInv
<1>6. ASSUME NEW topics, NewOnes(t, n, u, topics), "returns" \notin topics, UNCHANGED returns
      PROVE  NumbersIn(t, "returns", r1)
  <2>1. r1 = r
    BY <1>3, <1>6
  <2> QED
    BY <1>2, <1>5, <1>6, <2>1, NumbersQuiet
<1>7. ASSUME NEW topics, NewOnes(t, n, u, topics), "tickets" \notin topics, UNCHANGED tickets
      PROVE  NumbersIn(t, "tickets", k1)
  <2>1. k1 = k
    BY <1>3, <1>7
  <2> QED
    BY <1>2, <1>5, <1>7, <2>1, NumbersQuiet
<1>8. CASE Calm(t, n, u)
  BY <1>6, <1>7, <1>8 DEF Calm
<1>9. CASE Opened(t, n, u)
  <2>1. NewOnes(t, n, u, {"tickets"}) /\ u = n + 1 /\ t[u].key = k + 1 /\ UNCHANGED returns
    BY <1>3, <1>9 DEF Opened
  <2>2. k1 = k + 1
    BY <1>3, <1>9, AppendProperties DEF Opened, TypeOK
  <2>3. \A i \in 1..u : i \in 1..n \/ i = u
    BY <1>4, <2>1
  <2>4. NumbersIn(t, "tickets", k + 1)
    BY <1>2, <1>4, <1>5, <2>1, <2>3, NumbersOneMore
  <2> QED
    BY <1>6, <2>1, <2>2, <2>4
<1>10. CASE Placed(t, n, u)
  BY <1>6, <1>7, <1>10 DEF Placed
<1>11. CASE MovedOn(t, n, u)
  BY <1>6, <1>7, <1>11 DEF MovedOn
<1>12. CASE Requested(t, n, u)
  <2>1. NewOnes(t, n, u, {"returns"}) /\ u = n + 1 /\ t[u].key = r + 1 /\ UNCHANGED tickets
    BY <1>3, <1>12 DEF Requested
  <2>2. r1 = r + 1
    BY <1>3, <1>12, AppendProperties DEF Requested, TypeOK
  <2>3. \A i \in 1..u : i \in 1..n \/ i = u
    BY <1>4, <2>1
  <2>4. NumbersIn(t, "returns", r + 1)
    BY <1>2, <1>4, <1>5, <2>1, <2>3, NumbersOneMore
  <2> QED
    BY <1>7, <2>1, <2>2, <2>4
<1>13. CASE HasFired(t, n, u)
  <2>1. PICK p1, p2, p3 : p1 = n + 1 /\ p2 = n + 2 /\ p3 = n + 3
    OBVIOUS
  <2>2. /\ u = n + 4 /\ t[p1].topic = "payments" /\ t[p2].topic = "tier_changes"
        /\ t[p3].topic = "customers" /\ t[u].key = r + 1
        /\ NewOnes(t, n, u, {"payments", "tier_changes", "customers", "returns"})
        /\ UNCHANGED tickets
    BY <1>3, <1>13, <2>1 DEF HasFired
  <2>3. \A i \in 1..u : i \in 1..n \/ i = p1 \/ i = p2 \/ i = p3 \/ i = u
    BY <1>4, <2>1, <2>2
  <2>4. \A i \in 1..u : t[i].topic = "returns" => i \in 1..n \/ i = u
    BY <2>2, <2>3
  <2>5. r1 = r + 1
    BY <1>3, <1>13, AppendProperties DEF HasFired, TypeOK
  <2>6. NumbersIn(t, "returns", r + 1)
    BY <1>2, <1>4, <1>5, <2>2, <2>4, NumbersOneMore
  <2> QED
    BY <1>7, <2>2, <2>5, <2>6
<1> QED
  BY <1>2, <1>8, <1>9, <1>10, <1>11, <1>12, <1>13 DEF Emits

LEMMA InitStock == TypeOK /\ Init => StockInv
<1> SUFFICES ASSUME TypeOK, Init PROVE StockInv
  OBVIOUS
<1>1. \A i \in 1..Len(stream) : stream[i].topic \in {"customers", "inventory"}
  BY InitTyped
<1>2. ASSUME NEW r \in Rows
      PROVE  StockSeen(stream, Len(stream), r)
  <2>1. PICK C, R, s, t : /\ C = {CustomerMsg(c, customers[c]) : c \in Customers}
                          /\ R = {SnapshotMsg(k, inventory[k]) : k \in Rows}
                          /\ s = [c \in Customers |-> CustomerMsg(c, customers[c])]
                          /\ t = SnapshotMsgs(inventory)
    OBVIOUS
  <2>2. s \in Seq(C) /\ t \in Seq(R) /\ stream = s \o t
    BY <2>1, IsASeq, SizesAssumption DEF Init, Customers, Rows, SnapshotMsgs
  <2>3. r \in 1..Len(t) /\ t[r] = SnapshotMsg(r, inventory[r])
    BY <2>1, <2>2, LenProperties, SizesAssumption DEF Rows, SnapshotMsgs
  <2>4. PICK l : l = Len(s)
    OBVIOUS
  <2>5. l + r \in 1..Len(stream) /\ stream[l + r] = t[r]
    BY <2>2, <2>3, <2>4, Concatenating
  <2>6. IsAbout(stream[l + r], "inventory", r)
    BY <2>3, <2>5 DEF IsAbout, SnapshotMsg, Message
  <2> QED
    BY <2>5, <2>6 DEF StockSeen
<1> QED
  BY <1>1, <1>2 DEF StockInv, StockIn

\* An item that is told is of a row that there is.
LEMMA ItemsOfRows ==
  ASSUME NEW t, NEW n \in Nat, NEW u, Emits(t, n, u),
         NEW i \in 1..u, i \notin 1..n, t[i].topic = "order_items"
  PROVE  t[i].body.row \in Rows
<1>1. CASE Placed(t, n, u)
  <2>1. i # n + 1
    BY <1>1 DEF Placed
  <2>2. u \in Nat => i \in n + 2 .. u
    BY <2>1
  <2>3. i \in n + 2 .. u
    BY <2>1
  <2> QED
    BY <1>1, <2>3 DEF Placed
<1>2. CASE ~Placed(t, n, u)
  BY <1>2 DEF Emits, Calm, Opened, MovedOn, Requested, HasFired, NewOnes
<1> QED
  BY <1>1, <1>2

LEMMA NextStock ==
  TypeOK /\ TypeOK' /\ StreamInv /\ StockInv /\ [Next]_vars => StockInv'
<1> SUFFICES ASSUME TypeOK, TypeOK', StreamInv, StockInv, [Next]_vars PROVE StockInv'
  OBVIOUS
<1>1. PICK t : t = stream'
  OBVIOUS
<1>2. PICK n, u : Goes(stream, t, n, u) /\ Emits(t, n, u)
  BY <1>1, StepEmits
<1>3. /\ n \in Nat /\ u \in Nat /\ n <= u /\ n = Len(stream) /\ u = Len(t)
      /\ \A i \in 1..n : t[i] = stream[i]
  BY <1>2 DEF Goes
<1>4. ASSUME NEW m \in 0..n, NEW l \in m..u, NEW r, StockSeen(stream, m, r)
      PROVE  StockSeen(t, l, r)
  <2>1. \A j \in 1..m : j \in 1..l /\ t[j] = stream[j]
    BY <1>3
  <2> QED
    BY <1>4, <2>1 DEF StockSeen
<1>5. \A r \in Rows : StockSeen(stream, n, r)
  BY <1>3 DEF StockInv, StockIn
<1>6. ASSUME NEW i \in 1..u, t[i].topic = "order_items"
      PROVE  StockSeen(t, i, t[i].body.row)
  <2>1. CASE i \in 1..n
    <3>1. StockSeen(stream, i, stream[i].body.row) /\ t[i] = stream[i]
      BY <1>3, <1>6, <2>1 DEF StockInv, StockIn
    <3>2. i \in 0..n /\ i \in i..u
      BY <1>3, <2>1
    <3> QED
      BY <1>4, <3>1, <3>2
  <2>2. CASE i \notin 1..n
    <3>1. t[i].body.row \in Rows
      BY <1>2, <1>3, <1>6, <2>2, ItemsOfRows
    <3>2. n \in 0..n /\ i \in n..u
      BY <1>3, <2>2
    <3> QED
      BY <1>4, <1>5, <3>1, <3>2
  <2> QED
    BY <2>1, <2>2
<1>7. n \in 0..n /\ u \in n..u
  BY <1>3
<1>8. \A r \in Rows : StockSeen(t, u, r)
  BY <1>4, <1>5, <1>7
<1>9. StockIn(t)
  BY <1>3, <1>6, <1>8 DEF StockIn
<1> QED
  BY <1>1, <1>9 DEF StockInv

-------------------------------------------------------------------------------
(* What the sources hold. *)

\* What every run keeps, for these proofs.
ToldInv ==
  /\ StreamInv /\ LifecycleInv
  /\ CustomerInv /\ ReturnInv /\ OrderInv /\ OnceInv /\ StockInv

LEMMA ToldAlways == Spec => [](TypeOK /\ ToldInv)
<1>1. TypeOK /\ Init => ToldInv
  BY InitStream, InitLifecycle, InitCustomers, InitReturns, InitOrders, InitOnce, InitStock
     DEF ToldInv
<1>2. TypeOK /\ TypeOK' /\ ToldInv /\ [Next]_vars => ToldInv'
  <2> SUFFICES ASSUME TypeOK, TypeOK', ToldInv, [Next]_vars PROVE ToldInv'
    OBVIOUS
  <2>1. StreamInv' /\ LifecycleInv'
    BY NextStream, NextLifecycle DEF ToldInv
  <2>2. CustomerInv' /\ ReturnInv'
    BY NextCustomers, NextReturns DEF ToldInv
  <2>3. OrderInv'
    BY NextOrders DEF ToldInv
  <2>4. OnceInv' /\ StockInv'
    BY NextOnce, NextStock DEF ToldInv
  <2> QED
    BY <2>1, <2>2, <2>3, <2>4 DEF ToldInv
<1> QED
  BY <1>1, <1>2, TypeCorrect, PTL DEF Spec

-------------------------------------------------------------------------------
(* What a source holds of an entity: the last message about it. *)

\* The times of the messages never go back.
LEMMA TimesInOrder ==
  ASSUME StreamInv
  PROVE  \A i, j \in 1..Len(stream) : i <= j => stream[i].at <= stream[j].at
<1>1. Len(stream) \in Nat
  BY DEF StreamInv, Causal
<1>2. /\ \A i \in 1..Len(stream) : stream[i].at \in Nat
      /\ \A i \in 1..Len(stream) : i > 1 => stream[i - 1].at <= stream[i].at
  BY DEF StreamInv, Causal
<1> DEFINE T == {d \in Nat : \A i \in 1..Len(stream) :
                               i + d \in 1..Len(stream) => stream[i].at <= stream[i + d].at}
<1>3. 0 \in T
  <2>1. \A i \in 1..Len(stream) : i + 0 = i /\ stream[i].at <= stream[i].at
    BY <1>2
  <2> QED
    BY <2>1
<1>4. ASSUME NEW d \in Nat, d \in T PROVE d + 1 \in T
  <2>1. ASSUME NEW i \in 1..Len(stream), i + (d + 1) \in 1..Len(stream)
        PROVE  stream[i].at <= stream[i + (d + 1)].at
    <3>1. /\ i + d \in 1..Len(stream) /\ i + (d + 1) > 1
          /\ i + (d + 1) - 1 = i + d
      BY <1>1, <2>1
    <3>2. stream[i].at <= stream[i + d].at
      BY <1>4, <3>1
    <3>3. stream[i + d].at <= stream[i + (d + 1)].at
      BY <1>2, <2>1, <3>1
    <3>4. /\ stream[i].at \in Nat /\ stream[i + d].at \in Nat
          /\ stream[i + (d + 1)].at \in Nat
      BY <1>2, <2>1, <3>1
    <3> QED
      BY <3>2, <3>3, <3>4
  <2> QED
    BY <2>1
<1> HIDE DEF T
<1>5. Nat \subseteq T
  BY <1>3, <1>4, Calls!AllNats
<1>6. ASSUME NEW i \in 1..Len(stream), NEW j \in 1..Len(stream), i <= j
      PROVE  stream[i].at <= stream[j].at
  <2>1. PICK d \in Nat : d = j - i
    BY <1>6
  <2>2. j = i + d
    BY <2>1
  <2>3. d \in T
    BY <1>5
  <2> QED
    BY <2>2, <2>3 DEF T
<1> QED
  BY <1>6

LEMMA EntityOffsets ==
  ASSUME StreamInv
  PROVE  \A topic, k : OfEntity(topic, k) = {i \in 1..Len(stream) : IsAbout(stream[i], topic, k)}
<1>1. DOMAIN stream = 1..Len(stream)
  BY DEF StreamInv, Causal
<1> QED
  BY <1>1 DEF OfEntity, OfTopic, IsAbout

\* What has been read of an entity ends with its last message, and is there when there is
\* one.
TellsLast(es, n, topic, k) ==
  \/ es = <<>> /\ \A j \in 1..n : ~IsAbout(stream[j], topic, k)
  \/ /\ es # <<>>
     /\ \E j \in 1..n : LastAbout(stream, n, topic, k, j) /\ es[Len(es)] = stream[j]

LEMMA AboutTellsLast ==
  ASSUME StreamInv, NEW topic, NEW k, NEW at, at[topic] \in 0..Len(stream)
  PROVE  TellsLast(About(topic, k, at), at[topic], topic, k)
<1>1. PICK es, n, offsets : /\ n = at[topic] /\ offsets = OfEntity(topic, k)
                            /\ es = Reading(offsets, n) /\ es = About(topic, k, at)
  BY DEF About
<1>2. n \in Nat /\ Len(stream) \in Nat /\ n <= Len(stream)
  BY <1>1 DEF StreamInv, Causal
<1>3. offsets = {i \in 1..Len(stream) : IsAbout(stream[i], topic, k)}
  BY <1>1, EntityOffsets
<1>4. Gathered(offsets, n, es)
  BY <1>1, <1>2, ReadingGathers
<1>5. \A j \in 1..n : j \in offsets <=> IsAbout(stream[j], topic, k)
  BY <1>2, <1>3
<1>6. CASE es = <<>>
  <2>1. ASSUME NEW j \in 1..n, IsAbout(stream[j], topic, k) PROVE FALSE
    <3>1. \E i \in 1..Len(es) : es[i] = stream[j]
      BY <1>4, <1>5, <2>1 DEF Gathered
    <3> QED
      BY <1>6, <3>1
  <2> QED
    BY <1>1, <1>6, <2>1 DEF TellsLast
<1>7. CASE es # <<>>
  <2>1. PICK j \in 1..n : /\ j \in offsets /\ es[Len(es)] = stream[j]
                          /\ \A i \in 1..n : i \in offsets => i <= j
    BY <1>4, <1>7 DEF Gathered
  <2>2. LastAbout(stream, n, topic, k, j)
    BY <1>5, <2>1 DEF LastAbout
  <2> QED
    BY <1>1, <1>7, <2>1, <2>2 DEF TellsLast
<1> QED
  BY <1>6, <1>7

\* A store of lists has what a view lists.
LEMMA GetList ==
  ASSUME StreamInv, CustomerInv, NEW topic, NEW k, NEW at, at[topic] \in 0..Len(stream)
  PROVE  Get(topic, "append", k, at) = About(topic, k, at)
<1>1. PICK n, offsets : n = at[topic] /\ offsets = OfEntity(topic, k)
  OBVIOUS
<1>2. n \in Nat
  BY <1>1 DEF StreamInv, Causal
<1>3. offsets = {i \in 1..Len(stream) : IsAbout(stream[i], topic, k)}
  BY <1>1, EntityOffsets
<1>4. \A i \in 1..Len(stream) : i \in Nat /\ stream[i].at \in Int /\ stream[i].ver \in Int
  BY DEF StreamInv, Causal, CustomerInv, CustomersIn, NumberedIn
<1>5. AboutOne(offsets, k)
  BY <1>3, <1>4 DEF AboutOne, IsAbout
<1>6. ProjectAll("append", Empty({k}), Reading(offsets, n))[k] = Reading(offsets, n)
  BY <1>2, <1>5, ListKept
<1> QED
  BY <1>1, <1>6 DEF Get, About, Empty

\* A store of records has the record that LAST_VALUE gives: times never go back, nor do a
\* customer's versions.
LEMMA GetIsLast ==
  ASSUME StreamInv, CustomerInv, NEW topic, NEW k, NEW at, at[topic] \in 0..Len(stream),
         NEW kind \in {"by_version", "by_time"}, kind = "by_version" => topic = "customers"
  PROVE  Get(topic, kind, k, at) = LastValue(topic, k, at)
<1>1. PICK n, offsets : n = at[topic] /\ offsets = OfEntity(topic, k)
  OBVIOUS
<1>2. n \in Nat
  BY <1>1 DEF StreamInv, Causal
<1>3. offsets = {i \in 1..Len(stream) : IsAbout(stream[i], topic, k)}
  BY <1>1, EntityOffsets
<1>4. \A i \in 1..Len(stream) : i \in Nat /\ stream[i].at \in Int /\ stream[i].ver \in Int
  BY DEF StreamInv, Causal, CustomerInv, CustomersIn, NumberedIn
<1>5. AboutOne(offsets, k)
  BY <1>3, <1>4 DEF AboutOne, IsAbout
<1>6. ASSUME NEW i \in offsets, NEW j \in offsets, i <= j
      PROVE  Priority(kind, stream[i]) <= Priority(kind, stream[j])
  <2>1. i \in 1..Len(stream) /\ j \in 1..Len(stream)
    BY <1>3
  <2>2. stream[i].at <= stream[j].at
    BY <1>6, <2>1, TimesInOrder
  <2>3. kind = "by_version" => stream[i].ver <= stream[j].ver
    <3>1. VersionsIn(stream, customers)
      BY DEF CustomerInv, CustomersIn
    <3>2. IsAbout(stream[i], topic, k) /\ IsAbout(stream[j], topic, k)
      BY <1>3
    <3> QED
      BY <1>6, <2>1, <3>1, <3>2 DEF VersionsIn, IsAbout
  <2> QED
    BY <2>2, <2>3 DEF Priority
<1>7. Sorted(kind, offsets)
  BY <1>6 DEF Sorted
<1>8. ProjectAll(kind, Empty({k}), Reading(offsets, n))[k] = Latest(Reading(offsets, n))
  BY <1>2, <1>5, <1>7, RecordKept
<1> QED
  BY <1>1, <1>8 DEF Get, About, Empty, LastValue, Latest

-------------------------------------------------------------------------------
(* What an honest agent answers. *)

\* A reader has come as far as at says in each topic.
Reached(at) == \A topic \in Topics : at[topic] \in 0..Len(stream)

\* The answer read off a source: none when it has nothing.
ReadOff(source, id, value) == IF source = <<>> THEN <<>> ELSE <<[id |-> id, value |-> value]>>

\* What get_view returns for a view's rows.
LEMMA ViewOf ==
  ASSUME NEW name \in Views, NEW id, NEW at, NEW rows, rows = Row(name, id, at)
  PROVE  GetView(name, <<id>>, at)
           = IF rows = <<>> THEN [error |-> "not_found"]
             ELSE IF Validates(name, rows[1]) THEN [error |-> "none", payload |-> rows[1]]
                                              ELSE [error |-> "raised"]
<1>1. <<id>>[1] = id /\ <<id>> # <<>>
  OBVIOUS
<1>2. GetView(name, <<id>>, at)
        = CASE name \notin Views -> [error |-> "unknown_view"]
            [] name \in Views /\ <<id>> = <<>> -> [error |-> "missing_param"]
            [] name \in Views /\ <<id>> # <<>> /\ rows = <<>> -> [error |-> "not_found"]
            [] name \in Views /\ <<id>> # <<>> /\ rows # <<>> ->
                 IF Validates(name, rows[1]) THEN [error |-> "none", payload |-> rows[1]]
                                             ELSE [error |-> "raised"]
  BY <1>1 DEF GetView
<1>3. CASE rows = <<>>
  BY <1>1, <1>2, <1>3
<1>4. CASE rows # <<>>
  BY <1>1, <1>2, <1>4
<1> QED
  BY <1>3, <1>4

\* The columns of a row of customer_360,
LEMMA CustomerRow ==
  ASSUME NEW c, NEW at, NEW row \in ToSet(Customer360(c, at))
  PROVE  /\ LastValue("customers", c, at) # <<>>
         /\ row.tier = LastValue("customers", c, at)[1].body.tier
         /\ row.tier_history = ToSet(About("tier_changes", c, at))
         /\ row.recent_orders = Recent(ToSet(ReadOf("orders", c, at)))
         /\ row.open_tickets = ToSet(ReadOf("tickets", c, at))
<1>1. LastValue("customers", c, at) # <<>> /\ row = CustomerColumns(c, at)
  <2>1. PICK rows : rows = Customer360(c, at)
    OBVIOUS
  <2>2. PICK m \in DOMAIN rows : row = rows[m]
    BY <2>1 DEF ToSet
  <2>3. rows = IF LastValue("customers", c, at) = <<>> THEN <<>> ELSE <<CustomerColumns(c, at)>>
    BY <2>1 DEF Customer360
  <2> QED
    BY <2>2, <2>3
<1>2. row.tier = LastValue("customers", c, at)[1].body.tier
  BY <1>1 DEF CustomerColumns
<1>3. row.tier_history = ToSet(About("tier_changes", c, at))
  BY <1>1 DEF CustomerColumns
<1>4. row.recent_orders = Recent(ToSet(ReadOf("orders", c, at)))
  BY <1>1 DEF CustomerColumns
<1>5. row.open_tickets = ToSet(ReadOf("tickets", c, at))
  BY <1>1 DEF CustomerColumns
<1> QED
  BY <1>1, <1>2, <1>3, <1>4, <1>5

\* and of one of order_state.
LEMMA OrderRow ==
  ASSUME NEW o, NEW at, NEW row \in ToSet(OrderState(o, at)), NEW open, open = OpenReturns(o, at)
  PROVE  /\ LastValue("orders", o, at) # <<>>
         /\ row.status = LastValue("orders", o, at)[1].body.status
         /\ row.items = ToSet(About("order_items", o, at))
         /\ row.inventory = StockOfItems(o, at)
         /\ row.payment_events = ToSet(About("payments", o, at))
         /\ row.open_return_id = IF open = <<>> THEN 0 ELSE open[Len(open)].key
<1>1. LastValue("orders", o, at) # <<>> /\ row = OrderColumns(o, at)
  <2>1. PICK rows : rows = OrderState(o, at)
    OBVIOUS
  <2>2. PICK m \in DOMAIN rows : row = rows[m]
    BY <2>1 DEF ToSet
  <2>3. rows = IF LastValue("orders", o, at) = <<>> THEN <<>> ELSE <<OrderColumns(o, at)>>
    BY <2>1 DEF OrderState
  <2> QED
    BY <2>2, <2>3
<1>2. row.status = LastValue("orders", o, at)[1].body.status
  BY <1>1 DEF OrderColumns
<1>3. row.items = ToSet(About("order_items", o, at))
  BY <1>1 DEF OrderColumns
<1>4. row.inventory = StockOfItems(o, at)
  BY <1>1 DEF OrderColumns
<1>5. row.payment_events = ToSet(About("payments", o, at))
  BY <1>1 DEF OrderColumns
<1>6. row.open_return_id = IF open = <<>> THEN 0 ELSE open[Len(open)].key
  BY <1>1 DEF OrderColumns
<1> QED
  BY <1>1, <1>2, <1>3, <1>4, <1>5, <1>6

\* Both variants answer the lookup with the tier that the last message about the customer
\* tells.
LEMMA LookupAnswer ==
  ASSUME StreamInv, CustomerInv, NEW c, NEW at, Reached(at),
         NEW source, source = LastValue("customers", c, at)
  PROVE  /\ AnswerA("lookup", c, at) = ReadOff(source, c, source[1].body.tier)
         /\ AnswerB("lookup", c, at) = ReadOff(source, c, source[1].body.tier)
<1>1. Get("customers", "by_version", c, at) = source
  BY GetIsLast DEF Reached, Topics
<1>2. AnswerA("lookup", c, at) = ReadOff(source, c, source[1].body.tier)
  BY <1>1 DEF AnswerA, ReadOff
<1>3. PICK rows, result : /\ rows = Row("customer_360", c, at)
                          /\ result = GetView("customer_360", <<c>>, at)
  OBVIOUS
<1>4. rows = Customer360(c, at)
  BY <1>3 DEF Row
<1>5. result = IF rows = <<>> THEN [error |-> "not_found"]
               ELSE IF Validates("customer_360", rows[1])
                    THEN [error |-> "none", payload |-> rows[1]] ELSE [error |-> "raised"]
  BY <1>3, ViewOf DEF Views
<1>6. AnswerB("lookup", c, at) = IF result.error # "none" THEN <<>>
                                 ELSE <<[id |-> c, value |-> result.payload.tier]>>
  BY <1>3 DEF AnswerB
<1>7. CASE source = <<>>
  <2>1. rows = <<>>
    BY <1>4, <1>7 DEF Customer360
  <2> QED
    BY <1>2, <1>5, <1>6, <1>7, <2>1 DEF ReadOff
<1>8. CASE source # <<>>
  <2>1. rows # <<>> /\ rows[1].tier = source[1].body.tier
    <3>1. rows = <<CustomerColumns(c, at)>>
      BY <1>4, <1>8 DEF Customer360
    <3> QED
      BY <3>1 DEF CustomerColumns
  <2>2. Validates("customer_360", rows[1])
    BY DEF Validates
  <2>3. result = [error |-> "none", payload |-> rows[1]]
    BY <1>5, <2>1, <2>2
  <2>4. result.error = "none" /\ result.payload.tier = source[1].body.tier
    BY <2>1, <2>3
  <2> QED
    BY <1>2, <1>6, <1>8, <2>4 DEF ReadOff
<1> QED
  BY <1>7, <1>8

\* So they answer the transactional question, with the order's status.
LEMMA TransactionalAnswer ==
  ASSUME StreamInv, CustomerInv, NEW o, NEW at, Reached(at),
         NEW source, source = LastValue("orders", o, at)
  PROVE  /\ AnswerA("transactional", o, at) = ReadOff(source, o, source[1].body.status)
         /\ AnswerB("transactional", o, at) = ReadOff(source, o, source[1].body.status)
<1>1. Get("orders", "by_time", o, at) = source
  BY GetIsLast DEF Reached, Topics
<1>2. AnswerA("transactional", o, at) = ReadOff(source, o, source[1].body.status)
  BY <1>1 DEF AnswerA, ReadOff
<1>3. PICK rows, result : /\ rows = Row("order_state", o, at)
                          /\ result = GetView("order_state", <<o>>, at)
  OBVIOUS
<1>4. rows = OrderState(o, at)
  BY <1>3 DEF Row
<1>5. result = IF rows = <<>> THEN [error |-> "not_found"]
               ELSE IF Validates("order_state", rows[1])
                    THEN [error |-> "none", payload |-> rows[1]] ELSE [error |-> "raised"]
  BY <1>3, ViewOf DEF Views
<1>6. AnswerB("transactional", o, at) = IF result.error # "none" THEN <<>>
                                        ELSE <<[id |-> o, value |-> result.payload.status]>>
  BY <1>3 DEF AnswerB
<1>7. CASE source = <<>>
  <2>1. rows = <<>>
    BY <1>4, <1>7 DEF OrderState
  <2> QED
    BY <1>2, <1>5, <1>6, <1>7, <2>1 DEF ReadOff
<1>8. CASE source # <<>>
  <2>1. rows # <<>> /\ rows[1].status = source[1].body.status
    <3>1. rows = <<OrderColumns(o, at)>>
      BY <1>4, <1>8 DEF OrderState
    <3> QED
      BY <3>1 DEF OrderColumns
  <2>2. Validates("order_state", rows[1])
    BY DEF Validates
  <2>3. result = [error |-> "none", payload |-> rows[1]]
    BY <1>5, <2>1, <2>2
  <2>4. result.error = "none" /\ result.payload.status = source[1].body.status
    BY <2>1, <2>3
  <2> QED
    BY <1>2, <1>6, <1>8, <2>4 DEF ReadOff
<1> QED
  BY <1>7, <1>8

\* The message that rejects a return is behind the chargeback of its order, and that one
\* behind the order itself.
LEMMA ChargeBeforeRejection ==
  ASSUME StreamInv, ReturnInv, NEW n \in 1..Len(returns),
         returns[n].reason = "chargeback_already_filed",
         NEW j \in 1..Len(stream), IsAbout(stream[j], "returns", n)
  PROVE  /\ stream[j].body = returns[n]
         /\ \E i \in 1..j : /\ IsAbout(stream[i], "payments", returns[n].order)
                            /\ stream[i].body.kind = "CHARGEBACK"
         /\ \E i \in 1..j : IsAbout(stream[i], "orders", returns[n].order)
<1>1. Len(stream) \in Nat
  BY DEF StreamInv, Causal
<1>2. stream[j].body = returns[n] /\ returns[n].status = "REJECTED"
  BY DEF ReturnInv, ReturnsIn, IsAbout
<1>3. \A l \in 1..Len(stream) : CausesSeen(stream, l - 1, stream[l])
  BY DEF StreamInv, Causal
<1>4. ChargeSeen(stream, j - 1, returns[n].order)
  BY <1>2, <1>3 DEF CausesSeen, IsAbout
<1>5. PICK i \in 1..j - 1 : /\ stream[i].topic = "payments" /\ stream[i].key = returns[n].order
                            /\ stream[i].body.kind = "CHARGEBACK"
  BY <1>4 DEF ChargeSeen
<1>6. i \in 1..j /\ i \in 1..Len(stream) /\ IsAbout(stream[i], "payments", returns[n].order)
  BY <1>1, <1>5 DEF IsAbout
<1>7. StatusSeen(stream, i - 1, returns[n].order, "CREATED")
  BY <1>3, <1>5, <1>6 DEF CausesSeen
<1>8. PICK l \in 1..i - 1 : stream[l].topic = "orders" /\ stream[l].key = returns[n].order
  BY <1>7 DEF StatusSeen
<1>9. l \in 1..j /\ IsAbout(stream[l], "orders", returns[n].order)
  BY <1>1, <1>6, <1>8 DEF IsAbout
<1> QED
  BY <1>2, <1>5, <1>6, <1>9

\* What has been read holds every message read.
LEMMA AboutHolds ==
  ASSUME StreamInv, NEW topic, NEW k, NEW at, at[topic] \in 0..Len(stream),
         NEW i \in 1..at[topic], IsAbout(stream[i], topic, k)
  PROVE  /\ \E l \in DOMAIN About(topic, k, at) : About(topic, k, at)[l] = stream[i]
         /\ About(topic, k, at) # <<>>
<1>1. PICK es, n, offsets : /\ n = at[topic] /\ offsets = OfEntity(topic, k)
                            /\ es = Reading(offsets, n) /\ es = About(topic, k, at)
  BY DEF About
<1>2. n \in Nat /\ Len(stream) \in Nat /\ n <= Len(stream)
  BY <1>1 DEF StreamInv, Causal
<1>3. i \in offsets
  BY <1>1, <1>2, EntityOffsets
<1>4. Gathered(offsets, n, es)
  BY <1>1, <1>2, ReadingGathers
<1>5. PICK l \in 1..Len(es) : es[l] = stream[i]
  BY <1>1, <1>3, <1>4 DEF Gathered
<1>6. DOMAIN es = 1..Len(es) /\ (es = <<>> => Len(es) = 0)
  BY <1>4 DEF Gathered
<1> QED
  BY <1>1, <1>5, <1>6

\* A reader that is at least as far in the payments and the orders as in the returns
\* answers the multi-hop question of a scenario's return rightly, or not at all, and its
\* view's row validates.
LEMMA MultiHopAnswer ==
  ASSUME StreamInv, CustomerInv, ReturnInv, NEW n \in 1..Len(returns),
         returns[n].reason = "chargeback_already_filed", NEW at, Reached(at),
         at["returns"] <= at["payments"], at["returns"] <= at["orders"],
         NEW source, source = LastValue("returns", n, at)
  PROVE  /\ AnswerA("multi_hop", n, at) = ReadOff(source, n, FALSE)
         /\ AnswerB("multi_hop", n, at) = ReadOff(source, n, FALSE)
         /\ GetView("returns_eligibility", <<n>>, at).error # "raised"
<1>1. PICK o, payments, ords : /\ o = source[1].body.order
                               /\ payments = About("payments", o, at)
                               /\ ords = LastValue("orders", o, at)
  OBVIOUS
<1>2. /\ at["returns"] \in 0..Len(stream) /\ at["payments"] \in 0..Len(stream)
      /\ at["orders"] \in 0..Len(stream) /\ Len(stream) \in Nat
  BY DEF Reached, Topics, StreamInv, Causal
<1>3. source # <<>> => /\ \E i \in DOMAIN payments : payments[i].body.kind = "CHARGEBACK"
                       /\ ords # <<>>
  <2>1. SUFFICES ASSUME source # <<>>
                 PROVE  /\ \E i \in DOMAIN payments : payments[i].body.kind = "CHARGEBACK"
                        /\ ords # <<>>
    OBVIOUS
  <2>2. PICK es : es = About("returns", n, at)
    OBVIOUS
  <2>3. es # <<>> /\ source = <<es[Len(es)]>>
    BY <2>1, <2>2 DEF LastValue
  <2>4. TellsLast(es, at["returns"], "returns", n)
    BY <1>2, <2>2, AboutTellsLast
  <2>5. PICK j \in 1..at["returns"] :
          LastAbout(stream, at["returns"], "returns", n, j) /\ es[Len(es)] = stream[j]
    BY <2>3, <2>4 DEF TellsLast
  <2>6. j \in 1..Len(stream) /\ IsAbout(stream[j], "returns", n)
    BY <1>2, <2>5 DEF LastAbout
  <2>7. /\ stream[j].body = returns[n]
        /\ \E i \in 1..j : /\ IsAbout(stream[i], "payments", returns[n].order)
                           /\ stream[i].body.kind = "CHARGEBACK"
        /\ \E i \in 1..j : IsAbout(stream[i], "orders", returns[n].order)
    BY <2>6, ChargeBeforeRejection
  <2>8. source[1].body = returns[n] /\ o = returns[n].order
    BY <1>1, <2>3, <2>5, <2>7
  <2>9. PICK i \in 1..j : IsAbout(stream[i], "payments", o) /\ stream[i].body.kind = "CHARGEBACK"
    BY <2>7, <2>8
  <2>10. PICK l \in 1..j : IsAbout(stream[l], "orders", o)
    BY <2>7, <2>8
  <2>11. i \in 1..at["payments"] /\ l \in 1..at["orders"]
    BY <1>2, <2>5, <2>9, <2>10
  <2>12. \E m \in DOMAIN payments : payments[m] = stream[i]
    BY <1>1, <1>2, <2>9, <2>11, AboutHolds
  <2>13. About("orders", o, at) # <<>>
    BY <1>2, <2>10, <2>11, AboutHolds
  <2>14. ords # <<>>
    BY <1>1, <2>13 DEF LastValue
  <2> QED
    BY <2>9, <2>12, <2>14
<1>4. AnswerA("multi_hop", n, at) = ReadOff(source, n, FALSE)
  <2>1. Get("returns", "by_time", n, at) = source
    BY <1>2, GetIsLast
  <2>2. Get("payments", "append", o, at) = payments
    BY <1>1, <1>2, GetList
  <2>3. AnswerA("multi_hop", n, at)
          = ReadOff(source, n, \A i \in DOMAIN payments : payments[i].body.kind # "CHARGEBACK")
    BY <1>1, <2>1, <2>2 DEF AnswerA, ReadOff
  <2> QED
    BY <1>3, <2>3 DEF ReadOff
<1>5. PICK rows, result : /\ rows = Row("returns_eligibility", n, at)
                          /\ result = GetView("returns_eligibility", <<n>>, at)
  OBVIOUS
<1>6. rows = ReturnsEligibility(n, at)
  BY <1>5 DEF Row
<1>7. result = IF rows = <<>> THEN [error |-> "not_found"]
               ELSE IF Validates("returns_eligibility", rows[1])
                    THEN [error |-> "none", payload |-> rows[1]] ELSE [error |-> "raised"]
  BY <1>5, ViewOf DEF Views
<1>8. AnswerB("multi_hop", n, at)
        = IF result.error # "none" THEN <<>>
          ELSE <<[id |-> n, value |-> result.payload.eligible_for_refund]>>
  BY <1>5 DEF AnswerB
<1>9. CASE source = <<>>
  <2>1. rows = <<>>
    BY <1>6, <1>9 DEF ReturnsEligibility
  <2>2. result = [error |-> "not_found"]
    BY <1>7, <2>1
  <2> QED
    BY <1>4, <1>5, <1>8, <1>9, <2>2 DEF ReadOff
<1>10. CASE source # <<>>
  <2>1. HasChargeback(o, at)
    BY <1>1, <1>3, <1>10 DEF HasChargeback
  <2>2. rows # <<>> /\ rows[1].eligible_for_refund = FALSE /\ rows[1].order = ords
    BY <1>1, <1>6, <1>10, <2>1 DEF ReturnsEligibility
  <2>3. Validates("returns_eligibility", rows[1])
    BY <1>3, <1>10, <2>2 DEF Validates
  <2>4. result = [error |-> "none", payload |-> rows[1]]
    BY <1>7, <2>2, <2>3
  <2>5. result.error = "none" /\ result.payload.eligible_for_refund = FALSE
    BY <2>2, <2>4
  <2> QED
    BY <1>4, <1>5, <1>8, <1>10, <2>5 DEF ReadOff
<1> QED
  BY <1>9, <1>10

\* An answer that gives what the grader expects of an entity it knows is right.
LEMMA GradedRight ==
  ASSUME NEW category, NEW snap, NEW id \in Graded(category, snap)
  PROVE  Grade(category, <<[id |-> id, value |-> Expected(category, id, snap)]>>, snap) = "none"
BY DEF Grade

\* "returns[n] is a scenario's" is what the snapshot says of the return that is asked about.
LEMMA PickedIsRejected ==
  ASSUME TypeOK, NEW n \in PickedReturn(Snapshot)
  PROVE  /\ n \in 1..Len(returns) /\ returns[n].reason = "chargeback_already_filed"
         /\ n \in Graded("multi_hop", Snapshot)
         /\ Expected("multi_hop", n, Snapshot) = FALSE
<1>1. returns \in Seq(Return) /\ DOMAIN returns = 1..Len(returns)
  BY DEF TypeOK
<1>2. Snapshot.returns = returns
  BY DEF Snapshot
<1>3. n \in DOMAIN returns /\ returns[n].reason = "chargeback_already_filed"
  BY <1>2 DEF PickedReturn
<1>4. Graded("multi_hop", Snapshot) = DOMAIN returns
  BY <1>2 DEF Graded
<1>5. Expected("multi_hop", n, Snapshot) = (returns[n].reason # "chargeback_already_filed")
  BY <1>2 DEF Expected
<1> QED
  BY <1>1, <1>3, <1>4, <1>5

\* MultiHopIsNeverStale in every run, however far apart its sources are read.
THEOREM MultiHopNeverStale == Spec => []MultiHopIsNeverStale
<1>1. TypeOK /\ ToldInv => MultiHopIsNeverStale
  <2> SUFFICES ASSUME TypeOK, ToldInv, NEW n \in PickedReturn(Snapshot),
                      NEW q \in Current, NEW p \in 1..q,
                      NEW at, at = [t \in Topics |-> IF t = "returns" THEN p ELSE q]
               PROVE  /\ \A answer \in Honest("multi_hop", n, at) :
                           answer = <<>> \/ Grade("multi_hop", answer, Snapshot) = "none"
                      /\ GetView("returns_eligibility", <<n>>, at).error # "raised"
    BY DEF MultiHopIsNeverStale
  <2>1. q \in 1..Len(stream) /\ Len(stream) \in Nat
    BY DEF Current, ToldInv, StreamInv, Causal
  <2>2. Reached(at) /\ at["returns"] = p /\ at["payments"] = q /\ at["orders"] = q
    BY <2>1 DEF Reached, Topics
  <2>3. p <= q
    BY <2>1
  <2>4. /\ n \in 1..Len(returns) /\ returns[n].reason = "chargeback_already_filed"
        /\ n \in Graded("multi_hop", Snapshot)
        /\ Expected("multi_hop", n, Snapshot) = FALSE
    BY PickedIsRejected
  <2>5. PICK source : source = LastValue("returns", n, at)
    OBVIOUS
  <2>6. /\ AnswerA("multi_hop", n, at) = ReadOff(source, n, FALSE)
        /\ AnswerB("multi_hop", n, at) = ReadOff(source, n, FALSE)
        /\ GetView("returns_eligibility", <<n>>, at).error # "raised"
    BY <2>2, <2>3, <2>4, <2>5, MultiHopAnswer DEF ToldInv
  <2>7. Grade("multi_hop", <<[id |-> n, value |-> FALSE]>>, Snapshot) = "none"
    <3>1. Grade("multi_hop", <<[id |-> n, value |-> Expected("multi_hop", n, Snapshot)]>>, Snapshot)
            = "none"
      BY <2>4, GradedRight
    <3> QED
      BY <2>4, <3>1
  <2> QED
    BY <2>6, <2>7 DEF Honest, ReadOff
<1> QED
  BY <1>1, ToldAlways, PTL

\* HonestAgentsScore in every run: when everything has been read the last message about
\* an entity tells its state.
THEOREM HonestAgentsAlwaysScore == Spec => []HonestAgentsScore
<1>1. TypeOK /\ ToldInv => HonestAgentsScore
  <2> SUFFICES ASSUME TypeOK, ToldInv, NEW category \in Categories,
                      NEW id \in Targets(category, Snapshot), NEW at, at = AllRead,
                      NEW answer \in Honest(category, id, at)
               PROVE  Grade(category, answer, Snapshot) = "none"
    BY DEF HonestAgentsScore
  <2>1. PICK n : n = Len(stream)
    OBVIOUS
  <2>2. n \in Nat /\ Reached(at) /\ \A topic \in Topics : at[topic] = n
    BY <2>1 DEF AllRead, Reached, ToldInv, StreamInv, Causal
  <2>3. /\ Snapshot.customers = customers /\ Snapshot.orders = orders
        /\ Snapshot.returns = returns
    BY DEF Snapshot
  <2>4. ASSUME NEW topic \in Topics, NEW source, source = LastValue(topic, id, at),
               \E i \in 1..n : IsAbout(stream[i], topic, id)
        PROVE  \E j \in 1..n : LastAbout(stream, n, topic, id, j) /\ source = <<stream[j]>>
    <3>1. PICK es : es = About(topic, id, at)
      OBVIOUS
    <3>2. TellsLast(es, n, topic, id)
      BY <2>1, <2>2, <3>1, AboutTellsLast DEF ToldInv, Reached
    <3>3. PICK j \in 1..n : LastAbout(stream, n, topic, id, j) /\ es # <<>> /\ es[Len(es)] = stream[j]
      BY <2>4, <3>2 DEF TellsLast
    <3>4. source = <<stream[j]>>
      BY <2>4, <3>1, <3>3 DEF LastValue
    <3> QED
      BY <3>3, <3>4
  <2>5. ASSUME NEW value, id \in Graded(category, Snapshot), value = Expected(category, id, Snapshot),
               NEW source, source # <<>>,
               AnswerA(category, id, at) = ReadOff(source, id, value),
               AnswerB(category, id, at) = ReadOff(source, id, value)
        PROVE  Grade(category, answer, Snapshot) = "none"
    <3>1. answer = <<[id |-> id, value |-> value]>>
      BY <2>5 DEF Honest, ReadOff
    <3> QED
      BY <2>5, <3>1, GradedRight
  <2>6. CASE category = "lookup"
    <3>1. id \in Customers
      BY <2>6 DEF Targets
    <3>2. PICK source : source = LastValue("customers", id, at)
      OBVIOUS
    <3>3. CustomerSeen(stream, n, id)
      BY <2>1, <3>1 DEF ToldInv, StreamInv, StateIsEmitted
    <3>4. \E i \in 1..n : IsAbout(stream[i], "customers", id)
      BY <3>3 DEF CustomerSeen, IsAbout
    <3>5. PICK j \in 1..n : LastAbout(stream, n, "customers", id, j) /\ source = <<stream[j]>>
      BY <2>4, <3>2, <3>4 DEF Topics
    <3>6. stream[j].body.tier = customers[id].tier
      BY <2>1, <3>1, <3>5 DEF ToldInv, CustomerInv, CustomersIn, TiersIn
    <3>7. /\ AnswerA("lookup", id, at) = ReadOff(source, id, source[1].body.tier)
          /\ AnswerB("lookup", id, at) = ReadOff(source, id, source[1].body.tier)
      BY <2>2, <3>2, LookupAnswer DEF ToldInv
    <3>8. id \in Graded("lookup", Snapshot) /\ Expected("lookup", id, Snapshot) = customers[id].tier
      BY <2>3, <3>1 DEF Graded, Expected
    <3>9. source # <<>> /\ source[1].body.tier = customers[id].tier
      BY <3>5, <3>6
    <3> QED
      BY <2>5, <2>6, <3>7, <3>8, <3>9
  <2>7. CASE category = "transactional"
    <3>1. id \in 1..Len(orders) /\ id \in DOMAIN orders
      <4>1. DOMAIN orders = 1..Len(orders)
        BY DEF TypeOK
      <4> QED
        BY <2>3, <2>7, <4>1 DEF Targets
    <3>2. PICK source : source = LastValue("orders", id, at)
      OBVIOUS
    <3>3. StatusSeen(stream, n, id, "CREATED")
      <4>1. orders[id].status \in Statuses
        <5>1. orders \in Seq(Order)
          BY DEF TypeOK
        <5>2. orders[id] \in Order
          BY <3>1, <5>1
        <5> QED
          BY <5>2 DEF Order
      <4>2. "CREATED" \in Passed[orders[id].status]
        BY <4>1 DEF Passed, Statuses
      <4> QED
        BY <2>1, <3>1, <4>2 DEF ToldInv, StreamInv, StateIsEmitted
    <3>4. \E i \in 1..n : IsAbout(stream[i], "orders", id)
      BY <3>3 DEF StatusSeen, IsAbout
    <3>5. PICK j \in 1..n : LastAbout(stream, n, "orders", id, j) /\ source = <<stream[j]>>
      BY <2>4, <3>2, <3>4 DEF Topics
    <3>6. stream[j].body.status = orders[id].status
      <4>1. OrderIn(stream, id, orders[id])
        BY <3>1 DEF ToldInv, OrderInv, OrdersIn
      <4> QED
        BY <2>1, <3>5, <4>1 DEF OrderIn
    <3>7. /\ AnswerA("transactional", id, at) = ReadOff(source, id, source[1].body.status)
          /\ AnswerB("transactional", id, at) = ReadOff(source, id, source[1].body.status)
      BY <2>2, <3>2, TransactionalAnswer DEF ToldInv
    <3>8. /\ id \in Graded("transactional", Snapshot)
          /\ Expected("transactional", id, Snapshot) = orders[id].status
      BY <2>3, <3>1 DEF Graded, Expected
    <3>9. source # <<>> /\ source[1].body.status = orders[id].status
      BY <3>5, <3>6
    <3> QED
      BY <2>5, <2>7, <3>7, <3>8, <3>9
  <2>8. CASE category = "multi_hop"
    <3>1. id \in PickedReturn(Snapshot)
      BY <2>8 DEF Targets
    <3>2. /\ id \in 1..Len(returns) /\ returns[id].reason = "chargeback_already_filed"
          /\ id \in Graded("multi_hop", Snapshot)
          /\ Expected("multi_hop", id, Snapshot) = FALSE
      BY <3>1, PickedIsRejected
    <3>3. PICK source : source = LastValue("returns", id, at)
      OBVIOUS
    <3>4. at["returns"] <= at["payments"] /\ at["returns"] <= at["orders"]
      BY <2>2 DEF Topics
    <3>5. StreamInv /\ CustomerInv /\ ReturnInv /\ Reached(at)
      BY <2>2 DEF ToldInv
    <3>6. /\ AnswerA("multi_hop", id, at) = ReadOff(source, id, FALSE)
          /\ AnswerB("multi_hop", id, at) = ReadOff(source, id, FALSE)
      BY <3>2, <3>3, <3>4, <3>5, MultiHopAnswer
    <3>7. \E i \in 1..n : IsAbout(stream[i], "returns", id)
      BY <2>1, <3>2 DEF ToldInv, ReturnInv, ReturnsIn
    <3>8. source # <<>>
      BY <2>4, <3>3, <3>7 DEF Topics
    <3> QED
      BY <2>5, <2>8, <3>2, <3>6, <3>8
  <2> QED
    BY <2>6, <2>7, <2>8 DEF Categories
<1> QED
  BY <1>1, ToldAlways, PTL

-------------------------------------------------------------------------------
(* What the joined views show. *)

\* A customer's tier goes with its last tier change.
LEMMA TierGoesWithChange ==
  ASSUME CustomerInv, NEW p \in 1..Len(stream), Len(stream) \in Nat, NEW c,
         NEW j, LastAbout(stream, p, "customers", c, j),
         NEW i, LastAbout(stream, p, "tier_changes", c, i)
  PROVE  stream[j].body.tier \in {stream[i].body.from, stream[i].body.to}
<1>1. /\ j \in 1..p /\ i \in 1..p /\ j \in 1..Len(stream) /\ i \in 1..Len(stream)
      /\ stream[j].topic = "customers" /\ stream[j].key = c
      /\ stream[i].topic = "tier_changes" /\ stream[i].key = c
  BY DEF LastAbout, IsAbout
<1>2. ChangesIn(stream) /\ PairedIn(stream)
  BY DEF CustomerInv, CustomersIn
<1>3. CASE i <= j
  <2>1. i \in 1..j
    BY <1>1, <1>3
  <2>2. j - 1 \in 1..j /\ IsAbout(stream[j - 1], "tier_changes", c)
    BY <1>1, <1>2, <2>1 DEF PairedIn, IsAbout
  <2>3. j - 1 \in 1..p
    BY <1>1, <2>2
  <2>4. j - 1 <= i
    BY <2>2, <2>3 DEF LastAbout
  <2>5. i # j
    BY <1>1
  <2>6. i + 1 = j
    BY <1>1, <1>3, <2>4, <2>5
  <2>7. stream[i + 1].body.tier = stream[i].body.to
    BY <1>1, <1>2 DEF ChangesIn
  <2> QED
    BY <2>6, <2>7
<1>4. CASE j < i
  <2>1. j \in 1..i /\ \A l \in 1..i : l \in 1..p
    BY <1>1, <1>4
  <2>2. LastAbout(stream, i, "customers", c, j)
    BY <2>1 DEF LastAbout
  <2> QED
    BY <1>1, <1>2, <2>1, <2>2 DEF ChangesIn
<1> QED
  BY <1>1, <1>3, <1>4

\* What is last of what has been read.
LEMMA LastRead ==
  ASSUME StreamInv, NEW topic, NEW k, NEW at, at[topic] \in 0..Len(stream),
         NEW es, es = About(topic, k, at), es # <<>>
  PROVE  \E j \in 1..at[topic] : /\ LastAbout(stream, at[topic], topic, k, j)
                                 /\ es[Len(es)] = stream[j]
                                 /\ LastValue(topic, k, at) = <<stream[j]>>
<1>1. TellsLast(es, at[topic], topic, k)
  BY AboutTellsLast
<1>2. PICK j \in 1..at[topic] : LastAbout(stream, at[topic], topic, k, j) /\ es[Len(es)] = stream[j]
  BY <1>1 DEF TellsLast
<1>3. LastValue(topic, k, at) = <<stream[j]>>
  BY <1>2 DEF LastValue
<1> QED
  BY <1>2, <1>3

\* As a set, what has been read of an entity is the messages about it.
LEMMA AboutSet ==
  ASSUME StreamInv, NEW topic, NEW k, NEW at, at[topic] \in 0..Len(stream),
         NEW e \in ToSet(About(topic, k, at))
  PROVE  \E i \in 1..at[topic] : IsAbout(stream[i], topic, k) /\ e = stream[i]
<1>1. PICK es, n, offsets : /\ n = at[topic] /\ offsets = OfEntity(topic, k)
                            /\ es = Reading(offsets, n) /\ es = About(topic, k, at)
  BY DEF About
<1>2. n \in Nat /\ Len(stream) \in Nat /\ n <= Len(stream)
  BY <1>1 DEF StreamInv, Causal
<1>3. Gathered(offsets, n, es)
  BY <1>1, <1>2, ReadingGathers
<1>4. PICK m \in 1..Len(es) : e = es[m]
  BY <1>1, <1>3 DEF ToSet, Gathered
<1>5. PICK i \in 1..n : i \in offsets /\ e = stream[i]
  BY <1>3, <1>4 DEF Gathered
<1> QED
  BY <1>1, <1>5, EntityOffsets

\* The rows of customer_360: the last tier change is a latest one, and tells the tier.
TierIsToldBy(row, e) ==
  /\ \A f \in row.tier_history : f.at <= e.at
  /\ row.tier \in {e.body.from, e.body.to}

LEMMA CustomersCohere ==
  ASSUME StreamInv, CustomerInv, NEW p \in 1..Len(stream), NEW at,
         at["customers"] = p, at["tier_changes"] = p, NEW c,
         NEW row \in ToSet(Customer360(c, at)), row.tier_history # {}
  PROVE  \E e \in row.tier_history : TierIsToldBy(row, e)
<1>1. Len(stream) \in Nat /\ p \in 0..Len(stream)
  BY DEF StreamInv, Causal
<1>2. PICK cust, es : cust = LastValue("customers", c, at) /\ es = About("tier_changes", c, at)
  OBVIOUS
<1>3. cust # <<>> /\ row.tier = cust[1].body.tier /\ row.tier_history = ToSet(es)
  BY <1>2, CustomerRow
<1>4. About("customers", c, at) # <<>>
  BY <1>2, <1>3 DEF LastValue
<1>5. PICK j \in 1..p : LastAbout(stream, p, "customers", c, j) /\ cust = <<stream[j]>>
  BY <1>1, <1>2, <1>4, LastRead
<1>6. es # <<>>
  BY <1>3 DEF ToSet
<1>7. PICK i \in 1..p : LastAbout(stream, p, "tier_changes", c, i) /\ es[Len(es)] = stream[i]
  BY <1>1, <1>2, <1>6, LastRead
<1>8. stream[j].body.tier \in {stream[i].body.from, stream[i].body.to}
  BY <1>1, <1>5, <1>7, TierGoesWithChange
<1>9. stream[i] \in row.tier_history
  <2>1. IsAbout(stream[i], "tier_changes", c)
    BY <1>7 DEF LastAbout
  <2>2. \E l \in DOMAIN es : es[l] = stream[i]
    BY <1>1, <1>2, <2>1, AboutHolds
  <2> QED
    BY <1>3, <2>2 DEF ToSet
<1>10. ASSUME NEW f \in row.tier_history PROVE f.at <= stream[i].at
  <2>1. f \in ToSet(About("tier_changes", c, at)) /\ at["tier_changes"] \in 0..Len(stream)
    BY <1>1, <1>2, <1>3
  <2>2. PICK l \in 1..p : IsAbout(stream[l], "tier_changes", c) /\ f = stream[l]
    BY <2>1, AboutSet
  <2>3. l <= i /\ l \in 1..Len(stream) /\ i \in 1..Len(stream)
    BY <1>1, <1>7, <2>2 DEF LastAbout
  <2> QED
    BY <2>2, <2>3, TimesInOrder
<1>11. row.tier = stream[j].body.tier
  BY <1>3, <1>5
<1>12. TierIsToldBy(row, stream[i])
  BY <1>8, <1>10, <1>11 DEF TierIsToldBy
<1> QED
  BY <1>9, <1>12

\* The rows of order_state, of an order that has been shipped,
LEMMA ShippedCohere ==
  ASSUME StreamInv, OrderInv, NEW p \in 1..Len(stream), NEW at, at = [t \in Topics |-> p],
         NEW o, NEW j \in 1..p, LastAbout(stream, p, "orders", o, j),
         stream[j].body.status \in {"SHIPPED", "DELIVERED"}
  PROVE  /\ ToSet(About("order_items", o, at)) # {}
         /\ \E e \in ToSet(About("payments", o, at)) : e.body.kind = "CAPTURED"
<1>1. Len(stream) \in Nat /\ p \in 0..Len(stream)
  BY DEF StreamInv, Causal
<1>2. at["order_items"] = p /\ at["payments"] = p
  BY DEF Topics
<1>3. j \in 1..Len(stream) /\ stream[j].topic = "orders" /\ stream[j].key = o
  BY <1>1 DEF LastAbout, IsAbout
<1>4. EventIn(stream, j, orders)
  BY <1>3 DEF OrderInv, OrdersIn
<1>5. ItemsSeen(stream, j, o) /\ CaptureSeen(stream, j, o)
  BY <1>3, <1>4 DEF EventIn
<1>6. PICK i \in 1..j : IsAbout(stream[i], "order_items", o)
  BY <1>5 DEF ItemsSeen
<1>7. PICK l \in 1..j : IsCapture(stream[l], o)
  BY <1>5 DEF CaptureSeen
<1>8. i \in 1..p /\ l \in 1..p /\ IsAbout(stream[l], "payments", o) /\ stream[l].body.kind = "CAPTURED"
  BY <1>1, <1>6, <1>7 DEF IsCapture, IsAbout
<1>9. ToSet(About("order_items", o, at)) # {}
  <2>1. PICK es : es = About("order_items", o, at)
    OBVIOUS
  <2>2. \E m \in DOMAIN es : es[m] = stream[i]
    BY <1>1, <1>2, <1>6, <1>8, <2>1, AboutHolds
  <2> QED
    BY <2>1, <2>2 DEF ToSet
<1>10. \E m \in DOMAIN About("payments", o, at) : About("payments", o, at)[m] = stream[l]
  <2>1. at["payments"] \in 0..Len(stream) /\ l \in 1..at["payments"]
    BY <1>1, <1>2, <1>8
  <2>2. PICK es : es = About("payments", o, at)
    OBVIOUS
  <2>3. \E m \in DOMAIN es : es[m] = stream[l]
    BY <1>8, <2>1, <2>2, AboutHolds
  <2> QED
    BY <2>2, <2>3
<1> QED
  BY <1>8, <1>9, <1>10 DEF ToSet

\* and of one with an open return.
LEMMA ReturnedCohere ==
  ASSUME StreamInv, OrderInv, NEW p \in 1..Len(stream), NEW o,
         NEW j \in 1..p, LastAbout(stream, p, "orders", o, j),
         NEW at, at["returns"] = p, OpenReturns(o, at) # <<>>
  PROVE  stream[j].body.status = "DELIVERED"
<1>1. Len(stream) \in Nat /\ p \in Nat
  BY DEF StreamInv, Causal
<1>2. PICK es, requested :
        /\ requested = {i \in OfTopic("returns") : /\ stream[i].body.order = o
                                                   /\ stream[i].body.status = "REQUESTED"}
        /\ es = OpenReturns(o, at)
  OBVIOUS
<1>3. Gathered(requested, p, es) /\ es # <<>>
  BY <1>1, <1>2, ReadingGathers DEF OpenReturns
<1>4. PICK i \in 1..p : i \in requested
  BY <1>3 DEF Gathered
<1>5. /\ i \in 1..Len(stream) /\ stream[i].topic = "returns" /\ stream[i].body.order = o
      /\ stream[i].body.status = "REQUESTED"
  BY <1>1, <1>2, <1>4 DEF OfTopic
<1>6. CausesSeen(stream, i - 1, stream[i])
  BY <1>5 DEF StreamInv, Causal
<1>7. StatusSeen(stream, i - 1, o, "DELIVERED")
  BY <1>5, <1>6 DEF CausesSeen
<1>8. PICK l \in 1..i - 1 : /\ stream[l].topic = "orders" /\ stream[l].key = o
                            /\ stream[l].body.status = "DELIVERED"
  BY <1>7 DEF StatusSeen
<1>9. l \in 1..p /\ l \in 1..Len(stream) /\ j \in 1..Len(stream)
  BY <1>1, <1>5, <1>8
<1>10. j <= l
  BY <1>8, <1>9 DEF OrderInv, OrdersIn, DeliveryIsLast, LastAbout
<1>11. l <= j
  BY <1>8, <1>9 DEF LastAbout, IsAbout
<1>12. l = j
  BY <1>9, <1>10, <1>11
<1> QED
  BY <1>8, <1>12

\* ViewsAreCoherent in every run: a joined row never contradicts itself.
THEOREM ViewsCohere == Spec => []ViewsAreCoherent
<1>1. TypeOK /\ ToldInv => ViewsAreCoherent
  <2> SUFFICES ASSUME TypeOK, ToldInv, NEW p \in Current, NEW at, at = [t \in Topics |-> p]
      PROVE  /\ \A c \in Customers : \A row \in ToSet(Customer360(c, at)) :
                  row.tier_history # {} => \E e \in row.tier_history : TierIsToldBy(row, e)
             /\ \A o \in DOMAIN orders : \A row \in ToSet(OrderState(o, at)) :
                  /\ row.status \in {"SHIPPED", "DELIVERED"} =>
                       /\ row.items # {}
                       /\ \E e \in row.payment_events : e.body.kind = "CAPTURED"
                  /\ row.open_return_id # 0 => row.status = "DELIVERED"
    BY DEF ViewsAreCoherent, TierIsToldBy
  <2>1. p \in 1..Len(stream) /\ p \in 0..Len(stream) /\ Len(stream) \in Nat
    BY DEF Current, ToldInv, StreamInv, Causal
  <2>2. at["customers"] = p /\ at["tier_changes"] = p /\ at["orders"] = p /\ at["returns"] = p
    BY DEF Topics
  <2>3. StreamInv /\ CustomerInv /\ OrderInv
    BY DEF ToldInv
  <2>4. ASSUME NEW c \in Customers, NEW row \in ToSet(Customer360(c, at)), row.tier_history # {}
        PROVE  \E e \in row.tier_history : TierIsToldBy(row, e)
    BY <2>1, <2>2, <2>3, <2>4, CustomersCohere
  <2>5. ASSUME NEW o \in DOMAIN orders, NEW row \in ToSet(OrderState(o, at))
        PROVE  /\ row.status \in {"SHIPPED", "DELIVERED"} =>
                    /\ row.items # {}
                    /\ \E e \in row.payment_events : e.body.kind = "CAPTURED"
               /\ row.open_return_id # 0 => row.status = "DELIVERED"
    <3>1. PICK ord, open : ord = LastValue("orders", o, at) /\ open = OpenReturns(o, at)
      OBVIOUS
    <3>2. /\ ord # <<>> /\ row.status = ord[1].body.status
          /\ row.items = ToSet(About("order_items", o, at))
          /\ row.payment_events = ToSet(About("payments", o, at))
          /\ open = <<>> => row.open_return_id = 0
      BY <2>5, <3>1, OrderRow
    <3>3. About("orders", o, at) # <<>>
      BY <3>1, <3>2 DEF LastValue
    <3>4. PICK j \in 1..p : LastAbout(stream, p, "orders", o, j) /\ ord = <<stream[j]>>
      BY <2>1, <2>2, <2>3, <3>1, <3>3, LastRead
    <3>5. row.status = stream[j].body.status
      BY <3>2, <3>4
    <3>6. row.status \in {"SHIPPED", "DELIVERED"} =>
             /\ row.items # {}
             /\ \E e \in row.payment_events : e.body.kind = "CAPTURED"
      BY <2>1, <2>3, <3>2, <3>4, <3>5, ShippedCohere
    <3>7. row.open_return_id # 0 => row.status = "DELIVERED"
      BY <2>1, <2>2, <2>3, <3>1, <3>2, <3>4, <3>5, ReturnedCohere
    <3> QED
      BY <3>6, <3>7
  <2> QED
    BY <2>4, <2>5
<1> QED
  BY <1>1, ToldAlways, PTL

-------------------------------------------------------------------------------
(* What a snapshot at an earlier tick holds. *)

\* Every customer is emitted at time 0, so every snapshot has it.
FirstIn(s) == \A c \in Customers : \E i \in 1..Len(s) : IsAbout(s[i], "customers", c) /\ s[i].at = 0

LEMMA FirstAlways == Spec => []FirstIn(stream)
<1>1. TypeOK /\ ToldInv /\ Init => FirstIn(stream)
  <2> SUFFICES ASSUME TypeOK, ToldInv, Init, NEW c \in Customers
               PROVE  \E i \in 1..Len(stream) : IsAbout(stream[i], "customers", c) /\ stream[i].at = 0
    BY DEF FirstIn
  <2>1. PICK i \in 1..Len(stream) : stream[i].topic = "customers" /\ stream[i].key = c
    BY DEF ToldInv, StreamInv, StateIsEmitted, CustomerSeen
  <2>2. stream[i].at \in Nat /\ stream[i].at <= Now
    BY DEF ToldInv, StreamInv, Causal
  <2>3. Now = 0
    BY DEF Init, Now
  <2> QED
    BY <2>1, <2>2, <2>3 DEF IsAbout
<1>2. TypeOK /\ TypeOK' /\ ToldInv /\ FirstIn(stream) /\ [Next]_vars => FirstIn(stream)'
  <2> SUFFICES ASSUME TypeOK, TypeOK', ToldInv, FirstIn(stream), [Next]_vars
               PROVE  FirstIn(stream)'
    OBVIOUS
  <2>1. PICK t : t = stream'
    OBVIOUS
  <2>2. PICK n, u : Goes(stream, t, n, u)
    BY <2>1, StepEmits DEF ToldInv
  <2>3. ASSUME NEW c \in Customers
        PROVE  \E i \in 1..Len(t) : IsAbout(t[i], "customers", c) /\ t[i].at = 0
    <3>1. PICK i \in 1..Len(stream) : IsAbout(stream[i], "customers", c) /\ stream[i].at = 0
      BY DEF FirstIn
    <3>2. i \in 1..Len(t) /\ t[i] = stream[i]
      BY <2>2 DEF Goes
    <3> QED
      BY <3>1, <3>2
  <2> QED
    BY <2>1, <2>3 DEF FirstIn
<1> QED
  BY <1>1, <1>2, ToldAlways, PTL DEF Spec

\* The messages of the ticks before k are the first ones of the stream.
LEMMA TickEndIs ==
  ASSUME StreamInv, NEW k \in Nat
  PROVE  /\ TickEnd(k) \in 0..Len(stream)
         /\ \A i \in 1..Len(stream) : stream[i].at <= k => i <= TickEnd(k)
<1>1. PICK n : n = Len(stream)
  OBVIOUS
<1>2. n \in Nat /\ DOMAIN stream = 1..n
  BY <1>1 DEF StreamInv, Causal
<1>3. \A i, j \in 1..n : i <= j => stream[i].at <= stream[j].at
  BY <1>1, TimesInOrder
<1>4. \A i \in 1..n : stream[i].at \in Nat
  BY <1>1 DEF StreamInv, Causal
<1>5. PICK S : S = {i \in 1..n : stream[i].at <= k}
  OBVIOUS
<1>6. TickEnd(k) = Cardinality(S)
  BY <1>2, <1>5 DEF TickEnd
<1>7. \E m \in 0..n : S = 1..m
  <2>1. CASE S = 1..n
    BY <1>2, <2>1
  <2>2. CASE S # 1..n
    <3>1. (1..n) \ S # {} /\ (1..n) \ S \subseteq Nat
      BY <1>5, <2>2
    <3>2. PICK j \in (1..n) \ S : \A l \in (1..n) \ S : j <= l
      BY <3>1, Calls!LeastNat
    <3>3. j - 1 \in 0..n
      BY <1>2, <3>2
    <3>4. ASSUME NEW i \in 1..j - 1 PROVE i \in S
      <4>1. i \in 1..n /\ ~(j <= i)
        BY <1>2, <3>2, <3>4
      <4> QED
        BY <3>2, <4>1
    <3>5. ASSUME NEW i \in S PROVE i \in 1..j - 1
      <4>1. i \in 1..n /\ stream[i].at <= k
        BY <1>5
      <4>2. ~(stream[j].at <= k) /\ j \in 1..n
        BY <1>5, <3>2
      <4>3. ~(j <= i)
        BY <1>3, <1>4, <4>1, <4>2
      <4> QED
        BY <4>1, <4>2, <4>3
    <3>6. S = 1..j - 1
      BY <3>4, <3>5
    <3> QED
      BY <3>3, <3>6
  <2> QED
    BY <2>1, <2>2
<1>8. PICK m \in 0..n : S = 1..m
  BY <1>7
<1>9. Cardinality(S) = m
  BY <1>2, <1>8, FS_Interval
<1>10. TickEnd(k) = m
  BY <1>6, <1>9
<1>11. \A i \in 1..n : stream[i].at <= k => i <= m
  <2>1. \A i \in 1..n : stream[i].at <= k => i \in S
    BY <1>5
  <2> QED
    BY <1>8, <2>1
<1> QED
  BY <1>1, <1>8, <1>10, <1>11

\* A record stays the last one until there is another event of its entity.
LEMMA LastStays ==
  ASSUME NEW topic, NEW k, NEW at, NEW later, at[topic] \in Nat, later[topic] \in Nat,
         at[topic] <= later[topic],
         \A i \in at[topic] + 1 .. later[topic] : ~IsAbout(stream[i], topic, k)
  PROVE  LastValue(topic, k, later) = LastValue(topic, k, at)
<1>1. PICK offsets : offsets = OfEntity(topic, k)
  OBVIOUS
<1>2. \A i \in at[topic] + 1 .. later[topic] : i \notin offsets
  BY <1>1 DEF OfEntity, OfTopic, IsAbout
<1>3. Reading(offsets, later[topic]) = Reading(offsets, at[topic])
  BY <1>2, ReadingSame
<1>4. About(topic, k, later) = About(topic, k, at)
  BY <1>1, <1>3 DEF About
<1> QED
  BY <1>4 DEF LastValue

\* What the snapshot says of an entity is what the last message by then says.
LEMMA SnapshotSays ==
  ASSUME StreamInv, CustomerInv, NEW k \in Nat,
         NEW end, end = TickEnd(k), NEW at, at = [t \in Topics |-> end],
         NEW snap, snap = SnapshotAt(k)
  PROVE  /\ \A c \in Customers :
              snap.customers[c].tier = LastValue("customers", c, at)[1].body.tier
         /\ \A id \in DOMAIN snap.orders :
              /\ \E i \in 1..end : IsAbout(stream[i], "orders", id)
              /\ snap.orders[id] = LastValue("orders", id, at)[1].body
         /\ \A id \in DOMAIN snap.returns :
              /\ \E i \in 1..end : IsAbout(stream[i], "returns", id)
              /\ snap.returns[id] = LastValue("returns", id, at)[1].body
<1>1. end \in 0..Len(stream) /\ Len(stream) \in Nat /\ DOMAIN stream = 1..Len(stream)
  BY TickEndIs DEF StreamInv, Causal
<1>2. \A topic \in Topics : at[topic] = end
  OBVIOUS
<1>3. Reached(at)
  BY <1>1, <1>2 DEF Reached
<1>4. PICK keys : keys = [t \in {"orders", "returns"} |-> {stream[i].key : i \in OfTopic(t) \cap 1..end}]
  OBVIOUS
<1>5. snap = [customers |-> [c \in Customers |-> Get("customers", "by_version", c, at)[1].body],
              orders |-> [n \in keys["orders"] |-> Get("orders", "by_time", n, at)[1].body],
              returns |-> [n \in keys["returns"] |-> Get("returns", "by_time", n, at)[1].body]]
  <2>1. keys["orders"] = KeysRead("orders", at) /\ keys["returns"] = KeysRead("returns", at)
    BY <1>2, <1>4 DEF KeysRead, Topics
  <2> QED
    BY <2>1 DEF SnapshotAt
<1>6. ASSUME NEW topic \in {"orders", "returns"}, NEW id \in keys[topic]
      PROVE  \E i \in 1..end : IsAbout(stream[i], topic, id)
  BY <1>4, <1>6 DEF OfTopic, IsAbout
<1>7. \A c : Get("customers", "by_version", c, at) = LastValue("customers", c, at)
  BY <1>3, GetIsLast DEF Reached, Topics
<1>8. \A id : /\ Get("orders", "by_time", id, at) = LastValue("orders", id, at)
              /\ Get("returns", "by_time", id, at) = LastValue("returns", id, at)
  BY <1>3, GetIsLast DEF Reached, Topics
<1>9. ASSUME NEW c \in Customers
      PROVE  snap.customers[c].tier = LastValue("customers", c, at)[1].body.tier
  BY <1>5, <1>7
<1>10. ASSUME NEW id \in DOMAIN snap.orders
       PROVE  /\ \E i \in 1..end : IsAbout(stream[i], "orders", id)
              /\ snap.orders[id] = LastValue("orders", id, at)[1].body
  <2>1. id \in keys["orders"] /\ snap.orders[id] = Get("orders", "by_time", id, at)[1].body
    BY <1>5
  <2> QED
    BY <1>6, <1>8, <2>1
<1>11. ASSUME NEW id \in DOMAIN snap.returns
       PROVE  /\ \E i \in 1..end : IsAbout(stream[i], "returns", id)
              /\ snap.returns[id] = LastValue("returns", id, at)[1].body
  <2>1. id \in keys["returns"] /\ snap.returns[id] = Get("returns", "by_time", id, at)[1].body
    BY <1>5
  <2> QED
    BY <1>6, <1>8, <2>1
<1> QED
  BY <1>9, <1>10, <1>11

\* Where its message is read the last value is there.
LEMMA ThereIsALast ==
  ASSUME StreamInv, NEW topic, NEW k, NEW at, at[topic] \in 0..Len(stream),
         \E i \in 1..at[topic] : IsAbout(stream[i], topic, k)
  PROVE  \E j \in 1..at[topic] : /\ LastAbout(stream, at[topic], topic, k, j)
                                 /\ LastValue(topic, k, at) = <<stream[j]>>
<1>1. PICK es : es = About(topic, k, at)
  OBVIOUS
<1>2. es # <<>>
  BY <1>1, AboutHolds
<1> QED
  BY <1>1, <1>2, LastRead

\* FreezingIsFair in every run: an answer that is later than the snapshot differs from it
\* only in what has happened to its entity since.
THEOREM FreezingFair == Spec => []FreezingIsFair
<1>1. TypeOK /\ ToldInv /\ FirstIn(stream) => FreezingIsFair
  <2> DEFINE topics == [lookup |-> "customers", transactional |-> "orders", multi_hop |-> "returns"]
  <2> SUFFICES ASSUME TypeOK, ToldInv, FirstIn(stream), NEW k \in EndedTicks,
                      NEW snap, snap = SnapshotAt(k), NEW end, end = TickEnd(k),
                      NEW category \in Categories, NEW id \in Targets(category, snap),
                      NEW p \in Current, p >= end, NEW later, later = [t \in Topics |-> p],
                      NEW answer \in Honest(category, id, later),
                      Grade(category, answer, snap) # "none"
      PROVE  /\ category # "multi_hop"
             /\ \E i \in end + 1 .. p :
                  stream[i].topic = topics[category] /\ stream[i].key = id
    BY DEF FreezingIsFair
  <2> HIDE DEF topics
  <2>1. StreamInv /\ CustomerInv /\ ReturnInv
    BY DEF ToldInv
  <2>2. k \in Nat
    BY TicksAssumption DEF EndedTicks
  <2>3. /\ end \in 0..Len(stream) /\ Len(stream) \in Nat
        /\ \A i \in 1..Len(stream) : stream[i].at <= k => i <= end
    <3>1. /\ TickEnd(k) \in 0..Len(stream)
          /\ \A i \in 1..Len(stream) : stream[i].at <= k => i <= TickEnd(k)
      BY <2>1, <2>2, TickEndIs
    <3>2. Len(stream) \in Nat
      BY <2>1 DEF StreamInv, Causal
    <3> QED
      BY <3>1, <3>2
  <2>4. p \in 1..Len(stream) /\ end <= p /\ p \in Nat /\ end \in Nat
    BY <2>1, <2>3 DEF Current, StreamInv, Causal
  <2>5. PICK at : at = [t \in Topics |-> end]
    OBVIOUS
  <2>6. /\ Reached(at) /\ Reached(later)
        /\ \A topic \in Topics : at[topic] = end /\ later[topic] = p
    BY <2>3, <2>4, <2>5 DEF Reached
  <2>7. /\ \A c \in Customers :
              snap.customers[c].tier = LastValue("customers", c, at)[1].body.tier
        /\ \A n \in DOMAIN snap.orders :
              /\ \E i \in 1..end : IsAbout(stream[i], "orders", n)
              /\ snap.orders[n] = LastValue("orders", n, at)[1].body
        /\ \A n \in DOMAIN snap.returns :
              /\ \E i \in 1..end : IsAbout(stream[i], "returns", n)
              /\ snap.returns[n] = LastValue("returns", n, at)[1].body
    BY <2>1, <2>2, <2>5, SnapshotSays
  <2>8. ASSUME NEW topic \in Topics, \E i \in 1..end : IsAbout(stream[i], topic, id)
        PROVE  \E j \in 1..end : IsAbout(stream[j], topic, id) /\ LastValue(topic, id, at) = <<stream[j]>>
    <3>1. at[topic] = end /\ at[topic] \in 0..Len(stream)
      BY <2>3, <2>6
    <3>2. \E i \in 1..at[topic] : IsAbout(stream[i], topic, id)
      BY <2>8, <3>1
    <3>3. PICK j \in 1..at[topic] : /\ LastAbout(stream, at[topic], topic, id, j)
                                    /\ LastValue(topic, id, at) = <<stream[j]>>
      BY <2>1, <3>1, <3>2, ThereIsALast
    <3> QED
      BY <3>1, <3>3 DEF LastAbout
  <2>9. ASSUME NEW topic \in Topics, \A i \in end + 1 .. p : ~IsAbout(stream[i], topic, id)
        PROVE  LastValue(topic, id, later) = LastValue(topic, id, at)
    BY <2>4, <2>6, <2>9, LastStays
  <2>10. ASSUME NEW value, id \in Graded(category, snap), value = Expected(category, id, snap),
                NEW source, source # <<>>,
                AnswerA(category, id, later) = ReadOff(source, id, value),
                AnswerB(category, id, later) = ReadOff(source, id, value)
         PROVE  FALSE
    <3>1. answer = <<[id |-> id, value |-> value]>>
      BY <2>10 DEF Honest, ReadOff
    <3> QED
      BY <2>10, <3>1, GradedRight
  <2>11. CASE category = "lookup"
    <3>1. id \in Customers /\ topics[category] = "customers"
      BY <2>11 DEF Targets, topics
    <3>2. SUFFICES ASSUME \A i \in end + 1 .. p : ~IsAbout(stream[i], "customers", id) PROVE FALSE
      BY <2>11, <3>1 DEF IsAbout
    <3>3. PICK source : source = LastValue("customers", id, later)
      OBVIOUS
    <3>4. source = LastValue("customers", id, at)
      BY <2>9, <3>2, <3>3 DEF Topics
    <3>5. \E i \in 1..end : IsAbout(stream[i], "customers", id)
      <4>1. PICK i \in 1..Len(stream) : IsAbout(stream[i], "customers", id) /\ stream[i].at = 0
        BY <3>1 DEF FirstIn
      <4>2. i <= end
        BY <2>2, <2>3, <4>1
      <4> QED
        BY <2>3, <4>1, <4>2
    <3>6. source # <<>>
      <4>1. PICK j \in 1..end : LastValue("customers", id, at) = <<stream[j]>>
        BY <2>8, <3>5 DEF Topics
      <4>2. source = <<stream[j]>>
        BY <3>4, <4>1, Zenon
      <4> QED
        BY <4>2
    <3>7. /\ AnswerA("lookup", id, later) = ReadOff(source, id, source[1].body.tier)
          /\ AnswerB("lookup", id, later) = ReadOff(source, id, source[1].body.tier)
      BY <2>1, <2>6, <3>3, LookupAnswer
    <3>8. id \in Graded("lookup", snap) /\ Expected("lookup", id, snap) = source[1].body.tier
      BY <2>7, <3>1, <3>4 DEF Graded, Expected
    <3> QED
      BY <2>10, <2>11, <3>6, <3>7, <3>8
  <2>12. CASE category = "transactional"
    <3>1. id \in DOMAIN snap.orders /\ topics[category] = "orders"
      BY <2>12 DEF Targets, topics
    <3>2. SUFFICES ASSUME \A i \in end + 1 .. p : ~IsAbout(stream[i], "orders", id) PROVE FALSE
      BY <2>12, <3>1 DEF IsAbout
    <3>3. PICK source : source = LastValue("orders", id, later)
      OBVIOUS
    <3>4. source = LastValue("orders", id, at)
      BY <2>9, <3>2, <3>3 DEF Topics
    <3>5. source # <<>>
      BY <2>7, <2>8, <3>1, <3>4 DEF Topics
    <3>6. /\ AnswerA("transactional", id, later) = ReadOff(source, id, source[1].body.status)
          /\ AnswerB("transactional", id, later) = ReadOff(source, id, source[1].body.status)
      BY <2>1, <2>6, <3>3, TransactionalAnswer
    <3>7. /\ id \in Graded("transactional", snap)
          /\ Expected("transactional", id, snap) = source[1].body.status
      BY <2>7, <3>1, <3>4 DEF Graded, Expected
    <3> QED
      BY <2>10, <2>12, <3>5, <3>6, <3>7
  <2>13. CASE category = "multi_hop"
    <3>1. id \in PickedReturn(snap)
      BY <2>13 DEF Targets
    <3>2. id \in DOMAIN snap.returns /\ snap.returns[id].reason = "chargeback_already_filed"
      BY <3>1 DEF PickedReturn
    <3>3. \E i \in 1..end : IsAbout(stream[i], "returns", id)
      BY <2>7, <3>2
    <3>4. PICK j \in 1..end : /\ IsAbout(stream[j], "returns", id)
                              /\ LastValue("returns", id, at) = <<stream[j]>>
      BY <2>8, <3>3 DEF Topics
    <3>5. j \in 1..Len(stream) /\ j \in 1..p
      BY <2>3, <2>4
    <3>6. id \in 1..Len(returns) /\ stream[j].body = returns[id]
      BY <2>1, <3>4, <3>5 DEF ReturnInv, ReturnsIn, IsAbout
    <3>7. snap.returns[id] = stream[j].body
      BY <2>7, <3>2, <3>4
    <3>8. returns[id].reason = "chargeback_already_filed"
      BY <3>2, <3>6, <3>7
    <3>9. PICK source : source = LastValue("returns", id, later)
      OBVIOUS
    <3>10. source # <<>>
      <4>1. later["returns"] = p /\ later["returns"] \in 0..Len(stream)
        BY <2>4, <2>6 DEF Topics
      <4>2. About("returns", id, later) # <<>>
        BY <2>1, <3>4, <3>5, <4>1, AboutHolds
      <4> QED
        BY <3>9, <4>2 DEF LastValue
    <3>11. /\ AnswerA("multi_hop", id, later) = ReadOff(source, id, FALSE)
           /\ AnswerB("multi_hop", id, later) = ReadOff(source, id, FALSE)
      <4>1. later["returns"] <= later["payments"] /\ later["returns"] <= later["orders"]
        BY <2>4, <2>6 DEF Topics
      <4> QED
        BY <2>1, <2>6, <3>6, <3>8, <3>9, <4>1, MultiHopAnswer
    <3>12. id \in Graded("multi_hop", snap) /\ Expected("multi_hop", id, snap) = FALSE
      BY <3>2 DEF Graded, Expected
    <3>13. FALSE
      BY <2>10, <2>13, <3>10, <3>11, <3>12
    <3> QED
      BY <3>13
  <2> QED
    BY <2>11, <2>12, <2>13 DEF Categories
<1> QED
  BY <1>1, ToldAlways, FirstAlways, PTL

-------------------------------------------------------------------------------
(* The variants agree. *)

\* The messages of a topic that are the last about their entity.
LastOnes(topic, n) ==
  {i \in 1..n : stream[i].topic = topic /\ LastAbout(stream, n, topic, stream[i].key, i)}

\* A list tool lists them.
LEMMA ListedAre ==
  ASSUME StreamInv, CustomerInv, NEW topic, NEW at, at[topic] \in 0..Len(stream)
  PROVE  Listed(topic, at) = {stream[i] : i \in LastOnes(topic, at[topic])}
<1>1. PICK n : n = at[topic]
  OBVIOUS
<1>2. n \in Nat /\ n <= Len(stream) /\ Len(stream) \in Nat /\ DOMAIN stream = 1..Len(stream)
  BY <1>1 DEF StreamInv, Causal
<1>3. KeysRead(topic, at) = {stream[i].key : i \in {j \in 1..n : stream[j].topic = topic}}
  BY <1>1, <1>2 DEF KeysRead, OfTopic
<1>4. ASSUME NEW k \in KeysRead(topic, at)
      PROVE  \E j \in 1..n : /\ LastAbout(stream, n, topic, k, j)
                             /\ Get(topic, "by_time", k, at)[1] = stream[j]
  <2>1. PICK i \in 1..n : IsAbout(stream[i], topic, k)
    BY <1>3 DEF IsAbout
  <2>2. PICK j \in 1..n : LastAbout(stream, n, topic, k, j) /\ LastValue(topic, k, at) = <<stream[j]>>
    BY <1>1, <2>1, ThereIsALast
  <2>3. Get(topic, "by_time", k, at) = LastValue(topic, k, at)
    BY GetIsLast
  <2> QED
    BY <2>2, <2>3
<1>5. ASSUME NEW e \in Listed(topic, at)
      PROVE  e \in {stream[i] : i \in LastOnes(topic, n)}
  <2>1. PICK k \in KeysRead(topic, at) : e = Get(topic, "by_time", k, at)[1]
    BY DEF Listed
  <2>2. PICK j \in 1..n : LastAbout(stream, n, topic, k, j) /\ e = stream[j]
    BY <1>4, <2>1
  <2>3. j \in LastOnes(topic, n)
    BY <2>2 DEF LastOnes, LastAbout, IsAbout
  <2> QED
    BY <2>2, <2>3
<1>6. ASSUME NEW i \in LastOnes(topic, n)
      PROVE  stream[i] \in Listed(topic, at)
  <2>1. i \in 1..n /\ stream[i].topic = topic /\ LastAbout(stream, n, topic, stream[i].key, i)
    BY DEF LastOnes
  <2>2. stream[i].key \in KeysRead(topic, at)
    BY <1>3, <2>1
  <2>3. PICK j \in 1..n : /\ LastAbout(stream, n, topic, stream[i].key, j)
                          /\ Get(topic, "by_time", stream[i].key, at)[1] = stream[j]
    BY <1>4, <2>2
  <2>4. i = j
    BY <1>2, <2>1, <2>3 DEF LastAbout
  <2> QED
    BY <2>2, <2>3, <2>4 DEF Listed
<1> QED
  BY <1>1, <1>5, <1>6

\* Of a topic whose entities are numbered it lists all messages.
LEMMA AllListed ==
  ASSUME StreamInv, CustomerInv, NEW topic, NEW at, at[topic] \in 0..Len(stream),
         NEW count \in Nat, NumbersIn(stream, topic, count)
  PROVE  Listed(topic, at) = {stream[i] : i \in {j \in 1..at[topic] : stream[j].topic = topic}}
<1>1. PICK n : n = at[topic]
  OBVIOUS
<1>2. n \in Nat /\ n <= Len(stream) /\ Len(stream) \in Nat
  BY <1>1 DEF StreamInv, Causal
<1>3. ASSUME NEW i \in 1..n, NEW j \in 1..n, stream[i].topic = topic, IsAbout(stream[j], topic, stream[i].key)
      PROVE  j <= i
  <2>1. i \in 1..Len(stream) /\ j \in 1..Len(stream)
    BY <1>2
  <2>2. stream[i].key \in 1..count /\ stream[j].key = stream[i].key /\ stream[j].topic = topic
    BY <1>3, <2>1 DEF NumbersIn, IsAbout
  <2>3. ~(i < j)
    BY <1>3, <2>1, <2>2 DEF NumbersIn
  <2> QED
    BY <2>3
<1>4. LastOnes(topic, n) = {j \in 1..n : stream[j].topic = topic}
  BY <1>3 DEF LastOnes, LastAbout, IsAbout
<1> QED
  BY <1>1, <1>4, ListedAre

\* As a set, what is read is the messages at the offsets.
LEMMA GatheredSet ==
  ASSUME NEW offsets, NEW n \in Nat, NEW es, Gathered(offsets, n, es)
  PROVE  ToSet(es) = {stream[j] : j \in {i \in 1..n : i \in offsets}}
<1>1. es \in Seq(MessagesAt(offsets))
  BY DEF Gathered
<1>2. DOMAIN es = 1..Len(es)
  BY <1>1, LenProperties
<1>3. ASSUME NEW e \in ToSet(es) PROVE \E j \in 1..n : j \in offsets /\ e = stream[j]
  <2>1. PICK m \in 1..Len(es) : e = es[m]
    BY <1>2 DEF ToSet
  <2> QED
    BY <2>1 DEF Gathered
<1>4. ASSUME NEW j \in 1..n, j \in offsets PROVE stream[j] \in ToSet(es)
  <2>1. PICK m \in 1..Len(es) : es[m] = stream[j]
    BY <1>4 DEF Gathered
  <2> QED
    BY <1>2, <2>1 DEF ToSet
<1> QED
  BY <1>3, <1>4

\* The offsets of the messages of a topic that name a customer.
NamingOffsets(topic, c) == {i \in OfTopic(topic) : stream[i].body.customer = c}

\* The tickets of the view's row are those that the tool lists.
LEMMA TicketsAgree ==
  ASSUME StreamInv, CustomerInv, NEW count \in Nat, NumbersIn(stream, "tickets", count),
         NEW at, at["tickets"] \in 0..Len(stream), NEW c
  PROVE  ToSet(ReadOf("tickets", c, at)) = TicketsOf(c, at)
<1>1. PICK n, offsets, es : /\ n = at["tickets"] /\ offsets = NamingOffsets("tickets", c)
                            /\ es = ReadOf("tickets", c, at)
  OBVIOUS
<1>2. n \in Nat /\ n <= Len(stream) /\ Len(stream) \in Nat /\ DOMAIN stream = 1..Len(stream)
  BY <1>1 DEF StreamInv, Causal
<1>3. es = Reading(offsets, n)
  BY <1>1 DEF ReadOf, NamingOffsets
<1>4. Gathered(offsets, n, es)
  BY <1>2, <1>3, ReadingGathers
<1>5. \A j \in 1..n : j \in offsets <=> stream[j].topic = "tickets" /\ stream[j].body.customer = c
  BY <1>1, <1>2 DEF NamingOffsets, OfTopic
<1>6. TicketsOf(c, at) = {stream[j] : j \in {i \in 1..n : i \in offsets}}
  <2>1. Listed("tickets", at) = {stream[i] : i \in {j \in 1..n : stream[j].topic = "tickets"}}
    BY <1>1, AllListed
  <2> QED
    BY <1>5, <2>1 DEF TicketsOf
<1>7. ToSet(es) = TicketsOf(c, at)
  BY <1>2, <1>4, <1>6, GatheredSet
<1> QED
  BY <1>1, <1>7

\* The record of an order that the tool lists is its last message, among the rows of the
\* column or cut off for rows that are no older.
LEMMA RecentAgree ==
  ASSUME StreamInv, CustomerInv, NEW at, at["orders"] \in 0..Len(stream), NEW c,
         NEW kept \in Recent(ToSet(ReadOf("orders", c, at)))
  PROVE  RecentAgrees(kept, c, at)
<1>1. PICK n, offsets, es, rows :
        /\ n = at["orders"] /\ offsets = NamingOffsets("orders", c)
        /\ es = ReadOf("orders", c, at) /\ rows = ToSet(es)
  OBVIOUS
<1>2. n \in Nat /\ n <= Len(stream) /\ Len(stream) \in Nat /\ DOMAIN stream = 1..Len(stream)
  BY <1>1 DEF StreamInv, Causal
<1>3. es = Reading(offsets, n)
  BY <1>1 DEF ReadOf, NamingOffsets
<1>4. Gathered(offsets, n, es)
  BY <1>2, <1>3, ReadingGathers
<1>5. rows = {stream[i] : i \in {j \in 1..n : j \in offsets}}
  BY <1>1, <1>2, <1>4, GatheredSet
<1>6. kept \in Recent(rows)
  BY <1>1
<1>7. kept \subseteq rows
  BY <1>6 DEF Recent
<1>8. ASSUME NEW e \in rows, e \notin kept
      PROVE  Cardinality(kept) = RecentLimit /\ \A f \in kept : f.at >= e.at
  <2>1. kept # rows
    BY <1>8
  <2>2. CASE Cardinality(rows) <= RecentLimit
    BY <1>6, <2>1, <2>2 DEF Recent
  <2>3. CASE ~(Cardinality(rows) <= RecentLimit)
    BY <1>6, <1>8, <2>3 DEF Recent
  <2> QED
    BY <2>2, <2>3
<1>9. ASSUME NEW e \in OrdersOf(c, at)
      PROVE  /\ \A f \in kept : f.key = e.key => f.at <= e.at
             /\ e \in rows
  <2>1. e \in Listed("orders", at) /\ e.body.customer = c
    BY <1>9 DEF OrdersOf
  <2>2. PICK l \in LastOnes("orders", n) : e = stream[l]
    BY <1>1, <2>1, ListedAre
  <2>3. l \in 1..n /\ stream[l].topic = "orders" /\ LastAbout(stream, n, "orders", e.key, l)
    BY <2>2 DEF LastOnes
  <2>4. l \in offsets
    BY <1>1, <1>2, <2>1, <2>2, <2>3 DEF NamingOffsets, OfTopic
  <2>5. ASSUME NEW f \in kept, f.key = e.key PROVE f.at <= e.at
    <3>1. PICK i \in 1..n : i \in offsets /\ f = stream[i]
      BY <1>5, <1>7, <2>5
    <3>2. IsAbout(stream[i], "orders", e.key)
      BY <1>1, <2>5, <3>1 DEF NamingOffsets, OfTopic, IsAbout
    <3>3. i <= l /\ i \in 1..Len(stream) /\ l \in 1..Len(stream)
      BY <1>2, <2>3, <3>1, <3>2 DEF LastAbout
    <3> QED
      BY <2>2, <3>1, <3>3, TimesInOrder
  <2> QED
    BY <1>5, <2>2, <2>3, <2>4, <2>5
<1> QED
  BY <1>8, <1>9 DEF RecentAgrees

\* The stock of an order's items is the snapshot that the tool has of each row.
LEMMA StockAgrees ==
  ASSUME StreamInv, CustomerInv, StockInv, NEW p \in 0..Len(stream), NEW at,
         at["order_items"] = p, at["inventory"] = p, NEW o,
         NEW item \in ToSet(About("order_items", o, at))
  PROVE  \E stock \in StockOfItems(o, at) :
           <<stock>> = Get("inventory", "by_time", item.body.row, at)
<1>1. PICK r : r = item.body.row
  OBVIOUS
<1>2. p \in Nat /\ Len(stream) \in Nat
  BY DEF StreamInv, Causal
<1>3. PICK l \in 1..p : IsAbout(stream[l], "order_items", o) /\ item = stream[l]
  BY AboutSet
<1>4. l \in 1..Len(stream) /\ stream[l].topic = "order_items" /\ stream[l].body.row = r
  BY <1>1, <1>3 DEF IsAbout
<1>5. PICK j \in 1..l : IsAbout(stream[j], "inventory", r)
  BY <1>4 DEF StockInv, StockIn, StockSeen
<1>6. j \in 1..p
  BY <1>2, <1>5
<1>7. PICK m : LastValue("inventory", r, at) = <<stream[m]>>
  BY <1>5, <1>6, ThereIsALast
<1>8. Get("inventory", "by_time", r, at) = LastValue("inventory", r, at)
  BY GetIsLast
<1>9. stream[m] \in ToSet(LastValue("inventory", r, at))
  BY <1>7 DEF ToSet
<1>10. stream[m] \in StockOfItems(o, at)
  BY <1>1, <1>9 DEF StockOfItems
<1> QED
  BY <1>1, <1>7, <1>8, <1>10

LEMMA MaxIs ==
  ASSUME NEW S, S \subseteq Int, NEW x \in S, \A y \in S : x >= y
  PROVE  Max(S) = x
<1>1. \A z \in S : (\A y \in S : z >= y) => z = x
  <2>1. ASSUME NEW z \in S, \A y \in S : z >= y PROVE z = x
    <3>1. z >= x /\ x >= z /\ z \in Int /\ x \in Int
      BY <2>1
    <3> QED
      BY <3>1
  <2> QED
    BY <2>1
<1> QED
  BY <1>1 DEF Max

\* The open return of the view's row is the newest that the tool lists.
LEMMA ReturnsAgree ==
  ASSUME StreamInv, CustomerInv, NEW count \in Nat, NumbersIn(stream, "returns", count),
         NEW at, at["returns"] \in 0..Len(stream), NEW o, NEW open, open = OpenReturns(o, at),
         NEW keys, keys = {e.key : e \in {r \in ReturnsOf(o, at) : r.body.status = "REQUESTED"}}
  PROVE  /\ open = <<>> => keys = {}
         /\ open # <<>> => keys # {} /\ open[Len(open)].key = Max(keys)
<1>1. PICK n, requested : /\ n = at["returns"]
                          /\ requested = {i \in OfTopic("returns") : /\ stream[i].body.order = o
                                                                     /\ stream[i].body.status = "REQUESTED"}
  OBVIOUS
<1>2. n \in Nat /\ n <= Len(stream) /\ Len(stream) \in Nat /\ DOMAIN stream = 1..Len(stream)
  BY <1>1 DEF StreamInv, Causal
<1>3. Gathered(requested, n, open)
  BY <1>1, <1>2, ReadingGathers DEF OpenReturns
<1>4. keys = {stream[j].key : j \in {i \in 1..n : i \in requested}}
  <2>1. Listed("returns", at) = {stream[i] : i \in {j \in 1..n : stream[j].topic = "returns"}}
    BY <1>1, AllListed
  <2>2. \A j \in 1..n : j \in requested <=> /\ stream[j].topic = "returns" /\ stream[j].body.order = o
                                            /\ stream[j].body.status = "REQUESTED"
    BY <1>1, <1>2 DEF OfTopic
  <2> QED
    BY <2>1, <2>2 DEF ReturnsOf
<1>5. CASE open = <<>>
  <2>1. \A j \in 1..n : j \notin requested
    BY <1>3, <1>5 DEF Gathered
  <2> QED
    BY <1>4, <1>5, <2>1
<1>6. CASE open # <<>>
  <2>1. PICK j \in 1..n : /\ j \in requested /\ open[Len(open)] = stream[j]
                          /\ \A i \in 1..n : i \in requested => i <= j
    BY <1>3, <1>6 DEF Gathered
  <2>2. \A i \in 1..n : i \in requested =>
          i \in 1..Len(stream) /\ stream[i].topic = "returns"
    BY <1>1, <1>2 DEF OfTopic
  <2>3. \A i \in 1..n : i \in requested => stream[i].key \in 1..count
    BY <2>2 DEF NumbersIn
  <2>4. ASSUME NEW i \in 1..n, i \in requested
        PROVE  stream[j].key >= stream[i].key
    <3>1. i <= j /\ stream[i].key \in Nat /\ stream[j].key \in Nat
      BY <2>1, <2>3, <2>4
    <3>2. CASE i = j
      BY <3>1, <3>2
    <3>3. CASE i < j
      <4>1. stream[i].key < stream[j].key
        BY <2>1, <2>2, <2>4, <3>3 DEF NumbersIn
      <4> QED
        BY <3>1, <4>1
    <3> QED
      BY <3>1, <3>2, <3>3
  <2>5. /\ stream[j].key \in keys /\ keys \subseteq Int
        /\ \A y \in keys : stream[j].key >= y
    <3>1. stream[j].key \in keys
      BY <1>4, <2>1
    <3>2. ASSUME NEW y \in keys
          PROVE  y \in Int /\ stream[j].key >= y
      <4>1. PICK i \in 1..n : i \in requested /\ y = stream[i].key
        BY <1>4, <3>2
      <4> QED
        BY <2>3, <2>4, <4>1
    <3> QED
      BY <3>1, <3>2
  <2>6. Max(keys) = stream[j].key
    BY <2>5, MaxIs
  <2> QED
    BY <1>6, <2>1, <2>5, <2>6
<1> QED
  BY <1>5, <1>6

\* VariantsAgree in every run: what a row of variant B's views holds is what variant A's
\* tools compose.
THEOREM VariantsAlwaysAgree == Spec => []VariantsAgree
<1>1. TypeOK /\ ToldInv => VariantsAgree
  <2> SUFFICES ASSUME TypeOK, ToldInv, NEW p \in Current, NEW at, at = [t \in Topics |-> p]
      PROVE  /\ \A c \in Customers : \A row \in ToSet(Customer360(c, at)) :
                  /\ row.tier = Get("customers", "by_version", c, at)[1].body.tier
                  /\ row.tier_history = ToSet(Get("tier_changes", "append", c, at))
                  /\ row.open_tickets = TicketsOf(c, at)
                  /\ \A kept \in row.recent_orders : RecentAgrees(kept, c, at)
             /\ \A o \in DOMAIN orders : \A row \in ToSet(OrderState(o, at)) :
                  /\ row.status = Get("orders", "by_time", o, at)[1].body.status
                  /\ row.items = ToSet(Get("order_items", "append", o, at))
                  /\ row.payment_events = ToSet(Get("payments", "append", o, at))
                  /\ \A item \in row.items : \E stock \in row.inventory :
                       <<stock>> = Get("inventory", "by_time", item.body.row, at)
                  /\ row.open_return_id = NewestOpen(o, at)
    BY DEF VariantsAgree
  <2>1. p \in 0..Len(stream) /\ Len(stream) \in Nat
    BY DEF Current, ToldInv, StreamInv, Causal
  <2>2. \A t \in Topics : at[t] = p /\ at[t] \in 0..Len(stream)
    BY <2>1
  <2>3. StreamInv /\ CustomerInv /\ OnceInv /\ StockInv
    BY DEF ToldInv
  <2>4. Len(returns) \in Nat /\ Len(tickets) \in Nat
    BY LenProperties DEF TypeOK
  <2>5. ASSUME NEW c \in Customers, NEW row \in ToSet(Customer360(c, at))
        PROVE  /\ row.tier = Get("customers", "by_version", c, at)[1].body.tier
               /\ row.tier_history = ToSet(Get("tier_changes", "append", c, at))
               /\ row.open_tickets = TicketsOf(c, at)
    <3>1. /\ row.tier = LastValue("customers", c, at)[1].body.tier
          /\ row.tier_history = ToSet(About("tier_changes", c, at))
          /\ row.open_tickets = ToSet(ReadOf("tickets", c, at))
      BY CustomerRow
    <3>2. Get("customers", "by_version", c, at) = LastValue("customers", c, at)
      BY <2>2, <2>3, GetIsLast DEF Topics
    <3>3. Get("tier_changes", "append", c, at) = About("tier_changes", c, at)
      BY <2>2, <2>3, GetList DEF Topics
    <3>4. ToSet(ReadOf("tickets", c, at)) = TicketsOf(c, at)
      BY <2>2, <2>3, <2>4, TicketsAgree DEF Topics, OnceInv
    <3> QED
      BY <3>1, <3>2, <3>3, <3>4
  <2>6. ASSUME NEW c \in Customers, NEW row \in ToSet(Customer360(c, at)),
               NEW kept \in row.recent_orders
        PROVE  RecentAgrees(kept, c, at)
    <3>1. row.recent_orders = Recent(ToSet(ReadOf("orders", c, at)))
      BY CustomerRow
    <3>2. at["orders"] \in 0..Len(stream)
      BY <2>2 DEF Topics
    <3> QED
      BY <2>3, <2>6, <3>1, <3>2, RecentAgree
  <2>7. ASSUME NEW o \in DOMAIN orders, NEW row \in ToSet(OrderState(o, at))
        PROVE  /\ row.status = Get("orders", "by_time", o, at)[1].body.status
               /\ row.items = ToSet(Get("order_items", "append", o, at))
               /\ row.payment_events = ToSet(Get("payments", "append", o, at))
               /\ \A item \in row.items : \E stock \in row.inventory :
                    <<stock>> = Get("inventory", "by_time", item.body.row, at)
               /\ row.open_return_id = NewestOpen(o, at)
    <3>1. PICK open, keys, items :
            /\ open = OpenReturns(o, at)
            /\ keys = {e.key : e \in {r \in ReturnsOf(o, at) : r.body.status = "REQUESTED"}}
            /\ items = About("order_items", o, at)
      OBVIOUS
    <3>2. /\ row.status = LastValue("orders", o, at)[1].body.status
          /\ row.items = ToSet(items)
          /\ row.inventory = StockOfItems(o, at)
          /\ row.payment_events = ToSet(About("payments", o, at))
          /\ row.open_return_id = IF open = <<>> THEN 0 ELSE open[Len(open)].key
      BY <3>1, OrderRow
    <3>3. Get("orders", "by_time", o, at) = LastValue("orders", o, at)
      BY <2>2, <2>3, GetIsLast DEF Topics
    <3>4. /\ Get("order_items", "append", o, at) = items
          /\ Get("payments", "append", o, at) = About("payments", o, at)
      BY <2>2, <2>3, <3>1, GetList DEF Topics
    <3>5. \A item \in ToSet(items) : \E stock \in StockOfItems(o, at) :
            <<stock>> = Get("inventory", "by_time", item.body.row, at)
      BY <2>1, <2>2, <2>3, <3>1, StockAgrees DEF Topics
    <3>6. /\ open = <<>> => keys = {}
          /\ open # <<>> => keys # {} /\ open[Len(open)].key = Max(keys)
      BY <2>2, <2>3, <2>4, <3>1, ReturnsAgree DEF Topics, OnceInv
    <3>7. row.open_return_id = NewestOpen(o, at)
      BY <3>1, <3>2, <3>6 DEF NewestOpen
    <3> QED
      BY <3>2, <3>3, <3>4, <3>5, <3>7
  <2> QED
    BY <2>5, <2>6, <2>7
<1> QED
  BY <1>1, ToldAlways, PTL
===============================================================================
