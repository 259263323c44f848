------------------------------- MODULE Folding -------------------------------
(***************************************************************************)
(* What FoldLeft computes, for any operator.  Folds say in the models what *)
(* a projector or a summary makes of a sequence; a module that proves      *)
(* something about one instantiates this one with its operator, whose      *)
(* first argument p is a parameter that the fold does not change.          *)
(*                                                                         *)
(* Induction is on sets: a set of numbers, or of sequences, that has the   *)
(* first one and with each one the next has all of them.                   *)
(***************************************************************************)
EXTENDS Integers, Sequences, SequencesExt, TLAPS, WellFoundedInduction

CONSTANT op(_, _, _)

\* The fold of s by op with parameter p.
Folded(p, base, s) == FoldLeft(LAMBDA v, e : op(p, v, e), base, s)

-------------------------------------------------------------------------------
\* A set of numbers has a least one.
LEMMA LeastNat ==
  ASSUME NEW T, T \subseteq Nat, T # {}
  PROVE  \E m \in T : \A k \in T : m <= k
<1> DEFINE R == {ss \in Nat \X Nat : ss[1] < ss[2]}
<1>1. IsWellFoundedOn(R, Nat)
  BY NatLessThanWellFounded DEF OpToRel
<1> HIDE DEF R
<1>2. PICK m \in T : \A k \in T : ~ (<<k, m>> \in R)
  BY <1>1, WFMin
<1>3. ASSUME NEW k \in T PROVE m <= k
  <2>1. k \in Nat /\ m \in Nat
    OBVIOUS
  <2>2. <<k, m>> \notin R
    BY <1>2
  <2>3. ~(k < m)
    BY <2>1, <2>2 DEF R
  <2> QED
    BY <2>1, <2>3
<1> QED
  BY <1>3

\* A set of numbers that has zero, and with a number the next one, has all of them.
LEMMA AllNats ==
  ASSUME NEW T, 0 \in T, \A n \in Nat : n \in T => n + 1 \in T
  PROVE  Nat \subseteq T
<1> SUFFICES ASSUME Nat \ T # {} PROVE FALSE
  OBVIOUS
<1>1. PICK m \in Nat \ T : \A k \in Nat \ T : m <= k
  <2>1. Nat \ T \subseteq Nat
    OBVIOUS
  <2> QED
    BY <2>1, LeastNat
<1>2. m # 0
  OBVIOUS
<1>3. m - 1 \in Nat /\ (m - 1) + 1 = m /\ ~(m <= m - 1)
  BY <1>2
<1> QED
  BY <1>1, <1>3

\* iter is the function that MapThenFoldSet defines by recursion on the subsets in D.
Iter(p, base, s, iter, D) ==
  iter = [t \in D |-> IF t = {} THEN base ELSE op(p, iter[t \ {Max(t)}], s[Max(t)])]

\* The largest element of a set that has its upper bound.
LEMMA MaxIs ==
  ASSUME NEW n \in Nat, NEW t \in SUBSET (1..n), n \in t
  PROVE  Max(t) = n
<1>1. \A y \in t : n >= y
  OBVIOUS
<1>2. \A x \in t : (\A y \in t : x >= y) => x = n
  OBVIOUS
<1> QED
  BY <1>1, <1>2 DEF Max

\* There is such a function, made of the one for the numbers up to one less.
LEMMA IterExists ==
  ASSUME NEW p, NEW base, NEW s, NEW n \in Nat
  PROVE  \E h : Iter(p, base, s, h, SUBSET (1..n))
<1> DEFINE T == {m \in Nat : \E h : Iter(p, base, s, h, SUBSET (1..m))}
<1>1. 0 \in T
  <2>1. SUBSET (1..0) = {{}}
    OBVIOUS
  <2>2. PICK h : h = [t \in {{}} |-> base]
    OBVIOUS
  <2>3. Iter(p, base, s, h, SUBSET (1..0))
    BY <2>1, <2>2 DEF Iter
  <2> QED
    BY <2>3
<1>2. ASSUME NEW m \in Nat, m \in T PROVE m + 1 \in T
  <2>1. PICK g : Iter(p, base, s, g, SUBSET (1..m))
    BY <1>2
  <2>2. PICK h : h = [t \in SUBSET (1..m + 1) |->
                        IF m + 1 \in t THEN op(p, g[t \ {m + 1}], s[m + 1]) ELSE g[t]]
    OBVIOUS
  <2>3. ASSUME NEW t \in SUBSET (1..m + 1)
        PROVE h[t] = IF t = {} THEN base ELSE op(p, h[t \ {Max(t)}], s[Max(t)])
    <3>1. CASE m + 1 \in t
      <4>1. Max(t) = m + 1
        BY <3>1, MaxIs
      <4>2. t \ {m + 1} \in SUBSET (1..m) /\ t \ {m + 1} \in SUBSET (1..m + 1)
        OBVIOUS
      <4>3. h[t \ {m + 1}] = g[t \ {m + 1}]
        BY <2>2, <4>2
      <4>4. h[t] = op(p, g[t \ {m + 1}], s[m + 1])
        BY <2>2, <3>1
      <4> QED
        BY <3>1, <4>1, <4>3, <4>4
    <3>2. CASE m + 1 \notin t
      <4>1. t \in SUBSET (1..m)
        BY <3>2
      <4>2. h[t] = g[t]
        BY <2>2, <3>2
      <4>3. CASE t = {}
        BY <2>1, <4>1, <4>2, <4>3 DEF Iter
      <4>4. CASE t # {}
        <5>1. g[t] = op(p, g[t \ {Max(t)}], s[Max(t)])
          BY <2>1, <4>1, <4>4 DEF Iter
        <5>2. t \ {Max(t)} \in SUBSET (1..m + 1) /\ m + 1 \notin t \ {Max(t)}
          BY <3>2
        <5>3. h[t \ {Max(t)}] = g[t \ {Max(t)}]
          BY <2>2, <5>2
        <5> QED
          BY <4>2, <4>4, <5>1, <5>3
      <4> QED
        BY <4>3, <4>4
    <3> QED
      BY <3>1, <3>2
  <2>4. Iter(p, base, s, h, SUBSET (1..m + 1))
    <3>1. h = [t \in SUBSET (1..m + 1) |-> h[t]]
      BY <2>2
    <3> QED
      BY <2>3, <3>1 DEF Iter
  <2> QED
    BY <2>4
<1> HIDE DEF T
<1>3. Nat \subseteq T
  BY <1>1, <1>2, AllNats
<1> QED
  BY <1>3 DEF T


\* The one that it chooses.
TheIter(p, base, s, D) == CHOOSE h : Iter(p, base, s, h, D)

\* A sequence of length n, as an operator so that provers keep it whole.
HasLength(s, n) == DOMAIN s = 1..n

\* The values that a fold goes through.
GoesThrough(p, base, s, n, h) ==
  /\ Folded(p, base, s) = h[n]
  /\ h[0] = base
  /\ \A k \in 1..n : h[k] = op(p, h[k - 1], s[k])

\* The fold of a sequence is the last of the values it goes through.
LEMMA Unfolding ==
  ASSUME NEW p, NEW base, NEW s, NEW n \in Nat, HasLength(s, n)
  PROVE  \E h : GoesThrough(p, base, s, n, h)
<1>1. PICK D : D = SUBSET DOMAIN s
  OBVIOUS
<1>2. D = SUBSET (1..n)
  BY <1>1 DEF HasLength
<1>3. PICK iter : iter = TheIter(p, base, s, D)
  OBVIOUS
<1>4. Iter(p, base, s, iter, D)
  BY <1>2, <1>3, IterExists DEF TheIter
<1>5. Folded(p, base, s) = iter[DOMAIN s]
  BY <1>1, <1>3 DEF Folded, FoldLeft, MapThenFoldSet, TheIter, Iter
<1>6. PICK h : h = [k \in 0..n |-> iter[1..k]]
  OBVIOUS
<1>7. h[n] = Folded(p, base, s)
  BY <1>5, <1>6 DEF HasLength
<1>8. h[0] = base
  <2>1. 1..0 = {} /\ {} \in D /\ 0 \in 0..n
    BY <1>2
  <2>2. iter[{}] = base
    BY <1>4, <2>1 DEF Iter
  <2> QED
    BY <1>6, <2>1, <2>2
<1>9. ASSUME NEW k \in 1..n PROVE h[k] = op(p, h[k - 1], s[k])
  <2>1. 1..k \in D /\ 1..k # {} /\ k \in 1..k /\ k \in 0..n /\ k - 1 \in 0..n
    BY <1>2
  <2>2. Max(1..k) = k
    BY <2>1, MaxIs
  <2>3. (1..k) \ {k} = 1..k - 1
    OBVIOUS
  <2>4. iter[1..k] = op(p, iter[(1..k) \ {Max(1..k)}], s[Max(1..k)])
    BY <1>4, <2>1 DEF Iter
  <2>5. iter[1..k] = op(p, iter[1..k - 1], s[k])
    BY <2>2, <2>3, <2>4
  <2>6. h[k] = iter[1..k] /\ h[k - 1] = iter[1..k - 1]
    BY <1>6, <2>1
  <2> QED
    BY <2>5, <2>6
<1>10. GoesThrough(p, base, s, n, h)
  BY <1>7, <1>8, <1>9 DEF GoesThrough
<1> QED
  BY <1>10

\* Folding nothing gives the base.
THEOREM FoldEmpty == \A p, base : Folded(p, base, <<>>) = base
<1> SUFFICES ASSUME NEW p, NEW base PROVE Folded(p, base, <<>>) = base
  OBVIOUS
<1>1. PICK n \in Nat : n = 0
  OBVIOUS
<1>2. HasLength(<<>>, n)
  BY <1>1 DEF HasLength
<1>3. PICK h : GoesThrough(p, base, <<>>, n, h)
  BY <1>2, Unfolding
<1> QED
  BY <1>1, <1>3 DEF GoesThrough

\* Folding one more element applies the operator once more.
THEOREM FoldSnoc ==
  \A p, base, e, S : \A s \in Seq(S) :
    Folded(p, base, Append(s, e)) = op(p, Folded(p, base, s), e)
<1> SUFFICES ASSUME NEW p, NEW base, NEW e, NEW S, NEW s \in Seq(S)
             PROVE  Folded(p, base, Append(s, e)) = op(p, Folded(p, base, s), e)
  OBVIOUS
<1>1. PICK n \in Nat : n = Len(s)
  OBVIOUS
<1>2. PICK m \in Nat : m = n + 1
  OBVIOUS
<1>3. PICK s1 : s1 = Append(s, e)
  OBVIOUS
<1>4. HasLength(s, n)
  BY <1>1 DEF HasLength
<1>5. s1[m] = e /\ \A k \in 1..n : s1[k] = s[k]
  BY <1>1, <1>2, <1>3
<1>15. PICK g : GoesThrough(p, base, s, n, g)
  BY <1>4, Unfolding
<1>6. /\ Folded(p, base, s) = g[n]
      /\ g[0] = base
      /\ \A k \in 1..n : g[k] = op(p, g[k - 1], s[k])
  BY <1>15 DEF GoesThrough
<1>14. HasLength(s1, m)
  BY <1>1, <1>2, <1>3 DEF HasLength
<1>16. PICK h : GoesThrough(p, base, s1, m, h)
  BY <1>2, <1>14, Unfolding
<1>7. /\ Folded(p, base, s1) = h[m]
      /\ h[0] = base
      /\ \A k \in 1..m : h[k] = op(p, h[k - 1], s1[k])
  BY <1>16 DEF GoesThrough
<1> DEFINE T == {k \in Nat : k <= n => g[k] = h[k]}
<1>8. 0 \in T
  BY <1>6, <1>7
<1>9. ASSUME NEW k \in Nat, k \in T PROVE k + 1 \in T
  <2> SUFFICES ASSUME k + 1 <= n PROVE g[k + 1] = h[k + 1]
    OBVIOUS
  <2>1. k + 1 \in 1..n /\ k + 1 \in 1..m /\ (k + 1) - 1 = k /\ k <= n
    BY <1>2
  <2>2. g[k] = h[k]
    BY <1>9, <2>1
  <2>3. g[k + 1] = op(p, g[k], s[k + 1])
    BY <1>6, <2>1
  <2>4. h[k + 1] = op(p, h[k], s[k + 1])
    BY <1>5, <1>7, <2>1
  <2> QED
    BY <2>2, <2>3, <2>4
<1> HIDE DEF T
<1>10. n \in T
  BY <1>8, <1>9, AllNats
<1>11. g[n] = h[n]
  BY <1>10 DEF T
<1>12. m \in 1..m /\ m - 1 = n
  BY <1>2
<1>13. h[m] = op(p, g[n], e)
  BY <1>5, <1>7, <1>11, <1>12
<1> QED
  BY <1>3, <1>6, <1>7, <1>13

\* A set of sequences that has the empty one, and with a sequence each longer one.
THEOREM AllSeqs ==
  \A S, T : /\ <<>> \in T
            /\ \A s \in Seq(S), e \in S : s \in T => Append(s, e) \in T
            => Seq(S) \subseteq T
<1> SUFFICES ASSUME NEW S, NEW T, <<>> \in T,
                    \A s \in Seq(S), e \in S : s \in T => Append(s, e) \in T
             PROVE  Seq(S) \subseteq T
  OBVIOUS
<1> DEFINE N == {n \in Nat : \A s \in Seq(S) : Len(s) = n => s \in T}
<1>1. 0 \in N
  <2>1. \A s \in Seq(S) : Len(s) = 0 => s = <<>>
    OBVIOUS
  <2> QED
    BY <2>1
<1>2. ASSUME NEW n \in Nat, n \in N PROVE n + 1 \in N
  <2> SUFFICES ASSUME NEW s \in Seq(S), Len(s) = n + 1 PROVE s \in T
    OBVIOUS
  <2>1. PICK r : r = SubSeq(s, 1, n)
    OBVIOUS
  <2>2. r \in Seq(S) /\ Len(r) = n /\ s[n + 1] \in S
    BY <2>1
  <2>3. s = Append(r, s[n + 1])
    BY <2>1
  <2>4. r \in T
    BY <1>2, <2>2
  <2> QED
    BY <2>2, <2>3, <2>4
<1> HIDE DEF N
<1>3. Nat \subseteq N
  BY <1>1, <1>2, AllNats
<1> QED
  BY <1>3 DEF N

\* A fold of elements of S stays in a set that op, given elements of S, stays in.
THEOREM FoldStays ==
  \A p, base, S, V : /\ base \in V
                     /\ \A v \in V, e \in S : op(p, v, e) \in V
                     => \A s \in Seq(S) : Folded(p, base, s) \in V
<1> SUFFICES ASSUME NEW p, NEW base, NEW S, NEW V, base \in V,
                    \A v \in V, e \in S : op(p, v, e) \in V
             PROVE  \A s \in Seq(S) : Folded(p, base, s) \in V
  OBVIOUS
<1> DEFINE T == {s \in Seq(S) : Folded(p, base, s) \in V}
<1>1. <<>> \in T
  BY FoldEmpty
<1>2. ASSUME NEW s \in Seq(S), NEW e \in S, s \in T PROVE Append(s, e) \in T
  BY <1>2, FoldSnoc
<1> HIDE DEF T
<1>3. Seq(S) \subseteq T
  BY <1>1, <1>2, AllSeqs
<1> QED
  BY <1>3 DEF T

\* A fold of two sequences goes on from that of the first.
THEOREM FoldConcat ==
  \A p, base, S : \A s, t \in Seq(S) :
    Folded(p, base, s \o t) = Folded(p, Folded(p, base, s), t)
<1> SUFFICES ASSUME NEW p, NEW base, NEW S, NEW s \in Seq(S)
             PROVE  \A t \in Seq(S) :
                      Folded(p, base, s \o t) = Folded(p, Folded(p, base, s), t)
  OBVIOUS
<1> DEFINE T == {t \in Seq(S) : Folded(p, base, s \o t) = Folded(p, Folded(p, base, s), t)}
<1>1. <<>> \in T
  <2>1. s \o <<>> = s
    OBVIOUS
  <2> QED
    BY <2>1, FoldEmpty
<1>2. ASSUME NEW t \in Seq(S), NEW e \in S, t \in T PROVE Append(t, e) \in T
  <2>1. PICK r : r = s \o t
    OBVIOUS
  <2>2. r \in Seq(S) /\ s \o Append(t, e) = Append(r, e)
    BY <2>1
  <2>3. Folded(p, base, Append(r, e)) = op(p, Folded(p, base, r), e)
    BY <2>2, FoldSnoc
  <2>4. PICK first : first = Folded(p, base, s)
    OBVIOUS
  <2>5. Folded(p, first, Append(t, e)) = op(p, Folded(p, first, t), e)
    BY FoldSnoc
  <2>6. Folded(p, base, r) = Folded(p, first, t)
    BY <1>2, <2>1, <2>4
  <2>7. Append(t, e) \in Seq(S)
    OBVIOUS
  <2>8. Folded(p, base, s \o Append(t, e)) = Folded(p, first, Append(t, e))
    BY <2>2, <2>3, <2>5, <2>6
  <2> QED
    BY <2>4, <2>7, <2>8
<1> HIDE DEF T
<1>3. Seq(S) \subseteq T
  BY <1>1, <1>2, AllSeqs
<1> QED
  BY <1>3 DEF T
===============================================================================
