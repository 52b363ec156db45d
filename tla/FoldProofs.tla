----------------------------- MODULE FoldProofs -----------------------------
(***************************************************************************)
(* What the theorems need of folds over a sequence (SequencesExt) and of   *)
(* the natural numbers.  FoldLeft(op, a, s) is chosen as a function of the *)
(* sets of indices: such a function exists, and its values at 1 .. n are   *)
(* the rounds of the loop.                                                 *)
(***************************************************************************)
EXTENDS SequencesExt, FunctionTheorems, FiniteSetTheorems, SequenceTheorems, TLAPS

\* Induction over the natural numbers, for a set: its complement has no
\* smallest element.
LEMMA EveryNumber ==
  ASSUME NEW P, 0 \in P, \A n \in Nat : n \in P => n + 1 \in P
  PROVE  Nat \subseteq P
<1> SUFFICES ASSUME NEW m \in Nat \ P PROVE FALSE
  OBVIOUS
<1> DEFINE U == {0 .. n : n \in Nat \ P}
           R == StrictSubsetOrdering(Nat)
<1>1. U # {} /\ U \subseteq FiniteSubsetsOf(Nat)
  <2>1. \A n \in Nat : IsFiniteSet(0 .. n) /\ 0 .. n \subseteq Nat
    BY FS_Interval
  <2> QED
    BY <2>1 DEF FiniteSubsetsOf
<1>2. PICK X \in U : \A Y \in U : <<Y, X>> \notin R
  BY <1>1, WFMin, FS_StrictSubsetOrderingWellFounded
<1>3. PICK n \in Nat \ P : X = 0 .. n
  OBVIOUS
<1>4. n - 1 \in Nat \ P
  OBVIOUS
<1>5. 0 .. (n - 1) \subseteq 0 .. n /\ n \notin 0 .. (n - 1) /\ n \in 0 .. n
  BY <1>4
<1>6. <<0 .. (n - 1), 0 .. n>> \in R
  BY <1>4, <1>5 DEF StrictSubsetOrdering
<1> QED
  BY <1>2, <1>3, <1>4, <1>6

\* The largest of an initial segment of the indices, and what is below it.
LEMMA SegmentTop ==
  ASSUME NEW n \in Nat \ {0}
  PROVE  Max(1 .. n) = n /\ (1 .. n) \ {Max(1 .. n)} = 1 .. (n - 1) /\ 1 .. n # {}
<1>1. n \in 1 .. n /\ \A y \in 1 .. n : n >= y
  OBVIOUS
<1>2. \A x \in 1 .. n : (\A y \in 1 .. n : x >= y) => x = n
  OBVIOUS
<1>3. Max(1 .. n) = n
  BY <1>1, <1>2 DEF Max
<1> QED
  BY <1>1, <1>3

\* The largest index of a set is one of them.
LEMMA MaxIsElement ==
  ASSUME NEW N \in Nat, NEW p \in SUBSET (1 .. N), p # {}
  PROVE  Max(p) \in p /\ \A y \in p : Max(p) >= y
<1> DEFINE P == {n \in Nat : \A q \in SUBSET (1 .. n) :
                               q # {} => \E x \in q : \A y \in q : x >= y}
<1>1. 0 \in P
  <2>1. \A q \in SUBSET (1 .. 0) : q = {}
    OBVIOUS
  <2> QED
    BY <2>1
<1>2. ASSUME NEW n \in Nat, n \in P
      PROVE  n + 1 \in P
  <2> SUFFICES ASSUME NEW q \in SUBSET (1 .. n + 1), q # {}
               PROVE  \E x \in q : \A y \in q : x >= y
    OBVIOUS
  <2>1. CASE n + 1 \in q
    BY <2>1
  <2>2. CASE n + 1 \notin q
    <3>1. q \in SUBSET (1 .. n)
      <4>1. \A y \in q : y \in 1 .. n
        BY <2>2
      <4> QED
        BY <4>1
    <3> QED
      BY <1>2, <3>1
  <2> QED
    BY <2>1, <2>2
<1>3. Nat \subseteq P
  BY <1>1, <1>2, EveryNumber
<1>4. \E x \in p : \A y \in p : x >= y
  BY <1>3
<1> QED
  BY <1>4 DEF Max

\* The function that a fold chooses, for a step given as a function G.
IsFold(g, G, a, s, n) ==
  \A p \in SUBSET (1 .. n) : g[p] = IF p = {} THEN a ELSE G[<<g[p \ {Max(p)}], s[Max(p)]>>]

\* It exists: one for the subsets of 1 .. n extends to n + 1.
LEMMA FoldExists ==
  ASSUME NEW A, NEW S, NEW G \in [A \X S -> A], NEW a \in A, NEW s \in Seq(S)
  PROVE  \E g \in [SUBSET (1 .. Len(s)) -> A] : IsFold(g, G, a, s, Len(s))
<1> DEFINE Q(n) == \E g \in [SUBSET (1 .. n) -> A] : IsFold(g, G, a, s, n)
           P == {n \in Nat : n <= Len(s) => Q(n)}
<1>1. 0 \in P
  <2> DEFINE g == [p \in SUBSET (1 .. 0) |-> a]
  <2>1. \A p \in SUBSET (1 .. 0) : p = {}
    OBVIOUS
  <2>2. g \in [SUBSET (1 .. 0) -> A] /\ IsFold(g, G, a, s, 0)
    BY <2>1 DEF IsFold
  <2> QED
    BY <2>2
<1>2. ASSUME NEW n \in Nat, n \in P
      PROVE  n + 1 \in P
  <2> HIDE DEF Q
  <2> SUFFICES ASSUME n + 1 <= Len(s)
               PROVE  Q(n + 1)
    OBVIOUS
  <2> USE DEF Q
  <2>1. PICK g \in [SUBSET (1 .. n) -> A] : IsFold(g, G, a, s, n)
    <3>1. Q(n)
      <4> HIDE DEF Q
      <4> QED
        BY <1>2
    <3> QED
      BY <3>1
  <2> DEFINE h == [p \in SUBSET (1 .. n + 1) |->
                     IF n + 1 \in p THEN G[<<g[p \ {n + 1}], s[n + 1]>>] ELSE g[p]]
  <2>2. s[n + 1] \in S
    BY ElementOfSeq
  <2>3. h \in [SUBSET (1 .. n + 1) -> A]
    <3>1. ASSUME NEW p \in SUBSET (1 .. n + 1)
          PROVE  (IF n + 1 \in p THEN G[<<g[p \ {n + 1}], s[n + 1]>>] ELSE g[p]) \in A
      <4>1. p \ {n + 1} \in SUBSET (1 .. n)
        OBVIOUS
      <4>2. g[p \ {n + 1}] \in A
        BY <4>1
      <4>3. n + 1 \notin p => p \in SUBSET (1 .. n)
        BY <4>1
      <4> QED
        BY <2>2, <4>2, <4>3
    <3> QED
      BY <3>1
  <2>4. ASSUME NEW p \in SUBSET (1 .. n + 1)
        PROVE  h[p] = IF p = {} THEN a ELSE G[<<h[p \ {Max(p)}], s[Max(p)]>>]
    <3>1. CASE n + 1 \in p
      <4>1. Max(p) = n + 1
        <5>1. n + 1 \in p /\ \A y \in p : n + 1 >= y
          BY <3>1
        <5>2. \A x \in p : (\A y \in p : x >= y) => x = n + 1
          BY <3>1
        <5> QED
          BY <5>1, <5>2 DEF Max
      <4>2. h[p \ {n + 1}] = g[p \ {n + 1}]
        OBVIOUS
      <4>3. h[p] = G[<<g[p \ {n + 1}], s[n + 1]>>]
        BY <3>1
      <4> HIDE DEF h
      <4> QED
        BY <3>1, <4>1, <4>2, <4>3
    <3>2. CASE n + 1 \notin p
      <4>1. p \in SUBSET (1 .. n) /\ p \ {Max(p)} \in SUBSET (1 .. n)
        <5>1. \A x \in p : x \in 1 .. n
          BY <3>2
        <5> QED
          BY <5>1
      <4>2. h[p] = g[p] /\ h[p \ {Max(p)}] = g[p \ {Max(p)}]
        BY <3>2, <4>1
      <4>3. g[p] = IF p = {} THEN a ELSE G[<<g[p \ {Max(p)}], s[Max(p)]>>]
        BY <2>1, <4>1 DEF IsFold
      <4> QED
        BY <4>2, <4>3
    <3> QED
      BY <3>1, <3>2
  <2> HIDE DEF h
  <2>5. IsFold(h, G, a, s, n + 1)
    BY <2>4 DEF IsFold
  <2> QED
    BY <2>3, <2>5
<1>3. Nat \subseteq P
  BY <1>1, <1>2, EveryNumber
<1>4. Q(Len(s))
  <2> HIDE DEF Q
  <2> QED
    BY <1>3
<1> QED
  BY <1>4
-----------------------------------------------------------------------------
(* Sequences that list a set of numbers in ascending order.                *)

Enumerates(e, S) ==
  /\ e \in Seq(Nat)
  /\ \A i, j \in 1 .. Len(e) : i < j => e[i] < e[j]
  /\ \A x : x \in S <=> \E i \in 1 .. Len(e) : e[i] = x

\* One more number, above the others.
LEMMA EnumeratesMore ==
  ASSUME NEW S, NEW e, Enumerates(e, S), NEW x \in Nat, \A y \in S : y < x
  PROVE  Enumerates(Append(e, x), S \cup {x})
<1> DEFINE f == Append(e, x)
<1>1. e \in Seq(Nat) /\ Len(e) \in Nat
  BY DEF Enumerates
<1>2. /\ f \in Seq(Nat) /\ Len(f) = Len(e) + 1 /\ f[Len(e) + 1] = x
      /\ \A i \in 1 .. Len(e) : f[i] = e[i]
  BY <1>1, AppendProperties
<1> HIDE DEF f
<1>3. ASSUME NEW i \in 1 .. Len(f), NEW j \in 1 .. Len(f), i < j
      PROVE  f[i] < f[j]
  <2>1. i \in 1 .. Len(e) /\ f[i] = e[i] /\ e[i] \in S
    BY <1>1, <1>2, <1>3 DEF Enumerates
  <2>2. CASE j = Len(e) + 1
    BY <1>2, <2>1, <2>2
  <2>3. CASE j \in 1 .. Len(e)
    BY <1>2, <1>3, <2>1, <2>3 DEF Enumerates
  <2> QED
    BY <1>1, <1>2, <2>2, <2>3
<1>4. ASSUME NEW y
      PROVE  y \in S \cup {x} <=> \E i \in 1 .. Len(f) : f[i] = y
  <2>1. y \in S <=> \E i \in 1 .. Len(e) : e[i] = y
    BY DEF Enumerates
  <2>2. \A i \in 1 .. Len(f) : i \in 1 .. Len(e) \/ i = Len(e) + 1
    BY <1>1, <1>2
  <2>3. (\A i \in 1 .. Len(e) : i \in 1 .. Len(f)) /\ Len(e) + 1 \in 1 .. Len(f)
    BY <1>1, <1>2
  <2> QED
    BY <1>2, <2>1, <2>2, <2>3
<1> QED
  BY <1>2, <1>3, <1>4 DEF Enumerates, f

\* The numbers at consecutive places.
LEMMA EnumeratedSlice ==
  ASSUME NEW S, NEW e, Enumerates(e, S), NEW a \in 1 .. Len(e) + 1, NEW b \in (a - 1) .. Len(e)
  PROVE  /\ IsFiniteSet({e[i] : i \in a .. b})
         /\ Cardinality({e[i] : i \in a .. b}) = b - a + 1
<1> DEFINE T == {e[i] : i \in a .. b}
           f == [i \in a .. b |-> e[i]]
<1>1. e \in Seq(Nat) /\ Len(e) \in Nat /\ a \in Int /\ b \in Int /\ a .. b \subseteq 1 .. Len(e)
  BY DEF Enumerates
<1>2. IsFiniteSet(a .. b) /\ Cardinality(a .. b) = b - a + 1
  <2>1. IsFiniteSet(a .. b) /\ Cardinality(a .. b) = IF a > b THEN 0 ELSE b - a + 1
    BY <1>1, FS_Interval
  <2>2. a > b => b - a + 1 = 0
    BY <1>1
  <2> QED
    BY <2>1, <2>2
<1>3. \A i, j \in a .. b : e[i] = e[j] => i = j
  <2> SUFFICES ASSUME NEW i \in a .. b, NEW j \in a .. b, i # j PROVE e[i] # e[j]
    OBVIOUS
  <2>1. e[i] \in Nat /\ e[j] \in Nat
    BY <1>1, ElementOfSeq
  <2>2. i < j \/ j < i
    BY <1>1
  <2>3. e[i] < e[j] \/ e[j] < e[i]
    BY <1>1, <2>2 DEF Enumerates
  <2> QED
    BY <2>1, <2>3
<1>4. f \in Bijection(a .. b, T)
  <2>1. f \in [a .. b -> T] /\ \A t \in T : \E i \in a .. b : f[i] = t
    OBVIOUS
  <2>2. \A i, j \in a .. b : f[i] = f[j] => i = j
    BY <1>3
  <2> QED
    BY <2>1, <2>2, Fun_IsBij
<1>5. ExistsBijection(a .. b, T)
  BY <1>4 DEF ExistsBijection
<1> HIDE DEF f, T
<1>6. IsFiniteSet(T) /\ Cardinality(T) = Cardinality(a .. b)
  BY <1>2, <1>5, FS_Bijection
<1> QED
  BY <1>2, <1>6 DEF T

\* The size of the set, and how many of its numbers are below and above the
\* one at place k.
LEMMA EnumeratedPlace ==
  ASSUME NEW S, NEW e, Enumerates(e, S)
  PROVE  /\ IsFiniteSet(S) /\ Cardinality(S) = Len(e)
         /\ \A k \in 1 .. Len(e) :
              /\ Cardinality({y \in S : y < e[k]}) = k - 1
              /\ Cardinality({y \in S : y > e[k]}) = Len(e) - k
<1>1. e \in Seq(Nat) /\ Len(e) \in Nat /\ \A i \in 1 .. Len(e) : e[i] \in Nat
  BY ElementOfSeq DEF Enumerates
<1>0. \A a \in 1 .. Len(e) + 1 : \A b \in (a - 1) .. Len(e) :
        /\ IsFiniteSet({e[i] : i \in a .. b})
        /\ Cardinality({e[i] : i \in a .. b}) = b - a + 1
  BY EnumeratedSlice
<1>2. IsFiniteSet(S) /\ Cardinality(S) = Len(e)
  <2>1. S = {e[i] : i \in 1 .. Len(e)}
    BY DEF Enumerates
  <2>2. 1 \in 1 .. Len(e) + 1 /\ Len(e) \in (1 - 1) .. Len(e) /\ Len(e) - 1 + 1 = Len(e)
    BY <1>1
  <2> QED
    BY <1>0, <2>1, <2>2
<1>3. ASSUME NEW k \in 1 .. Len(e)
      PROVE  /\ Cardinality({y \in S : y < e[k]}) = k - 1
             /\ Cardinality({y \in S : y > e[k]}) = Len(e) - k
  <2>1. ASSUME NEW i \in 1 .. Len(e)
        PROVE  (e[i] < e[k] <=> i < k) /\ (e[i] > e[k] <=> i > k)
    <3>1. /\ i < k => e[i] < e[k]
          /\ k < i => e[k] < e[i]
      BY DEF Enumerates
    <3>2. i = k => e[i] = e[k]
      OBVIOUS
    <3> QED
      BY <1>1, <3>1, <3>2
  <2>2. {y \in S : y < e[k]} = {e[i] : i \in 1 .. (k - 1)}
    <3>1. ASSUME NEW y \in S, y < e[k] PROVE y \in {e[i] : i \in 1 .. (k - 1)}
      <4>1. PICK i \in 1 .. Len(e) : e[i] = y
        BY DEF Enumerates
      <4>2. i \in 1 .. (k - 1)
        BY <1>1, <2>1, <3>1, <4>1
      <4> QED
        BY <4>1, <4>2
    <3>2. ASSUME NEW i \in 1 .. (k - 1) PROVE e[i] \in S /\ e[i] < e[k]
      <4>1. i \in 1 .. Len(e) /\ i < k
        BY <1>1
      <4> QED
        BY <2>1, <4>1 DEF Enumerates
    <3> QED
      BY <3>1, <3>2
  <2>3. {y \in S : y > e[k]} = {e[i] : i \in (k + 1) .. Len(e)}
    <3>1. ASSUME NEW y \in S, y > e[k] PROVE y \in {e[i] : i \in (k + 1) .. Len(e)}
      <4>1. PICK i \in 1 .. Len(e) : e[i] = y
        BY DEF Enumerates
      <4>2. i \in (k + 1) .. Len(e)
        BY <1>1, <2>1, <3>1, <4>1
      <4> QED
        BY <4>1, <4>2
    <3>2. ASSUME NEW i \in (k + 1) .. Len(e) PROVE e[i] \in S /\ e[i] > e[k]
      <4>1. i \in 1 .. Len(e) /\ i > k
        BY <1>1
      <4> QED
        BY <2>1, <4>1 DEF Enumerates
    <3> QED
      BY <3>1, <3>2
  <2>4. Cardinality({e[i] : i \in 1 .. (k - 1)}) = k - 1
    <3>1. 1 \in 1 .. Len(e) + 1 /\ k - 1 \in (1 - 1) .. Len(e) /\ (k - 1) - 1 + 1 = k - 1
      BY <1>1
    <3> QED
      BY <1>0, <3>1
  <2>5. Cardinality({e[i] : i \in (k + 1) .. Len(e)}) = Len(e) - k
    <3>1. /\ k + 1 \in 1 .. Len(e) + 1 /\ Len(e) \in ((k + 1) - 1) .. Len(e)
          /\ Len(e) - (k + 1) + 1 = Len(e) - k
      BY <1>1
    <3>2. Cardinality({e[i] : i \in (k + 1) .. Len(e)}) = Len(e) - (k + 1) + 1
      BY <1>0, <3>1
    <3> QED
      BY <3>1, <3>2
  <2> QED
    BY <2>2, <2>3, <2>4, <2>5
<1> QED
  BY <1>2, <1>3

\* A place is told by how many numbers are below it, or above it.
LEMMA EnumeratedChoice ==
  ASSUME NEW S, NEW e, Enumerates(e, S), NEW k \in 1 .. Len(e)
  PROVE  /\ (CHOOSE x \in S : Cardinality({y \in S : y < x}) = k - 1) = e[k]
         /\ (CHOOSE x \in S : Cardinality({y \in S : y > x}) = Len(e) - k) = e[k]
<1>1. Len(e) \in Nat
  BY DEF Enumerates
<1>2. e[k] \in S
  BY DEF Enumerates
<1>3. ASSUME NEW x \in S
      PROVE  /\ Cardinality({y \in S : y < x}) = k - 1 => x = e[k]
             /\ Cardinality({y \in S : y > x}) = Len(e) - k => x = e[k]
  <2>1. PICK i \in 1 .. Len(e) : e[i] = x
    BY DEF Enumerates
  <2>2. /\ Cardinality({y \in S : y < x}) = i - 1
        /\ Cardinality({y \in S : y > x}) = Len(e) - i
    <3>1. \A m \in 1 .. Len(e) : /\ Cardinality({y \in S : y < e[m]}) = m - 1
                                 /\ Cardinality({y \in S : y > e[m]}) = Len(e) - m
      BY EnumeratedPlace
    <3> QED
      BY <2>1, <3>1
  <2>3. (i - 1 = k - 1 => i = k) /\ (Len(e) - i = Len(e) - k => i = k)
    BY <1>1
  <2> QED
    BY <2>1, <2>2, <2>3
<1>4. /\ Cardinality({y \in S : y < e[k]}) = k - 1
      /\ Cardinality({y \in S : y > e[k]}) = Len(e) - k
  BY EnumeratedPlace
<1>5. (CHOOSE x \in S : Cardinality({y \in S : y < x}) = k - 1) = e[k]
  BY <1>2, <1>3, <1>4
<1>6. (CHOOSE x \in S : Cardinality({y \in S : y > x}) = Len(e) - k) = e[k]
  BY <1>2, <1>3, <1>4
<1> QED
  BY <1>5, <1>6
=============================================================================
