---------------------------- MODULE FoldTheorems ----------------------------
(***************************************************************************)
(* Induction over the natural numbers with sets in the place of            *)
(* predicates, and what the folds of the community modules are built from: *)
(* the recursive function that takes the greatest index off a set.         *)
(***************************************************************************)
EXTENDS Integers, Sequences, SequencesExt, FiniteSetTheorems, TLAPS

\* Every set of naturals has a least element: the smallest of the intervals
\* below its elements is the one below it.
LEMMA LeastElement ==
  ASSUME NEW T \in SUBSET Nat, T # {}
  PROVE  \E x \in T : \A y \in T : x <= y
<1> DEFINE below(n) == 0..(n - 1)
           B == {below(n) : n \in T}
<1>1. B \subseteq FiniteSubsetsOf(Nat)
  <2> SUFFICES ASSUME NEW n \in T PROVE below(n) \in FiniteSubsetsOf(Nat)
    OBVIOUS
  <2>1. IsFiniteSet(0..(n - 1))
    BY FS_Interval
  <2>2. QED
    BY <2>1 DEF FiniteSubsetsOf
<1>2. IsWellFoundedOn(StrictSubsetOrdering(Nat), FiniteSubsetsOf(Nat))
  BY FS_StrictSubsetOrderingWellFounded
<1>3. PICK b \in B : \A c \in B : ~(<<c, b>> \in StrictSubsetOrdering(Nat))
  <2>1. B # {}
    OBVIOUS
  <2> HIDE DEF B
  <2>2. QED
    BY <1>1, <1>2, <2>1, WFMin
<1>4. PICK x \in T : b = below(x)
  BY DEF B
<1>5. ASSUME NEW y \in T, y < x PROVE FALSE
  <2>1. below(y) \subseteq below(x)
    BY <1>5
  <2>2. x - 1 \in below(x) \/ y \in below(x)
    BY <1>5
  <2>3. y \in below(x) /\ y \notin below(y)
    BY <1>5
  <2>4. below(x) \in SUBSET Nat /\ below(y) \in SUBSET Nat
    OBVIOUS
  <2> HIDE DEF below
  <2>5. <<below(y), below(x)>> \in StrictSubsetOrdering(Nat)
    BY <2>1, <2>3, <2>4 DEF StrictSubsetOrdering
  <2>6. below(y) \in B
    BY DEF B
  <2>7. QED
    BY <1>3, <1>4, <2>5, <2>6
<1>6. QED
  BY <1>5

\* What holds at 0 and passes from each number to the next holds up to n.
LEMMA Induction ==
  ASSUME NEW n \in Nat, NEW A,
         0 \in A, \A m \in 1..n : m - 1 \in A => m \in A
  PROVE  \A m \in 0..n : m \in A
<1> DEFINE T == {m \in 0..n : m \notin A}
<1> SUFFICES ASSUME T # {} PROVE FALSE
  OBVIOUS
<1>1. PICK x \in T : \A y \in T : x <= y
  <2>1. T \in SUBSET Nat
    OBVIOUS
  <2> HIDE DEF T
  <2>2. QED
    BY <2>1, LeastElement
<1>2. x \in 1..n /\ x - 1 \notin T
  BY <1>1
<1>3. QED
  BY <1>1, <1>2

\* A bounded set of naturals has a greatest element.
LEMMA GreatestElement ==
  ASSUME NEW n \in Nat, NEW s \in SUBSET (0..n), s # {}
  PROVE  /\ Max(s) \in s
         /\ \A y \in s : y <= Max(s)
<1> DEFINE T == {n - y : y \in s}
<1>1. PICK x \in T : \A y \in T : x <= y
  <2>1. \A y \in s : n - y \in Nat
    OBVIOUS
  <2>2. T \in SUBSET Nat
    BY <2>1
  <2>3. T # {}
    OBVIOUS
  <2> HIDE DEF T
  <2>4. QED
    BY <2>2, <2>3, LeastElement
<1>2. PICK z \in s : x = n - z
  OBVIOUS
<1>3. \A y \in s : z >= y
  <2> TAKE y \in s
  <2>1. n - y \in T
    OBVIOUS
  <2>2. n - z <= n - y
    BY <1>1, <1>2, <2>1
  <2>3. QED
    BY <2>2
<1>4. Max(s) \in s /\ \A y \in s : Max(s) >= y
  BY <1>3 DEF Max
<1>5. QED
  BY <1>4

\* The last index comes off the indices up to it.
LEMMA LastIndex ==
  ASSUME NEW m \in Nat \ {0}
  PROVE  Max(1..m) = m /\ (1..m) \ {m} = 1..(m - 1)
<1>1. 1..m \in SUBSET (0..m) /\ 1..m # {} /\ m \in 1..m
  OBVIOUS
<1>2. Max(1..m) \in 1..m /\ m <= Max(1..m)
  BY <1>1, GreatestElement
<1>3. QED
  BY <1>2

\* The same within the indices of a sequence.
LEMMA InitialIndices ==
  ASSUME NEW n \in Nat, NEW m \in 1..n
  PROVE  /\ 1..m # {} /\ 1..m \in SUBSET (1..n)
         /\ Max(1..m) = m /\ (1..m) \ {m} = 1..(m - 1)
<1>1. m \in Nat \ {0}
  OBVIOUS
<1>2. 1..m # {} /\ 1..m \in SUBSET (1..n)
  OBVIOUS
<1>3. QED
  BY <1>1, <1>2, LastIndex

\* What holds of the empty sequence and of each sequence that is longer by
\* one element holds of all.
LEMMA SequenceInduction ==
  ASSUME NEW S, NEW A, <<>> \in A,
         \A t \in Seq(S), x \in S : t \in A => Append(t, x) \in A
  PROVE  Seq(S) \subseteq A
<1> SUFFICES ASSUME NEW s \in Seq(S) PROVE s \in A
  OBVIOUS
<1> DEFINE n == Len(s)
           B == {m \in 0..n : SubSeq(s, 1, m) \in A}
<1>1. n \in Nat /\ SubSeq(s, 1, 0) = <<>> /\ SubSeq(s, 1, n) = s
  OBVIOUS
<1>2. ASSUME NEW m \in 1..n
      PROVE  /\ SubSeq(s, 1, m - 1) \in Seq(S) /\ s[m] \in S
             /\ SubSeq(s, 1, m) = Append(SubSeq(s, 1, m - 1), s[m])
  OBVIOUS
<1> HIDE DEF n
<1>3. 0 \in B
  <2>1. 0 \in 0..n
    BY <1>1
  <2>2. QED
    BY <1>1, <2>1
<1>4. \A m \in 1..n : m - 1 \in B => m \in B
  <2> SUFFICES ASSUME NEW m \in 1..n, m - 1 \in B PROVE m \in B
    OBVIOUS
  <2>1. SubSeq(s, 1, m - 1) \in A /\ m \in 0..n
    BY <1>1
  <2>2. QED
    BY <1>2, <2>1
<1> HIDE DEF B
<1>5. \A m \in 0..n : m \in B
  BY <1>1, <1>3, <1>4, Induction
<1>6. n \in 0..n
  BY <1>1
<1>7. QED
  BY <1>1, <1>5, <1>6 DEF B

-----------------------------------------------------------------------------
\* The function that a fold over the indices 1..n computes by: one step per
\* index, the greatest one last.
Folds1(h, n, base, step) ==
  h = [s \in SUBSET (1..n) |->
         IF s = {} THEN base ELSE step[Max(s)][h[s \ {Max(s)}]]]

\* There is such a function: what does not use the index n is known before.
LEMMA FoldExists ==
  ASSUME NEW n \in Nat, NEW V, NEW base \in V, NEW step \in [1..n -> [V -> V]]
  PROVE  \E h \in [SUBSET (1..n) -> V] : Folds1(h, n, base, step)
<1> DEFINE A == {m \in 0..n : \E h \in [SUBSET (1..m) -> V] : Folds1(h, m, base, step)}
<1>1. 0 \in A
  <2> DEFINE h == [s \in SUBSET (1..0) |-> base]
  <2>1. \A s \in SUBSET (1..0) : s = {}
    OBVIOUS
  <2>2. h \in [SUBSET (1..0) -> V] /\ Folds1(h, 0, base, step)
    BY <2>1 DEF Folds1
  <2>3. QED
    BY <2>2
<1>2. ASSUME NEW m \in 1..n, m - 1 \in A PROVE m \in A
  <2>1. PICK g \in [SUBSET (1..(m - 1)) -> V] : Folds1(g, m - 1, base, step)
    BY <1>2
  <2> DEFINE h == [s \in SUBSET (1..m) |->
                     IF m \in s THEN step[m][g[s \ {m}]] ELSE g[s]]
  <2>2. \A s \in SUBSET (1..m) : /\ s \ {m} \in SUBSET (1..(m - 1))
                                 /\ m \notin s => s \in SUBSET (1..(m - 1))
    OBVIOUS
  <2>3. h \in [SUBSET (1..m) -> V]
    BY <2>2
  <2>4. ASSUME NEW s \in SUBSET (1..m)
        PROVE  h[s] = IF s = {} THEN base ELSE step[Max(s)][h[s \ {Max(s)}]]
    <3>1. CASE m \in s
      <4>1. Max(s) = m
        <5>1. s \in SUBSET (0..m) /\ s # {} /\ m \in Nat
          BY <3>1
        <5>2. Max(s) \in s /\ m <= Max(s)
          BY <3>1, <5>1, GreatestElement
        <5>3. Max(s) \in 1..m
          BY <5>2
        <5>4. QED
          BY <5>2, <5>3
      <4>2. h[s] = step[m][g[s \ {m}]] /\ h[s \ {m}] = g[s \ {m}]
        BY <2>2, <3>1
      <4> HIDE DEF h
      <4>3. QED
        BY <3>1, <4>1, <4>2
    <3>2. CASE m \notin s
      <4>1. s \in SUBSET (1..(m - 1)) /\ h[s] = g[s]
        BY <2>2, <3>2
      <4>2. g[s] = IF s = {} THEN base ELSE step[Max(s)][g[s \ {Max(s)}]]
        BY <2>1, <4>1 DEF Folds1
      <4>3. h[s \ {Max(s)}] = g[s \ {Max(s)}]
        BY <3>2, <4>1
      <4> HIDE DEF h
      <4>4. QED
        BY <4>1, <4>2, <4>3
    <3>3. QED
      BY <3>1, <3>2
  <2>5. Folds1(h, m, base, step)
    <3> HIDE DEF h
    <3>1. h = [s \in SUBSET (1..m) |-> h[s]]
      BY <2>3
    <3>2. QED
      BY <2>4, <3>1 DEF Folds1
  <2> HIDE DEF h
  <2>6. QED
    BY <2>3, <2>5
<1>3. n \in A
  <2> HIDE DEF A
  <2>1. \A m \in 0..n : m \in A
    BY <1>1, <1>2, Induction
  <2>2. QED
    BY <2>1
<1>4. QED
  BY <1>3

\* And it goes through the indices from the first to the last.
LEMMA FoldRuns ==
  ASSUME NEW n \in Nat, NEW base, NEW step, NEW h, Folds1(h, n, base, step)
  PROVE  /\ h[1..0] = base
         /\ \A m \in 1..n : h[1..m] = step[m][h[1..(m - 1)]]
<1>1. 1..0 = {} /\ {} \in SUBSET (1..n)
  OBVIOUS
<1>2. h[1..0] = base
  BY <1>1 DEF Folds1
<1>3. ASSUME NEW m \in 1..n PROVE h[1..m] = step[m][h[1..(m - 1)]]
  <2>1. 1..m # {} /\ 1..m \in SUBSET (1..n) /\ m \in Nat \ {0}
    OBVIOUS
  <2>2. Max(1..m) = m /\ (1..m) \ {m} = 1..(m - 1)
    BY <2>1, LastIndex
  <2>3. QED
    BY <2>1, <2>2 DEF Folds1
<1>4. QED
  BY <1>2, <1>3
=============================================================================
