------------------------------ MODULE LinkProofs ------------------------------
(***************************************************************************)
(* LinksResolve, for every configuration and every set of asks: the links  *)
(* that the proxy writes lead to what they name, spellings of one artifact *)
(* are one identity, and no two artifacts have one cache entry.            *)
(*                                                                         *)
(* The properties are about folds over paths.  They are unfolded first, by *)
(* FoldTheorems; then Segments undoes Joined (Rejoined), Escape undoes     *)
(* Unescape (Reescaped) and normal forms are normal (NormalForm).  An ask  *)
(* comes out at the one registry whose prefix it has (OneMounted), which   *)
(* its links do not leave (FollowInScope).  What is left is one section    *)
(* for every adapter, and one for the cache.                               *)
(***************************************************************************)
EXTENDS FileFlowProofs, SequenceTheorems

-----------------------------------------------------------------------------
(* What the folds of Paths compute.                                        *)

\* Joined runs through the segments of a path.
JoinStep(done, s) == IF done = E THEN s ELSE done \o <<"/">> \o s
JoinIter(path) ==
  CHOOSE iter : iter = [s \in SUBSET (DOMAIN path) |->
    IF s = {} THEN E ELSE JoinStep(iter[s \ {Max(s)}], path[Max(s)])]

\* A fold is unfolded once, as the CHOOSE of its recursive function.
LEMMA JoinedFolds ==
  ASSUME NEW path
  PROVE  Joined(path) = JoinIter(path)[DOMAIN path]
BY SMT DEF Joined, JoinIter, JoinStep, FoldLeft, MapThenFoldSet

\* Segments runs through the pieces of a text.
CutStep(done, piece) ==
  IF piece = "/" THEN Append(done, E) ELSE [done EXCEPT ![Len(done)] = Append(@, piece)]
CutIter(seg) ==
  CHOOSE iter : iter = [s \in SUBSET (DOMAIN seg) |->
    IF s = {} THEN <<E>> ELSE CutStep(iter[s \ {Max(s)}], seg[Max(s)])]

\* The same for Segments,
LEMMA SegmentsFolds ==
  ASSUME NEW seg
  PROVE  Segments(seg) = CutIter(seg)[DOMAIN seg]
BY SMT DEF Segments, CutIter, CutStep, FoldLeft, MapThenFoldSet

\* Normalize runs through them too.
Normal1(piece) == IF piece \in DOMAIN Normal THEN Normal[piece] ELSE <<piece>>
NormalIter(seg) ==
  CHOOSE iter : iter = [s \in SUBSET (DOMAIN seg) |->
    IF s = {} THEN E ELSE iter[s \ {Max(s)}] \o Normal1(seg[Max(s)])]

\* and for Normalize.
LEMMA NormalizeFolds ==
  ASSUME NEW seg
  PROVE  Normalize(seg) = NormalIter(seg)[DOMAIN seg]
BY SMT DEF Normalize, NormalIter, Normal1, FoldLeft, MapThenFoldSet

\* What a fold has computed after m steps, as a function of m.
LEMMA JoinedRuns ==
  ASSUME NEW P, NEW path \in Seq(Seq(P))
  PROVE  \E run \in [0..Len(path) -> Seq(P \union {"/"})] :
           /\ run[0] = E /\ run[Len(path)] = Joined(path)
           /\ \A m \in 1..Len(path) : run[m] = JoinStep(run[m - 1], path[m])
<1> DEFINE n == Len(path)
           V == Seq(P \union {"/"})
           onto(done, i) == JoinStep(done, path[i])
           step == [i \in 1..n |-> [done \in V |-> onto(done, i)]]
           g == JoinIter(path)
<1>1. n \in Nat /\ DOMAIN path = 1..n
  OBVIOUS
<1>2. E \in V
  BY DEF E
<1>3. ASSUME NEW i \in 1..n, NEW done \in V PROVE onto(done, i) \in V
  <2>1. path[i] \in V /\ <<"/">> \in V
    OBVIOUS
  <2>2. done \o <<"/">> \o path[i] \in V
    BY <2>1
  <2>3. QED
    BY <2>1, <2>2 DEF JoinStep
<1>4. Joined(path) = g[1..n]
  BY <1>1, JoinedFolds
<1>5. step \in [1..n -> [V -> V]]
  <2> HIDE DEF V, onto, n
  <2>1. QED
    BY <1>3
<1> HIDE DEF V, n
<1>6. PICK h \in [SUBSET (1..n) -> V] : Folds1(h, n, E, step)
  <2> HIDE DEF step
  <2>1. QED
    BY <1>1, <1>2, <1>5, FoldExists
<1>7. ASSUME NEW s \in SUBSET (1..n)
      PROVE  h[s] = IF s = {} THEN E ELSE onto(h[s \ {Max(s)}], Max(s))
  <2> HIDE DEF step
  <2>1. h[s] = IF s = {} THEN E ELSE step[Max(s)][h[s \ {Max(s)}]]
    BY <1>6 DEF Folds1
  <2>2. CASE s # {}
    <3>1. s \in SUBSET (0..n)
      BY <1>1
    <3>2. Max(s) \in 1..n
      BY <1>1, <2>2, <3>1, GreatestElement
    <3>3. s \ {Max(s)} \in SUBSET (1..n)
      OBVIOUS
    <3>4. h[s \ {Max(s)}] \in V
      BY <1>6, <3>3
    <3> HIDE DEF onto
    <3>5. step[Max(s)][h[s \ {Max(s)}]] = onto(h[s \ {Max(s)}], Max(s))
      BY <3>2, <3>4 DEF step
    <3>6. QED
      BY <2>1, <2>2, <3>5
  <2>3. QED
    BY <2>1, <2>2
<1>8. h = [s \in SUBSET (1..n) |-> IF s = {} THEN E ELSE onto(h[s \ {Max(s)}], Max(s))]
  <2>1. h = [s \in SUBSET (1..n) |-> h[s]]
    BY <1>6
  <2> HIDE DEF onto
  <2>2. QED
    BY <1>7, <2>1, Zenon
<1>9. g = [s \in SUBSET (1..n) |-> IF s = {} THEN E ELSE onto(g[s \ {Max(s)}], Max(s))]
  BY <1>1, <1>8, Zenon DEF JoinIter
<1> HIDE DEF g, onto
<1>10. g[1..0] = E
  <2>1. 1..0 = {} /\ {} \in SUBSET (1..n)
    OBVIOUS
  <2>2. QED
    BY <1>9, <2>1
<1>11. ASSUME NEW m \in 1..n PROVE g[1..m] = onto(g[1..(m - 1)], m)
  <2>1. /\ 1..m # {} /\ 1..m \in SUBSET (1..n)
        /\ Max(1..m) = m /\ (1..m) \ {m} = 1..(m - 1)
    BY <1>1, InitialIndices
  <2>2. QED
    BY <1>9, <2>1
<1>12. \A m \in 0..n : g[1..m] \in V
  <2> DEFINE A == {m \in 0..n : g[1..m] \in V}
  <2>1. 0 \in A
    BY <1>1, <1>2, <1>10
  <2>2. \A m \in 1..n : m - 1 \in A => m \in A
    <3>1. ASSUME NEW m \in 1..n, m - 1 \in A PROVE g[1..m] \in V
      BY <1>3, <1>11, <3>1
    <3>2. QED
      BY <3>1
  <2> HIDE DEF A
  <2>3. \A m \in 0..n : m \in A
    BY <1>1, <2>1, <2>2, Induction
  <2>4. QED
    BY <2>3 DEF A
<1> DEFINE run == [m \in 0..n |-> g[1..m]]
<1>13. run \in [0..n -> V]
  BY <1>12
<1>14. run[0] = E /\ run[n] = Joined(path)
  BY <1>1, <1>4, <1>10
<1>15. \A m \in 1..n : run[m] = onto(run[m - 1], m)
  <2> SUFFICES ASSUME NEW m \in 1..n PROVE run[m] = onto(run[m - 1], m)
    OBVIOUS
  <2>1. m \in 0..n /\ m - 1 \in 0..n
    BY <1>1
  <2>2. run[m] = g[1..m] /\ run[m - 1] = g[1..(m - 1)]
    BY <2>1
  <2> HIDE DEF run
  <2>3. QED
    BY <1>11, <2>2
<1> HIDE DEF run
<1>16. QED
  BY <1>13, <1>14, <1>15 DEF V, n, onto

\* The steps of Segments.
LEMMA SegmentsRuns ==
  ASSUME NEW P, NEW text \in Seq(P)
  PROVE  \E run \in [0..Len(text) -> Seq(Seq(P)) \ {<<>>}] :
           /\ run[0] = <<E>> /\ run[Len(text)] = Segments(text)
           /\ \A m \in 1..Len(text) : run[m] = CutStep(run[m - 1], text[m])
<1> DEFINE n == Len(text)
           V == Seq(Seq(P)) \ {<<>>}
           onto(done, i) == CutStep(done, text[i])
           step == [i \in 1..n |-> [done \in V |-> onto(done, i)]]
           g == CutIter(text)
<1>1. n \in Nat /\ DOMAIN text = 1..n
  OBVIOUS
<1>2. <<E>> \in V
  BY DEF E
<1>3. ASSUME NEW i \in 1..n, NEW done \in V PROVE onto(done, i) \in V
  <2> DEFINE t == text[i]
  <2>1. t \in P /\ E \in Seq(P)
    BY DEF E
  <2>2. Append(done, E) \in V
    <3> DEFINE S == Seq(P)
    <3>1. E \in S /\ done \in Seq(S)
      BY <2>1
    <3> HIDE DEF S
    <3>2. Append(done, E) \in Seq(S) /\ Len(Append(done, E)) = Len(done) + 1 /\ Len(done) \in Nat
      BY <3>1
    <3>3. Append(done, E) # <<>>
      BY <3>2
    <3>4. QED
      BY <3>2, <3>3 DEF S
  <2>3. [done EXCEPT ![Len(done)] = Append(@, t)] \in V
    BY <2>1
  <2> HIDE DEF t
  <2>4. QED
    BY <2>2, <2>3 DEF CutStep, t
<1>4. Segments(text) = g[1..n]
  BY <1>1, SegmentsFolds
<1>5. step \in [1..n -> [V -> V]]
  <2> HIDE DEF V, onto, n
  <2>1. QED
    BY <1>3
<1> HIDE DEF V, n
<1>6. PICK h \in [SUBSET (1..n) -> V] : Folds1(h, n, <<E>>, step)
  <2> HIDE DEF step
  <2>1. QED
    BY <1>1, <1>2, <1>5, FoldExists
<1>7. ASSUME NEW s \in SUBSET (1..n)
      PROVE  h[s] = IF s = {} THEN <<E>> ELSE onto(h[s \ {Max(s)}], Max(s))
  <2> HIDE DEF step
  <2>1. h[s] = IF s = {} THEN <<E>> ELSE step[Max(s)][h[s \ {Max(s)}]]
    BY <1>6 DEF Folds1
  <2>2. CASE s # {}
    <3>1. s \in SUBSET (0..n)
      BY <1>1
    <3>2. Max(s) \in 1..n
      BY <1>1, <2>2, <3>1, GreatestElement
    <3>3. s \ {Max(s)} \in SUBSET (1..n)
      OBVIOUS
    <3>4. h[s \ {Max(s)}] \in V
      BY <1>6, <3>3
    <3> HIDE DEF onto
    <3>5. step[Max(s)][h[s \ {Max(s)}]] = onto(h[s \ {Max(s)}], Max(s))
      BY <3>2, <3>4 DEF step
    <3>6. QED
      BY <2>1, <2>2, <3>5
  <2>3. QED
    BY <2>1, <2>2
<1>8. h = [s \in SUBSET (1..n) |-> IF s = {} THEN <<E>> ELSE onto(h[s \ {Max(s)}], Max(s))]
  <2>1. h = [s \in SUBSET (1..n) |-> h[s]]
    BY <1>6
  <2> HIDE DEF onto
  <2>2. QED
    BY <1>7, <2>1, Zenon
<1>9. g = [s \in SUBSET (1..n) |-> IF s = {} THEN <<E>> ELSE onto(g[s \ {Max(s)}], Max(s))]
  BY <1>1, <1>8, Zenon DEF CutIter
<1> HIDE DEF g, onto
<1>10. g[1..0] = <<E>>
  <2>1. 1..0 = {} /\ {} \in SUBSET (1..n)
    OBVIOUS
  <2>2. QED
    BY <1>9, <2>1
<1>11. ASSUME NEW m \in 1..n PROVE g[1..m] = onto(g[1..(m - 1)], m)
  <2>1. /\ 1..m # {} /\ 1..m \in SUBSET (1..n)
        /\ Max(1..m) = m /\ (1..m) \ {m} = 1..(m - 1)
    BY <1>1, InitialIndices
  <2>2. QED
    BY <1>9, <2>1
<1>12. \A m \in 0..n : g[1..m] \in V
  <2> DEFINE A == {m \in 0..n : g[1..m] \in V}
  <2>1. 0 \in A
    BY <1>1, <1>2, <1>10
  <2>2. \A m \in 1..n : m - 1 \in A => m \in A
    <3>1. ASSUME NEW m \in 1..n, m - 1 \in A PROVE g[1..m] \in V
      BY <1>3, <1>11, <3>1
    <3>2. QED
      BY <3>1
  <2> HIDE DEF A
  <2>3. \A m \in 0..n : m \in A
    BY <1>1, <2>1, <2>2, Induction
  <2>4. QED
    BY <2>3 DEF A
<1> DEFINE run == [m \in 0..n |-> g[1..m]]
<1>13. run \in [0..n -> V]
  BY <1>12
<1>14. run[0] = <<E>> /\ run[n] = Segments(text)
  BY <1>1, <1>4, <1>10
<1>15. \A m \in 1..n : run[m] = onto(run[m - 1], m)
  <2> SUFFICES ASSUME NEW m \in 1..n PROVE run[m] = onto(run[m - 1], m)
    OBVIOUS
  <2>1. m \in 0..n /\ m - 1 \in 0..n
    BY <1>1
  <2>2. run[m] = g[1..m] /\ run[m - 1] = g[1..(m - 1)]
    BY <2>1
  <2> HIDE DEF run
  <2>3. QED
    BY <1>11, <2>2
<1> HIDE DEF run
<1>16. QED
  BY <1>13, <1>14, <1>15 DEF V, n, onto

\* The steps of Normalize.
LEMMA NormalizeRuns ==
  ASSUME NEW P, \A piece \in P : Normal1(piece) \in Seq(P), NEW seg \in Seq(P)
  PROVE  \E run \in [0..Len(seg) -> Seq(P)] :
           /\ run[0] = E /\ run[Len(seg)] = Normalize(seg)
           /\ \A m \in 1..Len(seg) : run[m] = run[m - 1] \o Normal1(seg[m])
<1> DEFINE n == Len(seg)
           V == Seq(P)
           onto(done, i) == done \o Normal1(seg[i])
           step == [i \in 1..n |-> [done \in V |-> onto(done, i)]]
           g == NormalIter(seg)
<1>1. n \in Nat /\ DOMAIN seg = 1..n
  OBVIOUS
<1>2. E \in V
  BY DEF E
<1>3. ASSUME NEW i \in 1..n, NEW done \in V PROVE onto(done, i) \in V
  OBVIOUS
<1>4. Normalize(seg) = g[1..n]
  BY <1>1, NormalizeFolds
<1>5. step \in [1..n -> [V -> V]]
  <2> HIDE DEF V, onto, n
  <2>1. QED
    BY <1>3
<1> HIDE DEF V, n
<1>6. PICK h \in [SUBSET (1..n) -> V] : Folds1(h, n, E, step)
  <2> HIDE DEF step
  <2>1. QED
    BY <1>1, <1>2, <1>5, FoldExists
<1>7. ASSUME NEW s \in SUBSET (1..n)
      PROVE  h[s] = IF s = {} THEN E ELSE onto(h[s \ {Max(s)}], Max(s))
  <2> HIDE DEF step
  <2>1. h[s] = IF s = {} THEN E ELSE step[Max(s)][h[s \ {Max(s)}]]
    BY <1>6 DEF Folds1
  <2>2. CASE s # {}
    <3>1. s \in SUBSET (0..n)
      BY <1>1
    <3>2. Max(s) \in 1..n
      BY <1>1, <2>2, <3>1, GreatestElement
    <3>3. s \ {Max(s)} \in SUBSET (1..n)
      OBVIOUS
    <3>4. h[s \ {Max(s)}] \in V
      BY <1>6, <3>3
    <3> HIDE DEF onto
    <3>5. step[Max(s)][h[s \ {Max(s)}]] = onto(h[s \ {Max(s)}], Max(s))
      BY <3>2, <3>4 DEF step
    <3>6. QED
      BY <2>1, <2>2, <3>5
  <2>3. QED
    BY <2>1, <2>2
<1>8. h = [s \in SUBSET (1..n) |-> IF s = {} THEN E ELSE onto(h[s \ {Max(s)}], Max(s))]
  <2>1. h = [s \in SUBSET (1..n) |-> h[s]]
    BY <1>6
  <2> HIDE DEF onto
  <2>2. QED
    BY <1>7, <2>1, Zenon
<1>9. g = [s \in SUBSET (1..n) |-> IF s = {} THEN E ELSE onto(g[s \ {Max(s)}], Max(s))]
  BY <1>1, <1>8, Zenon DEF NormalIter
<1> HIDE DEF g, onto
<1>10. g[1..0] = E
  <2>1. 1..0 = {} /\ {} \in SUBSET (1..n)
    OBVIOUS
  <2>2. QED
    BY <1>9, <2>1
<1>11. ASSUME NEW m \in 1..n PROVE g[1..m] = onto(g[1..(m - 1)], m)
  <2>1. /\ 1..m # {} /\ 1..m \in SUBSET (1..n)
        /\ Max(1..m) = m /\ (1..m) \ {m} = 1..(m - 1)
    BY <1>1, InitialIndices
  <2>2. QED
    BY <1>9, <2>1
<1>12. \A m \in 0..n : g[1..m] \in V
  <2> DEFINE A == {m \in 0..n : g[1..m] \in V}
  <2>1. 0 \in A
    BY <1>1, <1>2, <1>10
  <2>2. \A m \in 1..n : m - 1 \in A => m \in A
    <3>1. ASSUME NEW m \in 1..n, m - 1 \in A PROVE g[1..m] \in V
      BY <1>3, <1>11, <3>1
    <3>2. QED
      BY <3>1
  <2> HIDE DEF A
  <2>3. \A m \in 0..n : m \in A
    BY <1>1, <2>1, <2>2, Induction
  <2>4. QED
    BY <2>3 DEF A
<1> DEFINE run == [m \in 0..n |-> g[1..m]]
<1>13. run \in [0..n -> V]
  BY <1>12
<1>14. run[0] = E /\ run[n] = Normalize(seg)
  BY <1>1, <1>4, <1>10
<1>15. \A m \in 1..n : run[m] = onto(run[m - 1], m)
  <2> SUFFICES ASSUME NEW m \in 1..n PROVE run[m] = onto(run[m - 1], m)
    OBVIOUS
  <2>1. m \in 0..n /\ m - 1 \in 0..n
    BY <1>1
  <2>2. run[m] = g[1..m] /\ run[m - 1] = g[1..(m - 1)]
    BY <2>1
  <2> HIDE DEF run
  <2>3. QED
    BY <1>11, <2>2
<1> HIDE DEF run
<1>16. QED
  BY <1>13, <1>14, <1>15 DEF V, n, onto

\* A path that grows by a segment: what Joined makes of it,
LEMMA JoinedBuilds ==
  ASSUME NEW P
  PROVE  /\ Joined(<<>>) = E
         /\ \A t \in Seq(Seq(P)) : Joined(t) \in Seq(P \union {"/"})
         /\ \A t \in Seq(Seq(P)), seg \in Seq(P) : Joined(Append(t, seg)) = JoinStep(Joined(t), seg)
<1> DEFINE S == Seq(P)
           V == Seq(P \union {"/"})
<1>1. ASSUME NEW t \in Seq(S)
      PROVE  \E run \in [0..Len(t) -> V] :
               /\ run[0] = E /\ run[Len(t)] = Joined(t)
               /\ \A m \in 1..Len(t) : run[m] = JoinStep(run[m - 1], t[m])
  BY JoinedRuns
<1> HIDE DEF S, V
<1>2. Joined(<<>>) = E
  <2>1. <<>> \in Seq(S) /\ Len(<<>>) = 0
    OBVIOUS
  <2>2. QED
    BY <1>1, <2>1
<1>3. ASSUME NEW t \in Seq(S) PROVE Joined(t) \in V
  <2>1. Len(t) \in 0..Len(t)
    OBVIOUS
  <2>2. QED
    BY <1>1, <2>1
<1>4. ASSUME NEW t \in Seq(S), NEW seg \in S
      PROVE  Joined(Append(t, seg)) = JoinStep(Joined(t), seg)
  <2> DEFINE n == Len(t)
             u == Append(t, seg)
  <2>1. /\ n \in Nat /\ u \in Seq(S) /\ Len(u) = n + 1 /\ u[n + 1] = seg
        /\ \A m \in 1..n : u[m] = t[m]
    OBVIOUS
  <2>2. PICK f : /\ f[0] = E /\ f[n] = Joined(t)
                 /\ \A m \in 1..n : f[m] = JoinStep(f[m - 1], t[m])
    BY <1>1
  <2> HIDE DEF u
  <2>3. PICK g : /\ g[0] = E /\ g[Len(u)] = Joined(u)
                 /\ \A m \in 1..Len(u) : g[m] = JoinStep(g[m - 1], u[m])
    BY <1>1, <2>1
  <2> HIDE DEF n
  <2> DEFINE A == {m \in 0..n : f[m] = g[m]}
  <2>4. 0 \in A
    <3>1. f[0] = g[0]
      BY <2>2, <2>3
    <3>2. 0 \in 0..n
      BY <2>1
    <3>3. QED
      BY <3>1, <3>2
  <2>5. \A m \in 1..n : m - 1 \in A => m \in A
    <3> SUFFICES ASSUME NEW m \in 1..n, m - 1 \in A PROVE m \in A
      OBVIOUS
    <3>1. m \in 1..(n + 1) /\ m \in 0..n
      BY <2>1
    <3>2. g[m] = JoinStep(g[m - 1], u[m]) /\ u[m] = t[m]
      BY <2>1, <2>3, <3>1
    <3>3. f[m] = JoinStep(f[m - 1], t[m])
      BY <2>2
    <3>4. f[m] = g[m]
      BY <3>2, <3>3
    <3>5. QED
      BY <3>1, <3>4
  <2> HIDE DEF A
  <2>6. n \in A
    <3>1. \A m \in 0..n : m \in A
      BY <2>1, <2>4, <2>5, Induction
    <3>2. QED
      BY <2>1, <3>1
  <2>7. g[n] = Joined(t)
    BY <2>2, <2>6 DEF A
  <2>8. g[n + 1] = JoinStep(g[n], u[n + 1])
    <3>1. n + 1 \in 1..Len(u) /\ (n + 1) - 1 = n
      BY <2>1
    <3>2. QED
      BY <2>3, <3>1
  <2>9. QED
    BY <2>1, <2>3, <2>7, <2>8 DEF u
<1>5. QED
  BY <1>2, <1>3, <1>4 DEF S, V

\* what Segments makes of a text that grows by a piece,
LEMMA SegmentsBuild ==
  ASSUME NEW P
  PROVE  /\ Segments(<<>>) = <<E>>
         /\ \A t \in Seq(P) : Segments(t) \in Seq(Seq(P)) \ {<<>>}
         /\ \A t \in Seq(P), piece \in P : Segments(Append(t, piece)) = CutStep(Segments(t), piece)
<1> DEFINE S == P
           V == Seq(Seq(P)) \ {<<>>}
<1>1. ASSUME NEW t \in Seq(S)
      PROVE  \E run \in [0..Len(t) -> V] :
               /\ run[0] = <<E>> /\ run[Len(t)] = Segments(t)
               /\ \A m \in 1..Len(t) : run[m] = CutStep(run[m - 1], t[m])
  BY SegmentsRuns
<1> HIDE DEF S, V
<1>2. Segments(<<>>) = <<E>>
  <2>1. <<>> \in Seq(S) /\ Len(<<>>) = 0
    OBVIOUS
  <2>2. QED
    BY <1>1, <2>1
<1>3. ASSUME NEW t \in Seq(S) PROVE Segments(t) \in V
  <2>1. Len(t) \in 0..Len(t)
    OBVIOUS
  <2>2. QED
    BY <1>1, <2>1
<1>4. ASSUME NEW t \in Seq(S), NEW piece \in S
      PROVE  Segments(Append(t, piece)) = CutStep(Segments(t), piece)
  <2> DEFINE n == Len(t)
             u == Append(t, piece)
  <2>1. /\ n \in Nat /\ u \in Seq(S) /\ Len(u) = n + 1 /\ u[n + 1] = piece
        /\ \A m \in 1..n : u[m] = t[m]
    OBVIOUS
  <2>2. PICK f : /\ f[0] = <<E>> /\ f[n] = Segments(t)
                 /\ \A m \in 1..n : f[m] = CutStep(f[m - 1], t[m])
    BY <1>1
  <2> HIDE DEF u
  <2>3. PICK g : /\ g[0] = <<E>> /\ g[Len(u)] = Segments(u)
                 /\ \A m \in 1..Len(u) : g[m] = CutStep(g[m - 1], u[m])
    BY <1>1, <2>1
  <2> HIDE DEF n
  <2> DEFINE A == {m \in 0..n : f[m] = g[m]}
  <2>4. 0 \in A
    <3>1. f[0] = g[0]
      BY <2>2, <2>3
    <3>2. 0 \in 0..n
      BY <2>1
    <3>3. QED
      BY <3>1, <3>2
  <2>5. \A m \in 1..n : m - 1 \in A => m \in A
    <3> SUFFICES ASSUME NEW m \in 1..n, m - 1 \in A PROVE m \in A
      OBVIOUS
    <3>1. m \in 1..(n + 1) /\ m \in 0..n
      BY <2>1
    <3>2. g[m] = CutStep(g[m - 1], u[m]) /\ u[m] = t[m]
      BY <2>1, <2>3, <3>1
    <3>3. f[m] = CutStep(f[m - 1], t[m])
      BY <2>2
    <3>4. f[m] = g[m]
      BY <3>2, <3>3
    <3>5. QED
      BY <3>1, <3>4
  <2> HIDE DEF A
  <2>6. n \in A
    <3>1. \A m \in 0..n : m \in A
      BY <2>1, <2>4, <2>5, Induction
    <3>2. QED
      BY <2>1, <3>1
  <2>7. g[n] = Segments(t)
    BY <2>2, <2>6 DEF A
  <2>8. g[n + 1] = CutStep(g[n], u[n + 1])
    <3>1. n + 1 \in 1..Len(u) /\ (n + 1) - 1 = n
      BY <2>1
    <3>2. QED
      BY <2>3, <3>1
  <2>9. QED
    BY <2>1, <2>3, <2>7, <2>8 DEF u
<1>5. QED
  BY <1>2, <1>3, <1>4 DEF S, V

\* and Normalize of a segment that does.
LEMMA NormalizeBuilds ==
  ASSUME NEW P, \A piece \in P : Normal1(piece) \in Seq(P)
  PROVE  /\ Normalize(<<>>) = E
         /\ \A t \in Seq(P) : Normalize(t) \in Seq(P)
         /\ \A t \in Seq(P), p \in P : Normalize(Append(t, p)) = Normalize(t) \o Normal1(p)
<1> DEFINE S == P
           V == Seq(P)
<1>1. ASSUME NEW t \in Seq(S)
      PROVE  \E run \in [0..Len(t) -> V] :
               /\ run[0] = E /\ run[Len(t)] = Normalize(t)
               /\ \A m \in 1..Len(t) : run[m] = run[m - 1] \o Normal1(t[m])
  BY NormalizeRuns
<1> HIDE DEF S, V
<1>2. Normalize(<<>>) = E
  <2>1. <<>> \in Seq(S) /\ Len(<<>>) = 0
    OBVIOUS
  <2>2. QED
    BY <1>1, <2>1
<1>3. ASSUME NEW t \in Seq(S) PROVE Normalize(t) \in V
  <2>1. Len(t) \in 0..Len(t)
    OBVIOUS
  <2>2. QED
    BY <1>1, <2>1
<1>4. ASSUME NEW t \in Seq(S), NEW p \in S
      PROVE  Normalize(Append(t, p)) = Normalize(t) \o Normal1(p)
  <2> DEFINE n == Len(t)
             u == Append(t, p)
  <2>1. /\ n \in Nat /\ u \in Seq(S) /\ Len(u) = n + 1 /\ u[n + 1] = p
        /\ \A m \in 1..n : u[m] = t[m]
    OBVIOUS
  <2>2. PICK f : /\ f[0] = E /\ f[n] = Normalize(t)
                 /\ \A m \in 1..n : f[m] = f[m - 1] \o Normal1(t[m])
    BY <1>1
  <2> HIDE DEF u
  <2>3. PICK g : /\ g[0] = E /\ g[Len(u)] = Normalize(u)
                 /\ \A m \in 1..Len(u) : g[m] = g[m - 1] \o Normal1(u[m])
    BY <1>1, <2>1
  <2> HIDE DEF n
  <2> DEFINE A == {m \in 0..n : f[m] = g[m]}
  <2>4. 0 \in A
    <3>1. f[0] = g[0]
      BY <2>2, <2>3
    <3>2. 0 \in 0..n
      BY <2>1
    <3>3. QED
      BY <3>1, <3>2
  <2>5. \A m \in 1..n : m - 1 \in A => m \in A
    <3> SUFFICES ASSUME NEW m \in 1..n, m - 1 \in A PROVE m \in A
      OBVIOUS
    <3>1. m \in 1..(n + 1) /\ m \in 0..n
      BY <2>1
    <3>2. g[m] = g[m - 1] \o Normal1(u[m]) /\ u[m] = t[m]
      BY <2>1, <2>3, <3>1
    <3>3. f[m] = f[m - 1] \o Normal1(t[m])
      BY <2>2
    <3>4. f[m] = g[m]
      BY <3>2, <3>3
    <3>5. QED
      BY <3>1, <3>4
  <2> HIDE DEF A
  <2>6. n \in A
    <3>1. \A m \in 0..n : m \in A
      BY <2>1, <2>4, <2>5, Induction
    <3>2. QED
      BY <2>1, <3>1
  <2>7. g[n] = Normalize(t)
    BY <2>2, <2>6 DEF A
  <2>8. g[n + 1] = g[n] \o Normal1(u[n + 1])
    <3>1. n + 1 \in 1..Len(u) /\ (n + 1) - 1 = n
      BY <2>1
    <3>2. QED
      BY <2>3, <3>1
  <2>9. QED
    BY <2>1, <2>3, <2>7, <2>8 DEF u
<1>5. QED
  BY <1>2, <1>3, <1>4 DEF S, V

-----------------------------------------------------------------------------
(* Paths and their texts.                                                  *)

Longer(a, b, x) == Append(a \o b, x) = a \o Append(b, x)

\* Append to a concatenation.
LEMMA AppendAfter ==
  ASSUME NEW S, NEW a \in Seq(S), NEW b \in Seq(S), NEW x \in S
  PROVE  Longer(a, b, x)
BY DEF Longer

\* Replacing the last element.
LEMMA AppendLast ==
  ASSUME NEW S, NEW a \in Seq(S), NEW x \in S, NEW y \in S
  PROVE  [Append(a, x) EXCEPT ![Len(Append(a, x))] = y] = Append(a, y)
<1>2. [Append(a, x) EXCEPT ![Len(Append(a, x))] = y] = Append(a, y)
  <2> DEFINE d == Append(a, x)
             e == Append(a, y)
             f == [d EXCEPT ![Len(a) + 1] = y]
  <2>1. Len(d) = Len(a) + 1 /\ Len(a) \in Nat
    OBVIOUS
  <2>2. f \in Seq(S) /\ e \in Seq(S) /\ Len(f) = Len(a) + 1 /\ Len(e) = Len(a) + 1
    OBVIOUS
  <2>3. ASSUME NEW i \in 1..(Len(a) + 1) PROVE f[i] = e[i]
    <3>1. CASE i = Len(a) + 1
      BY <2>1, <3>1
    <3>2. CASE i \in 1..Len(a)
      <4>1. d[i] = a[i] /\ e[i] = a[i] /\ i # Len(a) + 1 /\ i \in DOMAIN d
        BY <3>2
      <4>2. QED
        BY <4>1
    <3>3. QED
      BY <2>1, <3>1, <3>2
  <2> HIDE DEF f, e
  <2>4. f = e
    BY <2>1, <2>2, <2>3
  <2>5. QED
    BY <2>1, <2>4 DEF f, e
<1>3. QED
  BY <1>2

Extended(c, s) == [c EXCEPT ![Len(c)] = @ \o s]

\* Extending the last segment by one more piece.
LEMMA ExtendedTwice ==
  ASSUME NEW S, NEW c \in Seq(Seq(S)), Len(c) >= 1, NEW u \in Seq(S), NEW x \in S
  PROVE  /\ Len(Extended(c, u)) = Len(c)
         /\ [Extended(c, u) EXCEPT ![Len(c)] = Append(@, x)] = Extended(c, Append(u, x))
<1> DEFINE k == Len(c)
           w == c[k]
           d == Extended(c, u)
<1>1. k \in Nat /\ k \in 1..k /\ w \in Seq(S) /\ DOMAIN c = 1..k
  OBVIOUS
<1>2. Append(w \o u, x) = w \o Append(u, x)
  <2> HIDE DEF w
  <2>1. Longer(w, u, x)
    BY <1>1, AppendAfter
  <2>2. QED
    BY <2>1 DEF Longer
<1>3. Extended(c, u) = [c EXCEPT ![k] = w \o u]
       /\ Extended(c, Append(u, x)) = [c EXCEPT ![k] = w \o Append(u, x)]
  BY DEF Extended
<1> HIDE DEF w, k
<1>4. Len(d) = k /\ d[k] = w \o u
  BY <1>1, <1>3 DEF k
<1>5. [d EXCEPT ![k] = Append(@, x)] = [c EXCEPT ![k] = Append(w \o u, x)]
  BY <1>1, <1>3, <1>4
<1>6. QED
  BY <1>2, <1>3, <1>4, <1>5 DEF k

\* A word is taken to the last segment.
LEMMA SegmentsWord ==
  ASSUME NEW W, "/" \notin W, NEW t \in Seq(W \union {"/"}), NEW s \in Seq(W)
  PROVE  Segments(t \o s) = Extended(Segments(t), s)
<1> DEFINE P == W \union {"/"}
           c == Segments(t)
           k == Len(c)
           A == {u \in Seq(W) : Segments(t \o u) = Extended(c, u)}
<1>1. c \in Seq(Seq(P)) /\ k \in Nat /\ k >= 1 /\ c[k] \in Seq(P)
  <2>1. c \in Seq(Seq(P)) \ {<<>>}
    BY SegmentsBuild
  <2> HIDE DEF c, P
  <2>2. QED
    BY <2>1
<1>2. <<>> \in A
  <2>1. t \o <<>> = t /\ <<>> \in Seq(W)
    OBVIOUS
  <2> HIDE DEF c, P
  <2>2. Extended(c, <<>>) = c
    BY <1>1 DEF Extended
  <2>3. QED
    BY <2>1, <2>2 DEF c
<1>3. ASSUME NEW u \in Seq(W), NEW x \in W, u \in A PROVE Append(u, x) \in A
  <2>1. t \o u \in Seq(P) /\ x \in P /\ x # "/" /\ Append(u, x) \in Seq(W)
        /\ t \o Append(u, x) = Append(t \o u, x)
    OBVIOUS
  <2>2. Segments(t \o u) = Extended(c, u)
    BY <1>3
  <2>3. Segments(t \o Append(u, x)) = CutStep(Segments(t \o u), x)
    BY <2>1, SegmentsBuild
  <2> DEFINE d == Extended(c, u)
  <2>4. CutStep(d, x) = [d EXCEPT ![Len(d)] = Append(@, x)]
    BY <2>1 DEF CutStep
  <2>5. u \in Seq(P)
    OBVIOUS
  <2> HIDE DEF c, P
  <2>6. Len(d) = k
    BY <1>1, <2>1, <2>5, ExtendedTwice
  <2>7. [d EXCEPT ![k] = Append(@, x)] = Extended(c, Append(u, x))
    BY <1>1, <2>1, <2>5, ExtendedTwice
  <2> HIDE DEF d
  <2>8. Segments(t \o Append(u, x)) = Extended(c, Append(u, x))
    BY <2>2, <2>3, <2>4, <2>6, <2>7 DEF d
  <2>9. QED
    BY <2>1, <2>8
<1>4. Seq(W) \subseteq A
  <2> HIDE DEF A
  <2>1. QED
    BY <1>2, <1>3, SequenceInduction
<1>5. QED
  BY <1>4

\* Segments undoes Joined, for a path that begins with a word.
LEMMA Rejoined ==
  ASSUME NEW W, "/" \notin W, NEW path \in Seq(Seq(W)), path # <<>>, path[1] # E
  PROVE  Segments(Joined(path)) = path /\ Joined(path) # E
<1> DEFINE S == Seq(W)
           P == W \union {"/"}
           Good(q) == Segments(Joined(q)) = q /\ Joined(q) # E
           A == {q \in Seq(S) : q = <<>> \/ q[1] = E \/ Good(q)}
<1>1. Joined(<<>>) = E
  BY JoinedBuilds
<1>2. ASSUME NEW q \in Seq(S)
      PROVE  /\ Joined(q) \in Seq(P)
             /\ \A s \in S : Joined(Append(q, s)) = JoinStep(Joined(q), s)
  BY JoinedBuilds
<1>3. ASSUME NEW s \in S PROVE Segments(s) = <<s>>
  <2>1. Segments(<<>>) = <<E>> /\ <<>> \in Seq(P)
    BY SegmentsBuild
  <2>2. Segments(<<>> \o s) = Extended(Segments(<<>>), s)
    BY <2>1, SegmentsWord
  <2>3. <<>> \o s = s
    OBVIOUS
  <2>4. Extended(<<E>>, s) = <<s>>
    BY <2>3 DEF E, Extended
  <2>5. QED
    BY <2>1, <2>2, <2>3, <2>4
<1>4. ASSUME NEW t \in Seq(P), NEW s \in S
      PROVE  Segments(t \o <<"/">> \o s) = Append(Segments(t), s)
  <2>1. Append(t, "/") \in Seq(P) /\ t \o <<"/">> \o s = Append(t, "/") \o s
    OBVIOUS
  <2>2. Segments(Append(t, "/")) = Append(Segments(t), E)
    <3>1. Segments(Append(t, "/")) = CutStep(Segments(t), "/")
      BY SegmentsBuild
    <3>2. QED
      BY <3>1 DEF CutStep
  <2> DEFINE c == Segments(t)
             d == Append(c, E)
  <2>3. Segments(Append(t, "/") \o s) = Extended(d, s)
    BY <2>1, <2>2, SegmentsWord
  <2>4. c \in Seq(Seq(P))
    BY SegmentsBuild
  <2>5. E \in Seq(P) /\ s \in Seq(P) /\ E \o s = s
    BY DEF E
  <2> HIDE DEF c, P, S
  <2>6. Extended(d, s) = Append(c, s)
    <3> DEFINE T == Seq(P)
    <3>1. c \in Seq(T) /\ E \in T /\ s \in T
      BY <2>4, <2>5
    <3> HIDE DEF T
    <3>2. Len(d) = Len(c) + 1 /\ d[Len(d)] = E /\ d \in Seq(T)
      BY <3>1
    <3>3. Extended(d, s) = [d EXCEPT ![Len(d)] = s]
      BY <2>5, <3>2 DEF Extended
    <3>4. [d EXCEPT ![Len(d)] = s] = Append(c, s)
      BY <3>1, AppendLast
    <3>5. QED
      BY <3>3, <3>4
  <2>7. QED
    BY <2>1, <2>3, <2>6 DEF c
<1> HIDE DEF S, P
<1>5. <<>> \in A
  OBVIOUS
<1>6. ASSUME NEW q \in Seq(S), NEW s \in S, q \in A PROVE Append(q, s) \in A
  <2>1. Append(q, s) \in Seq(S)
    OBVIOUS
  <2>2. Joined(Append(q, s)) = JoinStep(Joined(q), s)
    BY <1>2
  <2>3. CASE q = <<>> /\ s # E
    <3>1. Append(q, s) = <<s>>
      BY <2>3
    <3>2. Joined(Append(q, s)) = s
      BY <1>1, <2>2, <2>3 DEF JoinStep
    <3>3. Good(Append(q, s))
      BY <1>3, <2>3, <3>1, <3>2
    <3>4. QED
      BY <2>1, <3>3
  <2>4. CASE q = <<>> /\ s = E
    <3>1. Append(q, s)[1] = E
      BY <2>4
    <3>2. QED
      BY <2>1, <3>1
  <2>5. CASE q # <<>> /\ q[1] = E
    <3>1. Append(q, s)[1] = E
      BY <2>5
    <3>2. QED
      BY <2>1, <3>1
  <2>6. CASE q # <<>> /\ q[1] # E
    <3>1. Good(q)
      BY <1>6, <2>6
    <3>2. Joined(Append(q, s)) = Joined(q) \o <<"/">> \o s
      BY <2>2, <3>1 DEF JoinStep
    <3>3. Segments(Joined(Append(q, s))) = Append(q, s)
      BY <1>2, <1>4, <3>1, <3>2
    <3>4. Joined(Append(q, s)) # E
      <4>1. Joined(q) \in Seq(P) /\ s \in Seq(P)
        BY <1>2 DEF S, P
      <4>2. QED
        BY <3>2, <4>1 DEF E, P
    <3>5. QED
      BY <2>1, <3>3, <3>4
  <2>7. QED
    BY <2>3, <2>4, <2>5, <2>6
<1>7. Seq(S) \subseteq A
  <2> HIDE DEF A
  <2>1. QED
    BY <1>5, <1>6, SequenceInduction
<1>8. QED
  BY <1>7 DEF S

\* What stands in paths; the literals are those of the adapters.
Literals == {"p", "-", "simple", "files", "upstream", "_", "@v", "@latest", "list",
             "manifests", "blobs", ".zip", ".bin", "npm", "pypi", "goproxy"}
Word == (STRING \union Literals) \ {"/"}

\* Normal forms are words, and their own normal forms.
LEMMA NormalForm ==
  ASSUME NEW seg \in Seq(Word)
  PROVE  /\ Normalize(seg) \in Seq(Word)
         /\ Normalize(Normalize(seg)) = Normalize(seg)
         /\ seg # E => Normalize(seg) # E
<1> DEFINE D == {w \in Word : w \notin DOMAIN Normal}
<1>1. ASSUME NEW w \in Word PROVE Normal1(w) \in Seq(D) /\ Normal1(w) # E
  <2>1. CASE w \in DOMAIN Normal
    <3> DEFINE n == Normal[w]
    <3>1. n \in Seq(STRING) /\ n # E /\ ToSet(n) \cap (DOMAIN Normal \union {"/"}) = {}
      BY <2>1, PathsAssumption
    <3> HIDE DEF n
    <3>2. ASSUME NEW i \in 1..Len(n) PROVE n[i] \in D
      <4>1. n[i] \in STRING /\ n[i] \in ToSet(n)
        BY <3>1 DEF ToSet
      <4>2. n[i] \notin DOMAIN Normal /\ n[i] # "/"
        BY <3>1, <4>1
      <4>3. QED
        BY <4>1, <4>2 DEF Word
    <3> HIDE DEF D
    <3>3. n \in Seq(D)
      BY <3>1, <3>2
    <3>4. QED
      BY <2>1, <3>1, <3>3 DEF Normal1, n
  <2>2. CASE w \notin DOMAIN Normal
    <3>1. w \in D
      BY <2>2
    <3> HIDE DEF D
    <3>2. QED
      BY <2>2, <3>1 DEF Normal1, E
  <2>3. QED
    BY <2>1, <2>2
<1>2. D \subseteq Word
  OBVIOUS
<1> HIDE DEF D
<1>3. \A w \in Word : Normal1(w) \in Seq(Word)
  BY <1>1, <1>2
<1>4. /\ Normalize(<<>>) = E
      /\ \A t \in Seq(Word), w \in Word : Normalize(Append(t, w)) = Normalize(t) \o Normal1(w)
  BY <1>3, NormalizeBuilds
<1> DEFINE A == {t \in Seq(Word) : Normalize(t) \in Seq(D) /\ (t = <<>> \/ Normalize(t) # E)}
           B == {t \in Seq(D) : Normalize(t) = t}
<1>5. Seq(Word) \subseteq A
  <2>1. <<>> \in A
    <3>1. <<>> \in Seq(Word) /\ <<>> \in Seq(D) /\ Normalize(<<>>) = <<>>
      BY <1>4 DEF E
    <3>2. QED
      BY <3>1
  <2>2. ASSUME NEW t \in Seq(Word), NEW w \in Word, t \in A PROVE Append(t, w) \in A
    <3>1. Normalize(Append(t, w)) = Normalize(t) \o Normal1(w) /\ Append(t, w) \in Seq(Word)
      BY <1>4
    <3> DEFINE a == Normalize(t)  b == Normal1(w)
    <3>2. a \in Seq(D) /\ b \in Seq(D) /\ b # E
      BY <1>1, <2>2
    <3> HIDE DEF a, b
    <3>3. a \o b \in Seq(D) /\ a \o b # E
      BY <3>2 DEF E
    <3>4. QED
      BY <3>1, <3>3 DEF a, b
  <2> HIDE DEF A
  <2>3. QED
    BY <2>1, <2>2, SequenceInduction
<1>6. Seq(D) \subseteq B
  <2>1. <<>> \in B
    BY <1>4 DEF E
  <2>2. ASSUME NEW t \in Seq(D), NEW w \in D, t \in B PROVE Append(t, w) \in B
    <3>1. t \in Seq(Word) /\ w \in Word /\ Append(t, w) \in Seq(D)
      BY <1>2
    <3>2. Normalize(Append(t, w)) = t \o Normal1(w)
      BY <1>4, <2>2, <3>1
    <3>3. Normal1(w) = <<w>>
      BY DEF Normal1, D
    <3>4. t \o <<w>> = Append(t, w)
      OBVIOUS
    <3>5. QED
      BY <3>1, <3>2, <3>3, <3>4
  <2> HIDE DEF B
  <2>3. QED
    BY <2>1, <2>2, SequenceInduction
<1>7. seg \in A /\ Seq(D) \subseteq Seq(Word)
  BY <1>2, <1>5
<1>8. Normalize(seg) \in B
  BY <1>6, <1>7
<1>9. QED
  BY <1>7, <1>8 DEF E

\* Escape and Unescape, piece by piece.
Unescape1(piece) == IF piece \in DOMAIN Unescaped THEN Unescaped[piece] ELSE piece
Reals == {Unescaped[e] : e \in DOMAIN Unescaped}
Escape1(piece) ==
  IF piece \in Reals THEN CHOOSE e \in DOMAIN Unescaped : Unescaped[e] = piece ELSE piece
Real == Word \union Reals

\* Escape and Unescape as functions.
LEMMA EscapeIs ==
  /\ \A seg : Escape(seg) = [j \in DOMAIN seg |-> Escape1(seg[j])]
  /\ \A path : Unescape(path) = [i \in DOMAIN path |-> [j \in DOMAIN path[i] |-> Unescape1(path[i][j])]]
<1>1. ASSUME NEW seg PROVE Escape(seg) = [j \in DOMAIN seg |-> Escape1(seg[j])]
  <2> DEFINE inverse == [real \in Reals |->
                           CHOOSE e \in DOMAIN Unescaped : Unescaped[e] = real]
             at(p) == IF p \in DOMAIN inverse THEN inverse[p] ELSE p
  <2>1. Escape(seg) = [j \in DOMAIN seg |-> at(seg[j])]
    BY DEF Escape, Reals
  <2>2. ASSUME NEW p PROVE at(p) = Escape1(p)
    BY DEF Escape1
  <2> HIDE DEF at
  <2>3. QED
    BY <2>1, <2>2
<1>2. ASSUME NEW path
      PROVE  Unescape(path) = [i \in DOMAIN path |-> [j \in DOMAIN path[i] |-> Unescape1(path[i][j])]]
  BY DEF Unescape, Unescape1
<1>3. QED
  BY <1>1, <1>2

\* Escaping a piece undoes unescaping it, unless that failed.
LEMMA EscapedPiece ==
  /\ "/" \notin Real /\ Escape1("/") = "/"
  /\ \A w \in Word : /\ Unescape1(w) \in Real
                     /\ Unescape1(w) # Malformed => Escape1(Unescape1(w)) = w
<1>1. "/" \notin Reals
  BY PathsAssumption DEF Reals
<1>2. ASSUME NEW w \in Word PROVE Unescape1(w) \in Real
  BY DEF Unescape1, Real, Reals
<1>3. ASSUME NEW w \in Word, Unescape1(w) # Malformed PROVE Escape1(Unescape1(w)) = w
  <2>1. CASE w \in DOMAIN Unescaped
    <3> DEFINE u == Unescaped[w]
    <3>1. u \in Reals /\ Unescape1(w) = u
      BY <2>1 DEF Reals, Unescape1
    <3>2. \A e \in DOMAIN Unescaped : Unescaped[e] = u => e = w
      BY <1>3, <2>1, <3>1, PathsAssumption
    <3>3. (CHOOSE e \in DOMAIN Unescaped : Unescaped[e] = u) = w
      BY <2>1, <3>2
    <3> HIDE DEF u
    <3>4. QED
      BY <3>1, <3>3 DEF Escape1
  <2>2. CASE w \notin DOMAIN Unescaped
    <3>1. Unescape1(w) = w
      BY <2>2 DEF Unescape1
    <3>2. w \notin Reals
      BY <1>3, <2>2, <3>1, PathsAssumption DEF Reals
    <3>3. QED
      BY <3>1, <3>2 DEF Escape1
  <2>3. QED
    BY <2>1, <2>2
<1>4. QED
  BY <1>1, <1>2, <1>3 DEF Real, Word, Escape1

\* Sequences are the same if their elements are.
LEMMA SameSequence ==
  ASSUME NEW S, NEW s \in Seq(S), NEW t \in Seq(S), Len(s) = Len(t),
         \A i \in 1..Len(t) : s[i] = t[i]
  PROVE  s = t
OBVIOUS

Slashed(a, b) == a \o <<"/">> \o b

Splices(S, t, a, b) ==
  /\ t \in Seq(S) /\ Len(t) = Len(a) + 1 + Len(b) /\ Len(a) \in Nat /\ Len(b) \in Nat
  /\ \A i \in 1..Len(a) : t[i] = a[i]
  /\ t[Len(a) + 1] = "/"
  /\ \A i \in 1..Len(b) : t[Len(a) + 1 + i] = b[i]

\* What stands where in two texts around a slash.
LEMMA SlashedIs ==
  ASSUME NEW S, "/" \in S, NEW a \in Seq(S), NEW b \in Seq(S)
  PROVE  Splices(S, Slashed(a, b), a, b)
BY DEF Slashed, Splices

\* Escape keeps slashes.
LEMMA EscapeConcat ==
  ASSUME NEW S, "/" \in S, NEW a \in Seq(S), NEW b \in Seq(S)
  PROVE  /\ Escape(Slashed(a, b)) = Slashed(Escape(a), Escape(b))
         /\ \A x \in ToSet(a) \union ToSet(b) : x \in ToSet(Slashed(a, b))
<1> DEFINE t == Slashed(a, b)
           ea == Escape(a)  eb == Escape(b)  et == Escape(t)
           u == Slashed(ea, eb)
           T == {Escape1(x) : x \in S}
<1>1. /\ t \in Seq(S) /\ Len(t) = Len(a) + 1 + Len(b) /\ Len(a) \in Nat /\ Len(b) \in Nat
      /\ \A i \in 1..Len(a) : t[i] = a[i]
      /\ t[Len(a) + 1] = "/"
      /\ \A i \in 1..Len(b) : t[Len(a) + 1 + i] = b[i]
  <2>1. Splices(S, t, a, b)
    BY SlashedIs
  <2> HIDE DEF t
  <2>2. QED
    BY <2>1 DEF Splices
<1>2. ASSUME NEW s \in Seq(S)
      PROVE  /\ Escape(s) \in Seq(T) /\ Len(Escape(s)) = Len(s)
             /\ \A i \in 1..Len(s) : Escape(s)[i] = Escape1(s[i])
  <2>1. Escape(s) = [j \in 1..Len(s) |-> Escape1(s[j])]
    BY EscapeIs
  <2>2. \A j \in 1..Len(s) : Escape1(s[j]) \in T
    OBVIOUS
  <2> HIDE DEF T
  <2>3. QED
    BY <2>1, <2>2
<1>3. "/" \in T
  BY EscapedPiece
<1> HIDE DEF t, T
<1>4. /\ ea \in Seq(T) /\ Len(ea) = Len(a) /\ \A i \in 1..Len(a) : ea[i] = Escape1(a[i])
      /\ eb \in Seq(T) /\ Len(eb) = Len(b) /\ \A i \in 1..Len(b) : eb[i] = Escape1(b[i])
      /\ et \in Seq(T) /\ Len(et) = Len(t) /\ \A i \in 1..Len(t) : et[i] = Escape1(t[i])
  BY <1>1, <1>2
<1> HIDE DEF ea, eb, et
<1>5. /\ u \in Seq(T) /\ Len(u) = Len(ea) + 1 + Len(eb)
      /\ \A i \in 1..Len(ea) : u[i] = ea[i]
      /\ u[Len(ea) + 1] = "/"
      /\ \A i \in 1..Len(eb) : u[Len(ea) + 1 + i] = eb[i]
  <2>1. Splices(T, u, ea, eb)
    BY <1>3, <1>4, SlashedIs
  <2> HIDE DEF u
  <2>2. QED
    BY <2>1 DEF Splices
<1> HIDE DEF u
<1>6. et = u
  <2>1. ASSUME NEW i \in 1..Len(t) PROVE et[i] = u[i]
    <3>1. CASE i \in 1..Len(a)
      BY <1>1, <1>4, <1>5, <3>1
    <3>2. CASE i = Len(a) + 1
      BY <1>1, <1>4, <1>5, <3>2, EscapedPiece
    <3>3. CASE i - (Len(a) + 1) \in 1..Len(b)
      <4> DEFINE j == i - (Len(a) + 1)
      <4>1. i = Len(a) + 1 + j /\ j \in 1..Len(b)
        BY <1>1, <3>3
      <4> HIDE DEF j
      <4>2. QED
        BY <1>1, <1>4, <1>5, <4>1
    <3>4. QED
      BY <1>1, <3>1, <3>2, <3>3
  <2>2. Len(u) = Len(t)
    BY <1>1, <1>4, <1>5
  <2>3. QED
    BY <1>4, <1>5, <2>1, <2>2, SameSequence
<1>7. \A x \in ToSet(a) \union ToSet(b) : x \in ToSet(t)
  <2> DEFINE n == Len(a) + 1
  <2>1. DOMAIN a = 1..Len(a) /\ DOMAIN b = 1..Len(b) /\ DOMAIN t = 1..(n + Len(b))
    BY <1>1
  <2>2. ASSUME NEW i \in 1..Len(a) PROVE a[i] \in ToSet(t)
    <3>1. t[i] = a[i] /\ i \in DOMAIN t
      BY <1>1, <2>1
    <3>2. QED
      BY <3>1 DEF ToSet
  <2>3. ASSUME NEW i \in 1..Len(b) PROVE b[i] \in ToSet(t)
    <3>1. n + i \in 1..(n + Len(b)) /\ t[n + i] = b[i]
      BY <1>1
    <3>2. QED
      BY <2>1, <3>1 DEF ToSet
  <2>4. QED
    BY <2>1, <2>2, <2>3 DEF ToSet
<1>8. QED
  BY <1>6, <1>7 DEF t, u, et, ea, eb

UnescapeWord(s) == [j \in DOMAIN s |-> Unescape1(s[j])]

\* The same for a segment of a path.
LEMMA UnescapedWord ==
  ASSUME NEW s \in Seq(Word)
  PROVE  /\ UnescapeWord(s) \in Seq(Real)
         /\ UnescapeWord(s) = E <=> s = E
         /\ Malformed \notin ToSet(UnescapeWord(s)) => Escape(UnescapeWord(s)) = s
<1> DEFINE u == UnescapeWord(s)
<1>1. u = [j \in 1..Len(s) |-> Unescape1(s[j])] /\ Len(s) \in Nat
  BY DEF UnescapeWord
<1>2. \A j \in 1..Len(s) : s[j] \in Word /\ Unescape1(s[j]) \in Real
  BY EscapedPiece
<1> HIDE DEF u
<1>3. u \in Seq(Real) /\ Len(u) = Len(s)
  BY <1>1, <1>2
<1>4. u = E <=> s = E
  BY <1>3 DEF E
<1>5. ASSUME Malformed \notin ToSet(u) PROVE Escape(u) = s
  <2>1. Escape(u) = [j \in 1..Len(s) |-> Escape1(u[j])]
    BY <1>3, EscapeIs
  <2>2. ASSUME NEW j \in 1..Len(s) PROVE Escape1(u[j]) = s[j]
    <3>1. u[j] = Unescape1(s[j]) /\ s[j] \in Word /\ u[j] \in ToSet(u)
      BY <1>1, <1>2 DEF ToSet
    <3>2. QED
      BY <1>5, <3>1, EscapedPiece
  <2>3. s = [j \in 1..Len(s) |-> s[j]]
    OBVIOUS
  <2>4. QED
    BY <2>1, <2>2, <2>3
<1>6. QED
  BY <1>3, <1>4, <1>5 DEF u

\* The upstream is asked for the path that came.
LEMMA Reescaped ==
  ASSUME NEW path \in Seq(Seq(Word)), path # <<>>, path[1] # E,
         Malformed \notin ToSet(Joined(Unescape(path)))
  PROVE  Segments(Escape(Joined(Unescape(path)))) = path
<1> DEFINE S == Seq(Word)
           R == Seq(Real)
           Bad(q) == Malformed \in ToSet(Joined(Unescape(q)))
           Good(q) == Escape(Joined(Unescape(q))) = Joined(q)
           A == {q \in Seq(S) : q = <<>> \/ q[1] = E \/ Bad(q) \/ Good(q)}
<1>1. \A s \in S : UnescapeWord(s) \in R
  BY UnescapedWord
<1>2. ASSUME NEW q \in Seq(S)
      PROVE  /\ Unescape(q) \in Seq(R)
             /\ q # <<>> => Unescape(q) # <<>> /\ Unescape(q)[1] = UnescapeWord(q[1])
             /\ \A s \in S : Unescape(Append(q, s)) = Append(Unescape(q), UnescapeWord(s))
  <2>1. \A t \in Seq(S) : Unescape(t) = [i \in 1..Len(t) |-> UnescapeWord(t[i])]
    BY EscapeIs DEF UnescapeWord
  <2> HIDE DEF R, S
  <2>2. \A t \in Seq(S) : Unescape(t) \in Seq(R) /\ Len(Unescape(t)) = Len(t)
    BY <1>1, <2>1
  <2>3. q # <<>> => Unescape(q) # <<>> /\ Unescape(q)[1] = UnescapeWord(q[1])
    <3>1. q # <<>> => 1 \in 1..Len(q)
      OBVIOUS
    <3>2. QED
      BY <2>1, <2>2, <3>1
  <2>4. ASSUME NEW s \in S PROVE Unescape(Append(q, s)) = Append(Unescape(q), UnescapeWord(s))
    <3> DEFINE t == Append(q, s)
               a == Unescape(t)  b == Append(Unescape(q), UnescapeWord(s))
    <3>1. t \in Seq(S) /\ Len(t) = Len(q) + 1 /\ t[Len(q) + 1] = s /\ Len(q) \in Nat
          /\ \A i \in 1..Len(q) : t[i] = q[i]
      OBVIOUS
    <3>2. /\ b \in Seq(R) /\ Len(b) = Len(q) + 1 /\ b[Len(q) + 1] = UnescapeWord(s)
          /\ \A i \in 1..Len(q) : b[i] = Unescape(q)[i]
      BY <1>1, <2>2
    <3> HIDE DEF t, b
    <3>3. ASSUME NEW i \in 1..(Len(q) + 1) PROVE a[i] = b[i]
      <4>1. a[i] = UnescapeWord(t[i])
        BY <2>1, <3>1
      <4>2. CASE i = Len(q) + 1
        BY <3>1, <3>2, <4>1, <4>2
      <4>3. CASE i \in 1..Len(q)
        BY <2>1, <3>1, <3>2, <4>1, <4>3
      <4>4. QED
        BY <3>1, <4>2, <4>3
    <3>4. a \in Seq(R) /\ Len(a) = Len(q) + 1
      BY <2>2, <3>1
    <3> HIDE DEF a
    <3>5. a = b
      BY <3>2, <3>3, <3>4, SameSequence
    <3>6. QED
      BY <3>5 DEF a, b, t
  <2>5. QED
    BY <2>2, <2>3, <2>4
<1>3. \A q \in Seq(S), s \in S :
        /\ Joined(Append(q, s)) = JoinStep(Joined(q), s)
        /\ Joined(Unescape(Append(q, s))) = JoinStep(Joined(Unescape(q)), UnescapeWord(s))
  <2>1. \A q \in Seq(S), s \in S : Joined(Append(q, s)) = JoinStep(Joined(q), s)
    BY JoinedBuilds
  <2>2. \A q \in Seq(R), s \in R : Joined(Append(q, s)) = JoinStep(Joined(q), s)
    BY JoinedBuilds
  <2> HIDE DEF S, R
  <2>3. QED
    BY <1>1, <1>2, <2>1, <2>2
<1>4. ASSUME NEW s \in S, Malformed \notin ToSet(UnescapeWord(s)) PROVE Escape(UnescapeWord(s)) = s
  BY <1>4, UnescapedWord
<1>5. ASSUME NEW q \in Seq(S), q # <<>>, q[1] # E
      PROVE  Joined(q) # E /\ Joined(Unescape(q)) # E
  <2>1. "/" \notin Word /\ "/" \notin Real
    BY EscapedPiece DEF Word
  <2>2. Joined(q) # E
    BY <1>5, <2>1, Rejoined
  <2>3. q[1] \in S
    <3> HIDE DEF S
    <3>1. QED
      BY <1>5
  <2>4. Unescape(q) # <<>> /\ Unescape(q)[1] # E /\ Unescape(q) \in Seq(Seq(Real))
    BY <1>2, <1>5, <2>3, UnescapedWord
  <2>5. Joined(Unescape(q)) # E
    BY <2>1, <2>4, Rejoined
  <2>6. QED
    BY <2>2, <2>5
<1>6. ASSUME NEW q \in Seq(S) PROVE Joined(Unescape(q)) \in Seq(Real \union {"/"})
  BY <1>2, JoinedBuilds
<1> HIDE DEF S
<1>7. <<>> \in A
  OBVIOUS
<1>8. ASSUME NEW q \in Seq(S), NEW s \in S, q \in A PROVE Append(q, s) \in A
  <2>1. Append(q, s) \in Seq(S)
    OBVIOUS
  <2> DEFINE u == UnescapeWord(s)
  <2>2. CASE q = <<>>
    <3>1. Append(q, s)[1] = s
      BY <2>2
    <3>2. Joined(<<>>) = E /\ Unescape(<<>>) = <<>>
      <4>1. Joined(<<>>) = E
        BY JoinedBuilds
      <4>2. Unescape(<<>>) = <<>>
        BY DEF Unescape
      <4>3. QED
        BY <4>1, <4>2
    <3>3. Joined(Append(q, s)) = s /\ Joined(Unescape(Append(q, s))) = u
      BY <1>3, <2>2, <3>2 DEF JoinStep
    <3>4. Bad(Append(q, s)) \/ Good(Append(q, s))
      BY <1>4, <3>3
    <3>5. QED
      BY <2>1, <3>4
  <2>3. CASE q # <<>> /\ q[1] = E
    <3>1. Append(q, s)[1] = E
      BY <2>3
    <3>2. QED
      BY <2>1, <3>1
  <2>4. CASE q # <<>> /\ q[1] # E
    <3> DEFINE a == Joined(Unescape(q))
               P == Real \union {"/"}
    <3>1. Joined(Append(q, s)) = Slashed(Joined(q), s)
          /\ Joined(Unescape(Append(q, s))) = Slashed(a, u)
      BY <1>3, <1>5, <2>4 DEF JoinStep, Slashed
    <3>2. a \in Seq(P) /\ u \in Seq(P) /\ "/" \in P
      <4>1. u \in Seq(Real)
        BY <1>1
      <4>2. QED
        BY <1>6, <4>1
    <3>3. /\ Escape(Slashed(a, u)) = Slashed(Escape(a), Escape(u))
          /\ \A x \in ToSet(a) \union ToSet(u) : x \in ToSet(Slashed(a, u))
      BY <3>2, EscapeConcat
    <3>4. Bad(q) \/ Good(q)
      BY <1>8, <2>4
    <3>5. Bad(Append(q, s)) \/ Good(Append(q, s))
      <4>1. CASE Malformed \in ToSet(a) \union ToSet(u)
        BY <3>1, <3>3, <4>1
      <4>2. CASE Malformed \notin ToSet(a) \union ToSet(u)
        <5>1. Escape(a) = Joined(q) /\ Escape(u) = s
          BY <1>4, <3>4, <4>2
        <5>2. QED
          BY <3>1, <3>3, <5>1
      <4>3. QED
        BY <4>1, <4>2
    <3>6. QED
      BY <2>1, <3>5
  <2>5. QED
    BY <2>2, <2>3, <2>4
<1>9. Seq(S) \subseteq A
  <2> HIDE DEF A
  <2>1. QED
    BY <1>7, <1>8, SequenceInduction
<1>10. Good(path)
  BY <1>9 DEF S
<1>11. Segments(Joined(path)) = path
  BY Rejoined DEF Word
<1>12. QED
  BY <1>10, <1>11

\* A path below p is p and what follows.
LEMMA UnderSplits ==
  ASSUME NEW U, NEW p \in Seq(U), NEW path \in Seq(U), Under(p, path)
  PROVE  /\ SubSeq(path, Len(p) + 1, Len(path)) \in Seq(U) \ {<<>>}
         /\ Len(SubSeq(path, Len(p) + 1, Len(path))) = Len(path) - Len(p)
         /\ \A i \in 1..(Len(path) - Len(p)) :
              SubSeq(path, Len(p) + 1, Len(path))[i] = path[Len(p) + i]
         /\ path = p \o SubSeq(path, Len(p) + 1, Len(path))
<1> DEFINE q == SubSeq(path, Len(p) + 1, Len(path))
           n == Len(path) - Len(p)
<1>1. Len(p) \in Nat /\ Len(path) \in Nat /\ Len(p) < Len(path)
      /\ SubSeq(p, 1, Len(p)) = SubSeq(path, 1, Len(p))
  BY DEF Under, IsPrefix
<1>2. q \in Seq(U) /\ Len(q) = n /\ \A i \in 1..n : q[i] = path[Len(p) + i]
  BY <1>1
<1> HIDE DEF q
<1>3. \A i \in 1..Len(p) : p[i] = path[i]
  <2>1. ASSUME NEW i \in 1..Len(p) PROVE p[i] = path[i]
    <3>1. SubSeq(p, 1, Len(p))[i] = p[i] /\ SubSeq(path, 1, Len(p))[i] = path[i]
      BY <1>1
    <3>2. QED
      BY <1>1, <3>1
  <2>2. QED
    BY <2>1
<1>4. path = p \o q
  <2> DEFINE t == p \o q
  <2>1. /\ t \in Seq(U) /\ Len(t) = Len(path)
        /\ \A i \in 1..Len(p) : t[i] = p[i]
        /\ \A i \in 1..n : t[Len(p) + i] = q[i]
    BY <1>1, <1>2
  <2> HIDE DEF t
  <2>2. ASSUME NEW i \in 1..Len(path) PROVE t[i] = path[i]
    <3>1. CASE i <= Len(p)
      BY <1>1, <1>3, <2>1, <3>1
    <3>2. CASE i > Len(p)
      <4>1. i - Len(p) \in 1..n /\ Len(p) + (i - Len(p)) = i
        BY <1>1, <3>2
      <4>2. QED
        BY <1>2, <2>1, <4>1
    <3>3. QED
      BY <1>1, <3>1, <3>2
  <2>3. t = path
    BY <2>1, <2>2, SameSequence
  <2>4. QED
    BY <2>3 DEF t
<1>5. q # <<>>
  BY <1>1, <1>2
<1>6. QED
  BY <1>2, <1>4, <1>5 DEF q

\* And p with more after it is below p.
LEMMA UnderJoined ==
  ASSUME NEW U, NEW p \in Seq(U), NEW q \in Seq(U), q # <<>>
  PROVE  /\ Under(p, p \o q) /\ p \o q \in Seq(U)
         /\ Len(p \o q) = Len(p) + Len(q)
         /\ \A i \in 1..Len(p) : (p \o q)[i] = p[i]
         /\ SubSeq(p \o q, Len(p) + 1, Len(p \o q)) = q
<1> DEFINE t == p \o q
           s == SubSeq(t, Len(p) + 1, Len(t))
<1>1. /\ t \in Seq(U) /\ Len(t) = Len(p) + Len(q) /\ Len(p) \in Nat /\ Len(q) \in Nat
      /\ \A i \in 1..Len(p) : t[i] = p[i]
      /\ \A i \in 1..Len(q) : t[Len(p) + i] = q[i]
  OBVIOUS
<1>2. Len(q) # 0
  OBVIOUS
<1> HIDE DEF t
<1>3. SubSeq(p, 1, Len(p)) = SubSeq(t, 1, Len(p))
  BY <1>1
<1>4. Under(p, t)
  BY <1>1, <1>2, <1>3 DEF Under, IsPrefix
<1>5. s \in Seq(U) /\ Len(s) = Len(q) /\ \A i \in 1..Len(q) : s[i] = t[Len(p) + i]
  BY <1>1
<1> HIDE DEF s
<1>6. s = q
  BY <1>1, <1>5, SameSequence
<1>7. QED
  BY <1>1, <1>4, <1>6 DEF s, t

\* Two prefixes of one path are prefixes of one another.
LEMMA Nested ==
  ASSUME NEW U, NEW p \in Seq(U), NEW q \in Seq(U), NEW path \in Seq(U),
         Under(p, path), Under(q, path), Len(p) <= Len(q)
  PROVE  IsPrefix(p, q)
<1>1. /\ Len(p) \in Nat /\ Len(q) \in Nat /\ Len(path) \in Nat
      /\ Len(p) < Len(path) /\ Len(q) < Len(path)
      /\ SubSeq(p, 1, Len(p)) = SubSeq(path, 1, Len(p))
      /\ SubSeq(q, 1, Len(q)) = SubSeq(path, 1, Len(q))
  BY DEF Under, IsPrefix
<1>2. ASSUME NEW i \in 1..Len(p) PROVE q[i] = path[i]
  <2>1. i \in 1..Len(q)
    BY <1>1
  <2>2. SubSeq(q, 1, Len(q))[i] = q[i] /\ SubSeq(path, 1, Len(q))[i] = path[i]
    BY <1>1, <2>1
  <2>3. QED
    BY <1>1, <2>2
<1>3. SubSeq(q, 1, Len(p)) = SubSeq(path, 1, Len(p))
  BY <1>1, <1>2
<1>4. QED
  BY <1>1, <1>3 DEF IsPrefix

-----------------------------------------------------------------------------
(* Where an ask comes out.                                                 *)

\* A path without empty segments, except that it may end in a slash.
Cleaned(path) ==
  /\ path \in Seq(Seq(Word)) /\ path # <<>>
  /\ \A i \in 1..Len(path) : path[i] = E => i = Len(path)

Prefix(c, i) == Trimmed(c.registries[i].prefix)

\* A prefix of a configuration that starts is a path, and not /admin.
LEMMA PrefixIs ==
  ASSUME NEW c \in Configs, Starts(c), NEW i \in DOMAIN c.registries
  PROVE  /\ Prefix(c, i) \in Seq(Segment) /\ Len(Prefix(c, i)) >= 1
         /\ Prefix(c, i) # <<<<"admin">>>>
         /\ Builds(c.registries[i]) /\ ValidRegistry(c.registries[i])
<1>1. /\ Builds(c.registries[i]) /\ ValidRegistry(c.registries[i])
      /\ Mounts(c.registries[i])
  BY DEF Starts, Valid
<1>2. c.registries[i].prefix \in Seq(Segment)
  BY FrontDoorAssumption DEF Segment
<1>3. Prefix(c, i) # E
  BY <1>1 DEF ValidRegistry, Prefix
<1>4. Prefix(c, i) \in Seq(Segment) /\ Len(Prefix(c, i)) >= 1
  BY <1>2, <1>3, TrimmedHead DEF Prefix
<1>5. QED
  BY <1>1, <1>4 DEF Mounts, Prefix

\* No two registries have a path in common.
LEMMA OneMounted ==
  ASSUME NEW c \in Configs, Starts(c), Flat(c), NEW U, Segment \subseteq U,
         NEW path \in Seq(U), NEW i \in Mounted(c, path)
  PROVE  /\ i \in DOMAIN c.registries /\ Mounted(c, path) = {i}
         /\ Longest(c, Mounted(c, path)) = i /\ Under(Prefix(c, i), path)
<1>1. \A j \in Mounted(c, path) : j \in DOMAIN c.registries /\ Under(Prefix(c, j), path)
  BY DEF Mounted, Prefix
<1>2. ASSUME NEW j \in Mounted(c, path) PROVE j = i
  <2>1. /\ Prefix(c, i) \in Seq(U) /\ Prefix(c, j) \in Seq(U)
        /\ Len(Prefix(c, i)) \in Nat /\ Len(Prefix(c, j)) \in Nat
    <3>1. Prefix(c, i) \in Seq(Segment) /\ Prefix(c, j) \in Seq(Segment)
      BY <1>1, PrefixIs
    <3>2. QED
      BY <3>1
  <2>2. \/ IsPrefix(Prefix(c, i), Prefix(c, j))
        \/ IsPrefix(Prefix(c, j), Prefix(c, i))
    <3>1. CASE Len(Prefix(c, i)) <= Len(Prefix(c, j))
      BY <1>1, <2>1, <3>1, Nested
    <3>2. CASE Len(Prefix(c, j)) <= Len(Prefix(c, i))
      BY <1>1, <2>1, <3>2, Nested
    <3>3. QED
      BY <2>1, <3>1, <3>2
  <2>3. QED
    BY <1>1, <2>2 DEF Flat, Prefix
<1>3. Mounted(c, path) = {i}
  BY <1>2
<1>4. Longest(c, {i}) = i
  <2>1. /\ Len(Trimmed(c.registries[i].prefix)) \in Nat
    BY <1>1, PrefixIs DEF Prefix
  <2>2. \A j \in {i} : \A k \in {i} :
          Len(Trimmed(c.registries[j].prefix)) >= Len(Trimmed(c.registries[k].prefix))
    BY <2>1
  <2>3. QED
    BY <2>2 DEF Longest
<1>5. QED
  BY <1>1, <1>3, <1>4

\* The rest of a clean path is clean.
LEMMA CleanBelow ==
  ASSUME NEW p \in Seq(Segment), NEW path, Cleaned(path), Under(p, path)
  PROVE  Cleaned(SubSeq(path, Len(p) + 1, Len(path)))
<1> DEFINE q == SubSeq(path, Len(p) + 1, Len(path))
           n == Len(path) - Len(p)
           U == Segment \union Seq(Word)
<1>1. path \in Seq(Seq(Word)) /\ Len(path) \in Nat /\ Len(p) \in Nat
  BY DEF Cleaned
<1>2. q \in Seq(U) \ {<<>>} /\ Len(q) = n /\ \A i \in 1..n : q[i] = path[Len(p) + i]
  <2>1. path \in Seq(U) /\ p \in Seq(U)
    BY <1>1
  <2> HIDE DEF U
  <2>2. QED
    BY <2>1, UnderSplits
<1> HIDE DEF q
<1>3. \A i \in 1..n : Len(p) + i \in 1..Len(path) /\ (Len(p) + i = Len(path) => i = n)
  BY <1>1
<1>4. q \in Seq(Seq(Word))
  <2> DEFINE S == Seq(Word)
  <2>1. \A i \in 1..n : q[i] \in S
    BY <1>1, <1>2, <1>3
  <2>2. q \in Seq(U) /\ Len(q) = n
    BY <1>2
  <2> HIDE DEF S, U
  <2>3. QED
    BY <2>1, <2>2 DEF S
<1>5. QED
  BY <1>2, <1>3, <1>4 DEF Cleaned, q

\* Registry i takes the ask.
Takes(c, a, i) ==
  /\ i \in DOMAIN c.registries /\ Registry(c, a) = c.registries[i]
  /\ Mounted(c, a.path) = {i} /\ Under(Prefix(c, i), a.path)
  /\ Cleaned(Below(c.registries[i], a))
  /\ TokenAuth(c, a) /\ ~AdminWins(c, a.path) /\ a.path # <<<<"healthz">>>>

\* One handler takes an ask; a registry takes it only below its prefix.
LEMMA MuxIs ==
  ASSUME NEW c \in Configs, Starts(c), NEW a \in Asks
  PROVE  /\ Mux(c, a) \in {"healthz", "redirect", "admin", "401", "registry", "webui"}
         /\ Mux(c, a) = "registry" => /\ Mounted(c, a.path) # {} /\ ~AdminWins(c, a.path)
                                      /\ a.path # <<<<"healthz">>>>
<1> DEFINE H == a.path = <<<<"healthz">>>>
           S == AddsSlash(c, a.path)
           W == AdminWins(c, a.path)
           M == Mounted(c, a.path) # {}
           T == AdminTokenAuth(c, a)
<1>4. H => ~W /\ ~M
  <2>1. H => Len(a.path) = 1
    OBVIOUS
  <2>2. W => Len(a.path) > 1
    BY DEF AdminWins, Under
  <2>3. M => Len(a.path) > 1
    <3>1. ASSUME NEW i \in DOMAIN c.registries, Under(Prefix(c, i), a.path)
          PROVE  Len(a.path) > 1
      <4>1. Len(Prefix(c, i)) >= 1 /\ Len(a.path) > Len(Prefix(c, i))
        BY <3>1, PrefixIs DEF Under
      <4>2. Len(Prefix(c, i)) \in Nat /\ Len(a.path) \in Nat
        <5>1. Prefix(c, i) \in Seq(Segment) /\ a.path \in Seq(Segment)
          BY PrefixIs, FrontDoorAssumption DEF Segment
        <5>2. QED
          BY <5>1
      <4>3. QED
        BY <4>1, <4>2
    <3>2. QED
      BY <3>1 DEF Mounted, Prefix
  <2>4. Len(a.path) = 1 => ~(Len(a.path) > 1)
    <3>1. a.path \in Seq(Segment)
      BY FrontDoorAssumption DEF Segment
    <3>2. QED
      BY <3>1
  <2> HIDE DEF H, W, M
  <2>5. QED
    BY <2>1, <2>2, <2>3, <2>4
<1>1. Mux(c, a) = (CASE H -> "healthz"
                     [] ~H /\ S -> "redirect"
                     [] W /\ ~S -> IF T THEN "admin" ELSE "401"
                     [] M /\ ~W /\ ~S -> "registry"
                     [] OTHER -> "webui")
  BY DEF Mux
<1> HIDE DEF H, S, W, M, T
<1>2. /\ Mux(c, a) \in {"healthz", "redirect", "admin", "401", "registry", "webui"}
      /\ Mux(c, a) = "registry" => ~H /\ ~W /\ M
  BY <1>1, <1>4
<1>3. QED
  BY <1>2 DEF H, W, M

\* An ask that gets to a registry is one that the registry takes.
LEMMA Reached ==
  ASSUME NEW c \in Configs, Starts(c), Flat(c), NEW a \in Asks, Reaches(c, a) = "registry"
  PROVE  \E i \in DOMAIN c.registries : Takes(c, a, i)
<1>1. TokenAuth(c, a) /\ a.path = a.cleaned /\ Mux(c, a) = "registry"
  BY DEF Reaches
<1>2. /\ Mounted(c, a.path) # {} /\ ~AdminWins(c, a.path)
      /\ a.path # <<<<"healthz">>>>
  BY <1>1, MuxIs
<1>3. a.path \in Seq(Segment)
  BY FrontDoorAssumption DEF Segment
<1>4. PICK i \in Mounted(c, a.path) : TRUE
  BY <1>2
<1>5. /\ i \in DOMAIN c.registries /\ Mounted(c, a.path) = {i}
      /\ Longest(c, Mounted(c, a.path)) = i /\ Under(Prefix(c, i), a.path)
  BY <1>3, OneMounted
<1>6. Cleaned(a.path)
  <2>1. a.path # <<>>
    <3>1. Len(a.path) > Len(Prefix(c, i)) /\ Len(Prefix(c, i)) >= 1
      BY <1>5, PrefixIs DEF Under
    <3>2. QED
      BY <3>1
  <2>2. \A j \in 1..Len(a.path) : a.path[j] = E => j = Len(a.path)
    BY <1>1, <1>3, FrontDoorAssumption
  <2>3. ASSUME NEW j \in 1..Len(a.path) PROVE a.path[j] \in Seq(Word)
    <3>1. a.path[j] \in Seq(STRING) /\ "/" \notin ToSet(a.path[j])
      BY <1>1, <1>3, FrontDoorAssumption DEF Segment
    <3>2. \A k \in 1..Len(a.path[j]) : a.path[j][k] \in ToSet(a.path[j])
      BY <3>1 DEF ToSet
    <3>3. QED
      BY <3>1, <3>2 DEF Word
  <2>4. a.path \in Seq(Seq(Word))
    BY <1>3, <2>3
  <2>5. QED
    BY <2>1, <2>2, <2>4 DEF Cleaned
<1>7. Cleaned(Below(c.registries[i], a))
  <2>1. Prefix(c, i) \in Seq(Segment)
    BY <1>5, PrefixIs
  <2>2. QED
    BY <1>5, <1>6, <2>1, CleanBelow DEF Below, Prefix
<1>8. QED
  BY <1>1, <1>2, <1>5, <1>7 DEF Registry, Takes

\* What the adapter of registry r says of the path below its prefix.
Says(r, method, below) ==
  CASE r.type = "npm" -> NpmServe(method, Remaining(below))
    [] r.type = "goproxy" -> GoServe(method, Remaining(below))
    [] r.type = "maven" -> Answer("501")
    [] r.type = "oci" -> OciServe(r.upstreams, below)
    [] r.type = "pypi" -> PypiServe(FileHosts(r), r.alias, method, Remaining(below))

Stamp(says, type, key) == [says EXCEPT !.reg = type, !.scope = key]

ServeAt(r, method, below) ==
  Stamp(Says(r, method, below), r.type, IF HasScopes(r) THEN ProjectKey(below) ELSE E)

\* Serve, split at the path below the prefix.
LEMMA ServeIs ==
  ASSUME NEW r, NEW ask
  PROVE  Serve(r, ask) = ServeAt(r, ask.method, Below(r, ask))
BY DEF Serve, ServeAt, Stamp, Says

\* When the mux picks a registry.
LEMMA MuxRegistry ==
  ASSUME NEW c, NEW b, b.path # <<<<"healthz">>>>, ~AddsSlash(c, b.path),
         ~AdminWins(c, b.path), Mounted(c, b.path) # {}
  PROVE  Mux(c, b) = "registry"
<1> DEFINE H == b.path = <<<<"healthz">>>>
           S == AddsSlash(c, b.path)
           W == AdminWins(c, b.path)
           M == Mounted(c, b.path) # {}
           T == AdminTokenAuth(c, b)
<1>1. Mux(c, b) = (CASE H -> "healthz"
                     [] ~H /\ S -> "redirect"
                     [] W /\ ~S -> IF T THEN "admin" ELSE "401"
                     [] M /\ ~W /\ ~S -> "registry"
                     [] OTHER -> "webui")
  BY DEF Mux
<1>2. ~H /\ ~S /\ ~W /\ M
  OBVIOUS
<1> HIDE DEF H, S, W, M, T
<1>3. QED
  BY <1>1, <1>2

\* A path of two segments is not one of one.
LEMMA LongPath ==
  ASSUME NEW U, NEW path \in Seq(U), Len(path) > 1, NEW s
  PROVE  path # <<s>>
<1> DEFINE t == <<s>>
<1>1. Len(t) = 1
  OBVIOUS
<1>2. Len(path) # 1
  <2>1. Len(path) \in Nat /\ \A n \in Nat : n > 1 => n # 1
    OBVIOUS
  <2>2. QED
    BY <2>1
<1> HIDE DEF t
<1>3. path # t
  BY <1>1, <1>2
<1>4. QED
  BY <1>3 DEF t

\* A link below the prefix of a registry is answered by that registry.
LEMMA FollowServed ==
  ASSUME NEW c \in Configs, Starts(c), Flat(c), NEW a \in Asks, NEW i, Takes(c, a, i),
         NEW T, NEW below \in Seq(T), below # <<>>, E \notin ToSet(below)
  PROVE  Follow(c, a, below) = ServeAt(c.registries[i], "GET", below)
<1> DEFINE p == Prefix(c, i)
           U == Segment \union T
           path == p \o below
           b == [a EXCEPT !.method = "GET", !.path = path, !.cleaned = path]
<1>1. i \in DOMAIN c.registries /\ Registry(c, a) = c.registries[i]
  BY DEF Takes
<1>2. /\ p \in Seq(Segment) /\ Len(p) >= 1 /\ p # <<<<"admin">>>> /\ Len(p) \in Nat
  <2>1. p \in Seq(Segment) /\ Len(p) >= 1 /\ p # <<<<"admin">>>>
    BY <1>1, PrefixIs
  <2> HIDE DEF p
  <2>2. QED
    BY <2>1
<1>3. /\ b.method = "GET" /\ b.path = path /\ b.cleaned = path
      /\ b.auth = a.auth /\ b.cred = a.cred
  <2>1. a = [method |-> a.method, path |-> a.path, cleaned |-> a.cleaned,
             auth |-> a.auth, cred |-> a.cred]
    BY FrontDoorAssumption
  <2> HIDE DEF path
  <2>2. QED
    BY <2>1
<1> HIDE DEF p, b
<1>4. /\ Under(p, path) /\ path \in Seq(U) /\ Len(path) = Len(p) + Len(below)
      /\ \A j \in 1..Len(p) : path[j] = p[j]
      /\ SubSeq(path, Len(p) + 1, Len(path)) = below
      /\ Len(below) \in Nat \ {0} /\ Len(path) > 1
  <2>1. p \in Seq(U) /\ below \in Seq(U)
    BY <1>2
  <2>2. Len(below) \in Nat \ {0}
    OBVIOUS
  <2> HIDE DEF U, path
  <2>3. /\ Under(p, path) /\ path \in Seq(U) /\ Len(path) = Len(p) + Len(below)
        /\ \A j \in 1..Len(p) : path[j] = p[j]
        /\ SubSeq(path, Len(p) + 1, Len(path)) = below
    BY <2>1, UnderJoined DEF path
  <2>4. Len(path) > 1
    BY <1>2, <2>2, <2>3
  <2>5. QED
    BY <2>2, <2>3, <2>4
<1> HIDE DEF path
<1>5. i \in Mounted(c, path)
  BY <1>1, <1>4 DEF Mounted, p, Prefix
<1>6. Mounted(c, path) = {i} /\ Longest(c, Mounted(c, path)) = i
  BY <1>4, <1>5, OneMounted
<1>7. path # <<<<"healthz">>>> /\ path # <<<<"admin">>>>
  BY <1>4, LongPath
<1>8. ~AddsSlash(c, path)
  <2>1. ASSUME NEW j \in DOMAIN c.registries, path = Prefix(c, j) PROVE FALSE
    <3>1. IsPrefix(p, Prefix(c, j))
      BY <1>4, <2>1 DEF Under
    <3>2. i = j
      BY <1>1, <2>1, <3>1 DEF Flat, p, Prefix
    <3>3. QED
      BY <1>2, <1>4, <2>1, <3>2 DEF p
  <2>2. QED
    BY <1>7, <2>1 DEF AddsSlash, Prefix
<1>9. ~AdminWins(c, path)
  <2> SUFFICES ASSUME AdminWins(c, path) PROVE FALSE
    OBVIOUS
  <2>1. Under(<<<<"admin">>>>, path) /\ Len(p) <= 1
    BY <1>5 DEF AdminWins, p, Prefix
  <2>2. path[1] = <<"admin">>
    <3>1. <<<<"admin">>>> \in Seq({<<"admin">>}) /\ Len(<<<<"admin">>>>) >= 1
      OBVIOUS
    <3>2. path[1] = <<<<"admin">>>>[1]
      BY <1>4, <2>1, <3>1, UnderHead
    <3>3. QED
      BY <3>2
  <2>3. p[1] = <<"admin">> /\ Len(p) = 1
    BY <1>2, <1>4, <2>1, <2>2
  <2>4. QED
    BY <1>2, <2>3
<1>10. Mux(c, b) = "registry"
  BY <1>3, <1>6, <1>7, <1>8, <1>9, MuxRegistry
<1>11. TokenAuth(c, b)
  <2>1. CASE c.token = ""
    BY <2>1 DEF TokenAuth
  <2>2. CASE Presents(a, c.token)
    BY <1>3, <2>2 DEF TokenAuth, Presents
  <2>3. CASE Exempt(c, a.path)
    <3>1. Mounted(c, a.path) = {i} /\ Under(p, a.path) /\ ~AdminWins(c, a.path)
          /\ a.path # <<<<"healthz">>>> /\ a.path \in Seq(Segment)
      BY FrontDoorAssumption DEF Takes, p, Segment
    <3>2. Under(<<<<"admin">>>>, a.path)
      BY <2>3, <3>1 DEF Exempt
    <3>3. Len(p) > 1
      BY <1>2, <3>1, <3>2 DEF AdminWins, p, Prefix
    <3>4. a.path[1] = <<"admin">> /\ a.path[1] = p[1]
      <4>1. <<<<"admin">>>> \in Seq({<<"admin">>}) /\ Len(<<<<"admin">>>>) >= 1
        OBVIOUS
      <4>2. a.path[1] = <<<<"admin">>>>[1]
        BY <3>1, <3>2, <4>1, UnderHead
      <4>3. a.path[1] = p[1]
        BY <1>2, <3>1, UnderHead
      <4>4. QED
        BY <4>2, <4>3
    <3>5. path[1] = <<"admin">>
      <4>1. 1 \in 1..Len(p)
        BY <1>2
      <4>2. path[1] = p[1]
        BY <1>4, <4>1
      <4>3. QED
        BY <3>4, <4>2
    <3>6. Under(<<<<"admin">>>>, path)
      <4> DEFINE s == SubSeq(path, 1, 1)
                 t == <<<<"admin">>>>
      <4>1. /\ s \in Seq(U) /\ Len(s) = 1 /\ s[1] = <<"admin">>
        BY <1>4, <3>5
      <4>2. /\ t \in Seq({<<"admin">>}) /\ Len(t) = 1 /\ t[1] = <<"admin">>
        OBVIOUS
      <4> HIDE DEF s, t
      <4>6. SubSeq(t, 1, 1) = t
        BY <4>2
      <4>3. s = t
        BY <4>1, <4>2
      <4>4. IsPrefix(t, path)
        BY <1>4, <4>2, <4>3, <4>6 DEF IsPrefix, s
      <4>5. QED
        BY <1>4, <4>2, <4>4 DEF Under, t
    <3>7. QED
      BY <1>3, <3>6 DEF TokenAuth, Exempt
  <2>4. QED
    BY <2>1, <2>2, <2>3 DEF TokenAuth, Takes
<1>12. Reaches(c, b) = "registry"
  BY <1>3, <1>10, <1>11 DEF Reaches
<1>13. Registry(c, b) = c.registries[i]
  BY <1>3, <1>6 DEF Registry
<1>14. Below(c.registries[i], b) = below
  BY <1>3, <1>4 DEF Below, p, Prefix
<1>15. Outcome(c, b) = ServeAt(c.registries[i], "GET", below)
  BY <1>3, <1>12, <1>13, <1>14, ServeIs DEF Outcome
<1>16. Follow(c, a, below) = Outcome(c, b)
  BY <1>1 DEF Follow, b, path, p, Prefix
<1>17. QED
  BY <1>15, <1>16

\* An answer, field by field.
Reply(kind, reg, scope, name, version, file) ==
  [kind |-> kind, reg |-> reg, scope |-> scope, name |-> name,
   version |-> version, file |-> file]

Blank == ""

\* The other forms of an answer, in this one.
LEMMA AnswerIs == \A k : Answer(k) = Reply(k, Blank, E, E, E, E)
BY DEF Answer, Reply, Blank

\* What the registry puts into an answer.
LEMMA StampIs ==
  \A k, r, s, n, v, f, t, sc :
    Stamp(Reply(k, r, s, n, v, f), t, sc) = Reply(k, t, sc, n, v, f)
<1> SUFFICES ASSUME NEW k, NEW r, NEW s, NEW n, NEW v, NEW f, NEW t, NEW sc
             PROVE  Stamp(Reply(k, r, s, n, v, f), t, sc) = Reply(k, t, sc, n, v, f)
  OBVIOUS
<1>1. [Reply(k, r, s, n, v, f) EXCEPT !.reg = t] = Reply(k, t, s, n, v, f)
  BY DEF Reply
<1>2. [Reply(k, t, s, n, v, f) EXCEPT !.scope = sc] = Reply(k, t, sc, n, v, f)
  BY DEF Reply
<1>3. QED
  BY <1>1, <1>2 DEF Stamp

\* The answer of a registry is that of its adapter, stamped.
LEMMA Stamped ==
  ASSUME NEW r, NEW method, NEW below, NEW k, NEW n, NEW v, NEW f,
         Says(r, method, below) = Reply(k, Blank, E, n, v, f)
  PROVE  ServeAt(r, method, below) =
           Reply(k, r.type, IF HasScopes(r) THEN ProjectKey(below) ELSE E, n, v, f)
<1>1. ASSUME NEW t, NEW sc
      PROVE  Stamp(Reply(k, Blank, E, n, v, f), t, sc) = Reply(k, t, sc, n, v, f)
  BY StampIs
<1> DEFINE x == IF HasScopes(r) THEN ProjectKey(below) ELSE E
<1>2. ServeAt(r, method, below) = Stamp(Says(r, method, below), r.type, x)
  BY DEF ServeAt
<1> HIDE DEF x
<1>3. ServeAt(r, method, below) = Reply(k, r.type, x, n, v, f)
  BY <1>1, <1>2
<1>4. QED
  BY <1>3 DEF x

\* The adapter follows from the type.
LEMMA TypeSays ==
  ASSUME NEW r, NEW method, NEW below
  PROVE  /\ r.type = "npm" => Says(r, method, below) = NpmServe(method, Remaining(below))
         /\ r.type = "goproxy" => Says(r, method, below) = GoServe(method, Remaining(below))
         /\ r.type = "maven" => Says(r, method, below) = Answer("501")
         /\ r.type = "oci" => Says(r, method, below) = OciServe(r.upstreams, below)
         /\ r.type = "pypi" => Says(r, method, below) =
              PypiServe(FileHosts(r), r.alias, method, Remaining(below))
BY DEF Says

-----------------------------------------------------------------------------
(* Project scopes.                                                         *)

ScopeOf(key) == IF key = E THEN <<>> ELSE <<<<"p">>, key>>

\* What remains below a scope is clean.
LEMMA CleanRemaining ==
  ASSUME NEW below, Cleaned(below)
  PROVE  Cleaned(Remaining(below))
<1> DEFINE n == Len(below) - 2
           q == SubSeq(below, 3, Len(below))
           S == Seq(Word)
<1>1. below \in Seq(S) /\ Len(below) \in Nat
      /\ \A i \in 1..Len(below) : below[i] = E => i = Len(below)
  BY DEF Cleaned
<1> HIDE DEF S
<1>2. CASE ~Scoped(below)
  BY <1>2 DEF Remaining
<1>3. CASE Scoped(below) /\ Len(below) = 2
  <2>1. Remaining(below) = <<E>>
    BY <1>3 DEF Remaining
  <2>2. E \in Seq(Word) /\ Len(<<E>>) = 1 /\ <<E>> # <<>>
    BY DEF E
  <2>3. <<E>> \in Seq(Seq(Word))
    BY <2>2
  <2> DEFINE t == <<E>>
  <2> HIDE DEF t
  <2>4. Cleaned(t)
    BY <2>2, <2>3 DEF Cleaned, t
  <2>5. QED
    BY <2>1, <2>4 DEF t
<1>4. CASE Scoped(below) /\ Len(below) # 2
  <2>1. Remaining(below) = q /\ Len(below) > 2
    <3>1. Remaining(below) = q
      BY <1>4 DEF Remaining
    <3>2. Len(below) >= 2
      BY <1>4 DEF Scoped
    <3>3. \A k \in Nat : k >= 2 /\ k # 2 => k > 2
      OBVIOUS
    <3>4. Len(below) > 2
      BY <1>1, <1>4, <3>2, <3>3
    <3>5. QED
      BY <3>1, <3>4
  <2>2. q \in Seq(S) /\ Len(q) = n /\ n \in Nat \ {0}
        /\ \A i \in 1..n : q[i] = below[i + 2]
    BY <1>1, <2>1
  <2> HIDE DEF q
  <2>3. q # <<>>
    BY <2>2
  <2>4. \A i \in 1..n : q[i] = E => i = n
    BY <1>1, <2>2
  <2>5. Cleaned(q)
    BY <2>2, <2>3, <2>4 DEF Cleaned, S
  <2>6. QED
    BY <2>1, <2>5
<1>5. QED
  BY <1>2, <1>3, <1>4

Concatenates(U, s, q, t) ==
  /\ t \in Seq(U) /\ Len(t) = Len(s) + Len(q)
  /\ Len(s) \in Nat /\ Len(q) \in Nat
  /\ \A i \in 1..Len(s) : t[i] = s[i]
  /\ \A i \in 1..Len(q) : t[Len(s) + i] = q[i]

\* What stands where in a concatenation.
LEMMA Concat ==
  ASSUME NEW U, NEW s \in Seq(U), NEW q \in Seq(U)
  PROVE  Concatenates(U, s, q, s \o q)
BY DEF Concatenates

\* A path below a scope keeps the scope, and what follows it.
LEMMA InScope ==
  ASSUME NEW below, Cleaned(below), NEW T, NEW q \in Seq(T), q # <<>>,
         ProjectKey(below) # E \/ ~Scoped(q), E \notin ToSet(q)
  PROVE  LET b == ScopeOf(ProjectKey(below)) \o q IN
         /\ ProjectKey(b) = ProjectKey(below) /\ Remaining(b) = q
         /\ b \in Seq(T \union Seq(Word) \union {<<"p">>}) /\ b # <<>> /\ E \notin ToSet(b)
<1> DEFINE key == ProjectKey(below)
           U == T \union Seq(Word) \union {<<"p">>}
           b == ScopeOf(key) \o q
<1>1. below \in Seq(Seq(Word))
  BY DEF Cleaned
<1>2. Len(q) \in Nat \ {0} /\ q \in Seq(U)
  OBVIOUS
<1>3. CASE key = E
  <2>1. b = q
    <3>1. ScopeOf(key) = <<>>
      BY <1>3 DEF ScopeOf
    <3>2. <<>> \o q = q
      OBVIOUS
    <3>3. QED
      BY <3>1, <3>2
  <2>2. Remaining(q) = q /\ ProjectKey(q) = E
    BY <1>3 DEF Remaining, ProjectKey
  <2> HIDE DEF U, b
  <2>3. QED
    BY <1>2, <1>3, <2>1, <2>2 DEF b, U
<1>4. CASE key # E
  <2>1. ValidProjectKey(key) /\ key \in Seq(Word)
    <3>1. Scoped(below) /\ key = below[2] /\ Len(below) >= 2
      BY <1>4 DEF ProjectKey, Scoped
    <3>2. QED
      BY <1>1, <3>1 DEF Scoped
  <2>2. ScopeOf(key) = <<<<"p">>, key>>
    BY <1>4 DEF ScopeOf
  <2> DEFINE s == <<<<"p">>, key>>
  <2>3. s \in Seq(U) /\ Len(s) = 2 /\ s[1] = <<"p">> /\ s[2] = key
    BY <2>1
  <2>4. b = s \o q
    BY <2>2
  <2> HIDE DEF s, U, b, key
  <2>5. /\ b \in Seq(U) /\ Len(b) = 2 + Len(q)
        /\ b[1] = <<"p">> /\ b[2] = key
        /\ \A i \in 1..Len(q) : b[i + 2] = q[i]
    <3> DEFINE t == s \o q
    <3>1. /\ t \in Seq(U) /\ Len(t) = Len(s) + Len(q)
          /\ \A i \in 1..Len(s) : t[i] = s[i]
          /\ \A i \in 1..Len(q) : t[Len(s) + i] = q[i]
      <4>1. Concatenates(U, s, q, t)
        BY <1>2, <2>3, Concat
      <4> HIDE DEF t
      <4>2. QED
        BY <4>1 DEF Concatenates
    <3> HIDE DEF t
    <3>2. t[1] = <<"p">> /\ t[2] = key
      BY <2>3, <3>1
    <3>3. \A i \in 1..Len(q) : t[i + 2] = q[i]
      BY <1>2, <2>3, <3>1
    <3>4. QED
      BY <2>3, <2>4, <3>1, <3>2, <3>3 DEF t
  <2>6. Scoped(b) /\ ProjectKey(b) = key
    BY <1>2, <2>1, <2>5 DEF Scoped, ProjectKey
  <2>7. SubSeq(b, 3, Len(b)) = q
    <3> DEFINE t == SubSeq(b, 3, Len(b))
    <3>1. t \in Seq(U) /\ Len(t) = Len(q) /\ \A i \in 1..Len(q) : t[i] = q[i]
      BY <1>2, <2>5
    <3> HIDE DEF t
    <3>2. t = q
      BY <1>2, <3>1, SameSequence
    <3>3. QED
      BY <3>2 DEF t
  <2>8. Remaining(b) = q
    BY <1>2, <2>5, <2>6, <2>7 DEF Remaining
  <2>9. b # <<>>
    BY <1>2, <2>5
  <2>10. E \notin ToSet(b)
    <3>1. ASSUME NEW i \in 1..Len(b) PROVE b[i] # E
      <4>1. CASE i = 1
        <5>1. <<"p">> # E
          BY DEF E
        <5>2. QED
          BY <2>5, <4>1, <5>1
      <4>2. CASE i = 2
        BY <1>4, <2>5, <4>2
      <4>3. CASE i > 2
        <5>1. i - 2 \in 1..Len(q) /\ i = (i - 2) + 2
          BY <1>2, <2>5, <4>3
        <5>2. b[i] = q[i - 2]
          BY <2>5, <5>1
        <5>3. q[i - 2] \in ToSet(q)
          BY <1>2, <5>1 DEF ToSet
        <5>4. QED
          BY <5>2, <5>3
      <4>4. QED
        BY <2>5, <4>1, <4>2, <4>3
    <3>2. DOMAIN b = 1..Len(b)
      BY <2>5
    <3>3. QED
      BY <3>1, <3>2 DEF ToSet
  <2>11. QED
    BY <2>5, <2>6, <2>8, <2>9, <2>10 DEF b, U, key
<1>5. QED
  BY <1>3, <1>4

Gives(kind, name, version, file) == Reply(kind, Blank, E, name, version, file)

\* What an adapter answers, before the registry stamps it.
LEMMA GivesIs ==
  /\ \A k, n, v, f : Gives(k, n, v, f).kind = k
  /\ \A k : Answer(k) = Gives(k, E, E, E)
<1>1. \A k, n, v, f : Gives(k, n, v, f).kind = k
  BY DEF Gives, Reply
<1>2. QED
  BY <1>1, AnswerIs DEF Gives

WithName(a, n) == [a EXCEPT !.name = n]
WithVersion(a, n, v) == [a EXCEPT !.name = n, !.version = v]
WithFile(a, n, f, v) == [a EXCEPT !.name = n, !.file = f, !.version = v]
OfUpstream(a, f, n, v) == [a EXCEPT !.file = f, !.name = n, !.version = v]

SetName(a, x) == [a EXCEPT !.name = x]
SetVersion(a, x) == [a EXCEPT !.version = x]
SetFile(a, x) == [a EXCEPT !.file = x]

\* EXCEPT on an answer, one field after the other.
LEMMA WithIs ==
  \A k, n, v, f :
    /\ WithName(Answer(k), n) = Gives(k, n, E, E)
    /\ WithVersion(Answer(k), n, v) = Gives(k, n, v, E)
    /\ WithFile(Answer(k), n, f, v) = Gives(k, n, v, f)
    /\ OfUpstream(Answer(k), f, n, v) = Gives(k, n, v, f)
<1> SUFFICES ASSUME NEW k, NEW n, NEW v, NEW f
             PROVE  /\ WithName(Answer(k), n) = Gives(k, n, E, E)
                    /\ WithVersion(Answer(k), n, v) = Gives(k, n, v, E)
                    /\ WithFile(Answer(k), n, f, v) = Gives(k, n, v, f)
                    /\ OfUpstream(Answer(k), f, n, v) = Gives(k, n, v, f)
  OBVIOUS
<1> DEFINE R(name, version, file) == Reply(k, Blank, E, name, version, file)
<1>1. Answer(k) = R(E, E, E)
  BY AnswerIs
<1>2. ASSUME NEW name, NEW version, NEW file
      PROVE  /\ SetName(R(name, version, file), n) = R(n, version, file)
             /\ SetVersion(R(name, version, file), v) = R(name, v, file)
             /\ SetFile(R(name, version, file), f) = R(name, version, f)
  BY DEF Reply, SetName, SetVersion, SetFile
<1>3. \A a : /\ WithName(a, n) = SetName(a, n)
             /\ WithVersion(a, n, v) = SetVersion(SetName(a, n), v)
             /\ WithFile(a, n, f, v) = SetVersion(SetFile(SetName(a, n), f), v)
             /\ OfUpstream(a, f, n, v) = SetVersion(SetName(SetFile(a, f), n), v)
  BY DEF WithName, WithVersion, WithFile, OfUpstream, SetName, SetVersion, SetFile
<1> HIDE DEF R
<1>4. QED
  BY <1>1, <1>2, <1>3 DEF R, Gives

\* The least element of a set of numbers.
LEMMA MinIs ==
  ASSUME NEW S \in SUBSET Nat, S # {}
  PROVE  Min(S) \in S /\ \A y \in S : Min(S) <= y
<1>1. \E x \in S : \A y \in S : x <= y
  BY LeastElement
<1>2. QED
  BY <1>1 DEF Min

-----------------------------------------------------------------------------
(* npm.                                                                    *)

\* What npm answers, by the pieces of the path.
LEMMA NpmServeIs ==
  ASSUME NEW method, NEW path
  PROVE  LET d == Min(DashAt(path))
             version == BareVersion(path[d - 1], path[d + 1]) IN
         NpmServe(method, path) =
           IF method # "GET" THEN Answer("405")
           ELSE IF DashAt(path) # {}
             THEN IF d = 1 \/ Len(path) # d + 1 \/ version = E THEN Answer("404")
                  ELSE Gives("artifact", Joined(SubSeq(path, 1, d - 1)), version, E)
           ELSE IF path = <<E>> THEN Answer("404")
           ELSE Gives("index", Joined(path), E, E)
<1> DEFINE d == Min(DashAt(path))
           version == BareVersion(path[d - 1], path[d + 1])
           n == Joined(SubSeq(path, 1, d - 1))
           m == Joined(path)
<1>1. NpmTarball(path) = IF d = 1 \/ Len(path) # d + 1 \/ version = E THEN Answer("404")
                         ELSE WithVersion(Answer("artifact"), n, version)
  BY DEF NpmTarball, WithVersion
<1>2. NpmServe(method, path) =
        IF method # "GET" THEN Answer("405")
        ELSE IF DashAt(path) # {} THEN NpmTarball(path)
        ELSE IF path = <<E>> THEN Answer("404")
        ELSE WithName(Answer("index"), m)
  BY DEF NpmServe, WithName
<1> HIDE DEF d, version, n, m
<1>3. QED
  BY <1>1, <1>2, WithIs DEF d, version, n, m

\* Strip drops pieces,
LEMMA StripIs ==
  ASSUME NEW S, NEW s \in Seq(S), NEW ext
  PROVE  Strip(s, ext) \in Seq(S)
<1>1. CASE Ends(s, ext)
  <2>1. Len(s) \in Nat \ {0}
    BY <1>1 DEF Ends, E
  <2>2. SubSeq(s, 1, Len(s) - 1) \in Seq(S)
    BY <2>1
  <2>3. QED
    BY <1>1, <2>2 DEF Strip, Front
<1>2. CASE ~Ends(s, ext)
  BY <1>2 DEF Strip
<1>3. QED
  BY <1>1, <1>2

\* and so does BareVersion.
LEMMA BareVersionIs ==
  ASSUME NEW S, NEW base \in Seq(S), NEW seg \in Seq(S)
  PROVE  BareVersion(base, seg) \in Seq(S)
<1> DEFINE version == Strip(seg, ".tgz")
           k == Len(base) + 1
<1>1. version \in Seq(S) /\ k \in Nat \ {0} /\ Len(version) \in Nat
  BY StripIs
<1>2. BareVersion(base, seg) \in {version, SubSeq(version, k, Len(version))}
  BY DEF BareVersion
<1> HIDE DEF version, k
<1>3. \A i \in k..Len(version) : version[i] \in S
  BY <1>1
<1>4. SubSeq(version, k, Len(version)) \in Seq(S)
  BY <1>1, <1>3, SubSeqProperties
<1>5. QED
  BY <1>1, <1>2, <1>4

\* The parts of a path that asks for a tarball.
NpmParts(path, x, version) ==
  /\ x \in Seq(Seq(Word)) /\ Len(x) >= 1 /\ Len(path) = Len(x) + 2
  /\ \A i \in 1..Len(x) : x[i] = path[i] /\ x[i] # <<"-">>
  /\ version \in Seq(Word) /\ version # E

\* A path that gives a tarball has its parts,
LEMMA NpmArtifact ==
  ASSUME NEW method, NEW path, Cleaned(path), NpmServe(method, path).kind = "artifact"
  PROVE  \E x, version :
           /\ NpmParts(path, x, version)
           /\ NpmServe(method, path) = Gives("artifact", Joined(x), version, E)
<1> DEFINE d == Min(DashAt(path))
           version == BareVersion(path[d - 1], path[d + 1])
           x == SubSeq(path, 1, d - 1)
<1>1. path \in Seq(Seq(Word)) /\ Len(path) \in Nat
  BY DEF Cleaned
<1>2. /\ DashAt(path) # {} /\ ~(d = 1 \/ Len(path) # d + 1 \/ version = E)
      /\ NpmServe(method, path) = Gives("artifact", Joined(x), version, E)
  <2>1. NpmServe(method, path) =
           IF method # "GET" THEN Answer("405")
           ELSE IF DashAt(path) # {}
             THEN IF d = 1 \/ Len(path) # d + 1 \/ version = E THEN Answer("404")
                  ELSE Gives("artifact", Joined(x), version, E)
           ELSE IF path = <<E>> THEN Answer("404")
           ELSE Gives("index", Joined(path), E, E)
    BY NpmServeIs
  <2> HIDE DEF d, version, x
  <2>2. QED
    BY <2>1, GivesIs
<1>3. DashAt(path) \in SUBSET Nat /\ \A i \in DashAt(path) : i \in 1..(Len(path) - 1)
  BY <1>1 DEF DashAt
<1>4. d \in DashAt(path) /\ \A y \in DashAt(path) : d <= y
  BY <1>2, <1>3, MinIs
<1> HIDE DEF d, version
<1>5. d \in Nat /\ d > 1 /\ Len(path) = d + 1
  BY <1>2, <1>3, <1>4
<1>6. x \in Seq(Seq(Word)) /\ Len(x) = d - 1 /\ \A i \in 1..(d - 1) : x[i] = path[i]
  BY <1>1, <1>5
<1> HIDE DEF x
<1>7. ASSUME NEW i \in 1..(d - 1) PROVE path[i] # <<"-">>
  <2>1. i \notin DashAt(path)
    BY <1>3, <1>4, <1>5
  <2>2. i \in 1..(Len(path) - 1)
    BY <1>5
  <2>3. QED
    BY <2>1, <2>2 DEF DashAt
<1>8. NpmParts(path, x, version)
  <2>1. Len(x) >= 1 /\ Len(path) = Len(x) + 2 /\ 1..Len(x) = 1..(d - 1)
    BY <1>5, <1>6
  <2>2. \A i \in 1..Len(x) : x[i] = path[i] /\ x[i] # <<"-">>
    BY <1>6, <1>7, <2>1
  <2>3. version # E
    BY <1>2
  <2>4. version \in Seq(Word)
    <3>1. d - 1 \in 1..Len(path) /\ d + 1 \in 1..Len(path)
      BY <1>5
    <3>2. path[d - 1] \in Seq(Word) /\ path[d + 1] \in Seq(Word)
      BY <1>1, <3>1
    <3>3. QED
      BY <3>2, BareVersionIs DEF version
  <2>5. QED
    BY <1>6, <2>1, <2>2, <2>3, <2>4 DEF NpmParts
<1>9. QED
  BY <1>2, <1>6, <1>8

\* and one that gives an index has no dash.
LEMMA NpmIndex ==
  ASSUME NEW method, NEW path, NpmServe(method, path).kind = "index"
  PROVE  /\ DashAt(path) = {} /\ path # <<E>>
         /\ NpmServe(method, path) = Gives("index", Joined(path), E, E)
<1> DEFINE d == Min(DashAt(path))
           version == BareVersion(path[d - 1], path[d + 1])
           n == Joined(SubSeq(path, 1, d - 1))
<1>1. NpmServe(method, path) =
        IF method # "GET" THEN Answer("405")
        ELSE IF DashAt(path) # {}
          THEN IF d = 1 \/ Len(path) # d + 1 \/ version = E THEN Answer("404")
               ELSE Gives("artifact", n, version, E)
        ELSE IF path = <<E>> THEN Answer("404")
        ELSE Gives("index", Joined(path), E, E)
  BY NpmServeIs
<1> HIDE DEF d, version, n
<1>2. QED
  BY <1>1, GivesIs

\* The link to a bare version gives it.
LEMMA NpmLinkServed ==
  ASSUME NEW x \in Seq(Seq(Word)), x # <<>>,
         \A i \in 1..Len(x) : x[i] # <<"-">>,
         NEW version, version # E, BareVersion(x[Len(x)], version) = version
  PROVE  NpmServe("GET", NpmLink(x, version)) = Gives("artifact", Joined(x), version, E)
<1> DEFINE U == Seq(Word) \union {<<"-">>, version}
           q == NpmLink(x, version)
           d == Min(DashAt(q))
           n == Len(x)
<1>1. /\ q \in Seq(U) /\ Len(q) = n + 2 /\ n \in Nat \ {0}
      /\ \A i \in 1..n : q[i] = x[i]
      /\ q[n + 1] = <<"-">> /\ q[n + 2] = version
  <2> DEFINE e == <<<<"-">>, version>>
  <2>1. /\ x \in Seq(U) /\ e \in Seq(U) /\ Len(e) = 2
        /\ e[1] = <<"-">> /\ e[2] = version /\ n \in Nat \ {0}
    OBVIOUS
  <2>2. Concatenates(U, x, e, q)
    BY <2>1, Concat DEF NpmLink
  <2> HIDE DEF q, e, U
  <2>3. QED
    BY <2>1, <2>2 DEF Concatenates
<1> HIDE DEF q, U
<1>2. DashAt(q) = {n + 1}
  <2>1. \A i \in 1..n : q[i] # <<"-">>
    BY <1>1
  <2> DEFINE dash == <<"-">>
  <2>2. DashAt(q) = {i \in 1..(Len(q) - 1) : q[i] = dash}
    BY DEF DashAt
  <2>3. q[n + 1] = dash /\ \A i \in 1..n : q[i] # dash
    BY <1>1, <2>1
  <2> HIDE DEF dash, n
  <2>4. n + 1 \in 1..(Len(q) - 1) /\ \A i \in 1..(Len(q) - 1) : i = n + 1 \/ i \in 1..n
    BY <1>1
  <2>5. QED
    BY <2>2, <2>3, <2>4
<1>3. d = n + 1
  <2>1. DashAt(q) \in SUBSET Nat /\ DashAt(q) # {}
    BY <1>1, <1>2
  <2>2. d \in DashAt(q)
    BY <2>1, MinIs
  <2>3. QED
    BY <1>2, <2>2
<1>4. SubSeq(q, 1, n) = x
  <2> DEFINE s == SubSeq(q, 1, n)
  <2>1. s \in Seq(U) /\ Len(s) = n /\ \A i \in 1..n : s[i] = x[i]
    BY <1>1
  <2>2. x \in Seq(U)
    BY DEF U
  <2> HIDE DEF s
  <2>3. s = x
    BY <2>1, <2>2, SameSequence
  <2>4. QED
    BY <2>3 DEF s
<1> HIDE DEF d, n
<1>5. /\ d - 1 = n /\ q[d - 1] = x[n] /\ q[d + 1] = version /\ d # 1 /\ Len(q) = d + 1
  BY <1>1, <1>3
<1>6. BareVersion(q[d - 1], q[d + 1]) = version
  BY <1>5 DEF n
<1>7. DashAt(q) # {}
  BY <1>2
<1> DEFINE bare == BareVersion(q[d - 1], q[d + 1])
           name == Joined(SubSeq(q, 1, d - 1))
<1>8. NpmServe("GET", q) =
        IF "GET" # "GET" THEN Answer("405")
        ELSE IF DashAt(q) # {}
          THEN IF d = 1 \/ Len(q) # d + 1 \/ bare = E THEN Answer("404")
               ELSE Gives("artifact", name, bare, E)
        ELSE IF q = <<E>> THEN Answer("404")
        ELSE Gives("index", Joined(q), E, E)
  BY NpmServeIs DEF d
<1>9. bare = version /\ name = Joined(x)
  BY <1>4, <1>5, <1>6
<1> HIDE DEF bare, name
<1>10. NpmServe("GET", q) = Gives("artifact", Joined(x), version, E)
  BY <1>5, <1>7, <1>8, <1>9
<1>11. QED
  BY <1>10 DEF q

\* The stamp keeps the kind.
LEMMA SaysKind ==
  ASSUME NEW r, NEW method, NEW below,
         \E k, n, v, f : Says(r, method, below) = Gives(k, n, v, f)
  PROVE  ServeAt(r, method, below).kind = Says(r, method, below).kind
<1>1. PICK k, n, v, f : Says(r, method, below) = Gives(k, n, v, f)
  OBVIOUS
<1> DEFINE key == IF HasScopes(r) THEN ProjectKey(below) ELSE E
<1>2. ServeAt(r, method, below) = Reply(k, r.type, key, n, v, f)
  BY <1>1, Stamped DEF Gives
<1> HIDE DEF key
<1>3. QED
  BY <1>1, <1>2 DEF Gives, Reply

\* The fields of an answer.
LEMMA ReplyIs ==
  ASSUME NEW k, NEW r, NEW s, NEW n, NEW v, NEW f
  PROVE  /\ Reply(k, r, s, n, v, f).kind = k /\ Reply(k, r, s, n, v, f).reg = r
         /\ Reply(k, r, s, n, v, f).scope = s /\ Reply(k, r, s, n, v, f).name = n
         /\ Reply(k, r, s, n, v, f).version = v /\ Reply(k, r, s, n, v, f).file = f
BY DEF Reply

\* What an ask comes to at the registry that takes it.
LEMMA OutcomeIs ==
  ASSUME NEW c, NEW a, NEW i, Takes(c, a, i), Reaches(c, a) = "registry"
  PROVE  Outcome(c, a) =
           ServeAt(c.registries[i], a.method, Below(c.registries[i], a))
BY ServeIs DEF Outcome, Takes

\* npm gives answers.
LEMMA NpmGives ==
  ASSUME NEW method, NEW path
  PROVE  \E k, n, v, f : NpmServe(method, path) = Gives(k, n, v, f)
<1> DEFINE d == Min(DashAt(path))
           version == BareVersion(path[d - 1], path[d + 1])
           n == Joined(SubSeq(path, 1, d - 1))
<1>1. NpmServe(method, path) =
        IF method # "GET" THEN Answer("405")
        ELSE IF DashAt(path) # {}
          THEN IF d = 1 \/ Len(path) # d + 1 \/ version = E THEN Answer("404")
               ELSE Gives("artifact", n, version, E)
        ELSE IF path = <<E>> THEN Answer("404")
        ELSE Gives("index", Joined(path), E, E)
  BY NpmServeIs
<1> HIDE DEF d, version, n
<1>2. QED
  BY <1>1, GivesIs

\* The link to a tarball, segment by segment.
LEMMA NpmLinkIs ==
  ASSUME NEW x \in Seq(Seq(Word)), x # <<>>, NEW version
  PROVE  LET q == NpmLink(x, version) IN
         /\ q \in Seq(Seq(Word) \union {<<"-">>, version})
         /\ Len(q) = Len(x) + 2 /\ Len(x) \in Nat \ {0}
         /\ \A i \in 1..Len(x) : q[i] = x[i]
         /\ q[Len(x) + 1] = <<"-">> /\ q[Len(x) + 2] = version
<1> DEFINE U == Seq(Word) \union {<<"-">>, version}
           q == NpmLink(x, version)
           n == Len(x)
           e == <<<<"-">>, version>>
<1>1. /\ x \in Seq(U) /\ e \in Seq(U) /\ Len(e) = 2
      /\ e[1] = <<"-">> /\ e[2] = version /\ n \in Nat \ {0}
  OBVIOUS
<1>2. Concatenates(U, x, e, q)
  BY <1>1, Concat DEF NpmLink
<1> HIDE DEF q, e, U
<1>3. QED
  BY <1>1, <1>2 DEF Concatenates, q, U

\* A link is in the default scope if the name of the package is.
LEMMA NpmUnscoped ==
  ASSUME NEW x \in Seq(Seq(Word)), x # <<>>, NEW version, ~Scoped(x)
  PROVE  ~Scoped(NpmLink(x, version))
<1> DEFINE q == NpmLink(x, version)
           n == Len(x)
<1>1. /\ q \in Seq(Seq(Word) \union {<<"-">>, version})
      /\ Len(q) = n + 2 /\ n \in Nat \ {0}
      /\ \A i \in 1..n : q[i] = x[i]
      /\ q[n + 1] = <<"-">> /\ q[n + 2] = version
  BY NpmLinkIs
<1> HIDE DEF q
<1>2. CASE n = 1
  <2>1. q[2] = <<"-">>
    BY <1>1, <1>2
  <2>2. ~ValidProjectKey(<<"-">>)
    <3> DEFINE t == <<"-">>
    <3>1. DOMAIN t = {1} /\ t[1] = "-"
      OBVIOUS
    <3> HIDE DEF t
    <3>2. ~ValidProjectKey(t)
      BY <3>1, PathsAssumption DEF ValidProjectKey
    <3>3. QED
      BY <3>2 DEF t
  <2>3. QED
    BY <2>1, <2>2 DEF Scoped, q
<1>3. CASE n >= 2
  <2>1. q[1] = x[1] /\ q[2] = x[2]
    BY <1>1, <1>3
  <2>2. QED
    BY <1>3, <2>1 DEF Scoped, q
<1>4. n = 1 \/ n >= 2
  <2>1. \A m \in Nat \ {0} : m = 1 \/ m >= 2
    OBVIOUS
  <2>2. QED
    BY <1>1, <2>1
<1>5. QED
  BY <1>2, <1>3, <1>4

\* It has no empty segment.
LEMMA NpmLinkFull ==
  ASSUME NEW x \in Seq(Seq(Word)), x # <<>>, \A i \in 1..Len(x) : x[i] # E,
         NEW version, version # E
  PROVE  E \notin ToSet(NpmLink(x, version)) /\ NpmLink(x, version) # <<>>
<1> DEFINE q == NpmLink(x, version)
           n == Len(x)
<1>1. /\ q \in Seq(Seq(Word) \union {<<"-">>, version})
      /\ Len(q) = n + 2 /\ n \in Nat \ {0}
      /\ \A i \in 1..n : q[i] = x[i]
      /\ q[n + 1] = <<"-">> /\ q[n + 2] = version
  BY NpmLinkIs
<1>2. <<"-">> # E
  BY DEF E
<1> HIDE DEF q
<1>3. DOMAIN q = 1..(n + 2) /\ q # <<>>
  BY <1>1
<1>4. \A i \in 1..(n + 2) : i \in 1..n \/ i = n + 1 \/ i = n + 2
  BY <1>1
<1> DEFINE dash == <<"-">>
<1>5. q[n + 1] # E
  BY <1>1, <1>2
<1> HIDE DEF dash
<1>6. \A i \in 1..(n + 2) : q[i] # E
  BY <1>1, <1>4, <1>5
<1>7. QED
  BY <1>3, <1>6 DEF ToSet, q

\* No scope, no key.
LEMMA KeyOf ==
  ASSUME NEW path, ProjectKey(path) = E
  PROVE  ~Scoped(path) /\ Remaining(path) = path
<1>1. ~Scoped(path)
  BY DEF ProjectKey, Scoped, ValidProjectKey
<1>2. QED
  BY <1>1 DEF Remaining

\* What a registry at i answers to a link below its prefix in the scope of an ask.
LEMMA FollowInScope ==
  ASSUME NEW c \in Configs, Starts(c), Flat(c), NEW a \in Asks, NEW i, Takes(c, a, i),
         HasScopes(c.registries[i]), NEW below, Cleaned(below),
         NEW T, NEW q \in Seq(T), q # <<>>, E \notin ToSet(q),
         ProjectKey(below) # E \/ ~Scoped(q)
  PROVE  LET b == ScopeOf(ProjectKey(below)) \o q IN
         /\ Follow(c, a, b) = ServeAt(c.registries[i], "GET", b)
         /\ ProjectKey(b) = ProjectKey(below) /\ Remaining(b) = q
<1> DEFINE b == ScopeOf(ProjectKey(below)) \o q
           U == T \union Seq(Word) \union {<<"p">>}
<1>1. /\ ProjectKey(b) = ProjectKey(below) /\ Remaining(b) = q
      /\ b \in Seq(U) /\ b # <<>> /\ E \notin ToSet(b)
  BY InScope
<1> HIDE DEF b, U
<1>2. Follow(c, a, b) = ServeAt(c.registries[i], "GET", b)
  BY <1>1, FollowServed
<1>3. QED
  BY <1>1, <1>2 DEF b

\* Spellings of one npm tarball are one identity.
LEMMA NpmIdentity ==
  ASSUME NEW c \in Configs, Starts(c), Flat(c), NEW a \in Asks, NEW i, Takes(c, a, i),
         Reaches(c, a) = "registry", c.registries[i].type = "npm",
         Outcome(c, a).kind = "artifact",
         Bare(Outcome(c, a).name, Outcome(c, a).version)
  PROVE  /\ OneIdentity(c, a, Outcome(c, a))
         /\ \E x, version :
              /\ x \in Seq(Seq(Word)) /\ x # <<>> /\ x[1] # E /\ version \in Seq(Word)
              /\ Outcome(c, a) = Reply("artifact", "npm", Outcome(c, a).scope,
                                      Joined(x), version, E)
<1> DEFINE r == c.registries[i]
           below == Below(r, a)
           path == Remaining(below)
           key == ProjectKey(below)
           o == Outcome(c, a)
<1>1. Cleaned(below) /\ Cleaned(path) /\ Registry(c, a) = r
  BY CleanRemaining DEF Takes
<1>2. HasScopes(r)
  BY DEF HasScopes
<1>3. o = ServeAt(r, a.method, below) /\ Says(r, a.method, below) = NpmServe(a.method, path)
  BY OutcomeIs, TypeSays
<1>4. NpmServe(a.method, path).kind = "artifact"
  BY <1>3, SaysKind, NpmGives
<1>5. PICK x, version :
        /\ NpmParts(path, x, version)
        /\ NpmServe(a.method, path) = Gives("artifact", Joined(x), version, E)
  BY <1>1, <1>4, NpmArtifact
<1>6. o = Reply("artifact", "npm", key, Joined(x), version, E)
  BY <1>2, <1>3, <1>5, Stamped DEF Gives
<1>7. /\ o.reg = "npm" /\ o.scope = key /\ o.name = Joined(x) /\ o.version = version
  <2> HIDE DEF o, key
  <2>1. QED
    BY <1>6, ReplyIs
<1> HIDE DEF o, key, path, below
<1>8. /\ x \in Seq(Seq(Word)) /\ x # <<>> /\ Len(x) \in Nat \ {0} /\ Len(path) = Len(x) + 2
      /\ version \in Seq(Word) /\ version # E
      /\ \A j \in 1..Len(x) : x[j] = path[j] /\ x[j] # <<"-">>
  BY <1>5 DEF NpmParts
<1>9. \A j \in 1..Len(x) : x[j] # E
  <2>1. ASSUME NEW j \in 1..Len(x), x[j] = E PROVE FALSE
    <3>1. j \in 1..Len(path) /\ j # Len(path)
      BY <1>8
    <3>2. path[j] # E
      BY <1>1, <3>1 DEF Cleaned
    <3>3. QED
      BY <1>8, <2>1, <3>2
  <2>2. QED
    BY <2>1
<1>10. x[1] # E /\ Segments(Joined(x)) = x
  <2>1. x[1] # E
    BY <1>8, <1>9
  <2>2. QED
    BY <1>8, <2>1, Rejoined DEF Word
<1>11. BareVersion(x[Len(x)], version) = version
  BY <1>7, <1>10 DEF Bare, Last, o
<1>12. key # E \/ ~Scoped(NpmLink(x, version))
  <2> SUFFICES ASSUME key = E PROVE ~Scoped(NpmLink(x, version))
    OBVIOUS
  <2>1. path = below /\ ~Scoped(below)
    BY KeyOf DEF key, path
  <2>2. ~Scoped(x)
    <3>1. Scoped(x) => Len(path) >= 2 /\ path[1] = x[1] /\ path[2] = x[2]
      <4> SUFFICES ASSUME Scoped(x) PROVE Len(path) >= 2 /\ path[1] = x[1] /\ path[2] = x[2]
        OBVIOUS
      <4>1. Len(x) >= 2
        BY DEF Scoped
      <4>2. 1 \in 1..Len(x) /\ 2 \in 1..Len(x) /\ Len(path) >= 2
        BY <1>8, <4>1
      <4>3. QED
        BY <1>8, <4>2
    <3>2. QED
      BY <2>1, <3>1 DEF Scoped
  <2>3. QED
    BY <1>8, <2>2, NpmUnscoped
<1> DEFINE q == NpmLink(x, version)
           b == ScopeOf(key) \o q
           T == Seq(Word) \union {<<"-">>, version}
<1>13. q \in Seq(T) /\ q # <<>> /\ E \notin ToSet(q)
  BY <1>8, <1>9, NpmLinkIs, NpmLinkFull
<1>14. /\ Follow(c, a, b) = ServeAt(r, "GET", b)
       /\ ProjectKey(b) = key /\ Remaining(b) = q
  <2> HIDE DEF q, T
  <2>1. key # E \/ ~Scoped(q)
    BY <1>12 DEF q
  <2>2. QED
    BY <1>1, <1>2, <1>13, <2>1, FollowInScope DEF key
<1>15. NpmServe("GET", q) = Gives("artifact", Joined(x), version, E)
  BY <1>8, <1>11, NpmLinkServed
<1> HIDE DEF b, q
<1>16. Says(r, "GET", b) = Gives("artifact", Joined(x), version, E)
  BY <1>14, <1>15, TypeSays
<1>17. ServeAt(r, "GET", b) = Reply("artifact", "npm", key, Joined(x), version, E)
  BY <1>2, <1>14, <1>16, Stamped DEF Gives
<1>18. Follow(c, a, b) = o
  BY <1>6, <1>14, <1>17
<1>19. OneIdentity(c, a, o)
  <2>1. b = (IF o.scope = E THEN <<>> ELSE <<<<"p">>, o.scope>>)
              \o NpmLink(Segments(o.name), o.version)
    BY <1>7, <1>10 DEF b, q, ScopeOf
  <2>2. QED
    BY <1>7, <1>18, <2>1 DEF OneIdentity
<1>20. QED
  BY <1>6, <1>7, <1>8, <1>10, <1>19 DEF o

SetReg(a, x) == [a EXCEPT !.reg = x]
NpmLinked(a, reg, n, v) == [a EXCEPT !.reg = reg, !.name = n, !.version = v]
PypiLinked(a, reg, f, n, v) ==
  [a EXCEPT !.reg = reg, !.file = f, !.name = n, !.version = v]

\* Links in the fields of an answer.
LEMMA LinkedIs ==
  \A k, reg, n, v, f :
    /\ NpmLinked(Answer(k), reg, n, v) = Reply(k, reg, E, n, v, E)
    /\ PypiLinked(Answer(k), reg, f, n, v) = Reply(k, reg, E, n, v, f)
<1> SUFFICES ASSUME NEW k, NEW reg, NEW n, NEW v, NEW f
             PROVE  /\ NpmLinked(Answer(k), reg, n, v) = Reply(k, reg, E, n, v, E)
                    /\ PypiLinked(Answer(k), reg, f, n, v) = Reply(k, reg, E, n, v, f)
  OBVIOUS
<1> DEFINE R(r, name, version, file) == Reply(k, r, E, name, version, file)
<1>1. Answer(k) = R(Blank, E, E, E)
  BY AnswerIs
<1>2. ASSUME NEW r, NEW name, NEW version, NEW file
      PROVE  /\ SetReg(R(r, name, version, file), reg) = R(reg, name, version, file)
             /\ SetName(R(r, name, version, file), n) = R(r, n, version, file)
             /\ SetVersion(R(r, name, version, file), v) = R(r, name, v, file)
             /\ SetFile(R(r, name, version, file), f) = R(r, name, version, f)
  BY DEF Reply, SetReg, SetName, SetVersion, SetFile
<1>3. \A a : /\ NpmLinked(a, reg, n, v) = SetVersion(SetName(SetReg(a, reg), n), v)
             /\ PypiLinked(a, reg, f, n, v) =
                  SetVersion(SetName(SetFile(SetReg(a, reg), f), n), v)
  BY DEF NpmLinked, PypiLinked, SetReg, SetName, SetVersion, SetFile
<1> HIDE DEF R
<1>4. QED
  BY <1>1, <1>2, <1>3 DEF R

\* The links in an npm index lead to what they name.
LEMMA NpmLinks ==
  ASSUME NEW c \in Configs, Starts(c), Flat(c), NEW a \in Asks, NEW i, Takes(c, a, i),
         Reaches(c, a) = "registry", c.registries[i].type = "npm",
         Outcome(c, a).kind = "index",
         ~Scoped(Segments(Outcome(c, a).name)),
         Last(Segments(Outcome(c, a).name)) \notin {E, <<"-">>},
         \A v \in Releases : v # E /\ Bare(Outcome(c, a).name, v)
  PROVE  NpmIndexLinks(c, a, Outcome(c, a))
<1> DEFINE r == c.registries[i]
           below == Below(r, a)
           path == Remaining(below)
           key == ProjectKey(below)
           o == Outcome(c, a)
<1>1. Cleaned(below) /\ Cleaned(path) /\ Registry(c, a) = r
  BY CleanRemaining DEF Takes
<1>2. HasScopes(r)
  BY DEF HasScopes
<1>3. o = ServeAt(r, a.method, below) /\ Says(r, a.method, below) = NpmServe(a.method, path)
  BY OutcomeIs, TypeSays
<1>4. NpmServe(a.method, path).kind = "index"
  BY <1>3, SaysKind, NpmGives
<1>5. /\ DashAt(path) = {} /\ path # <<E>>
      /\ NpmServe(a.method, path) = Gives("index", Joined(path), E, E)
  BY <1>4, NpmIndex
<1>6. o = Reply("index", "npm", key, Joined(path), E, E)
  BY <1>2, <1>3, <1>5, Stamped DEF Gives
<1>7. o.name = Joined(path)
  <2> HIDE DEF o, key, path
  <2>1. QED
    BY <1>6, ReplyIs
<1> HIDE DEF o, key, path, below
<1>8. /\ path \in Seq(Seq(Word)) /\ path # <<>> /\ Len(path) \in Nat \ {0}
      /\ \A j \in 1..Len(path) : path[j] = E => j = Len(path)
  BY <1>1 DEF Cleaned
<1>9. path[1] # E
  <2> SUFFICES ASSUME path[1] = E PROVE FALSE
    OBVIOUS
  <2>1. Len(path) = 1
    <3>1. 1 \in 1..Len(path)
      BY <1>8
    <3>2. QED
      BY <1>8, <3>1
  <2> DEFINE t == <<E>>
  <2>2. t \in Seq({E}) /\ Len(t) = 1 /\ t[1] = E
    OBVIOUS
  <2>4. path \in Seq(Seq(Word) \union {E}) /\ t \in Seq(Seq(Word) \union {E})
    BY <1>8
  <2> HIDE DEF t
  <2>5. path = t
    <3>1. \A j \in 1..Len(t) : path[j] = t[j]
      <4>1. \A j \in 1..1 : j = 1
        OBVIOUS
      <4>2. QED
        BY <2>2, <4>1
    <3>2. QED
      BY <2>1, <2>2, <2>4, <3>1, SameSequence
  <2>3. QED
    BY <1>5, <2>5 DEF t
<1>10. Segments(o.name) = path
  BY <1>7, <1>8, <1>9, Rejoined DEF Word
<1>11. path[Len(path)] # E /\ path[Len(path)] # <<"-">> /\ ~Scoped(path)
  BY <1>10 DEF o, Last
<1>12. \A j \in 1..Len(path) : path[j] # E /\ path[j] # <<"-">>
  <2>1. ASSUME NEW j \in 1..Len(path) PROVE path[j] # <<"-">>
    <3>1. CASE j = Len(path)
      BY <1>11, <3>1
    <3>2. CASE j # Len(path)
      <4>1. j \in 1..(Len(path) - 1)
        BY <1>8, <3>2
      <4>2. QED
        BY <1>5, <4>1 DEF DashAt
    <3>3. QED
      BY <3>1, <3>2
  <2>2. QED
    BY <1>8, <1>11, <2>1
<1>13. ASSUME NEW v \in Releases
       PROVE  Follow(c, a, NpmLink(path, v)) = Reply("artifact", "npm", E, Joined(path), v, E)
  <2> DEFINE q == NpmLink(path, v)
             T == Seq(Word) \union {<<"-">>, v}
  <2>1. v # E /\ BareVersion(path[Len(path)], v) = v
    BY <1>10, <1>13 DEF o, Bare, Last
  <2>2. q \in Seq(T) /\ q # <<>> /\ E \notin ToSet(q)
    BY <1>8, <1>12, <2>1, NpmLinkIs, NpmLinkFull
  <2>3. ~Scoped(q)
    BY <1>8, <1>11, NpmUnscoped
  <2>4. NpmServe("GET", q) = Gives("artifact", Joined(path), v, E)
    BY <1>8, <1>12, <2>1, NpmLinkServed
  <2> HIDE DEF q, T
  <2>5. Follow(c, a, q) = ServeAt(r, "GET", q)
    BY <2>2, FollowServed
  <2>6. ProjectKey(q) = E /\ Remaining(q) = q
    BY <2>3 DEF ProjectKey, Remaining
  <2>7. Says(r, "GET", q) = Gives("artifact", Joined(path), v, E)
    BY <2>4, <2>6, TypeSays
  <2>8. ServeAt(r, "GET", q) = Reply("artifact", "npm", E, Joined(path), v, E)
    BY <1>2, <2>6, <2>7, Stamped DEF Gives
  <2>9. QED
    BY <2>5, <2>8 DEF q
<1>14. NpmIndexLinks(c, a, o) <=>
         \A v \in Releases : Follow(c, a, NpmLink(Segments(o.name), v)) =
                               NpmLinked(Answer("artifact"), "npm", o.name, v)
  BY DEF NpmIndexLinks, NpmLinked
<1>15. QED
  BY <1>7, <1>10, <1>13, <1>14, LinkedIs DEF o

-----------------------------------------------------------------------------
(* pypi.                                                                   *)

\* What pypi makes of a file name.
LEMMA PypiArtifactIs ==
  ASSUME NEW name, NEW fn
  PROVE  PypiArtifact(name, fn) =
           IF name = E \/ Ends(fn, ".metadata") \/ ~Versioned(fn) THEN Answer("404")
           ELSE Gives("artifact", name, ParseFilename(fn).version, fn)
<1> DEFINE v == ParseFilename(fn).version
<1>1. PypiArtifact(name, fn) =
        IF name = E \/ Ends(fn, ".metadata") \/ ~Versioned(fn) THEN Answer("404")
        ELSE WithFile(Answer("artifact"), name, fn, v)
  BY DEF PypiArtifact, WithFile
<1> HIDE DEF v
<1>2. QED
  BY <1>1, WithIs DEF v

\* What pypi answers, by the pattern that the path matches.
LEMMA PypiServeIs ==
  ASSUME NEW hosts, NEW alias, NEW method, NEW path
  PROVE  LET pattern == PypiPattern(alias, path) IN
         /\ pattern \in {"none", "slash", "simple", "files", "upstream"}
         /\ pattern = "simple" => path[1] = <<"simple">> /\ Len(path) >= 3
         /\ pattern = "files" => path[1] = <<"files">> /\ Len(path) = 4
         /\ pattern = "upstream" => path[1] = <<"upstream">> /\ Len(path) >= 3
         /\ path[1] = <<"files">> /\ Len(path) = 4 /\ path[4] # E => pattern = "files"
         /\ PypiServe(hosts, alias, method, path) =
              IF pattern = "none" THEN Answer("404")
              ELSE IF method \notin {"GET", "HEAD"} THEN Answer("405")
              ELSE IF pattern = "slash" THEN Answer("redirect")
              ELSE IF pattern = "simple" THEN Gives("index", path[2], E, E)
              ELSE IF pattern = "files" THEN PypiFile(path[2], path[3], path[4])
              ELSE PypiUpstream(hosts, path[2], SubSeq(path, 3, Len(path)))
<1> DEFINE pattern == PypiPattern(alias, path)
           one == path[1]
           simple == <<"simple">>
           files == <<"files">>
           upstream == <<"upstream">>
           n == Len(path)
           second == path[2] # E
           fourth == path[4] # E
<1>1. pattern = (CASE one = simple /\ n >= 3 -> "simple"
                   [] one = files /\ n = 4 /\ fourth -> "files"
                   [] one = upstream /\ n >= 3 /\ alias -> "upstream"
                   [] one = simple /\ n = 2 /\ second -> "slash"
                   [] one = upstream /\ n = 2 /\ second /\ alias -> "slash"
                   [] OTHER -> "none")
  BY DEF PypiPattern
<1>2. simple # files /\ simple # upstream /\ files # upstream
  <2>1. simple[1] = "simple" /\ files[1] = "files" /\ upstream[1] = "upstream"
    OBVIOUS
  <2> HIDE DEF simple, files, upstream
  <2>2. QED
    BY <2>1
<1>3. ~(n >= 3 /\ n = 2)
  <2> HIDE DEF n
  <2>1. n = 2 => ~(n >= 3)
    OBVIOUS
  <2>2. QED
    BY <2>1
<1> HIDE DEF pattern, one, simple, files, upstream, n, second, fourth
<1>4. /\ pattern \in {"none", "slash", "simple", "files", "upstream"}
      /\ pattern = "simple" => one = simple /\ n >= 3
      /\ pattern = "files" => one = files /\ n = 4
      /\ pattern = "upstream" => one = upstream /\ n >= 3
      /\ one = files /\ n = 4 /\ fourth => pattern = "files"
  <2>1. CASE one = simple
    <3>1. CASE n >= 3
      BY <1>1, <1>2, <1>3, <2>1, <3>1
    <3>2. CASE ~(n >= 3) /\ n = 2 /\ second
      BY <1>1, <1>2, <1>3, <2>1, <3>2
    <3>3. CASE ~(n >= 3) /\ ~(n = 2 /\ second)
      BY <1>1, <1>2, <1>3, <2>1, <3>3
    <3>4. QED
      BY <3>1, <3>2, <3>3
  <2>2. CASE one = files
    <3>1. CASE n = 4 /\ fourth
      BY <1>1, <1>2, <1>3, <2>2, <3>1
    <3>2. CASE ~(n = 4 /\ fourth)
      BY <1>1, <1>2, <1>3, <2>2, <3>2
    <3>3. QED
      BY <3>1, <3>2
  <2>3. CASE one = upstream
    <3>1. CASE n >= 3 /\ alias
      BY <1>1, <1>2, <1>3, <2>3, <3>1
    <3>2. CASE ~(n >= 3 /\ alias) /\ n = 2 /\ second /\ alias
      BY <1>1, <1>2, <1>3, <2>3, <3>2
    <3>3. CASE ~(n >= 3 /\ alias) /\ ~(n = 2 /\ second /\ alias)
      BY <1>1, <1>2, <1>3, <2>3, <3>3
    <3>4. QED
      BY <3>1, <3>2, <3>3
  <2>4. CASE one # simple /\ one # files /\ one # upstream
    BY <1>1, <2>4
  <2>5. QED
    BY <2>1, <2>2, <2>3, <2>4
<1> DEFINE Index == WithName(Answer("index"), path[2])
           File1 == PypiFile(path[2], path[3], path[4])
           Up == PypiUpstream(hosts, path[2], SubSeq(path, 3, Len(path)))
<1>5. PypiServe(hosts, alias, method, path) =
        IF pattern = "none" THEN Answer("404")
        ELSE IF method \notin {"GET", "HEAD"} THEN Answer("405")
        ELSE CASE pattern = "slash" -> Answer("redirect")
               [] pattern = "simple" -> Index
               [] pattern = "files" -> File1
               [] pattern = "upstream" -> Up
  BY DEF PypiServe, WithName, pattern
<1>6. Index = Gives("index", path[2], E, E)
  BY WithIs
<1> HIDE DEF Index, File1, Up
<1>7. PypiServe(hosts, alias, method, path) =
        IF pattern = "none" THEN Answer("404")
        ELSE IF method \notin {"GET", "HEAD"} THEN Answer("405")
        ELSE IF pattern = "slash" THEN Answer("redirect")
        ELSE IF pattern = "simple" THEN Index
        ELSE IF pattern = "files" THEN File1
        ELSE Up
  BY <1>4, <1>5
<1>8. QED
  BY <1>4, <1>6, <1>7 DEF Index, File1, Up, pattern, one, simple, files, upstream, n, fourth

\* The name in a file name is made of its pieces.
LEMMA ParsedName ==
  ASSUME NEW S, NEW fn \in Seq(S)
  PROVE  ParseFilename(fn).name \in Seq(S)
<1>1. Unparsed.name \in Seq(S)
  BY DEF Unparsed, E
<1>2. ParseWheel(fn).name \in Seq(S)
  <2> DEFINE parts == Strip(fn, ".whl")
  <2>1. parts \in Seq(S)
    BY StripIs
  <2>2. ParseWheel(fn) = IF Len(parts) < 5 THEN Unparsed
                         ELSE [ok |-> TRUE, name |-> <<parts[1]>>, version |-> <<parts[2]>>]
    BY DEF ParseWheel
  <2> HIDE DEF parts
  <2>3. CASE Len(parts) < 5
    BY <1>1, <2>2, <2>3
  <2>4. CASE ~(Len(parts) < 5)
    <3>1. parts[1] \in S
      <4>1. 1 \in 1..Len(parts)
        BY <2>1, <2>4
      <4>2. QED
        BY <2>1, <4>1
    <3>2. ParseWheel(fn).name = <<parts[1]>>
      BY <2>2, <2>4
    <3>3. QED
      BY <3>1, <3>2
  <2>5. QED
    BY <2>3, <2>4
<1>3. ParseSdist(fn).name \in Seq(S)
  <2> DEFINE stem == IF Ends(fn, ".tar.gz") THEN Strip(fn, ".tar.gz") ELSE Strip(fn, ".zip")
             T == {1} \union {i \in DOMAIN stem : stem[i] \notin Extensions}
             last == Max(T)
  <2>1. stem \in Seq(S)
    BY StripIs
  <2>2. ParseSdist(fn).name = SubSeq(stem, 1, last - 1)
    BY DEF ParseSdist
  <2> HIDE DEF stem
  <2>3. T \in SUBSET (0..(Len(stem) + 1)) /\ T # {} /\ Len(stem) + 1 \in Nat /\ Len(stem) \in Nat
        /\ 0 \notin T
    BY <2>1
  <2>4. last \in T
    BY <2>3, GreatestElement
  <2> HIDE DEF last, T
  <2>5. last - 1 \in 0..Len(stem)
    BY <2>3, <2>4
  <2>6. SubSeq(stem, 1, last - 1) \in Seq(S)
    BY <2>1, <2>5
  <2>7. QED
    BY <2>2, <2>6
<1>4. QED
  BY <1>1, <1>2, <1>3 DEF ParseFilename

\* And so is the version.
LEMMA ParsedVersion ==
  ASSUME NEW S, NEW fn \in Seq(S)
  PROVE  ParseFilename(fn).version \in Seq(S)
<1>1. Unparsed.version \in Seq(S)
  BY DEF Unparsed, E
<1>2. ParseWheel(fn).version \in Seq(S)
  <2> DEFINE parts == Strip(fn, ".whl")
  <2>1. parts \in Seq(S)
    BY StripIs
  <2>2. ParseWheel(fn) = IF Len(parts) < 5 THEN Unparsed
                         ELSE [ok |-> TRUE, name |-> <<parts[1]>>, version |-> <<parts[2]>>]
    BY DEF ParseWheel
  <2> HIDE DEF parts
  <2>3. CASE Len(parts) < 5
    BY <1>1, <2>2, <2>3
  <2>4. CASE ~(Len(parts) < 5)
    <3>1. parts[2] \in S
      <4>1. 2 \in 1..Len(parts)
        BY <2>1, <2>4
      <4>2. QED
        BY <2>1, <4>1
    <3>2. ParseWheel(fn).version = <<parts[2]>>
      BY <2>2, <2>4
    <3>3. QED
      BY <3>1, <3>2
  <2>5. QED
    BY <2>3, <2>4
<1>3. ParseSdist(fn).version \in Seq(S)
  <2> DEFINE stem == IF Ends(fn, ".tar.gz") THEN Strip(fn, ".tar.gz") ELSE Strip(fn, ".zip")
             T == {1} \union {i \in DOMAIN stem : stem[i] \notin Extensions}
             last == Max(T)
  <2>1. stem \in Seq(S)
    BY StripIs
  <2>2. ParseSdist(fn).version = SubSeq(stem, last, Len(stem))
    BY DEF ParseSdist
  <2> HIDE DEF stem
  <2>3. T \in SUBSET (0..(Len(stem) + 1)) /\ T # {} /\ Len(stem) + 1 \in Nat /\ Len(stem) \in Nat
        /\ 0 \notin T
    BY <2>1
  <2>4. last \in T
    BY <2>3, GreatestElement
  <2> HIDE DEF last, T
  <2>5. last \in Nat \ {0}
    BY <2>3, <2>4
  <2>6. \A i \in last..Len(stem) : stem[i] \in S
    BY <2>1, <2>3, <2>5
  <2>7. SubSeq(stem, last, Len(stem)) \in Seq(S)
    BY <2>3, <2>5, <2>6, SubSeqProperties
  <2>8. QED
    BY <2>2, <2>7
<1>4. QED
  BY <1>1, <1>2, <1>3 DEF ParseFilename

\* A file name with a version is not empty.
LEMMA VersionedIs ==
  ASSUME NEW fn, Versioned(fn)
  PROVE  fn # E /\ ParseFilename(fn).version # E
BY DEF Versioned, ParseFilename, Unparsed

\* The base name is a segment of the path.
LEMMA BaseNameIs ==
  ASSUME NEW S, NEW path \in Seq(S), path # <<>>, path[1] # E
  PROVE  BaseName(path) \in S
<1> DEFINE T == {0} \union {i \in DOMAIN path : path[i] # E}
           last == Max(T)
<1>1. Len(path) \in Nat \ {0} /\ DOMAIN path = 1..Len(path)
  OBVIOUS
<1>2. T \in SUBSET (0..Len(path)) /\ T # {} /\ 1 \in T
  BY <1>1
<1>3. last \in T /\ \A y \in T : y <= last
  BY <1>1, <1>2, GreatestElement
<1>4. BaseName(path) = IF last = 0 THEN <<"/">> ELSE path[last]
  BY DEF BaseName
<1> HIDE DEF last, T
<1>5. last \in 1..Len(path)
  BY <1>1, <1>2, <1>3
<1>6. QED
  BY <1>1, <1>4, <1>5

\* The tail of a clean path does not begin with an empty segment, unless it
\* is one.
LEMMA CleanTail ==
  ASSUME NEW path, Cleaned(path), NEW k \in Nat \ {0}, k <= Len(path)
  PROVE  LET q == SubSeq(path, k, Len(path)) IN
         /\ q \in Seq(Seq(Word)) /\ q # <<>> /\ Len(q) = Len(path) + 1 - k
         /\ q[1] = path[k]
         /\ \A i \in 1..Len(q) : q[i] = path[k - 1 + i]
         /\ q[1] # E \/ q = <<E>>
<1> DEFINE q == SubSeq(path, k, Len(path))
           n == Len(path) + 1 - k
           S == Seq(Word)
<1>1. /\ path \in Seq(S) /\ Len(path) \in Nat
      /\ \A i \in 1..Len(path) : path[i] = E => i = Len(path)
  BY DEF Cleaned
<1> HIDE DEF S
<1>2. /\ q \in Seq(S) /\ Len(q) = n /\ n \in Nat \ {0}
      /\ \A i \in 1..n : q[i] = path[k - 1 + i]
  BY <1>1
<1> HIDE DEF q
<1>3. q # <<>>
  BY <1>2
<1>4. q[1] = path[k]
  <2>1. 1 \in 1..n /\ k - 1 + 1 = k
    BY <1>2
  <2>2. QED
    BY <1>2, <2>1
<1>5. ASSUME q[1] = E PROVE q = <<E>>
  <2>1. k = Len(path)
    <3>1. k \in 1..Len(path)
      BY <1>1
    <3>2. QED
      BY <1>1, <1>4, <1>5, <3>1
  <2>2. Len(q) = 1
    BY <1>1, <1>2, <2>1
  <2> DEFINE t == <<E>>
  <2>3. E \in S
    BY DEF E, S
  <2>4. t \in Seq(S) /\ Len(t) = 1 /\ t[1] = E
    BY <2>3
  <2> HIDE DEF t
  <2>5. \A j \in 1..Len(t) : q[j] = t[j]
    <3>1. \A j \in 1..1 : j = 1
      OBVIOUS
    <3>2. QED
      BY <1>5, <2>4, <3>1
  <2>6. q = t
    BY <1>2, <2>2, <2>4, <2>5, SameSequence
  <2>7. QED
    BY <2>6 DEF t
<1>6. QED
  BY <1>2, <1>3, <1>4, <1>5 DEF q, S

PypiParts(hosts, path, n, fn) ==
  /\ n \in Seq(Word) /\ Normalize(n) # E /\ fn \in Seq(Word)
  /\ Versioned(fn) /\ ~Ends(fn, ".metadata")
  /\ path[1] = <<"files">> => path[3] = ParseFilename(fn).version
  /\ path[1] = <<"upstream">> => Allows(hosts, path[2])

\* A path that gives a file has a name and a file name in it.
LEMMA PypiFrom ==
  ASSUME NEW hosts, NEW alias, NEW method, NEW path, Cleaned(path),
         PypiServe(hosts, alias, method, path).kind = "artifact"
  PROVE  \E n, fn :
           /\ PypiParts(hosts, path, n, fn)
           /\ PypiServe(hosts, alias, method, path) =
                Gives("artifact", Normalize(n), ParseFilename(fn).version, fn)
<1> DEFINE pattern == PypiPattern(alias, path)
           p == PypiServe(hosts, alias, method, path)
           rest == SubSeq(path, 3, Len(path))
<1>1. /\ pattern \in {"none", "slash", "simple", "files", "upstream"}
      /\ pattern = "files" => path[1] = <<"files">> /\ Len(path) = 4
      /\ pattern = "upstream" => path[1] = <<"upstream">> /\ Len(path) >= 3
      /\ p = IF pattern = "none" THEN Answer("404")
             ELSE IF method \notin {"GET", "HEAD"} THEN Answer("405")
             ELSE IF pattern = "slash" THEN Answer("redirect")
             ELSE IF pattern = "simple" THEN Gives("index", path[2], E, E)
             ELSE IF pattern = "files" THEN PypiFile(path[2], path[3], path[4])
             ELSE PypiUpstream(hosts, path[2], rest)
  BY PypiServeIs
<1>2. path \in Seq(Seq(Word)) /\ Len(path) \in Nat
  BY DEF Cleaned
<1>3. <<"files">> # <<"upstream">>
  <2> DEFINE f == <<"files">>
             u == <<"upstream">>
  <2>1. f[1] = "files" /\ u[1] = "upstream"
    OBVIOUS
  <2> HIDE DEF f, u
  <2>2. f # u
    BY <2>1
  <2>3. QED
    BY <2>2 DEF f, u
<1>9. p.kind = "artifact"
  OBVIOUS
<1> HIDE DEF pattern, p, rest
<1>4. \/ pattern = "files" /\ p = PypiFile(path[2], path[3], path[4])
      \/ pattern = "upstream" /\ p = PypiUpstream(hosts, path[2], rest)
  <2>1. /\ Answer("404").kind # "artifact" /\ Answer("405").kind # "artifact"
        /\ Answer("redirect").kind # "artifact"
        /\ Gives("index", path[2], E, E).kind # "artifact"
    BY GivesIs
  <2>2. QED
    BY <1>1, <1>9, <2>1
<1>5. ASSUME NEW n \in Seq(Word), NEW fn, p = PypiArtifact(Normalize(n), fn)
      PROVE  /\ Normalize(n) # E /\ Versioned(fn) /\ ~Ends(fn, ".metadata")
             /\ p = Gives("artifact", Normalize(n), ParseFilename(fn).version, fn)
  BY <1>5, PypiArtifactIs, GivesIs DEF p
<1>6. CASE pattern = "files" /\ p = PypiFile(path[2], path[3], path[4])
  <2> DEFINE n == path[2]
             fn == path[4]
  <2>1. Len(path) = 4 /\ n \in Seq(Word) /\ fn \in Seq(Word) /\ path[1] = <<"files">>
    <3>1. Len(path) = 4 /\ path[1] = <<"files">>
      BY <1>1, <1>6
    <3>2. \A j \in 1..Len(path) : path[j] \in Seq(Word)
      BY <1>2
    <3>3. 2 \in 1..Len(path) /\ 4 \in 1..Len(path)
      BY <3>1
    <3>4. QED
      BY <3>1, <3>2, <3>3
  <2> HIDE DEF n, fn
  <2>2. /\ p = PypiArtifact(Normalize(n), fn) /\ ParseFilename(fn).version = path[3]
    <3>1. p = PypiFile(n, path[3], fn)
      BY <1>6 DEF n, fn
    <3>2. QED
      BY <3>1, GivesIs DEF PypiFile, p
  <2>3. PypiParts(hosts, path, n, fn)
    BY <1>3, <1>5, <2>1, <2>2 DEF PypiParts
  <2>4. QED
    BY <1>5, <2>1, <2>2, <2>3 DEF p
<1>7. CASE pattern = "upstream" /\ p = PypiUpstream(hosts, path[2], rest)
  <2> DEFINE fn == BaseName(rest)
             n == ParseFilename(fn).name
  <2>1. /\ p = PypiArtifact(Normalize(n), fn) /\ rest # <<E>> /\ Allows(hosts, path[2])
    BY <1>7, GivesIs DEF PypiUpstream, p
  <2>2. path[1] = <<"upstream">> /\ Len(path) >= 3
    BY <1>1, <1>7
  <2>3. rest \in Seq(Seq(Word)) /\ rest # <<>> /\ rest[1] # E
    <3>1. rest \in Seq(Seq(Word)) /\ rest # <<>> /\ (rest[1] # E \/ rest = <<E>>)
      BY <2>2, CleanTail DEF rest
    <3>2. QED
      BY <2>1, <3>1
  <2>4. fn \in Seq(Word)
    BY <2>3, BaseNameIs
  <2> HIDE DEF fn
  <2>5. n \in Seq(Word)
    BY <2>4, ParsedName
  <2> HIDE DEF n
  <2>6. PypiParts(hosts, path, n, fn)
    BY <1>3, <1>5, <2>1, <2>2, <2>4, <2>5 DEF PypiParts
  <2>7. QED
    BY <1>5, <2>1, <2>5, <2>6 DEF p
<1>8. QED
  BY <1>4, <1>6, <1>7

\* The link to a file, segment by segment.
LEMMA PypiLinkIs ==
  ASSUME NEW name, name # E, NEW fn, fn # E
  PROVE  LET q == PypiLink(name, fn) IN
         /\ q \in Seq({q[j] : j \in 1..4}) /\ Len(q) = 4
         /\ q[1] = <<"files">> /\ q[2] = name /\ q[4] = fn
         /\ Versioned(fn) => q[3] = ParseFilename(fn).version
         /\ q # <<>> /\ E \notin ToSet(q) /\ ~Scoped(q)
<1> DEFINE q == PypiLink(name, fn)
           files == <<"files">>
           v == IF Versioned(fn) THEN ParseFilename(fn).version ELSE <<"_">>
<1>1. v # E /\ (Versioned(fn) => v = ParseFilename(fn).version)
  <2>1. <<"_">> # E
    BY DEF E
  <2>2. QED
    BY <2>1, VersionedIs
<1>2. files # <<"p">> /\ files # E
  <2> DEFINE p == <<"p">>
  <2>1. files[1] = "files" /\ p[1] = "p" /\ files # <<>>
    OBVIOUS
  <2> HIDE DEF files, p
  <2>2. files # p
    BY <2>1
  <2>3. QED
    BY <2>1, <2>2 DEF p, E
<1>3. q = <<files, name, v, fn>>
  BY DEF PypiLink
<1> HIDE DEF q, files, v
<1>4. Len(q) = 4 /\ DOMAIN q = 1..4 /\ q[1] = files /\ q[2] = name /\ q[3] = v /\ q[4] = fn
  BY <1>3
<1>5. q \in Seq({q[j] : j \in 1..4})
  <2> DEFINE U == {files, name, v, fn}
  <2>1. q \in Seq(U)
    BY <1>3
  <2>2. U = {q[j] : j \in 1..4}
    <3>1. \A j \in 1..4 : j = 1 \/ j = 2 \/ j = 3 \/ j = 4
      OBVIOUS
    <3>2. 1 \in 1..4 /\ 2 \in 1..4 /\ 3 \in 1..4 /\ 4 \in 1..4
      OBVIOUS
    <3>3. QED
      BY <1>4, <3>1, <3>2
  <2> HIDE DEF U
  <2>3. QED
    BY <2>1, <2>2
<1>6. E \notin ToSet(q)
  <2>1. \A j \in 1..4 : j = 1 \/ j = 2 \/ j = 3 \/ j = 4
    OBVIOUS
  <2>2. QED
    BY <1>1, <1>2, <1>4, <2>1 DEF ToSet
<1>7. ~Scoped(q)
  BY <1>2, <1>4 DEF Scoped
<1>8. q # <<>>
  BY <1>4
<1>9. QED
  BY <1>1, <1>4, <1>5, <1>6, <1>7, <1>8 DEF q, files

\* A link leads to its file, if that has a version.
LEMMA PypiLinkServed ==
  ASSUME NEW name, name # E, NEW fn, fn # E, NEW hosts, NEW alias
  PROVE  PypiServe(hosts, alias, "GET", PypiLink(name, fn)) =
           IF Normalize(name) = E \/ Ends(fn, ".metadata") \/ ~Versioned(fn) THEN Answer("404")
           ELSE Gives("artifact", Normalize(name), ParseFilename(fn).version, fn)
<1> DEFINE q == PypiLink(name, fn)
<1>1. /\ q \in Seq({q[j] : j \in 1..4}) /\ Len(q) = 4
      /\ q[1] = <<"files">> /\ q[2] = name /\ q[4] = fn
      /\ Versioned(fn) => q[3] = ParseFilename(fn).version
      /\ q # <<>> /\ E \notin ToSet(q) /\ ~Scoped(q)
  BY PypiLinkIs
<1> HIDE DEF q
<1>2. PypiServe(hosts, alias, "GET", q) = PypiFile(name, q[3], fn)
  <2> DEFINE pattern == PypiPattern(alias, q)
             rest == SubSeq(q, 3, Len(q))
  <2>1. /\ q[1] = <<"files">> /\ Len(q) = 4 /\ q[4] # E => pattern = "files"
        /\ PypiServe(hosts, alias, "GET", q) =
             IF pattern = "none" THEN Answer("404")
             ELSE IF "GET" \notin {"GET", "HEAD"} THEN Answer("405")
             ELSE IF pattern = "slash" THEN Answer("redirect")
             ELSE IF pattern = "simple" THEN Gives("index", q[2], E, E)
             ELSE IF pattern = "files" THEN PypiFile(q[2], q[3], q[4])
             ELSE PypiUpstream(hosts, q[2], rest)
    BY PypiServeIs
  <2> HIDE DEF pattern, rest
  <2>2. pattern = "files"
    BY <1>1, <2>1
  <2>3. QED
    BY <1>1, <2>1, <2>2
<1>3. CASE Versioned(fn)
  <2>1. PypiFile(name, q[3], fn) = PypiArtifact(Normalize(name), fn)
    <3>1. q[3] = ParseFilename(fn).version /\ q[3] # E
      BY <1>1, <1>3, VersionedIs
    <3>2. QED
      BY <1>3, <3>1 DEF PypiFile
  <2>2. QED
    BY <1>2, <2>1, PypiArtifactIs DEF q
<1>4. CASE ~Versioned(fn)
  <2>1. PypiFile(name, q[3], fn) = Answer("404")
    BY <1>4 DEF PypiFile
  <2>2. QED
    BY <1>2, <1>4, <2>1 DEF q
<1>5. QED
  BY <1>3, <1>4

\* pypi gives answers.
LEMMA PypiGives ==
  ASSUME NEW hosts, NEW alias, NEW method, NEW path
  PROVE  \E k, n, v, f : PypiServe(hosts, alias, method, path) = Gives(k, n, v, f)
<1>1. ASSUME NEW name, NEW fn
      PROVE  \E k, n, v, f : PypiArtifact(name, fn) = Gives(k, n, v, f)
  BY PypiArtifactIs, GivesIs
<1>2. ASSUME NEW pkg, NEW version, NEW fn
      PROVE  \E k, n, v, f : PypiFile(pkg, version, fn) = Gives(k, n, v, f)
  BY <1>1, GivesIs DEF PypiFile
<1>3. ASSUME NEW host, NEW rest
      PROVE  \E k, n, v, f : PypiUpstream(hosts, host, rest) = Gives(k, n, v, f)
  <2> DEFINE fn == BaseName(rest)
             bad == \/ host = E \/ rest = <<E>> \/ ~Allows(hosts, host)
                    \/ ~ParseFilename(fn).ok \/ ParseFilename(fn).name = E
             p == PypiArtifact(Normalize(ParseFilename(fn).name), fn)
  <2>1. PypiUpstream(hosts, host, rest) = IF bad THEN Answer("404") ELSE p
    BY DEF PypiUpstream
  <2>2. \E k, n, v, f : p = Gives(k, n, v, f)
    BY <1>1
  <2> HIDE DEF bad, p
  <2>3. QED
    BY <2>1, <2>2, GivesIs
<1> DEFINE pattern == PypiPattern(alias, path)
           p == PypiServe(hosts, alias, method, path)
           u == PypiUpstream(hosts, path[2], SubSeq(path, 3, Len(path)))
<1>4. p = IF pattern = "none" THEN Answer("404")
          ELSE IF method \notin {"GET", "HEAD"} THEN Answer("405")
          ELSE IF pattern = "slash" THEN Answer("redirect")
          ELSE IF pattern = "simple" THEN Gives("index", path[2], E, E)
          ELSE IF pattern = "files" THEN PypiFile(path[2], path[3], path[4])
          ELSE u
  BY PypiServeIs
<1>5. \E k, n, v, f : u = Gives(k, n, v, f)
  BY <1>3
<1> HIDE DEF pattern, p, u
<1>6. QED
  BY <1>2, <1>4, <1>5, GivesIs DEF p

\* A pypi index is that of the name in the path.
LEMMA PypiIndex ==
  ASSUME NEW hosts, NEW alias, NEW method, NEW path, Cleaned(path),
         PypiServe(hosts, alias, method, path).kind = "index"
  PROVE  /\ path[2] \in Seq(Word) /\ path[2] # E
         /\ PypiServe(hosts, alias, method, path) = Gives("index", path[2], E, E)
<1> DEFINE pattern == PypiPattern(alias, path)
           p == PypiServe(hosts, alias, method, path)
           u == PypiUpstream(hosts, path[2], SubSeq(path, 3, Len(path)))
<1>1. /\ pattern = "simple" => Len(path) >= 3
      /\ p = IF pattern = "none" THEN Answer("404")
             ELSE IF method \notin {"GET", "HEAD"} THEN Answer("405")
             ELSE IF pattern = "slash" THEN Answer("redirect")
             ELSE IF pattern = "simple" THEN Gives("index", path[2], E, E)
             ELSE IF pattern = "files" THEN PypiFile(path[2], path[3], path[4])
             ELSE u
  BY PypiServeIs
<1>2. PypiFile(path[2], path[3], path[4]).kind # "index"
  BY PypiArtifactIs, GivesIs DEF PypiFile
<1>3. u.kind # "index"
  <2> DEFINE fn == BaseName(SubSeq(path, 3, Len(path)))
             n == Normalize(ParseFilename(fn).name)
  <2>1. u = Answer("404") \/ u = PypiArtifact(n, fn)
    BY DEF PypiUpstream
  <2> HIDE DEF u, n, fn
  <2>2. QED
    BY <2>1, PypiArtifactIs, GivesIs
<1>4. p.kind = "index"
  OBVIOUS
<1> HIDE DEF pattern, p, u
<1>5. pattern = "simple" /\ p = Gives("index", path[2], E, E)
  <2>1. /\ Answer("404").kind # "index" /\ Answer("405").kind # "index"
        /\ Answer("redirect").kind # "index"
    BY GivesIs
  <2>2. QED
    BY <1>1, <1>2, <1>3, <1>4, <2>1
<1>6. 2 \in 1..Len(path) /\ 2 # Len(path)
  <2>1. Len(path) \in Nat /\ Len(path) >= 3
    BY <1>1, <1>5 DEF Cleaned
  <2>2. \A m \in Nat : m >= 3 => 2 \in 1..m /\ 2 # m
    OBVIOUS
  <2>3. QED
    BY <2>1, <2>2
<1>7. path[2] \in Seq(Word) /\ path[2] # E
  <2>1. /\ path \in Seq(Seq(Word))
        /\ \A j \in 1..Len(path) : path[j] = E => j = Len(path)
    BY DEF Cleaned
  <2>2. path[2] # E
    BY <1>6, <2>1
  <2>3. \A j \in 1..Len(path) : path[j] \in Seq(Word)
    BY <2>1
  <2>4. QED
    BY <1>6, <2>2, <2>3
<1>8. QED
  BY <1>5, <1>7 DEF p

\* A path of one segment is that segment.
LEMMA OneSegment ==
  ASSUME NEW m \in Seq(Word)
  PROVE  Joined(<<m>>) = m /\ <<m>> \in Seq(Seq(Word)) /\ <<m>> # <<>> /\ <<m>>[1] = m
<1>1. <<>> \in Seq(Seq(Word))
  OBVIOUS
<1>5. Joined(<<>>) = E
  BY JoinedBuilds
<1>2. Joined(Append(<<>>, m)) = JoinStep(Joined(<<>>), m)
  BY <1>1, JoinedBuilds
<1>3. Append(<<>>, m) = <<m>>
  OBVIOUS
<1>4. QED
  BY <1>1, <1>2, <1>3, <1>5 DEF JoinStep

\* Spellings of one pypi file are one identity.
LEMMA PypiIdentity ==
  ASSUME NEW c \in Configs, Starts(c), Flat(c), NEW a \in Asks, NEW i, Takes(c, a, i),
         Reaches(c, a) = "registry", c.registries[i].type = "pypi",
         Outcome(c, a).kind = "artifact",
         LET path == Remaining(Below(Registry(c, a), a)) IN
         path[1] = <<"upstream">> => NoPort(NoDot(path[2])) = NoDot(NoPort(path[2]))
  PROVE  /\ OneIdentity(c, a, Outcome(c, a))
         /\ \E m, version, fn :
              /\ m \in Seq(Word) /\ m # E /\ version \in Seq(Word)
              /\ fn \in Seq(Word) /\ fn # E
              /\ Outcome(c, a) = Reply("artifact", "pypi", Outcome(c, a).scope,
                                      m, version, fn)
<1> DEFINE r == c.registries[i]
           below == Below(r, a)
           path == Remaining(below)
           key == ProjectKey(below)
           o == Outcome(c, a)
           hosts == FileHosts(r)
           says == PypiServe(hosts, r.alias, a.method, path)
<1>1. Cleaned(below) /\ Cleaned(path) /\ Registry(c, a) = r
  BY CleanRemaining DEF Takes
<1>2. HasScopes(r)
  BY DEF HasScopes
<1>3. o = ServeAt(r, a.method, below) /\ Says(r, a.method, below) = says
  BY OutcomeIs, TypeSays
<1>4. says.kind = "artifact"
  BY <1>3, SaysKind, PypiGives
<1>5. PICK n, fn :
        /\ PypiParts(hosts, path, n, fn)
        /\ says = Gives("artifact", Normalize(n), ParseFilename(fn).version, fn)
  BY <1>1, <1>4, PypiFrom
<1> DEFINE v == ParseFilename(fn).version
           m == Normalize(n)
<1>6. o = Reply("artifact", "pypi", key, m, v, fn)
  BY <1>2, <1>3, <1>5, Stamped DEF Gives
<1>7. path[1] = <<"upstream">> => NoPort(NoDot(path[2])) = NoDot(NoPort(path[2]))
  BY <1>1
<1>8. /\ m \in Seq(Word) /\ m # E /\ Normalize(m) = m
      /\ fn # E /\ Versioned(fn) /\ ~Ends(fn, ".metadata")
      /\ fn \in Seq(Word) /\ v \in Seq(Word)
  <2>1. m # E /\ Versioned(fn) /\ ~Ends(fn, ".metadata")
    BY <1>5 DEF PypiParts
  <2>2. n \in Seq(Word) /\ fn \in Seq(Word)
    BY <1>5 DEF PypiParts
  <2>3. v \in Seq(Word)
    BY <2>2, ParsedVersion
  <2> HIDE DEF v
  <2>4. QED
    BY <2>1, <2>2, <2>3, NormalForm, VersionedIs
<1>9. path[1] = <<"files">> => path[3] = v
  BY <1>5 DEF PypiParts
<1>10. path[1] = <<"upstream">> => Allows(hosts, path[2])
  BY <1>5 DEF PypiParts
<1>11. E \notin hosts
  BY DEF FileHosts, Allowlist
<1> HIDE DEF o, key, path, below, hosts, says, v, m
<1>12. o.reg = "pypi" /\ o.scope = key /\ o.name = m /\ o.version = v /\ o.file = fn
  BY <1>6, ReplyIs
<1>13. /\ path[1] = <<"upstream">>
            /\ Dns[NoDot(NoPort(path[2]))] \in {"public", "literal"}
          => CheckURL(hosts, "https", path[2])
  BY <1>7, <1>10, <1>11 DEF Allows, CheckURL
<1> DEFINE q == PypiLink(m, fn)
           b == ScopeOf(key) \o q
           T == {q[j] : j \in 1..4}
<1>14. /\ q \in Seq({q[j] : j \in 1..4}) /\ Len(q) = 4
       /\ q[1] = <<"files">> /\ q[2] = m /\ q[4] = fn
       /\ Versioned(fn) => q[3] = ParseFilename(fn).version
       /\ q # <<>> /\ E \notin ToSet(q) /\ ~Scoped(q)
  BY <1>8, PypiLinkIs
<1>15. /\ Follow(c, a, b) = ServeAt(r, "GET", b)
       /\ ProjectKey(b) = key /\ Remaining(b) = q
  <2> HIDE DEF q
  <2>1. q \in Seq(T)
    BY <1>14
  <2> HIDE DEF T
  <2>2. QED
    BY <1>1, <1>2, <1>14, <2>1, FollowInScope DEF key
<1>16. PypiServe(hosts, r.alias, "GET", q) = Gives("artifact", m, v, fn)
  <2>1. PypiServe(hosts, r.alias, "GET", q) =
           IF Normalize(m) = E \/ Ends(fn, ".metadata") \/ ~Versioned(fn) THEN Answer("404")
           ELSE Gives("artifact", Normalize(m), ParseFilename(fn).version, fn)
    BY <1>8, PypiLinkServed
  <2>2. QED
    BY <1>8, <2>1 DEF v
<1> HIDE DEF b, q
<1>17. Says(r, "GET", b) = Gives("artifact", m, v, fn)
  BY <1>15, <1>16, TypeSays DEF hosts
<1>18. ServeAt(r, "GET", b) = Reply("artifact", "pypi", key, m, v, fn)
  BY <1>2, <1>15, <1>17, Stamped DEF Gives
<1>19. Follow(c, a, b) = o
  BY <1>6, <1>15, <1>18
<1>20. OneIdentity(c, a, o)
  <2>1. b = (IF o.scope = E THEN <<>> ELSE <<<<"p">>, o.scope>>) \o PypiLink(o.name, o.file)
    BY <1>12 DEF b, q, ScopeOf
  <2>2. Remaining(Below(Registry(c, a), a)) = path
    BY <1>1 DEF path, below
  <2>3. FileHosts(Registry(c, a)) = hosts
    BY <1>1 DEF hosts
  <2>4. OneIdentity(c, a, o) <=>
          /\ Follow(c, a, b) = o
          /\ path[1] = <<"files">> => path[3] = o.version
          /\ path[1] = <<"upstream">>
               /\ Dns[NoDot(NoPort(path[2]))] \in {"public", "literal"}
             => CheckURL(hosts, "https", path[2])
    BY <1>12, <2>1, <2>2, <2>3 DEF OneIdentity
  <2>5. QED
    BY <1>9, <1>12, <1>13, <1>19, <2>4
<1>21. QED
  BY <1>6, <1>8, <1>12, <1>20 DEF o

\* The links in a pypi index lead to what they name.
LEMMA PypiLinks ==
  ASSUME NEW c \in Configs, Starts(c), Flat(c), NEW a \in Asks, NEW i, Takes(c, a, i),
         Reaches(c, a) = "registry", c.registries[i].type = "pypi",
         Outcome(c, a).kind = "index", E \notin Listed
  PROVE  PypiIndexLinks(c, a, Outcome(c, a))
<1> DEFINE r == c.registries[i]
           below == Below(r, a)
           path == Remaining(below)
           key == ProjectKey(below)
           o == Outcome(c, a)
           hosts == FileHosts(r)
           says == PypiServe(hosts, r.alias, a.method, path)
           name == path[2]
           m == Normalize(name)
<1>1. Cleaned(below) /\ Cleaned(path) /\ Registry(c, a) = r
  BY CleanRemaining DEF Takes
<1>2. HasScopes(r)
  BY DEF HasScopes
<1>3. o = ServeAt(r, a.method, below) /\ Says(r, a.method, below) = says
  BY OutcomeIs, TypeSays
<1>4. says.kind = "index"
  BY <1>3, SaysKind, PypiGives
<1>5. name \in Seq(Word) /\ name # E /\ says = Gives("index", name, E, E)
  BY <1>1, <1>4, PypiIndex
<1>6. o = Reply("index", "pypi", key, name, E, E)
  BY <1>2, <1>3, <1>5, Stamped DEF Gives
<1> HIDE DEF o, key, path, below, hosts, says, name
<1>7. o.name = name
  BY <1>6, ReplyIs
<1>8. m # E
  BY <1>5, NormalForm
<1> HIDE DEF m
<1>9. ASSUME NEW fn \in Listed
      PROVE  LET f == Follow(c, a, PypiLink(name, fn)) IN
             IF Versioned(fn) /\ ~Ends(fn, ".metadata")
               THEN f = PypiLinked(Answer("artifact"), "pypi", fn, m, ParseFilename(fn).version)
               ELSE f.kind = "404"
  <2> DEFINE q == PypiLink(name, fn)
             T == {q[j] : j \in 1..4}
             v == ParseFilename(fn).version
             good == Versioned(fn) /\ ~Ends(fn, ".metadata")
  <2>1. fn # E
    BY <1>9
  <2>2. /\ q \in Seq({q[j] : j \in 1..4}) /\ Len(q) = 4
        /\ q[1] = <<"files">> /\ q[2] = name /\ q[4] = fn
        /\ Versioned(fn) => q[3] = ParseFilename(fn).version
        /\ q # <<>> /\ E \notin ToSet(q) /\ ~Scoped(q)
    BY <1>5, <2>1, PypiLinkIs
  <2>3. PypiServe(hosts, r.alias, "GET", q) =
          IF m = E \/ Ends(fn, ".metadata") \/ ~Versioned(fn) THEN Answer("404")
          ELSE Gives("artifact", m, v, fn)
    BY <1>5, <2>1, PypiLinkServed DEF m
  <2> HIDE DEF q, v
  <2>10. q \in Seq(T)
    BY <2>2
  <2> HIDE DEF T
  <2>4. Follow(c, a, q) = ServeAt(r, "GET", q)
    BY <2>2, <2>10, FollowServed
  <2>5. ProjectKey(q) = E /\ Remaining(q) = q
    BY <2>2 DEF ProjectKey, Remaining
  <2>6. Says(r, "GET", q) = PypiServe(hosts, r.alias, "GET", q)
    BY <2>5, TypeSays DEF hosts
  <2>7. CASE good
    <3>1. Says(r, "GET", q) = Gives("artifact", m, v, fn)
      BY <1>8, <2>3, <2>6, <2>7
    <3>2. ServeAt(r, "GET", q) = Reply("artifact", "pypi", E, m, v, fn)
      BY <1>2, <2>5, <3>1, Stamped DEF Gives
    <3>3. QED
      BY <2>4, <2>7, <3>2, LinkedIs DEF q, v
  <2>8. CASE ~good
    <3>1. Says(r, "GET", q) = Answer("404")
      BY <2>3, <2>6, <2>8
    <3>2. Says(r, "GET", q) = Gives("404", E, E, E)
      BY <3>1, GivesIs
    <3>3. ServeAt(r, "GET", q).kind = "404"
      BY <3>2, SaysKind, GivesIs
    <3>4. QED
      BY <2>4, <2>8, <3>3 DEF q
  <2>9. QED
    BY <2>7, <2>8
<1>10. PypiIndexLinks(c, a, o) <=>
         \A fn \in Listed :
           LET f == Follow(c, a, PypiLink(o.name, fn)) IN
           IF Versioned(fn) /\ ~Ends(fn, ".metadata")
             THEN f = PypiLinked(Answer("artifact"), "pypi", fn, Normalize(o.name),
                                 ParseFilename(fn).version)
             ELSE f.kind = "404"
  BY DEF PypiIndexLinks, PypiLinked
<1>11. PypiIndexLinks(c, a, o)
  BY <1>7, <1>9, <1>10 DEF m
<1>12. QED
  BY <1>11 DEF o

\* A sequence is its front and its last element.
LEMMA FrontLast ==
  ASSUME NEW S, NEW s \in Seq(S), s # <<>>
  PROVE  /\ Front(s) \in Seq(S) /\ Last(s) \in S
         /\ Append(Front(s), Last(s)) = s /\ Front(s) \o <<Last(s)>> = s
<1> DEFINE n == Len(s)
           f == SubSeq(s, 1, n - 1)
           x == s[n]
<1>1. n \in Nat \ {0} /\ n = Len(s)
  OBVIOUS
<1>2. f \in Seq(S) /\ Len(f) = n - 1 /\ \A i \in 1..(n - 1) : f[i] = s[i]
  <2> HIDE DEF n
  <2>1. \A i \in 1..(n - 1) : s[i] \in S
    BY <1>1
  <2>2. QED
    BY <1>1, <2>1, SubSeqProperties
<1>3. x \in S
  BY <1>1
<1> HIDE DEF f, x
<1> DEFINE t == Append(f, x)
<1>4. t \in Seq(S) /\ Len(t) = n /\ t[n] = x /\ \A i \in 1..(n - 1) : t[i] = s[i]
  BY <1>1, <1>2, <1>3
<1>5. t = f \o <<x>>
  <2>1. \A T : \A u \in Seq(T) : \A e \in T : Append(u, e) = u \o <<e>>
    BY AppendIsConcat
  <2>2. QED
    BY <1>2, <1>3, <2>1
<1> HIDE DEF t
<1>6. \A i \in 1..Len(s) : t[i] = s[i]
  BY <1>1, <1>4 DEF x
<1>7. t = s
  BY <1>4, <1>6, SameSequence
<1>8. Front(s) = f /\ Last(s) = x
  BY DEF Front, Last, f, x
<1>9. QED
  BY <1>2, <1>3, <1>5, <1>7, <1>8 DEF t

\* A joined path ends like its last segment.
LEMMA JoinedLast ==
  ASSUME NEW y \in Seq(Seq(Word)), y # <<>>, Last(y) # E
  PROVE  /\ Joined(y) \in Seq(Word \union {"/"}) /\ Joined(y) # E
         /\ Last(Joined(y)) = Last(Last(y))
<1> DEFINE S == Seq(Word)
           P == Word \union {"/"}
           t == Front(y)
           seg == Last(y)
           a == Joined(t)
<1>1. t \in Seq(S) /\ seg \in S /\ Append(t, seg) = y
  BY FrontLast
<1> HIDE DEF t, seg
<1>2. a \in Seq(P) /\ Joined(y) = JoinStep(a, seg) /\ Joined(y) \in Seq(P)
  <2>1. /\ \A u \in Seq(S) : Joined(u) \in Seq(P)
        /\ \A u \in Seq(S), s \in S : Joined(Append(u, s)) = JoinStep(Joined(u), s)
    BY JoinedBuilds
  <2>2. QED
    BY <1>1, <2>1
<1>3. seg # E /\ Len(seg) \in Nat \ {0} /\ seg \in Seq(P)
  BY <1>1 DEF seg, E
<1>4. CASE a = E
  BY <1>2, <1>3, <1>4 DEF JoinStep, seg
<1>5. CASE a # E
  <2> DEFINE u == Slashed(a, seg)
  <2>1. Splices(P, u, a, seg)
    BY <1>2, <1>3, SlashedIs
  <2>2. Joined(y) = u
    BY <1>2, <1>5 DEF JoinStep, Slashed
  <2> HIDE DEF u, a
  <2>3. Len(u) = Len(a) + 1 + Len(seg) /\ u[Len(u)] = seg[Len(seg)] /\ u # E
    <3>1. Len(u) = Len(a) + 1 + Len(seg) /\ Len(a) \in Nat
      BY <2>1 DEF Splices
    <3>2. Len(seg) \in 1..Len(seg)
      BY <1>3
    <3>3. u[Len(a) + 1 + Len(seg)] = seg[Len(seg)]
      BY <2>1, <3>2 DEF Splices
    <3>4. Len(u) # 0
      BY <1>3, <3>1
    <3>5. QED
      BY <3>1, <3>3, <3>4 DEF E
  <2>4. QED
    BY <1>2, <2>2, <2>3 DEF Last, seg
<1>6. QED
  BY <1>2, <1>4, <1>5 DEF seg

-----------------------------------------------------------------------------
(* goproxy.                                                                *)

\* A go path is a module, "@v" and what is asked for.
GoParts(path, x, y) ==
  /\ x \in Seq(Seq(Word)) /\ x # <<>> /\ x[1] # E
  /\ y \in Seq(Seq(Word)) /\ y # <<>> /\ y[1] # E
  /\ path = x \o <<<<"@v">>>> \o y

\* A malformed escape is answered 400.
LEMMA GoAnswerIs ==
  ASSUME NEW kind, NEW x, NEW v
  PROVE  LET m == Joined(Unescape(x)) IN
         GoAnswer(kind, x, v) = IF Malformed \in ToSet(m) THEN Gives("400", E, E, E)
                                ELSE Gives(kind, m, v, E)
<1> DEFINE m == Joined(Unescape(x))
<1>1. GoAnswer(kind, x, v) = IF Malformed \in ToSet(m) THEN Answer("400")
                             ELSE WithVersion(Answer(kind), m, v)
  BY DEF GoAnswer, WithVersion
<1> HIDE DEF m
<1>2. QED
  BY <1>1, WithIs, GivesIs DEF m

\* What goproxy answers below @v,
LEMMA GoVersionIs ==
  ASSUME NEW x, NEW y
  PROVE  LET v == Front(Joined(y))
             g == GoVersion(x, y) IN
         \/ g = GoAnswer("index", x, E)
         \/ g = GoAnswer("index", x, v)
         \/ g = GoAnswer("artifact", x, v) /\ Ends(Last(y), ".zip")
         \/ g = Answer("404")
<1> DEFINE v == Front(Joined(y))
           A == y = <<<<"list">>>>
           B == Ends(Last(y), ".info")
           C == Ends(Last(y), ".mod")
           D == Ends(Last(y), ".zip")
           g1 == GoAnswer("index", x, E)
           g2 == GoAnswer("index", x, v)
           g3 == GoAnswer("artifact", x, v)
           g4 == Answer("404")
<1>1. A => ~B /\ ~C /\ ~D
  <2> DEFINE w == <<"list">>
             z == <<w>>
  <2>1. Len(w) = 1 /\ w[1] = "list" /\ Len(z) = 1 /\ z[1] = w
    OBVIOUS
  <2>2. A <=> y = z
    OBVIOUS
  <2> HIDE DEF w, z
  <2>3. z[Len(z)][Len(z[Len(z)])] = "list"
    BY <2>1
  <2>4. QED
    BY <2>2, <2>3 DEF Ends, Last
<1>2. B => ~C /\ ~D
  BY DEF Ends
<1>3. C => ~D
  BY DEF Ends
<1>4. GoVersion(x, y) = CASE A -> g1 [] B -> g2 [] C -> g2 [] D -> g3 [] OTHER -> g4
  BY DEF GoVersion
<1> HIDE DEF A, B, C, D, g1, g2, g3, g4
<1>5. \/ GoVersion(x, y) = g1 \/ GoVersion(x, y) = g2
      \/ GoVersion(x, y) = g3 /\ D
      \/ GoVersion(x, y) = g4
  BY <1>1, <1>2, <1>3, <1>4
<1>6. QED
  BY <1>5 DEF D, g1, g2, g3, g4

\* and to a whole path.
LEMMA GoServeIs ==
  ASSUME NEW method, NEW path
  PROVE  LET v == Min(AtV(path))
             g == GoServe(method, path) IN
         \/ g = Answer("405")
         \/ g = GoAnswer("index", Front(path), E)
         \/ g = Answer("404")
         \/ AtV(path) # {} /\ g = GoVersion(SubSeq(path, 1, v - 1), SubSeq(path, v + 1, Len(path)))
BY DEF GoServe

\* goproxy gives answers.
LEMMA GoGives ==
  ASSUME NEW method, NEW path
  PROVE  \E k, n, v, f : GoServe(method, path) = Gives(k, n, v, f)
<1>1. ASSUME NEW kind, NEW x, NEW v
      PROVE  \E k, n, w, f : GoAnswer(kind, x, v) = Gives(k, n, w, f)
  BY GoAnswerIs
<1>2. \A kind : \E k, n, w, f : Answer(kind) = Gives(k, n, w, f)
  BY GivesIs
<1>3. ASSUME NEW x, NEW y
      PROVE  \E k, n, w, f : GoVersion(x, y) = Gives(k, n, w, f)
  <2> DEFINE v == Front(Joined(y))
  <2>1. \/ GoVersion(x, y) = GoAnswer("index", x, E)
        \/ GoVersion(x, y) = GoAnswer("index", x, v)
        \/ GoVersion(x, y) = GoAnswer("artifact", x, v) /\ Ends(Last(y), ".zip")
        \/ GoVersion(x, y) = Answer("404")
    BY GoVersionIs
  <2> HIDE DEF v
  <2>2. QED
    BY <1>1, <1>2, <2>1
<1> DEFINE v == Min(AtV(path))
           x == SubSeq(path, 1, v - 1)
           y == SubSeq(path, v + 1, Len(path))
           g == GoServe(method, path)
<1>4. \/ g = Answer("405")
      \/ g = GoAnswer("index", Front(path), E)
      \/ g = Answer("404")
      \/ AtV(path) # {} /\ g = GoVersion(x, y)
  BY GoServeIs
<1> HIDE DEF x, y, g
<1>5. QED
  BY <1>1, <1>2, <1>3, <1>4 DEF g

\* A path that gives a zip is an escaped module path, @v and a version.
LEMMA GoArtifact ==
  ASSUME NEW method, NEW path, Cleaned(path), GoServe(method, path).kind = "artifact"
  PROVE  \E x, y, version :
           /\ GoParts(path, x, y)
           /\ version \in Seq(Word \union {"/"}) /\ version \o <<".zip">> = Joined(y)
           /\ Malformed \notin ToSet(Joined(Unescape(x)))
           /\ GoServe(method, path) = Gives("artifact", Joined(Unescape(x)), version, E)
<1> DEFINE v == Min(AtV(path))
           x == SubSeq(path, 1, v - 1)
           y == SubSeq(path, v + 1, Len(path))
           g == GoServe(method, path)
           j == Joined(y)
           version == Front(j)
           m == Joined(Unescape(x))
<1>1. ASSUME NEW kind, NEW u, NEW w, GoAnswer(kind, u, w).kind = "artifact"
      PROVE  kind = "artifact" /\ Malformed \notin ToSet(Joined(Unescape(u)))
             /\ GoAnswer(kind, u, w) = Gives("artifact", Joined(Unescape(u)), w, E)
  <2> DEFINE n == Joined(Unescape(u))
  <2>1. GoAnswer(kind, u, w) = IF Malformed \in ToSet(n) THEN Gives("400", E, E, E)
                               ELSE Gives(kind, n, w, E)
    BY GoAnswerIs
  <2> HIDE DEF n
  <2>2. QED
    BY <1>1, <2>1, GivesIs DEF n
<1>2. \A k : Answer(k).kind = k
  BY GivesIs
<1>3. AtV(path) # {} /\ g = GoVersion(x, y)
  <2>1. \/ g = Answer("405")
        \/ g = GoAnswer("index", Front(path), E)
        \/ g = Answer("404")
        \/ AtV(path) # {} /\ g = GoVersion(x, y)
    BY GoServeIs
  <2> HIDE DEF x, y
  <2>2. QED
    BY <1>1, <1>2, <2>1
<1>4. g = GoAnswer("artifact", x, version) /\ Ends(Last(y), ".zip")
  <2>1. \/ GoVersion(x, y) = GoAnswer("index", x, E)
        \/ GoVersion(x, y) = GoAnswer("index", x, version)
        \/ GoVersion(x, y) = GoAnswer("artifact", x, version) /\ Ends(Last(y), ".zip")
        \/ GoVersion(x, y) = Answer("404")
    BY GoVersionIs
  <2> HIDE DEF x, y, version
  <2>2. QED
    BY <1>1, <1>2, <1>3, <2>1
<1>5. Malformed \notin ToSet(m) /\ g = Gives("artifact", m, version, E)
  <2> HIDE DEF x, version
  <2>1. QED
    BY <1>1, <1>4
<1>6. /\ path \in Seq(Seq(Word)) /\ Len(path) \in Nat
      /\ \A i \in 1..Len(path) : path[i] = E => i = Len(path)
  BY DEF Cleaned
<1>7. v \in 2..(Len(path) - 1) /\ path[v] = <<"@v">>
  <2>1. AtV(path) \in SUBSET Nat
    BY DEF AtV
  <2>2. v \in AtV(path)
    BY <1>3, <2>1, MinIs
  <2>3. QED
    BY <2>2 DEF AtV
<1> HIDE DEF v
<1>8. /\ x \in Seq(Seq(Word)) /\ Len(x) = v - 1 /\ x # <<>> /\ x[1] # E
      /\ \A i \in 1..(v - 1) : x[i] = path[i]
  <2>1. x \in Seq(Seq(Word)) /\ Len(x) = v - 1 /\ \A i \in 1..(v - 1) : x[i] = path[i]
    BY <1>6, <1>7
  <2>2. 1 \in 1..(v - 1) /\ 1 \in 1..Len(path) /\ Len(path) # 1
    BY <1>6, <1>7
  <2> HIDE DEF x
  <2>3. x[1] # E
    BY <1>6, <2>1, <2>2
  <2>4. x # <<>>
    BY <1>7, <2>1
  <2>5. QED
    BY <2>1, <2>3, <2>4
<1>9. /\ y \in Seq(Seq(Word)) /\ y # <<>> /\ Len(y) = Len(path) - v
      /\ \A i \in 1..Len(y) : y[i] = path[v + i]
      /\ y[1] # E \/ y = <<E>>
  <2> DEFINE k == v + 1
             q == SubSeq(path, k, Len(path))
  <2>1. k \in Nat \ {0} /\ k <= Len(path)
    BY <1>6, <1>7
  <2>4. k = v + 1 /\ q = y
    OBVIOUS
  <2> HIDE DEF k
  <2>2. /\ q \in Seq(Seq(Word)) /\ q # <<>> /\ Len(q) = Len(path) + 1 - k
        /\ q[1] = path[k]
        /\ \A i \in 1..Len(q) : q[i] = path[k - 1 + i]
        /\ q[1] # E \/ q = <<E>>
    BY <2>1, CleanTail
  <2> HIDE DEF y, q
  <2>3. QED
    BY <1>6, <1>7, <2>2, <2>4
<1>10. Last(y) # E /\ Last(Last(y)) = ".zip"
  BY <1>4 DEF Ends
<1> HIDE DEF x, y
<1>11. y[1] # E
  <2> DEFINE t == <<E>>
  <2>1. Len(t) = 1 /\ t[1] = E
    OBVIOUS
  <2> HIDE DEF t
  <2>2. t[Len(t)] = E
    BY <2>1
  <2>3. y # t
    BY <1>10, <2>2 DEF Last
  <2>4. QED
    BY <1>9, <2>3 DEF t
<1>12. version \in Seq(Word \union {"/"}) /\ version \o <<".zip">> = j
  <2>1. j \in Seq(Word \union {"/"}) /\ j # E /\ Last(j) = ".zip"
    BY <1>9, <1>10, JoinedLast
  <2> HIDE DEF j
  <2>2. Front(j) \in Seq(Word \union {"/"}) /\ Front(j) \o <<Last(j)>> = j
    BY <2>1, FrontLast DEF E
  <2>3. QED
    BY <2>1, <2>2
<1>13. path = x \o <<<<"@v">>>> \o y
  <2> DEFINE S == Seq(Word)
             at == <<"@v">>
             U == S \union {at}
             mid == <<at>>
             h == x \o mid
             t == h \o y
  <2>1. x \in Seq(U) /\ y \in Seq(U) /\ mid \in Seq(U) /\ Len(mid) = 1 /\ mid[1] = at
    BY <1>8, <1>9
  <2>2. path \in Seq(U)
    BY <1>6
  <2> HIDE DEF mid, U, at
  <2>3. Concatenates(U, x, mid, h)
    BY <2>1, Concat
  <2>4. h \in Seq(U) /\ Len(h) = v /\ h[v] = at /\ \A i \in 1..(v - 1) : h[i] = path[i]
    <3> HIDE DEF h
    <3>1. h \in Seq(U) /\ Len(h) = Len(x) + 1 /\ h[Len(x) + 1] = at
      BY <2>1, <2>3 DEF Concatenates
    <3>2. \A i \in 1..Len(x) : h[i] = x[i]
      BY <2>3 DEF Concatenates
    <3>3. QED
      BY <1>7, <1>8, <3>1, <3>2
  <2> HIDE DEF h
  <2>5. Concatenates(U, h, y, t)
    BY <2>1, <2>4, Concat
  <2> HIDE DEF t
  <2>6. t \in Seq(U) /\ Len(t) = Len(path)
    BY <1>6, <1>7, <1>9, <2>4, <2>5 DEF Concatenates
  <2>7. ASSUME NEW i \in 1..Len(path) PROVE t[i] = path[i]
    <3>1. CASE i \in 1..(v - 1)
      <4>1. i \in 1..Len(h)
        BY <1>7, <2>4, <3>1
      <4>2. QED
        BY <2>4, <2>5, <3>1, <4>1 DEF Concatenates
    <3>2. CASE i = v
      <4>1. i \in 1..Len(h)
        BY <1>7, <2>4, <3>2
      <4>2. path[v] = at
        BY <1>7 DEF at
      <4>3. QED
        BY <2>4, <2>5, <3>2, <4>1, <4>2 DEF Concatenates
    <3>3. CASE i \notin 1..v
      <4> DEFINE k == i - v
      <4>1. k \in 1..Len(y) /\ i = v + k
        BY <1>6, <1>7, <1>9, <3>3
      <4> HIDE DEF k
      <4>2. t[Len(h) + k] = y[k]
        BY <2>5, <4>1 DEF Concatenates
      <4>3. QED
        BY <1>9, <2>4, <4>1, <4>2
    <3>4. QED
      BY <1>6, <1>7, <3>1, <3>2, <3>3
  <2>8. t = path
    BY <2>2, <2>6, <2>7, SameSequence
  <2>9. QED
    BY <2>8 DEF t, h, mid, at
<1>14. GoParts(path, x, y)
  BY <1>8, <1>9, <1>11, <1>13 DEF GoParts
<1>15. QED
  BY <1>5, <1>12, <1>14

\* Spellings of one zip are one identity, and the upstream is asked for the path that came.
LEMMA GoIdentity ==
  ASSUME NEW c \in Configs, Starts(c), Flat(c), NEW a \in Asks, NEW i, Takes(c, a, i),
         Reaches(c, a) = "registry", c.registries[i].type = "goproxy",
         Outcome(c, a).kind = "artifact"
  PROVE  /\ OneIdentity(c, a, Outcome(c, a))
         /\ \E x, version :
              /\ x \in Seq(Seq(Real)) /\ x # <<>> /\ x[1] # E
              /\ version \in Seq(Word \union {"/"})
              /\ Outcome(c, a) = Reply("artifact", "goproxy", Outcome(c, a).scope,
                                       Joined(x), version, E)
<1> DEFINE r == c.registries[i]
           below == Below(r, a)
           path == Remaining(below)
           key == ProjectKey(below)
           o == Outcome(c, a)
           says == GoServe(a.method, path)
<1>1. Cleaned(below) /\ Cleaned(path) /\ Registry(c, a) = r
  BY CleanRemaining DEF Takes
<1>2. HasScopes(r)
  BY DEF HasScopes
<1>3. o = ServeAt(r, a.method, below) /\ Says(r, a.method, below) = says
  BY OutcomeIs, TypeSays
<1>4. says.kind = "artifact"
  BY <1>3, SaysKind, GoGives
<1>5. PICK x, y, version :
        /\ GoParts(path, x, y)
        /\ version \in Seq(Word \union {"/"}) /\ version \o <<".zip">> = Joined(y)
        /\ Malformed \notin ToSet(Joined(Unescape(x)))
        /\ says = Gives("artifact", Joined(Unescape(x)), version, E)
  BY <1>1, <1>4, GoArtifact
<1> DEFINE u == Unescape(x)
           m == Joined(u)
<1>6. o = Reply("artifact", "goproxy", key, m, version, E)
  BY <1>2, <1>3, <1>5, Stamped DEF Gives
<1>7. GoUpstream(m, version) = path
  <2>1. Segments(Escape(m)) = x
    BY <1>5, Reescaped DEF GoParts
  <2>2. Segments(Joined(y)) = y
    BY <1>5, Rejoined DEF GoParts, Word
  <2> HIDE DEF m, path
  <2>3. GoUpstream(m, version) = x \o <<<<"@v">>>> \o y
    BY <1>5, <2>1, <2>2 DEF GoUpstream
  <2>4. QED
    BY <1>5, <2>3 DEF GoParts
<1>8. u \in Seq(Seq(Real)) /\ u # <<>> /\ u[1] # E
  <2>1. x \in Seq(Seq(Word)) /\ x # <<>> /\ x[1] # E
    BY <1>5 DEF GoParts
  <2>2. u = [k \in 1..Len(x) |-> UnescapeWord(x[k])]
    BY <2>1, EscapeIs DEF UnescapeWord
  <2> HIDE DEF u
  <2>3. ASSUME NEW s \in Seq(Word)
        PROVE  UnescapeWord(s) \in Seq(Real) /\ (UnescapeWord(s) = E <=> s = E)
    <3>1. /\ UnescapeWord(s) \in Seq(Real)
          /\ UnescapeWord(s) = E <=> s = E
          /\ Malformed \notin ToSet(UnescapeWord(s)) => Escape(UnescapeWord(s)) = s
      BY UnescapedWord
    <3>2. QED
      BY <3>1
  <2>4. Len(x) \in Nat \ {0} /\ 1 \in 1..Len(x) /\ \A k \in 1..Len(x) : x[k] \in Seq(Word)
    BY <2>1
  <2> DEFINE R == Seq(Real)
  <2>5. \A k \in 1..Len(x) : u[k] \in R /\ (u[k] = E <=> x[k] = E)
    BY <2>2, <2>3, <2>4
  <2> HIDE DEF R
  <2>6. u \in Seq(R) /\ Len(u) = Len(x)
    BY <2>2, <2>4, <2>5
  <2>7. u # <<>> /\ u[1] # E
    BY <2>1, <2>4, <2>5, <2>6
  <2>8. QED
    BY <2>6, <2>7 DEF R
<1> HIDE DEF o, key, path, below, says, u, m
<1>9. o.reg = "goproxy" /\ o.scope = key /\ o.name = m /\ o.version = version
  BY <1>6, ReplyIs
<1>10. OneIdentity(c, a, o)
  <2>1. Remaining(Below(Registry(c, a), a)) = path
    BY <1>1 DEF path, below
  <2>2. OneIdentity(c, a, o) <=> GoUpstream(o.name, o.version) = path
    BY <1>9, <2>1 DEF OneIdentity
  <2>3. QED
    BY <1>7, <1>9, <2>2
<1>11. QED
  BY <1>5, <1>6, <1>8, <1>9, <1>10 DEF o, m

-----------------------------------------------------------------------------
(* oci.                                                                    *)

\* Where a pull is cut: the repository and the reference, on both sides of
\* the separator.
CutParts(rest, sep, cut) ==
  LET x == cut.repo IN
  /\ x \in Seq(Seq(Word)) /\ x # <<>>
  /\ x[1] = rest[1]
  /\ \E y \in Seq(Seq(Word)) :
       /\ y # <<>> /\ y[1] # E /\ cut.ref = Joined(y)
       /\ rest = x \o <<<<sep>>>> \o y

Halves(t, m, x, y) == t = x \o <<m>> \o y

\* A path cut at k.
LEMMA HalvesAt ==
  ASSUME NEW S, NEW t \in Seq(S), NEW k \in 2..(Len(t) - 1), NEW m
  PROVE  LET x == SubSeq(t, 1, k - 1)
             y == SubSeq(t, k + 1, Len(t)) IN
         /\ x \in Seq(S) /\ x # <<>> /\ x[1] = t[1]
         /\ t[k] = m => Halves(t, m, x, y)
<1> DEFINE x == SubSeq(t, 1, k - 1)
           y == SubSeq(t, k + 1, Len(t))
           n == Len(t)
<1>1. n \in Nat /\ k \in Nat /\ k >= 2 /\ k < n /\ n = Len(t)
  OBVIOUS
<1>2. \A i \in 1..n : t[i] \in S
  OBVIOUS
<1> HIDE DEF n
<1>3. x \in Seq(S) /\ Len(x) = k - 1 /\ \A i \in 1..(k - 1) : x[i] = t[i]
  <2>1. \A i \in 1..(k - 1) : t[i] \in S
    BY <1>1, <1>2
  <2>2. QED
    BY <1>1, <2>1, SubSeqProperties
<1>4. y \in Seq(S) /\ Len(y) = n - k /\ \A i \in 1..Len(y) : y[i] = t[k + i]
  <2> DEFINE j == k + 1
             q == SubSeq(t, j, n)
  <2>1. j \in Nat /\ j <= n /\ j = k + 1
    BY <1>1
  <2> HIDE DEF j
  <2>2. \A i \in j..n : t[i] \in S
    BY <1>1, <1>2, <2>1
  <2>3. q \in Seq(S) /\ Len(q) = n - j + 1 /\ \A i \in 1..(n - j + 1) : q[i] = t[j + i - 1]
    BY <1>1, <2>1, <2>2, SubSeqProperties
  <2>4. q = y
    BY <1>1, <2>1
  <2> HIDE DEF q, y
  <2>5. n - j + 1 = n - k /\ Len(q) = n - k /\ n - k \in Nat
    BY <1>1, <2>1, <2>3
  <2>6. \A i \in 1..(n - k) : j + i - 1 = k + i
    BY <1>1, <2>1
  <2>7. \A i \in 1..(n - k) : q[i] = t[k + i]
    BY <2>3, <2>5, <2>6
  <2>8. QED
    BY <2>3, <2>4, <2>5, <2>7
<1> HIDE DEF x, y
<1>5. x # <<>> /\ x[1] = t[1]
  <2>1. 1 \in 1..(k - 1)
    BY <1>1
  <2>2. QED
    BY <1>3, <2>1
<1>6. ASSUME t[k] = m PROVE Halves(t, m, x, y)
  <2> DEFINE U == S \union {m}
             mid == <<m>>
             h == x \o mid
             g == h \o y
  <2>1. x \in Seq(U) /\ y \in Seq(U) /\ mid \in Seq(U) /\ Len(mid) = 1 /\ mid[1] = m
    BY <1>3, <1>4
  <2>2. t \in Seq(U)
    OBVIOUS
  <2> HIDE DEF mid, U
  <2>3. Concatenates(U, x, mid, h)
    BY <2>1, Concat
  <2> HIDE DEF h
  <2>4. h \in Seq(U) /\ Len(h) = k /\ h[k] = m /\ \A i \in 1..(k - 1) : h[i] = t[i]
    <3>1. h \in Seq(U) /\ Len(h) = Len(x) + 1 /\ h[Len(x) + 1] = m
      BY <2>1, <2>3 DEF Concatenates
    <3>2. \A i \in 1..Len(x) : h[i] = x[i]
      BY <2>3 DEF Concatenates
    <3>3. QED
      BY <1>1, <1>3, <3>1, <3>2
  <2>5. Concatenates(U, h, y, g)
    BY <2>1, <2>4, Concat
  <2> HIDE DEF g
  <2>6. g \in Seq(U) /\ Len(g) = n
    BY <1>1, <1>4, <2>4, <2>5 DEF Concatenates
  <2>7. ASSUME NEW i \in 1..n PROVE g[i] = t[i]
    <3>1. CASE i \in 1..(k - 1)
      <4>1. i \in 1..Len(h)
        BY <1>1, <2>4, <3>1
      <4>2. QED
        BY <2>4, <2>5, <3>1, <4>1 DEF Concatenates
    <3>2. CASE i = k
      <4>1. i \in 1..Len(h)
        BY <1>1, <2>4, <3>2
      <4>2. QED
        BY <1>6, <2>4, <2>5, <3>2, <4>1 DEF Concatenates
    <3>3. CASE i \notin 1..k
      <4> DEFINE e == i - k
      <4>1. e \in 1..Len(y) /\ i = k + e
        BY <1>1, <1>4, <3>3
      <4> HIDE DEF e
      <4>2. g[Len(h) + e] = y[e]
        BY <2>5, <4>1 DEF Concatenates
      <4>3. QED
        BY <1>4, <2>4, <4>1, <4>2
    <3>4. QED
      BY <1>1, <3>1, <3>2, <3>3
  <2>8. g = t
    BY <1>1, <2>2, <2>6, <2>7, SameSequence
  <2>9. QED
    BY <2>8 DEF g, h, mid, Halves
<1>7. QED
  BY <1>3, <1>5, <1>6 DEF x, y, n

\* A cut separates repository and reference.
LEMMA CutIs ==
  ASSUME NEW rest, Cleaned(rest), NEW sep, Cut(rest, sep).ok
  PROVE  CutParts(rest, sep, Cut(rest, sep))
<1> DEFINE C == CutAt(rest, sep)
           T == {1} \union C
           k == Max(T)
           x == SubSeq(rest, 1, k - 1)
           y == SubSeq(rest, k + 1, Len(rest))
           S == Seq(Word)
           cut == Cut(rest, sep)
<1>1. C # {} /\ Joined(y) # E /\ cut.repo = x /\ cut.ref = Joined(y)
  <2>1. cut = [ok |-> C # {} /\ Joined(y) # E, repo |-> x, ref |-> Joined(y)]
    BY DEF Cut
  <2> DEFINE g == C # {} /\ Joined(y) # E
             ref == Joined(y)
  <2>2. cut = [ok |-> g, repo |-> x, ref |-> ref] /\ cut.ok
    BY <2>1
  <2> HIDE DEF g, x, ref, cut
  <2>3. g /\ cut.repo = x /\ cut.ref = ref
    BY <2>2
  <2>4. QED
    BY <2>3 DEF g, ref, cut
<1>2. rest \in Seq(S) /\ Len(rest) \in Nat
  BY DEF Cleaned
<1>3. C \in SUBSET (2..(Len(rest) - 1)) /\ \A j \in C : rest[j] = <<sep>>
  BY DEF CutAt
<1> HIDE DEF C
<1>4. k \in C
  <2>1. PICK j \in C : TRUE
    BY <1>1
  <2>2. T \in SUBSET (0..Len(rest)) /\ T # {} /\ j \in T
    BY <1>2, <1>3, <2>1
  <2>3. k \in T /\ \A w \in T : w <= k
    BY <1>2, <2>2, GreatestElement
  <2> HIDE DEF k
  <2>4. QED
    BY <1>3, <2>1, <2>2, <2>3
<1> HIDE DEF k
<1>5. k \in 2..(Len(rest) - 1) /\ rest[k] = <<sep>>
  BY <1>3, <1>4
<1>6. x \in Seq(S) /\ x # <<>> /\ x[1] = rest[1] /\ rest = x \o <<<<sep>>>> \o y
  <2> DEFINE m == <<sep>>
  <2>1. rest[k] = m
    BY <1>5
  <2> HIDE DEF S, m
  <2>2. /\ x \in Seq(S) /\ x # <<>> /\ x[1] = rest[1]
        /\ rest[k] = m => Halves(rest, m, x, y)
    BY <1>2, <1>5, HalvesAt
  <2> HIDE DEF x, y
  <2>3. QED
    BY <2>1, <2>2 DEF m, Halves
<1>7. y \in Seq(S) /\ y # <<>> /\ (y[1] # E \/ y = <<E>>)
  <2> DEFINE j == k + 1
             q == SubSeq(rest, j, Len(rest))
  <2>1. j \in Nat \ {0} /\ j <= Len(rest)
    BY <1>2, <1>5
  <2>2. q = y
    OBVIOUS
  <2> HIDE DEF j
  <2>3. /\ q \in Seq(Seq(Word)) /\ q # <<>> /\ Len(q) = Len(rest) + 1 - j
        /\ q[1] = rest[j]
        /\ \A i \in 1..Len(q) : q[i] = rest[j - 1 + i]
        /\ q[1] # E \/ q = <<E>>
    BY <2>1, CleanTail
  <2> HIDE DEF q, y
  <2>4. QED
    BY <2>2, <2>3
<1>8. Joined(<<E>>) = E
  <2>1. E \in Seq(Word)
    BY DEF E
  <2>2. QED
    BY <2>1, OneSegment
<1> HIDE DEF x, y
<1>9. y[1] # E
  BY <1>1, <1>7, <1>8
<1>10. QED
  BY <1>1, <1>6, <1>7, <1>9 DEF CutParts

Regroups(f, x, mid, y) == f \o x \o mid \o y = f \o (x \o mid \o y)

\* Concatenation is associative.
LEMMA Regrouped ==
  \A U : \A a, b, e \in Seq(U) : (a \o b) \o e = a \o (b \o e)
BY ConcatAssociative

\* Four paths, one after the other.
LEMMA FourParts ==
  ASSUME NEW U, NEW f \in Seq(U), NEW x \in Seq(U), NEW mid \in Seq(U), NEW y \in Seq(U)
  PROVE  Regroups(f, x, mid, y)
<1>1. \A a, b, e \in Seq(U) : (a \o b) \o e = a \o (b \o e)
  BY Regrouped
<1>2. f \o x \in Seq(U) /\ x \o mid \in Seq(U) /\ mid \o y \in Seq(U)
  BY ConcatProperties
<1>3. ((f \o x) \o mid) \o y = (f \o x) \o (mid \o y)
  BY <1>1, <1>2
<1>4. (f \o x) \o (mid \o y) = f \o (x \o (mid \o y))
  BY <1>1, <1>2
<1>5. x \o (mid \o y) = (x \o mid) \o y
  BY <1>1, <1>2
<1>6. QED
  BY <1>3, <1>4, <1>5 DEF Regroups

\* A pull is refused, or it gives what its cut says.
LEMMA OciPullIs ==
  ASSUME NEW kind, NEW u, NEW cut
  PROVE  LET g == OciPull(kind, u, cut) IN
         \/ g = Answer("403") \/ g = Answer("404")
         \/ /\ PathAllowed(u, cut.repo)
            /\ g = Gives(kind, Joined(cut.repo), cut.ref, u.name)
<1> DEFINE m == Joined(cut.repo)
           C == PathAllowed(u, cut.repo)
           B == kind = "blob" /\ (Head(cut.ref) # "sha256:" \/ Hosted[cut.ref] # cut.ref)
<1>1. OciPull(kind, u, cut) =
        IF ~C THEN Answer("403") ELSE IF B THEN Answer("404")
        ELSE OfUpstream(Answer(kind), u.name, m, cut.ref)
  BY DEF OciPull, OfUpstream
<1> HIDE DEF m, C, B
<1>2. QED
  BY <1>1, WithIs DEF C, m

\* A pull is of a kind, and cut by the separator of that kind.
Separator(kind) == IF kind = "blob" THEN "blobs" ELSE "manifests"

\* What oci answers, by the separator that is found first.
LEMMA OciServeIs ==
  ASSUME NEW ups, NEW path
  PROVE  LET named == {i \in DOMAIN ups : ups[i].name = path[1]}
             u == ups[Max(named)]
             rest == Tail(path)
             g == OciServe(ups, path) IN
         \/ g = Answer("ping") \/ g = Answer("404")
         \/ \E kind \in {"manifest", "blob"} :
              /\ path # <<E>> /\ Len(path) # 1 /\ named # {}
              /\ Cut(rest, Separator(kind)).ok
              /\ g = OciPull(kind, u, Cut(rest, Separator(kind)))
<1> DEFINE named == {i \in DOMAIN ups : ups[i].name = path[1]}
           u == ups[Max(named)]
           rest == Tail(path)
           g == OciServe(ups, path)
           cm == Cut(rest, "manifests")
           cb == Cut(rest, "blobs")
           some == path # <<E>> /\ Len(path) # 1 /\ named # {}
<1>1. g = IF path = <<E>> THEN Answer("ping")
          ELSE IF Len(path) = 1 \/ named = {} THEN Answer("404")
          ELSE IF cm.ok THEN OciPull("manifest", u, cm)
          ELSE IF cb.ok THEN OciPull("blob", u, cb)
          ELSE Answer("404")
  BY DEF OciServe, OciRoute
<1>2. Cut(rest, Separator("manifest")) = cm /\ Cut(rest, Separator("blob")) = cb
  BY DEF Separator
<1> HIDE DEF cm, cb, u, rest, named, g
<1>3. \/ g = Answer("ping") \/ g = Answer("404")
      \/ some /\ cm.ok /\ g = OciPull("manifest", u, cm)
      \/ some /\ cb.ok /\ g = OciPull("blob", u, cb)
  BY <1>1
<1>4. QED
  BY <1>2, <1>3 DEF u, rest, named, g

\* oci gives answers.
LEMMA OciGives ==
  ASSUME NEW ups, NEW path
  PROVE  \E k, n, v, f : OciServe(ups, path) = Gives(k, n, v, f)
<1> DEFINE named == {i \in DOMAIN ups : ups[i].name = path[1]}
           u == ups[Max(named)]
           rest == Tail(path)
<1>1. \/ OciServe(ups, path) = Answer("ping") \/ OciServe(ups, path) = Answer("404")
      \/ \E kind \in {"manifest", "blob"} :
           /\ path # <<E>> /\ Len(path) # 1 /\ named # {}
           /\ Cut(rest, Separator(kind)).ok
           /\ OciServe(ups, path) = OciPull(kind, u, Cut(rest, Separator(kind)))
  BY OciServeIs
<1> HIDE DEF u, rest, named
<1>2. \A kind : \E k, n, v, f : Answer(kind) = Gives(k, n, v, f)
  BY GivesIs
<1>3. ASSUME NEW kind, NEW cut
      PROVE  \E k, n, v, f : OciPull(kind, u, cut) = Gives(k, n, v, f)
  <2>1. \/ OciPull(kind, u, cut) = Answer("403") \/ OciPull(kind, u, cut) = Answer("404")
        \/ /\ PathAllowed(u, cut.repo)
           /\ OciPull(kind, u, cut) = Gives(kind, Joined(cut.repo), cut.ref, u.name)
    BY OciPullIs
  <2>2. QED
    BY <1>2, <2>1
<1>4. QED
  BY <1>1, <1>2, <1>3

\* What a pull asks of which upstream.
OciParts(ups, path, i, kind, x, y) ==
  /\ i \in DOMAIN ups /\ ups[i].name = path[1]
  /\ x \in Seq(Seq(Word)) /\ x # <<>> /\ x[1] # E
  /\ y \in Seq(Seq(Word)) /\ y # <<>> /\ y[1] # E
  /\ PathAllowed(ups[i], x)
  /\ Tail(path) = x \o <<<<Separator(kind)>>>> \o y

\* A path that gives a manifest or a blob has its parts.
LEMMA OciPulled ==
  ASSUME NEW ups, Len(ups) \in Nat, DOMAIN ups = 1..Len(ups), NEW path, Cleaned(path),
         OciServe(ups, path).kind \in {"manifest", "blob"}
  PROVE  \E i, kind, x, y :
           /\ kind \in {"manifest", "blob"} /\ OciParts(ups, path, i, kind, x, y)
           /\ OciServe(ups, path) = Gives(kind, Joined(x), Joined(y), ups[i].name)
<1> DEFINE named == {j \in DOMAIN ups : ups[j].name = path[1]}
           i == Max(named)
           u == ups[i]
           rest == Tail(path)
           g == OciServe(ups, path)
<1>1. \A k : Answer(k).kind = k
  BY GivesIs
<1>2. PICK kind \in {"manifest", "blob"} :
        /\ path # <<E>> /\ Len(path) # 1 /\ named # {}
        /\ Cut(rest, Separator(kind)).ok
        /\ g = OciPull(kind, u, Cut(rest, Separator(kind)))
  <2>1. \/ g = Answer("ping") \/ g = Answer("404")
        \/ \E kind \in {"manifest", "blob"} :
             /\ path # <<E>> /\ Len(path) # 1 /\ named # {}
             /\ Cut(rest, Separator(kind)).ok
             /\ g = OciPull(kind, u, Cut(rest, Separator(kind)))
    BY OciServeIs
  <2> HIDE DEF u, rest, named
  <2>2. QED
    BY <1>1, <2>1
<1> DEFINE sep == Separator(kind)
           cut == Cut(rest, sep)
           x == cut.repo
<1>3. PathAllowed(u, x) /\ g = Gives(kind, Joined(x), cut.ref, u.name)
  <2>1. \/ OciPull(kind, u, cut) = Answer("403") \/ OciPull(kind, u, cut) = Answer("404")
        \/ /\ PathAllowed(u, cut.repo)
           /\ OciPull(kind, u, cut) = Gives(kind, Joined(cut.repo), cut.ref, u.name)
    BY OciPullIs
  <2> HIDE DEF u, cut
  <2>2. QED
    BY <1>1, <1>2, <2>1 DEF cut
<1>4. i \in DOMAIN ups /\ u.name = path[1]
  <2>1. named \in SUBSET (0..Len(ups)) /\ named # {}
    BY <1>2
  <2>2. i \in named
    <3> HIDE DEF named
    <3>1. QED
      BY <2>1, GreatestElement
  <2>3. QED
    BY <2>2
<1>5. /\ path \in Seq(Seq(Word)) /\ path # <<>> /\ Len(path) \in Nat
      /\ \A j \in 1..Len(path) : path[j] = E => j = Len(path)
  BY DEF Cleaned
<1>6. Len(path) \in Nat /\ Len(path) >= 2
  <2>1. Len(path) # 0
    BY <1>5
  <2>2. \A m \in Nat : m # 0 /\ m # 1 => m >= 2
    OBVIOUS
  <2>3. QED
    BY <1>2, <1>5, <2>1, <2>2
<1>7. /\ rest \in Seq(Seq(Word)) /\ Len(rest) = Len(path) - 1
      /\ \A j \in 1..Len(rest) : rest[j] = path[j + 1]
  BY <1>5, <1>6
<1> HIDE DEF rest, g
<1>8. Cleaned(rest)
  <2>1. rest # <<>>
    BY <1>6, <1>7
  <2>2. ASSUME NEW j \in 1..Len(rest), rest[j] = E PROVE j = Len(rest)
    <3>1. j + 1 \in 1..Len(path) /\ path[j + 1] = E
      BY <1>6, <1>7, <2>2
    <3>2. j + 1 = Len(path)
      BY <1>5, <3>1
    <3>3. QED
      BY <1>6, <1>7, <3>2
  <2>3. QED
    BY <1>7, <2>1, <2>2 DEF Cleaned
<1>9. CutParts(rest, sep, cut)
  BY <1>2, <1>8, CutIs
<1> HIDE DEF cut, u, i
<1>10. PICK y \in Seq(Seq(Word)) :
         /\ y # <<>> /\ y[1] # E /\ cut.ref = Joined(y)
         /\ rest = x \o <<<<sep>>>> \o y
  BY <1>9 DEF CutParts
<1>11. x \in Seq(Seq(Word)) /\ x # <<>> /\ x[1] = rest[1]
  BY <1>9 DEF CutParts
<1>12. x[1] # E
  <2>1. Len(rest) # 1
    <3> DEFINE U == Seq(Word) \union {<<sep>>}
               mid == <<<<sep>>>>
               h == x \o mid
               t == h \o y
    <3>1. x \in Seq(U) /\ y \in Seq(U) /\ mid \in Seq(U) /\ Len(mid) = 1
      BY <1>10, <1>11
    <3>2. t = rest
      BY <1>10
    <3>3. Len(x) \in Nat \ {0} /\ Len(y) \in Nat \ {0}
      BY <1>10, <1>11
    <3> HIDE DEF x, mid, U
    <3> HIDE DEF h
    <3>4. h \in Seq(U) /\ Len(h) = Len(x) + 1
      <4>1. Concatenates(U, x, mid, h)
        BY <3>1, Concat DEF h
      <4>2. QED
        BY <3>1, <4>1 DEF Concatenates
    <3> HIDE DEF t
    <3>5. Len(t) = Len(h) + Len(y)
      <4>1. Concatenates(U, h, y, t)
        BY <3>1, <3>4, Concat DEF t
      <4>2. QED
        BY <4>1 DEF Concatenates
    <3>6. QED
      BY <3>2, <3>3, <3>4, <3>5
  <2>2. Len(rest) \in Nat \ {0} /\ 1 \in 1..Len(rest)
    BY <1>6, <1>7
  <2>3. rest[1] # E
    BY <1>8, <2>1, <2>2 DEF Cleaned
  <2>4. QED
    BY <1>11, <2>3
<1>13. OciParts(ups, path, i, kind, x, y)
  BY <1>3, <1>4, <1>10, <1>11, <1>12 DEF OciParts, rest, u
<1>14. g = Gives(kind, Joined(x), Joined(y), ups[i].name)
  BY <1>3, <1>10 DEF u
<1> HIDE DEF x
<1>15. QED
  BY <1>2, <1>13, <1>14 DEF g

\* A pull goes to the upstream of its path, for the repository of its path.
LEMMA OciRouted ==
  ASSUME NEW c \in Configs, Starts(c), Flat(c), NEW a \in Asks, NEW i, Takes(c, a, i),
         Reaches(c, a) = "registry", c.registries[i].type = "oci",
         Outcome(c, a).kind \in {"manifest", "blob"}
  PROVE  PullRouted(c, a, Outcome(c, a))
<1> DEFINE r == c.registries[i]
           below == Below(r, a)
           ups == r.upstreams
           o == Outcome(c, a)
           says == OciServe(ups, below)
<1>1. Cleaned(below) /\ Registry(c, a) = r /\ i \in DOMAIN c.registries
  BY DEF Takes
<1>2. Len(ups) \in Nat /\ DOMAIN ups = 1..Len(ups)
  BY <1>1, FrontDoorAssumption
<1>3. ~HasScopes(r)
  BY DEF HasScopes
<1>4. o = ServeAt(r, a.method, below) /\ Says(r, a.method, below) = says
  BY OutcomeIs, TypeSays
<1>5. says.kind \in {"manifest", "blob"}
  BY <1>4, SaysKind, OciGives
<1>6. PICK j, kind, x, y :
        /\ kind \in {"manifest", "blob"} /\ OciParts(ups, below, j, kind, x, y)
        /\ says = Gives(kind, Joined(x), Joined(y), ups[j].name)
  BY <1>1, <1>2, <1>5, OciPulled
<1> DEFINE m == Joined(x)
           v == Joined(y)
           u == ups[j]
<1>7. o = Reply(kind, "oci", E, m, v, u.name)
  BY <1>3, <1>4, <1>6, Stamped DEF Gives
<1> HIDE DEF o, says
<1>8. o.kind = kind /\ o.name = m /\ o.version = v
  BY <1>7, ReplyIs
<1>9. Segments(m) = x /\ Segments(v) = y
  <2>1. "/" \notin Word
    BY DEF Word
  <2>2. x \in Seq(Seq(Word)) /\ x # <<>> /\ x[1] # E
    BY <1>6 DEF OciParts
  <2>3. y \in Seq(Seq(Word)) /\ y # <<>> /\ y[1] # E
    BY <1>6 DEF OciParts
  <2>4. Segments(m) = x
    BY <2>1, <2>2, Rejoined
  <2>5. Segments(v) = y
    BY <2>1, <2>3, Rejoined
  <2>6. QED
    BY <2>4, <2>5
<1> HIDE DEF m, v
<1>10. j \in DOMAIN ups /\ PathAllowed(u, Segments(o.name))
  BY <1>6, <1>8, <1>9 DEF OciParts
<1>11. below = OciLink(o.kind, u, Segments(o.name), o.version)
  <2>1. /\ u.name = below[1] /\ Tail(below) = x \o <<<<Separator(kind)>>>> \o y
        /\ x \in Seq(Seq(Word)) /\ y \in Seq(Seq(Word))
    BY <1>6 DEF OciParts
  <2>2. below \in Seq(Seq(Word)) /\ below # <<>>
    BY <1>1 DEF Cleaned
  <2>3. OciLink(o.kind, u, Segments(o.name), o.version) =
          <<u.name>> \o x \o <<<<Separator(kind)>>>> \o y
    BY <1>8, <1>9 DEF OciLink, Separator
  <2>4. <<u.name>> \o x \o <<<<Separator(kind)>>>> \o y =
          <<u.name>> \o (x \o <<<<Separator(kind)>>>> \o y)
    <3> DEFINE U == Seq(Word) \union {<<Separator(kind)>>, u.name}
               f == <<u.name>>
               mid == <<<<Separator(kind)>>>>
    <3>1. f \in Seq(U) /\ x \in Seq(U) /\ mid \in Seq(U) /\ y \in Seq(U)
      BY <2>1
    <3> HIDE DEF f, mid, U
    <3>2. Regroups(f, x, mid, y)
      BY <3>1, FourParts
    <3>3. QED
      BY <3>2 DEF Regroups, f, mid
  <2>5. <<below[1]>> \o Tail(below) = below
    <3> DEFINE U == Seq(Word)
               f == <<below[1]>>
               t == Tail(below)
               n == Len(below)
               g == f \o t
    <3> HIDE DEF U
    <3>1. below \in Seq(U) /\ n \in Nat \ {0} /\ n = Len(below)
      BY <2>2 DEF U
    <3>2. f \in Seq(U) /\ Len(f) = 1 /\ f[1] = below[1]
      BY <3>1
    <3>3. t \in Seq(U) /\ Len(t) = n - 1 /\ \A k \in 1..(n - 1) : t[k] = below[k + 1]
      BY <3>1
    <3> HIDE DEF f, t, n
    <3>4. Concatenates(U, f, t, g)
      BY <3>2, <3>3, Concat
    <3> HIDE DEF g
    <3>5. g \in Seq(U) /\ Len(g) = n
      BY <3>1, <3>2, <3>3, <3>4 DEF Concatenates
    <3>6. ASSUME NEW k \in 1..n PROVE g[k] = below[k]
      <4>1. CASE k = 1
        <5>1. 1 \in 1..Len(f)
          BY <3>2
        <5>2. QED
          BY <3>2, <3>4, <4>1, <5>1 DEF Concatenates
      <4>2. CASE k # 1
        <5> DEFINE e == k - 1
        <5>1. e \in 1..Len(t) /\ e \in 1..(n - 1) /\ k = e + 1 /\ k = 1 + e
          BY <3>1, <3>3, <4>2
        <5> HIDE DEF e
        <5>2. g[Len(f) + e] = t[e]
          BY <3>4, <5>1 DEF Concatenates
        <5>3. QED
          BY <3>2, <3>3, <5>1, <5>2
      <4>3. QED
        BY <4>1, <4>2
    <3>7. g = below
      BY <3>1, <3>5, <3>6, SameSequence
    <3>8. QED
      BY <3>7 DEF g, f, t
  <2>6. QED
    BY <2>1, <2>3, <2>4, <2>5
<1>12. PullRouted(c, a, o)
  <2>1. Below(Registry(c, a), a) = below /\ Registry(c, a).upstreams = ups
    BY <1>1
  <2>2. PullRouted(c, a, o) <=>
          \E k \in DOMAIN ups :
            /\ PathAllowed(ups[k], Segments(o.name))
            /\ below = OciLink(o.kind, ups[k], Segments(o.name), o.version)
    BY <2>1 DEF PullRouted
  <2>3. QED
    BY <1>10, <1>11, <2>2
<1>13. QED
  BY <1>12 DEF o

-----------------------------------------------------------------------------
(* Cache entries.                                                          *)

Types == {"npm", "pypi", "goproxy"}

\* What an artifact is made of: the segments of its name, its version, and
\* its file if it has one, which the type tells.
Made(o, reg, x, version, f) ==
  /\ reg \in Types
  /\ o = Reply("artifact", reg, o.scope, Joined(x), version, f)
  /\ x \in Seq(Seq(Real)) /\ x # <<>> /\ x[1] # E
  /\ version \in Seq(Real \union {"/"}) /\ f \in Seq(Real \union {"/"})
  /\ f = E <=> reg # "pypi"

RestOf(version, f) == IF f = E THEN <<version>> ELSE <<version, f>>
EntryPath(reg, x, rest) == <<<<reg>>>> \o x \o rest

EntryParts(S, t, reg, x, rest) ==
  LET n == Len(x) + 1 IN
  /\ t \in Seq(S) /\ Len(x) \in Nat /\ Len(rest) \in Nat
  /\ Len(t) = n + Len(rest) /\ t[1] = <<reg>>
  /\ \A i \in 1..Len(x) : t[1 + i] = x[i]
  /\ \A i \in 1..Len(rest) : t[n + i] = rest[i]

\* Where the parts of an artifact stand in the path of its entry.
LEMMA EntryIs ==
  ASSUME NEW S, NEW reg, <<reg>> \in S, NEW x \in Seq(S), NEW rest \in Seq(S)
  PROVE  EntryParts(S, EntryPath(reg, x, rest), reg, x, rest)
<1> DEFINE e == <<reg>>
           f == <<e>>
           h == f \o x
           t == h \o rest
           n == Len(x) + 1
<1>1. f \in Seq(S) /\ Len(f) = 1 /\ f[1] = e
  OBVIOUS
<1> HIDE DEF e, f
<1>2. Concatenates(S, f, x, h)
  BY <1>1, Concat
<1> HIDE DEF h
<1>3. h \in Seq(S) /\ Len(h) = n /\ Len(x) \in Nat /\ n \in Nat
  BY <1>1, <1>2 DEF Concatenates
<1>4. Concatenates(S, h, rest, t)
  BY <1>3, Concat
<1> HIDE DEF t, n
<1>5. t \in Seq(S) /\ Len(t) = n + Len(rest) /\ Len(rest) \in Nat
  BY <1>3, <1>4 DEF Concatenates
<1>6. h[1] = e /\ \A i \in 1..Len(x) : h[1 + i] = x[i]
  <2>1. 1 \in 1..Len(f)
    BY <1>1
  <2>2. QED
    BY <1>1, <1>2, <2>1 DEF Concatenates
<1>7. t[1] = e /\ \A i \in 1..Len(x) : t[1 + i] = x[i]
  <2>1. 1 \in 1..Len(h) /\ \A i \in 1..Len(x) : 1 + i \in 1..Len(h)
    BY <1>3 DEF n
  <2>2. \A i \in 1..Len(h) : t[i] = h[i]
    BY <1>4 DEF Concatenates
  <2>3. QED
    BY <1>6, <2>1, <2>2
<1>8. \A i \in 1..Len(rest) : t[n + i] = rest[i]
  BY <1>3, <1>4 DEF Concatenates
<1>9. t = EntryPath(reg, x, rest)
  BY DEF t, h, f, e, EntryPath
<1>10. QED
  BY <1>3, <1>5, <1>7, <1>8, <1>9 DEF n, e, EntryParts

\* A valid segment has no slash in it.
LEMMA ValidWord ==
  ASSUME NEW s \in Seq(Real \union {"/"}), ValidSeg(s)
  PROVE  s \in Seq(Real)
<1>1. s = [i \in 1..Len(s) |-> s[i]] /\ Len(s) \in Nat /\ DOMAIN s = 1..Len(s)
  OBVIOUS
<1>2. ASSUME NEW i \in 1..Len(s) PROVE s[i] \in Real
  <2>1. s[i] # "/"
    BY <1>1 DEF ValidSeg, ToSet
  <2>2. QED
    BY <2>1
<1>3. QED
  BY <1>1, <1>2

\* Registry types are words.
LEMMA TypeWord ==
  ASSUME NEW reg \in Types
  PROVE  <<reg>> \in Seq(Real) /\ <<reg>> # E /\ <<reg>>[1] = reg
<1>1. reg \in Word
  BY DEF Types, Word, Literals
<1>2. reg \in Real
  BY <1>1 DEF Real
<1> DEFINE e == <<reg>>
<1>3. e \in Seq(Real) /\ Len(e) = 1 /\ e[1] = reg
  BY <1>2
<1> HIDE DEF e
<1>4. e # E
  BY <1>3 DEF E
<1>5. QED
  BY <1>3, <1>4 DEF e

\* Of the path of a cacheable artifact the key is the joined form.
LEMMA KeyIs ==
  ASSUME NEW o, NEW reg, NEW x, NEW version, NEW f,
         Made(o, reg, x, version, f), Cacheable(o)
  PROVE  LET t == EntryPath(reg, x, RestOf(version, f)) IN
         /\ RestOf(version, f) \in Seq(Seq(Real))
         /\ CachePath(o) = t /\ t \in Seq(Seq(Real))
         /\ Segments(Joined(t)) = t /\ Joined(t) \in Seq(Real \union {"/"})
<1> DEFINE S == Seq(Real)
           rest == RestOf(version, f)
           t == EntryPath(reg, x, rest)
           m == Joined(x)
           P == Real \union {"/"}
<1>1. /\ reg \in Types /\ x \in Seq(S) /\ x # <<>> /\ x[1] # E
      /\ version \in Seq(P) /\ f \in Seq(P)
  BY DEF Made
<1>2. o.reg = reg /\ o.name = m /\ o.version = version /\ o.file = f
  <2> DEFINE sc == o.scope
  <2>1. o = Reply("artifact", reg, sc, m, version, f)
    BY DEF Made
  <2> HIDE DEF sc, m
  <2>2. QED
    BY <2>1, ReplyIs
<1>3. "/" \notin Real
  BY EscapedPiece
<1>4. Segments(m) = x
  BY <1>1, <1>3, Rejoined
<1> HIDE DEF m
<1>5. CachePath(o) = t
  BY <1>2, <1>4 DEF CachePath, EntryPath, RestOf
<1>6. <<reg>> \in S /\ <<reg>> # E
  BY <1>1, TypeWord
<1>7. version \in Seq(P) /\ f \in Seq(P)
  BY <1>1
<1> DEFINE T == S \union Seq(P)
<1>8. <<reg>> \in T /\ x \in Seq(T) /\ rest \in Seq(T) /\ version \in T /\ f \in T
  <2>1. x \in Seq(T) /\ <<reg>> \in T /\ version \in T /\ f \in T
    BY <1>1, <1>6, <1>7
  <2> HIDE DEF T
  <2>2. <<version>> \in Seq(T) /\ <<version, f>> \in Seq(T)
    BY <2>1
  <2>3. QED
    BY <2>1, <2>2 DEF RestOf
<1>9. /\ t \in Seq(T) /\ Len(x) \in Nat /\ Len(rest) \in Nat
      /\ Len(t) = Len(x) + 1 + Len(rest) /\ t[1] = <<reg>>
      /\ \A i \in 1..Len(x) : t[1 + i] = x[i]
      /\ \A i \in 1..Len(rest) : t[Len(x) + 1 + i] = rest[i]
  <2>1. EntryParts(T, t, reg, x, rest)
    <3> HIDE DEF T, rest
    <3>1. QED
      BY <1>8, EntryIs
  <2> HIDE DEF T, t, rest
  <2>2. QED
    BY <2>1 DEF EntryParts
<1>10. \A i \in 1..Len(rest) : ValidSeg(rest[i])
  <2>1. DOMAIN t = 1..Len(t)
    BY <1>9
  <2>2. \A i \in DOMAIN t : ValidSeg(t[i])
    BY <1>5 DEF Cacheable
  <2> HIDE DEF t, rest
  <2>3. \A i \in 1..Len(rest) : Len(x) + 1 + i \in 1..Len(t)
    BY <1>9
  <2>4. QED
    BY <1>9, <2>1, <2>2, <2>3
<1>11. rest \in Seq(S)
  <2> DEFINE a == <<version>>
             b == <<version, f>>
  <2>1. Len(a) = 1 /\ a[1] = version /\ Len(b) = 2 /\ b[1] = version /\ b[2] = f
    OBVIOUS
  <2>2. rest = IF f = E THEN a ELSE b
    BY DEF RestOf
  <2> HIDE DEF a, b, rest
  <2>3. ValidSeg(version) /\ (f # E => ValidSeg(f))
    <3>1. 1 \in 1..Len(a) /\ 1 \in 1..Len(b) /\ 2 \in 1..Len(b)
      BY <2>1
    <3>2. QED
      BY <1>10, <2>1, <2>2, <3>1
  <2>4. version \in S /\ (f # E => f \in S)
    BY <1>7, <2>3, ValidWord
  <2> HIDE DEF S
  <2>5. a \in Seq(S) /\ (f # E => b \in Seq(S))
    BY <2>4 DEF a, b
  <2>6. QED
    BY <2>2, <2>5
<1>12. t \in Seq(S)
  <2> HIDE DEF S, rest
  <2>1. EntryParts(S, t, reg, x, rest)
    BY <1>1, <1>6, <1>11, EntryIs
  <2> HIDE DEF t
  <2>2. QED
    BY <2>1 DEF EntryParts
<1>13. t # <<>> /\ t[1] # E
  <2> HIDE DEF t, rest, T
  <2>1. QED
    BY <1>6, <1>9
<1>14. Segments(Joined(t)) = t
  <2> HIDE DEF t
  <2>1. QED
    BY <1>3, <1>12, <1>13, Rejoined
<1>15. Joined(t) \in Seq(P)
  <2> HIDE DEF t
  <2>1. QED
    BY <1>12, JoinedBuilds
<1>16. QED
  BY <1>5, <1>11, <1>12, <1>14, <1>15
\* Two artifacts with one cache entry are one artifact, whatever the scopes.
LEMMA SameEntry ==
  ASSUME NEW o, NEW r1, NEW x1, NEW v1, NEW f1, Made(o, r1, x1, v1, f1), Cacheable(o),
         NEW p, NEW r2, NEW x2, NEW v2, NEW f2, Made(p, r2, x2, v2, f2), Cacheable(p),
         CacheKey(o) = CacheKey(p)
  PROVE  Unscoped(o) = Unscoped(p)
<1> DEFINE S == Seq(Real)
           P == Real \union {"/"}
           q1 == RestOf(v1, f1)
           q2 == RestOf(v2, f2)
           t1 == EntryPath(r1, x1, q1)
           t2 == EntryPath(r2, x2, q2)
           j1 == Joined(t1)
           j2 == Joined(t2)
           s1 == o.scope
           s2 == p.scope
           m1 == Joined(x1)
           m2 == Joined(x2)
<1>1. /\ q1 \in Seq(S)
      /\ CachePath(o) = t1 /\ t1 \in Seq(S)
      /\ Segments(j1) = t1 /\ j1 \in Seq(P)
  <2> HIDE DEF S, P, q1, t1, j1
  <2>1. QED
    BY KeyIs DEF S, P, q1, t1, j1
<1>2. /\ q2 \in Seq(S)
      /\ CachePath(p) = t2 /\ t2 \in Seq(S)
      /\ Segments(j2) = t2 /\ j2 \in Seq(P)
  <2> HIDE DEF S, P, q2, t2, j2
  <2>1. QED
    BY KeyIs DEF S, P, q2, t2, j2
<1>3. /\ r1 \in Types /\ x1 \in Seq(S) /\ (f1 = E <=> r1 # "pypi")
      /\ o = Reply("artifact", r1, s1, m1, v1, f1)
  BY DEF Made
<1>4. /\ r2 \in Types /\ x2 \in Seq(S) /\ (f2 = E <=> r2 # "pypi")
      /\ p = Reply("artifact", r2, s2, m2, v2, f2)
  BY DEF Made
<1>5. t1 = t2
  <2> DEFINE bin == <<".bin">>
             U == P \union {".bin"}
  <2>1. j1 \o bin = j2 \o bin
    BY <1>1, <1>2 DEF CacheKey
  <2>2. bin \in Seq(U)
    OBVIOUS
  <2> HIDE DEF t1, t2, j1, j2, bin, S
  <2>3. j1 \in Seq(U) /\ j2 \in Seq(U)
    BY <1>1, <1>2
  <2> HIDE DEF U
  <2>4. j1 = j2
    BY <2>1, <2>2, <2>3, ConcatSimplifications
  <2>5. QED
    BY <1>1, <1>2, <2>4
<1>6. <<r1>> \in S /\ <<r2>> \in S /\ <<r1>>[1] = r1 /\ <<r2>>[1] = r2
  BY <1>3, <1>4, TypeWord
<1>7. EntryParts(S, t1, r1, x1, q1) /\ EntryParts(S, t2, r2, x2, q2)
  <2> HIDE DEF S, q1, q2, m1, m2
  <2>1. EntryParts(S, t1, r1, x1, q1)
    BY <1>1, <1>3, <1>6, EntryIs
  <2>2. EntryParts(S, t2, r2, x2, q2)
    BY <1>2, <1>4, <1>6, EntryIs
  <2>3. QED
    BY <2>1, <2>2
<1> HIDE DEF t1, t2, s1, s2, m1, m2, S, P
<1>8. r1 = r2
  <2>1. <<r1>> = t1[1] /\ <<r2>> = t2[1]
    BY <1>7 DEF EntryParts
  <2>2. QED
    BY <1>5, <1>6, <2>1
<1>9. /\ f1 = E => Len(q1) = 1 /\ q1[1] = v1
      /\ f1 # E => Len(q1) = 2 /\ q1[1] = v1 /\ q1[2] = f1
      /\ f2 = E => Len(q2) = 1 /\ q2[1] = v2
      /\ f2 # E => Len(q2) = 2 /\ q2[1] = v2 /\ q2[2] = f2
  BY DEF RestOf
<1> HIDE DEF q1, q2
<1>10. f1 = E <=> f2 = E
  BY <1>3, <1>4, <1>8
<1> DEFINE n == Len(x1)
<1>11. Len(q1) = Len(q2) /\ Len(x1) = Len(x2) /\ n \in Nat
  <2>1. Len(q1) = Len(q2)
    BY <1>9, <1>10
  <2>2. /\ Len(x1) \in Nat /\ Len(q1) \in Nat /\ Len(t1) = Len(x1) + 1 + Len(q1)
        /\ Len(x2) \in Nat /\ Len(q2) \in Nat /\ Len(t2) = Len(x2) + 1 + Len(q2)
    BY <1>7 DEF EntryParts
  <2>3. QED
    BY <1>5, <2>1, <2>2
<1>12. x1 = x2
  <2>1. \A i \in 1..Len(x2) : x1[i] = x2[i]
    BY <1>5, <1>7, <1>11 DEF EntryParts
  <2>2. QED
    BY <1>3, <1>4, <1>11, <2>1, SameSequence
<1>13. \A i \in 1..Len(q1) : q1[i] = q2[i]
  BY <1>5, <1>7, <1>11 DEF EntryParts
<1>14. v1 = v2 /\ f1 = f2
  <2>1. v1 = v2
    <3>1. 1 \in 1..Len(q1)
      BY <1>9
    <3>2. q1[1] = q2[1]
      BY <1>13, <3>1
    <3>3. QED
      BY <1>9, <3>2
  <2>2. CASE f1 = E
    BY <1>10, <2>1, <2>2
  <2>3. CASE f1 # E
    <3>1. 2 \in 1..Len(q1)
      BY <1>9, <2>3
    <3>2. q1[2] = q2[2]
      BY <1>13, <3>1
    <3>3. QED
      BY <1>9, <1>10, <2>1, <2>3, <3>2
  <2>4. QED
    BY <2>2, <2>3
<1>15. \A k, r, s, m, v, f : Unscoped(Reply(k, r, s, m, v, f)) = Reply(k, r, E, m, v, f)
  BY DEF Unscoped, Reply
<1>16. m1 = m2
  BY <1>12 DEF m1, m2
<1>17. Unscoped(o) = Reply("artifact", r1, E, m1, v1, f1)
  BY <1>3, <1>15
<1>18. Unscoped(p) = Reply("artifact", r2, E, m2, v2, f2)
  BY <1>4, <1>15
<1>19. QED
  BY <1>8, <1>14, <1>16, <1>17, <1>18

-----------------------------------------------------------------------------
(* Whatever an ask comes to, if it is more than an error or a redirect.    *)

Packaged == {"400", "404", "405", "redirect", "index", "artifact"}

\* What npm may answer,
LEMMA NpmKinds ==
  ASSUME NEW method, NEW path
  PROVE  NpmServe(method, path).kind \in Packaged
<1> DEFINE d == Min(DashAt(path))
           version == BareVersion(path[d - 1], path[d + 1])
           n == Joined(SubSeq(path, 1, d - 1))
<1>1. NpmServe(method, path) =
        IF method # "GET" THEN Answer("405")
        ELSE IF DashAt(path) # {}
          THEN IF d = 1 \/ Len(path) # d + 1 \/ version = E THEN Answer("404")
               ELSE Gives("artifact", n, version, E)
        ELSE IF path = <<E>> THEN Answer("404")
        ELSE Gives("index", Joined(path), E, E)
  BY NpmServeIs
<1> HIDE DEF d, version, n
<1>2. QED
  BY <1>1, GivesIs DEF Packaged

\* what goproxy,
LEMMA GoKinds ==
  ASSUME NEW method, NEW path
  PROVE  GoServe(method, path).kind \in Packaged
<1>1. ASSUME NEW kind \in Packaged, NEW x, NEW v
      PROVE  GoAnswer(kind, x, v).kind \in Packaged
  <2> DEFINE m == Joined(Unescape(x))
  <2>1. GoAnswer(kind, x, v) = IF Malformed \in ToSet(m) THEN Gives("400", E, E, E)
                               ELSE Gives(kind, m, v, E)
    BY GoAnswerIs
  <2> HIDE DEF m
  <2>2. QED
    BY <2>1, GivesIs DEF Packaged
<1>2. \A kind \in Packaged : Answer(kind).kind \in Packaged
  BY GivesIs
<1>3. {"404", "405", "index", "artifact"} \subseteq Packaged
  BY DEF Packaged
<1>4. ASSUME NEW x, NEW y
      PROVE  GoVersion(x, y).kind \in Packaged
  <2> DEFINE v == Front(Joined(y))
  <2>1. \/ GoVersion(x, y) = GoAnswer("index", x, E)
        \/ GoVersion(x, y) = GoAnswer("index", x, v)
        \/ GoVersion(x, y) = GoAnswer("artifact", x, v) /\ Ends(Last(y), ".zip")
        \/ GoVersion(x, y) = Answer("404")
    BY GoVersionIs
  <2> HIDE DEF v
  <2>2. QED
    BY <1>1, <1>2, <1>3, <2>1
<1> DEFINE v == Min(AtV(path))
           x == SubSeq(path, 1, v - 1)
           y == SubSeq(path, v + 1, Len(path))
           g == GoServe(method, path)
<1>5. \/ g = Answer("405")
      \/ g = GoAnswer("index", Front(path), E)
      \/ g = Answer("404")
      \/ AtV(path) # {} /\ g = GoVersion(x, y)
  BY GoServeIs
<1> HIDE DEF x, y, g
<1>6. QED
  BY <1>1, <1>2, <1>3, <1>4, <1>5 DEF g

\* what pypi,
LEMMA PypiKinds ==
  ASSUME NEW hosts, NEW alias, NEW method, NEW path
  PROVE  PypiServe(hosts, alias, method, path).kind \in Packaged
<1>1. /\ \A k : Answer(k).kind = k
      /\ \A k, n, v, f : Gives(k, n, v, f).kind = k
      /\ {"404", "405", "redirect", "index", "artifact"} \subseteq Packaged
  BY GivesIs DEF Packaged
<1>2. ASSUME NEW name, NEW fn
      PROVE  PypiArtifact(name, fn).kind \in Packaged
  BY <1>1, PypiArtifactIs
<1>3. ASSUME NEW pkg, NEW version, NEW fn
      PROVE  PypiFile(pkg, version, fn).kind \in Packaged
  BY <1>1, <1>2 DEF PypiFile
<1>4. ASSUME NEW host, NEW rest
      PROVE  PypiUpstream(hosts, host, rest).kind \in Packaged
  <2> DEFINE fn == BaseName(rest)
             bad == \/ host = E \/ rest = <<E>> \/ ~Allows(hosts, host)
                    \/ ~ParseFilename(fn).ok \/ ParseFilename(fn).name = E
             p == PypiArtifact(Normalize(ParseFilename(fn).name), fn)
  <2>1. PypiUpstream(hosts, host, rest) = IF bad THEN Answer("404") ELSE p
    BY DEF PypiUpstream
  <2>2. p.kind \in Packaged
    BY <1>2
  <2> HIDE DEF bad, p
  <2>3. QED
    BY <1>1, <2>1, <2>2
<1> DEFINE pattern == PypiPattern(alias, path)
           p == PypiServe(hosts, alias, method, path)
           u == PypiUpstream(hosts, path[2], SubSeq(path, 3, Len(path)))
<1>5. p = IF pattern = "none" THEN Answer("404")
          ELSE IF method \notin {"GET", "HEAD"} THEN Answer("405")
          ELSE IF pattern = "slash" THEN Answer("redirect")
          ELSE IF pattern = "simple" THEN Gives("index", path[2], E, E)
          ELSE IF pattern = "files" THEN PypiFile(path[2], path[3], path[4])
          ELSE u
  BY PypiServeIs
<1>6. u.kind \in Packaged
  BY <1>4
<1> HIDE DEF pattern, p, u
<1>7. QED
  BY <1>1, <1>3, <1>5, <1>6 DEF p

\* and what oci may not.
LEMMA OciKinds ==
  ASSUME NEW ups, NEW path
  PROVE  OciServe(ups, path).kind \notin {"index", "artifact"}
<1> DEFINE named == {i \in DOMAIN ups : ups[i].name = path[1]}
           u == ups[Max(named)]
           rest == Tail(path)
<1>1. \/ OciServe(ups, path) = Answer("ping") \/ OciServe(ups, path) = Answer("404")
      \/ \E kind \in {"manifest", "blob"} :
           /\ path # <<E>> /\ Len(path) # 1 /\ named # {}
           /\ Cut(rest, Separator(kind)).ok
           /\ OciServe(ups, path) = OciPull(kind, u, Cut(rest, Separator(kind)))
  BY OciServeIs
<1> HIDE DEF u, rest, named
<1>2. \A k : Answer(k).kind = k
  BY GivesIs
<1>3. ASSUME NEW kind \in {"manifest", "blob"}, NEW cut
      PROVE  OciPull(kind, u, cut).kind \in {"403", "404", kind}
  <2>1. \/ OciPull(kind, u, cut) = Answer("403") \/ OciPull(kind, u, cut) = Answer("404")
        \/ /\ PathAllowed(u, cut.repo)
           /\ OciPull(kind, u, cut) = Gives(kind, Joined(cut.repo), cut.ref, u.name)
    BY OciPullIs
  <2>2. QED
    BY <2>1, GivesIs
<1>4. QED
  BY <1>1, <1>2, <1>3

\* Indexes, artifacts and pulls come from a registry that takes the ask.
LEMMA Substance ==
  ASSUME NEW c \in Configs, Starts(c), Flat(c), NEW a \in Asks,
         Outcome(c, a).kind \in {"index", "artifact", "manifest", "blob"}
  PROVE  /\ Reaches(c, a) = "registry"
         /\ \E i \in DOMAIN c.registries :
              /\ Takes(c, a, i) /\ Outcome(c, a).reg = c.registries[i].type
              /\ c.registries[i].type \in Types \union {"oci"}
              /\ c.registries[i].type = "oci" <=>
                   Outcome(c, a).kind \in {"manifest", "blob"}
<1>1. Reaches(c, a) = "registry"
  <2>1. Reaches(c, a) \in {"healthz", "redirect", "admin", "401", "registry", "webui"}
    BY MuxIs DEF Reaches
  <2>2. \A k : Answer(k).kind = k
    BY GivesIs
  <2>3. QED
    BY <2>1, <2>2 DEF Outcome
<1>2. PICK i \in DOMAIN c.registries : Takes(c, a, i)
  BY <1>1, Reached
<1> DEFINE r == c.registries[i]
           below == Below(r, a)
           path == Remaining(below)
           says == Says(r, a.method, below)
           o == Outcome(c, a)
<1>3. o = ServeAt(r, a.method, below)
  BY <1>1, <1>2, OutcomeIs
<1>4. r.type \in Types \union {"oci", "maven"}
  <2>1. Builds(r)
    BY <1>2 DEF Starts
  <2>2. QED
    BY <2>1 DEF Builds, Types
<1>5. \E k, n, v, f : says = Gives(k, n, v, f)
  <2>1. CASE r.type = "npm"
    BY <2>1, TypeSays, NpmGives
  <2>2. CASE r.type = "pypi"
    BY <2>2, TypeSays, PypiGives
  <2>3. CASE r.type = "goproxy"
    BY <2>3, TypeSays, GoGives
  <2>4. CASE r.type = "oci"
    BY <2>4, TypeSays, OciGives
  <2>5. CASE r.type = "maven"
    BY <2>5, TypeSays, GivesIs
  <2>6. QED
    BY <1>4, <2>1, <2>2, <2>3, <2>4, <2>5 DEF Types
<1>6. o.reg = r.type /\ o.kind = says.kind
  <2>1. PICK k, n, v, f : says = Gives(k, n, v, f)
    BY <1>5
  <2> DEFINE key == IF HasScopes(r) THEN ProjectKey(below) ELSE E
  <2>2. o = Reply(k, r.type, key, n, v, f)
    BY <1>3, <2>1, Stamped DEF Gives
  <2> HIDE DEF o, key, says, r
  <2>3. o.reg = r.type /\ o.kind = k
    BY <2>2, ReplyIs
  <2>4. QED
    BY <2>1, <2>3, GivesIs
<1>7. r.type # "maven"
  <2>1. r.type = "maven" => says.kind = "501"
    BY TypeSays, GivesIs
  <2>2. QED
    BY <1>6, <2>1
<1>8. r.type = "oci" => o.kind \in {"manifest", "blob"}
  <2>1. r.type = "oci" => says = OciServe(r.upstreams, below)
    BY TypeSays
  <2> HIDE DEF says, r
  <2>2. QED
    BY <1>6, <2>1, OciKinds
<1>9. r.type # "oci" => o.kind \in {"index", "artifact"}
  <2>1. /\ r.type = "npm" => says.kind \in Packaged
        /\ r.type = "goproxy" => says.kind \in Packaged
        /\ r.type = "pypi" => says.kind \in Packaged
    BY TypeSays, NpmKinds, GoKinds, PypiKinds
  <2> HIDE DEF says, r
  <2>2. QED
    BY <1>4, <1>6, <1>7, <2>1 DEF Types, Packaged
<1>10. QED
  BY <1>1, <1>2, <1>4, <1>6, <1>7, <1>8, <1>9 DEF Types

-----------------------------------------------------------------------------
(* All asks together.                                                      *)

\* What Spelled says of one ask.
SpelledAsk(c, a) ==
  LET o == Outcome(c, a)
      path == Remaining(Below(Registry(c, a), a)) IN
  /\ o.kind = "artifact" /\ o.reg = "npm" => Bare(o.name, o.version)
  /\ o.kind = "index" /\ o.reg = "npm" =>
       /\ ~Scoped(Segments(o.name)) /\ Last(Segments(o.name)) \notin {E, <<"-">>}
       /\ \A v \in Releases : v # E /\ Bare(o.name, v)
  /\ o.kind = "index" /\ o.reg = "pypi" => E \notin Listed
  /\ o.kind = "artifact" /\ o.reg = "pypi" /\ path[1] = <<"upstream">> =>
       NoPort(NoDot(path[2])) = NoDot(NoPort(path[2]))

\* Every artifact has one identity, and is made of segments.
LEMMA ArtifactMade ==
  ASSUME NEW c \in Configs, Starts(c), Flat(c), NEW a \in Asks, SpelledAsk(c, a),
         Outcome(c, a).kind = "artifact"
  PROVE  /\ OneIdentity(c, a, Outcome(c, a))
         /\ \E reg, x, version, f : Made(Outcome(c, a), reg, x, version, f)
<1> DEFINE o == Outcome(c, a)
           s == o.scope
<1>1. PICK i \in DOMAIN c.registries :
        /\ Takes(c, a, i) /\ o.reg = c.registries[i].type
        /\ c.registries[i].type \in Types \union {"oci"}
        /\ c.registries[i].type = "oci" <=> o.kind \in {"manifest", "blob"}
  BY Substance
<1>2. Reaches(c, a) = "registry" /\ c.registries[i].type \in Types
  BY <1>1, Substance
<1>3. Seq(Word) \subseteq Seq(Real) /\ Seq(Seq(Word)) \subseteq Seq(Seq(Real))
      /\ Seq(Word) \subseteq Seq(Real \union {"/"}) /\ E \in Seq(Real \union {"/"})
      /\ Seq(Word \union {"/"}) \subseteq Seq(Real \union {"/"})
  BY DEF Real, E
<1>4. CASE c.registries[i].type = "npm"
  <2>1. Bare(o.name, o.version)
    BY <1>1, <1>4 DEF SpelledAsk
  <2>2. /\ OneIdentity(c, a, o)
        /\ \E x, version :
             /\ x \in Seq(Seq(Word)) /\ x # <<>> /\ x[1] # E /\ version \in Seq(Word)
             /\ o = Reply("artifact", "npm", s, Joined(x), version, E)
    BY <1>1, <1>2, <1>4, <2>1, NpmIdentity
  <2>3. PICK x, version :
          /\ x \in Seq(Seq(Word)) /\ x # <<>> /\ x[1] # E /\ version \in Seq(Word)
          /\ o = Reply("artifact", "npm", s, Joined(x), version, E)
    BY <2>2
  <2> HIDE DEF o
  <2>4. Made(o, "npm", x, version, E)
    BY <1>3, <2>3 DEF Made, Types, s
  <2>5. QED
    BY <2>2, <2>4 DEF o
<1>5. CASE c.registries[i].type = "goproxy"
  <2>1. /\ OneIdentity(c, a, o)
        /\ \E x, version :
             /\ x \in Seq(Seq(Real)) /\ x # <<>> /\ x[1] # E
             /\ version \in Seq(Word \union {"/"})
             /\ o = Reply("artifact", "goproxy", s, Joined(x), version, E)
    BY <1>1, <1>2, <1>5, GoIdentity
  <2>2. PICK x, version :
          /\ x \in Seq(Seq(Real)) /\ x # <<>> /\ x[1] # E
          /\ version \in Seq(Word \union {"/"})
          /\ o = Reply("artifact", "goproxy", s, Joined(x), version, E)
    BY <2>1
  <2> HIDE DEF o
  <2>3. Made(o, "goproxy", x, version, E)
    BY <1>3, <2>2 DEF Made, Types, s
  <2>4. QED
    BY <2>1, <2>3 DEF o
<1>6. CASE c.registries[i].type = "pypi"
  <2> DEFINE path == Remaining(Below(Registry(c, a), a))
  <2>1. path[1] = <<"upstream">> => NoPort(NoDot(path[2])) = NoDot(NoPort(path[2]))
    BY <1>1, <1>6 DEF SpelledAsk
  <2>2. /\ OneIdentity(c, a, o)
        /\ \E m, version, f :
             /\ m \in Seq(Word) /\ m # E /\ version \in Seq(Word)
             /\ f \in Seq(Word) /\ f # E
             /\ o = Reply("artifact", "pypi", s, m, version, f)
    BY <1>1, <1>2, <1>6, <2>1, PypiIdentity
  <2>3. PICK m, version, f :
          /\ m \in Seq(Word) /\ m # E /\ version \in Seq(Word)
          /\ f \in Seq(Word) /\ f # E
          /\ o = Reply("artifact", "pypi", s, m, version, f)
    BY <2>2
  <2> DEFINE x == <<m>>
  <2>4. Joined(x) = m /\ x \in Seq(Seq(Word)) /\ x # <<>> /\ x[1] = m
    BY <2>3, OneSegment
  <2> HIDE DEF o, x
  <2>5. Made(o, "pypi", x, version, f)
    BY <1>3, <2>3, <2>4 DEF Made, Types, s
  <2>6. QED
    BY <2>2, <2>5 DEF o
<1>7. QED
  BY <1>2, <1>4, <1>5, <1>6 DEF Types

\* Linked, for every ask.
LEMMA AskLinked ==
  ASSUME NEW c \in Configs, Starts(c), Flat(c), NEW a \in Asks, SpelledAsk(c, a)
  PROVE  Linked(c, a)
<1> DEFINE o == Outcome(c, a)
<1>1. ASSUME o.kind \in {"index", "artifact", "manifest", "blob"}
      PROVE  \E i \in DOMAIN c.registries :
               /\ Takes(c, a, i) /\ o.reg = c.registries[i].type
               /\ Reaches(c, a) = "registry"
               /\ c.registries[i].type = "oci" <=> o.kind \in {"manifest", "blob"}
  BY <1>1, Substance
<1>2. o.kind = "index" /\ o.reg = "npm" => NpmIndexLinks(c, a, o)
  <2> SUFFICES ASSUME o.kind = "index", o.reg = "npm" PROVE NpmIndexLinks(c, a, o)
    OBVIOUS
  <2>1. PICK i \in DOMAIN c.registries :
          Takes(c, a, i) /\ Reaches(c, a) = "registry" /\ c.registries[i].type = "npm"
    BY <1>1
  <2>2. /\ ~Scoped(Segments(o.name)) /\ Last(Segments(o.name)) \notin {E, <<"-">>}
        /\ \A v \in Releases : v # E /\ Bare(o.name, v)
    BY DEF SpelledAsk
  <2>3. QED
    BY <2>1, <2>2, NpmLinks
<1>3. o.kind = "index" /\ o.reg = "pypi" => PypiIndexLinks(c, a, o)
  <2> SUFFICES ASSUME o.kind = "index", o.reg = "pypi" PROVE PypiIndexLinks(c, a, o)
    OBVIOUS
  <2>1. PICK i \in DOMAIN c.registries :
          Takes(c, a, i) /\ Reaches(c, a) = "registry" /\ c.registries[i].type = "pypi"
    BY <1>1
  <2>2. E \notin Listed
    BY DEF SpelledAsk
  <2>3. QED
    BY <2>1, <2>2, PypiLinks
<1>4. o.kind = "artifact" => OneIdentity(c, a, o)
  BY ArtifactMade
<1>5. o.kind \in {"manifest", "blob"} => PullRouted(c, a, o)
  <2> SUFFICES ASSUME o.kind \in {"manifest", "blob"} PROVE PullRouted(c, a, o)
    OBVIOUS
  <2>1. PICK i \in DOMAIN c.registries :
          Takes(c, a, i) /\ Reaches(c, a) = "registry" /\ c.registries[i].type = "oci"
    BY <1>1
  <2>2. QED
    BY <2>1, OciRouted
<1>6. QED
  BY <1>2, <1>3, <1>4, <1>5 DEF Linked

\* LinksResolve: in every configuration that starts, without a registry below
\* another, and for every ask of a client that spells as Spelled says, links
\* in rewritten indexes lead to what they name, spellings of one artifact share
\* their identity and their link, go modules are asked for by the escaped path
\* that the client used, pulls go to the upstream of their path, and no two
\* artifacts share a cache entry.
THEOREM LinksLead == ASSUME Spelled PROVE Spec => []LinksResolve
<1>1. Init => Visiting
  BY DEF Init, Visiting
<1>2. Visiting /\ [Next]_vars => Visiting'
  BY VisitingInductive
<1>3. ASSUME NEW c \in Configs, NEW a \in Asks, Starts(c), Flat(c)
      PROVE  SpelledAsk(c, a)
  BY <1>3 DEF Spelled, SpelledAsk
<1>4. Visiting => LinksResolve
  <2> SUFFICES ASSUME Visiting, visit # None, Flat(visit.config)
               PROVE  LinksResolve
    BY DEF LinksResolve
  <2> DEFINE c == visit.config
             a == visit.ask
  <2>1. c \in Configs /\ Starts(c) /\ a \in Asks
    BY DEF Visiting
  <2> HIDE DEF c, a
  <2>2. Flat(c)
    BY DEF c
  <2>3. Linked(c, a)
    BY <1>3, <2>1, <2>2, AskLinked
  <2>4. ASSUME NEW b \in Asks, Outcome(c, b).kind = "artifact"
        PROVE  \E reg, x, version, f : Made(Outcome(c, b), reg, x, version, f)
    BY <1>3, <2>1, <2>2, <2>4, ArtifactMade
  <2>5. ASSUME NEW b \in Asks, Outcome(c, a).kind = "artifact",
               Outcome(c, b).kind = "artifact",
               Cacheable(Outcome(c, a)), Cacheable(Outcome(c, b)),
               CacheKey(Outcome(c, a)) = CacheKey(Outcome(c, b))
        PROVE  Unscoped(Outcome(c, a)) = Unscoped(Outcome(c, b))
    <3>1. PICK r1, x1, v1, f1 : Made(Outcome(c, a), r1, x1, v1, f1)
      BY <2>1, <2>4, <2>5
    <3>2. PICK r2, x2, v2, f2 : Made(Outcome(c, b), r2, x2, v2, f2)
      BY <2>4, <2>5
    <3>3. QED
      BY <2>5, <3>1, <3>2, SameEntry
  <2>6. QED
    BY <2>3, <2>5 DEF LinksResolve, c, a
<1>5. QED
  BY <1>1, <1>2, <1>4, PTL DEF Spec
===============================================================================
