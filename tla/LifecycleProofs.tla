--------------------------- MODULE LifecycleProofs ---------------------------
(***************************************************************************)
(* Theorems about Tracker and about Lifecycle, for every number of callers *)
(* and handlers, every batch size and channel capacity and every bound.    *)
(*                                                                         *)
(* The tracker loses no record without counting it, its counters agree,    *)
(* and it implements the ledger: nothing here cites LifecycleAssumption,   *)
(* so that the closers may be as many as they like.  At the end of the     *)
(* process the tracker does what it does by itself, so that its inductive  *)
(* invariant is used as it is, and what is added is how far main has got.  *)
(***************************************************************************)
EXTENDS Lifecycle, FiniteSetTheorems, TLAPS

-----------------------------------------------------------------------------
(* The tracker.                                                            *)

LEMMA Sizes == BatchSize \in Nat \ {0} /\ Capacity \in Nat
BY TrackerAssumption DEF BatchSize, Capacity

LEMMA InitIInv == Init => IInv
<1> SUFFICES ASSUME Init PROVE IInv
  OBVIOUS
<1>1. TypeOK
  <2>1. 0 \in 0..Capacity /\ 0 \in 0..BatchSize
    BY Sizes
  <2>2. QED
    BY <2>1 DEF Init, TypeOK
<1>2. FlusherPlaces
  BY Sizes DEF Init, FlusherPlaces
<1>3. Conservation /\ NoSilentLoss /\ DrainedAtExit
  BY DEF Init, Conservation, NoSilentLoss, DrainedAtExit, Held
<1>4. Reporting = {}
  BY DEF Init, Reporting
<1>5. DropsAddUp
  BY <1>4, FS_EmptySet DEF Init, DropsAddUp
<1>6. QED
  BY <1>1, <1>2, <1>3, <1>5 DEF IInv

\* Shapes, and what the flusher's place implies.
LEMMA TypeStep ==
  ASSUME TypeOK, FlusherPlaces, [Next]_vars
  PROVE  (TypeOK /\ FlusherPlaces)'
<1> USE Sizes DEF TypeOK, FlusherPlaces, outside, inside, counters, bounds
<1>1. ASSUME NEW c \in Callers, TrackCheck(c)
      PROVE  (TypeOK /\ FlusherPlaces)'
  BY <1>1 DEF TrackCheck
<1>2. ASSUME NEW c \in Callers, TrackSend(c)
      PROVE  (TypeOK /\ FlusherPlaces)'
  BY <1>2 DEF TrackSend
<1>3. ASSUME NEW c \in Callers, TrackDrop(c)
      PROVE  (TypeOK /\ FlusherPlaces)'
  BY <1>3 DEF TrackDrop
<1>4. ASSUME NEW c \in Callers, TrackReport(c)
      PROVE  (TypeOK /\ FlusherPlaces)'
  BY <1>4 DEF TrackReport, ReportDrops
<1>5. ASSUME NEW s \in Closers, ShutdownSwap(s)
      PROVE  (TypeOK /\ FlusherPlaces)'
  BY <1>5 DEF ShutdownSwap
<1>6. ASSUME NEW s \in Closers, ShutdownClose(s)
      PROVE  (TypeOK /\ FlusherPlaces)'
  BY <1>6 DEF ShutdownClose
<1>7. ASSUME NEW s \in Closers, ShutdownReturn(s)
      PROVE  (TypeOK /\ FlusherPlaces)'
  BY <1>7 DEF ShutdownReturn
<1>8. ASSUME StartDrain
      PROVE  (TypeOK /\ FlusherPlaces)'
  BY <1>8 DEF StartDrain
<1>9. ASSUME Receive
      PROVE  (TypeOK /\ FlusherPlaces)'
  BY <1>9 DEF Receive
<1>10. ASSUME DrainEnd
      PROVE  (TypeOK /\ FlusherPlaces)'
  BY <1>10 DEF DrainEnd, CallFlush
<1>11. ASSUME ReceiveClosed
      PROVE  (TypeOK /\ FlusherPlaces)'
  BY <1>11 DEF ReceiveClosed, CallFlush
<1>12. ASSUME UpsertOk
      PROVE  (TypeOK /\ FlusherPlaces)'
  BY <1>12 DEF UpsertOk
<1>13. ASSUME UpsertFail
      PROVE  (TypeOK /\ FlusherPlaces)'
  BY <1>13 DEF UpsertFail, Written
<1>14. ASSUME FlushReport
      PROVE  (TypeOK /\ FlusherPlaces)'
  BY <1>14 DEF FlushReport, ReportDrops
<1>15. ASSUME Tick
      PROVE  (TypeOK /\ FlusherPlaces)'
  BY <1>15 DEF Tick, CallFlush
<1>16. ASSUME Summary
      PROVE  (TypeOK /\ FlusherPlaces)'
  BY <1>16 DEF Summary
<1>17. ASSUME Flush
      PROVE  (TypeOK /\ FlusherPlaces)'
  BY <1>17 DEF Flush
<1>18. CASE UNCHANGED vars
  BY <1>18 DEF vars
<1>19. QED
  BY <1>1, <1>2, <1>3, <1>4, <1>5, <1>6, <1>7, <1>8, <1>9, <1>10, <1>11, <1>12, <1>13, <1>14, <1>15, <1>16, <1>17, <1>18
  DEF Next, Caller, Closer, Flusher

\* Every record is accounted for.
LEMMA CountStep ==
  ASSUME TypeOK, FlusherPlaces, Conservation, NoSilentLoss, DrainedAtExit,
         [Next]_vars
  PROVE  (Conservation /\ NoSilentLoss /\ DrainedAtExit)'
<1> USE Sizes DEF TypeOK, FlusherPlaces, Conservation, NoSilentLoss, DrainedAtExit,
              Held, outside, inside, counters, bounds
<1>1. ASSUME NEW c \in Callers, TrackCheck(c)
      PROVE  (Conservation /\ NoSilentLoss /\ DrainedAtExit)'
  BY <1>1 DEF TrackCheck
<1>2. ASSUME NEW c \in Callers, TrackSend(c)
      PROVE  (Conservation /\ NoSilentLoss /\ DrainedAtExit)'
  BY <1>2 DEF TrackSend
<1>3. ASSUME NEW c \in Callers, TrackDrop(c)
      PROVE  (Conservation /\ NoSilentLoss /\ DrainedAtExit)'
  BY <1>3 DEF TrackDrop
<1>4. ASSUME NEW c \in Callers, TrackReport(c)
      PROVE  (Conservation /\ NoSilentLoss /\ DrainedAtExit)'
  BY <1>4 DEF TrackReport, ReportDrops
<1>5. ASSUME NEW s \in Closers, ShutdownSwap(s)
      PROVE  (Conservation /\ NoSilentLoss /\ DrainedAtExit)'
  BY <1>5 DEF ShutdownSwap
<1>6. ASSUME NEW s \in Closers, ShutdownClose(s)
      PROVE  (Conservation /\ NoSilentLoss /\ DrainedAtExit)'
  BY <1>6 DEF ShutdownClose
<1>7. ASSUME NEW s \in Closers, ShutdownReturn(s)
      PROVE  (Conservation /\ NoSilentLoss /\ DrainedAtExit)'
  BY <1>7 DEF ShutdownReturn
<1>8. ASSUME StartDrain
      PROVE  (Conservation /\ NoSilentLoss /\ DrainedAtExit)'
  BY <1>8 DEF StartDrain
<1>9. ASSUME Receive
      PROVE  (Conservation /\ NoSilentLoss /\ DrainedAtExit)'
  BY <1>9 DEF Receive
<1>10. ASSUME DrainEnd
      PROVE  (Conservation /\ NoSilentLoss /\ DrainedAtExit)'
  BY <1>10 DEF DrainEnd, CallFlush
<1>11. ASSUME ReceiveClosed
      PROVE  (Conservation /\ NoSilentLoss /\ DrainedAtExit)'
  BY <1>11 DEF ReceiveClosed, CallFlush
<1>12. ASSUME UpsertOk
      PROVE  (Conservation /\ NoSilentLoss /\ DrainedAtExit)'
  BY <1>12 DEF UpsertOk
<1>13. ASSUME UpsertFail
      PROVE  (Conservation /\ NoSilentLoss /\ DrainedAtExit)'
  BY <1>13 DEF UpsertFail, Written
<1>14. ASSUME FlushReport
      PROVE  (Conservation /\ NoSilentLoss /\ DrainedAtExit)'
  BY <1>14 DEF FlushReport, ReportDrops
<1>15. ASSUME Tick
      PROVE  (Conservation /\ NoSilentLoss /\ DrainedAtExit)'
  BY <1>15 DEF Tick, CallFlush
<1>16. ASSUME Summary
      PROVE  (Conservation /\ NoSilentLoss /\ DrainedAtExit)'
  BY <1>16 DEF Summary
<1>17. ASSUME Flush
      PROVE  (Conservation /\ NoSilentLoss /\ DrainedAtExit)'
  BY <1>17 DEF Flush
<1>18. CASE UNCHANGED vars
  BY <1>18 DEF vars
<1>19. QED
  BY <1>1, <1>2, <1>3, <1>4, <1>5, <1>6, <1>7, <1>8, <1>9, <1>10, <1>11, <1>12, <1>13, <1>14, <1>15, <1>16, <1>17, <1>18
  DEF Next, Caller, Closer, Flusher

LEMMA ReportingFinite == IsFiniteSet(Reporting)
BY TrackerAssumption, FS_Subset DEF Reporting

\* The running count and what summaries report of it.
LEMMA DropsStep ==
  ASSUME TypeOK, FlusherPlaces, DropsAddUp, [Next]_vars
  PROVE  DropsAddUp'
<1> USE DEF TypeOK, FlusherPlaces, DropsAddUp, outside, inside, counters, bounds
<1>1. ASSUME NEW c \in Callers, TrackCheck(c)
      PROVE  DropsAddUp'
  <2>1. Reporting' = Reporting
    BY <1>1 DEF TrackCheck, Reporting
  <2>2. QED
    BY <1>1, <2>1, ReportingFinite, FS_CardinalityType DEF TrackCheck
<1>2. ASSUME NEW c \in Callers, TrackSend(c)
      PROVE  DropsAddUp'
  <2>1. Reporting' = Reporting
    BY <1>2 DEF TrackSend, Reporting
  <2>2. QED
    BY <1>2, <2>1, ReportingFinite, FS_CardinalityType DEF TrackSend
<1>3. ASSUME NEW c \in Callers, TrackDrop(c)
      PROVE  DropsAddUp'
  <2>1. c \notin Reporting /\ Reporting' = Reporting \union {c}
    BY <1>3 DEF TrackDrop, Reporting
  <2>2. Cardinality(Reporting') = Cardinality(Reporting) + 1
    BY <2>1, ReportingFinite, FS_AddElement
  <2>3. QED
    BY <1>3, <2>2, ReportingFinite, FS_CardinalityType DEF TrackDrop
<1>4. ASSUME NEW c \in Callers, TrackReport(c)
      PROVE  DropsAddUp'
  <2>1. c \in Reporting /\ Reporting' = Reporting \ {c}
    BY <1>4 DEF TrackReport, Reporting
  <2>2. Cardinality(Reporting') = Cardinality(Reporting) - 1
    BY <2>1, ReportingFinite, FS_RemoveElement
  <2>3. QED
    BY <1>4, <2>2, ReportingFinite, FS_CardinalityType DEF TrackReport, ReportDrops
<1>5. ASSUME NEW s \in Closers, ShutdownSwap(s)
      PROVE  DropsAddUp'
  <2>1. Reporting' = Reporting
    BY <1>5 DEF ShutdownSwap, Reporting
  <2>2. QED
    BY <1>5, <2>1, ReportingFinite, FS_CardinalityType DEF ShutdownSwap
<1>6. ASSUME NEW s \in Closers, ShutdownClose(s)
      PROVE  DropsAddUp'
  <2>1. Reporting' = Reporting
    BY <1>6 DEF ShutdownClose, Reporting
  <2>2. QED
    BY <1>6, <2>1, ReportingFinite, FS_CardinalityType DEF ShutdownClose
<1>7. ASSUME NEW s \in Closers, ShutdownReturn(s)
      PROVE  DropsAddUp'
  <2>1. Reporting' = Reporting
    BY <1>7 DEF ShutdownReturn, Reporting
  <2>2. QED
    BY <1>7, <2>1, ReportingFinite, FS_CardinalityType DEF ShutdownReturn
<1>8. ASSUME StartDrain
      PROVE  DropsAddUp'
  <2>1. Reporting' = Reporting
    BY <1>8 DEF StartDrain, Reporting
  <2>2. QED
    BY <1>8, <2>1, ReportingFinite, FS_CardinalityType DEF StartDrain
<1>9. ASSUME Receive
      PROVE  DropsAddUp'
  <2>1. Reporting' = Reporting
    BY <1>9 DEF Receive, Reporting
  <2>2. QED
    BY <1>9, <2>1, ReportingFinite, FS_CardinalityType DEF Receive
<1>10. ASSUME DrainEnd
      PROVE  DropsAddUp'
  <2>1. Reporting' = Reporting
    BY <1>10 DEF DrainEnd, Reporting
  <2>2. QED
    BY <1>10, <2>1, ReportingFinite, FS_CardinalityType DEF DrainEnd, CallFlush
<1>11. ASSUME ReceiveClosed
      PROVE  DropsAddUp'
  <2>1. Reporting' = Reporting
    BY <1>11 DEF ReceiveClosed, Reporting
  <2>2. QED
    BY <1>11, <2>1, ReportingFinite, FS_CardinalityType DEF ReceiveClosed, CallFlush
<1>12. ASSUME UpsertOk
      PROVE  DropsAddUp'
  <2>1. Reporting' = Reporting
    BY <1>12 DEF UpsertOk, Reporting
  <2>2. QED
    BY <1>12, <2>1, ReportingFinite, FS_CardinalityType DEF UpsertOk
<1>13. ASSUME UpsertFail
      PROVE  DropsAddUp'
  <2>1. Reporting' = Reporting
    BY <1>13 DEF UpsertFail, Reporting
  <2>2. QED
    BY <1>13, <2>1, ReportingFinite, FS_CardinalityType DEF UpsertFail, Written
<1>14. ASSUME FlushReport
      PROVE  DropsAddUp'
  <2>1. Reporting' = Reporting
    BY <1>14 DEF FlushReport, Reporting
  <2>2. QED
    BY <1>14, <2>1, ReportingFinite, FS_CardinalityType DEF FlushReport, ReportDrops
<1>15. ASSUME Tick
      PROVE  DropsAddUp'
  <2>1. Reporting' = Reporting
    BY <1>15 DEF Tick, Reporting
  <2>2. QED
    BY <1>15, <2>1, ReportingFinite, FS_CardinalityType DEF Tick, CallFlush
<1>16. ASSUME Summary
      PROVE  DropsAddUp'
  <2>1. Reporting' = Reporting
    BY <1>16 DEF Summary, Reporting
  <2>2. QED
    BY <1>16, <2>1, ReportingFinite, FS_CardinalityType DEF Summary
<1>17. ASSUME Flush
      PROVE  DropsAddUp'
  <2>1. Reporting' = Reporting
    BY <1>17 DEF Flush, Reporting
  <2>2. QED
    BY <1>17, <2>1, ReportingFinite, FS_CardinalityType DEF Flush
<1>18. CASE UNCHANGED vars
  BY <1>18 DEF vars, Reporting
<1>19. QED
  BY <1>1, <1>2, <1>3, <1>4, <1>5, <1>6, <1>7, <1>8, <1>9, <1>10, <1>11, <1>12, <1>13, <1>14, <1>15, <1>16, <1>17, <1>18
  DEF Next, Caller, Closer, Flusher

\* The inductive invariant of Track, the flusher and Shutdown: types, places
\* of the flusher, and the sums that records and drops add up to.
THEOREM Invariance == Spec => []IInv
<1>1. IInv /\ [Next]_vars => IInv'
  BY TypeStep, CountStep, DropsStep DEF IInv
<1>2. QED
  BY InitIInv, <1>1, PTL DEF Spec

\* Type correctness: counters never underflow, the channel never exceeds its
\* capacity and a batch never exceeds BatchSize.
THEOREM TypeCorrect == Spec => []TypeOK
BY Invariance, PTL DEF IInv

\* Whatever the interleaving of Track, the flusher and Shutdown, a record that
\* was sent is in the channel, in the batch, stored, or lost in a failed write.
THEOREM RecordsConserved == Spec => []Conservation
BY Invariance, PTL DEF IInv

\* Every record turned away or lost is in Dropped().
THEOREM LossIsCounted == Spec => []NoSilentLoss
BY Invariance, PTL DEF IInv

\* A Shutdown that returns in time leaves nothing unsettled.
THEOREM ShutdownSettles == Spec => []DrainedAtExit
BY Invariance, PTL DEF IInv

\* The summaries and the running count add up to the total.
THEOREM SummariesAddUp == Spec => []DropsAddUp
BY Invariance, PTL DEF IInv
LEMMA StepMonotonic ==
  ASSUME TypeOK, FlusherPlaces, [Next]_vars
  PROVE  dropped' >= dropped /\ stored' >= stored
<1> USE Sizes DEF TypeOK, FlusherPlaces, outside, inside, counters, bounds
<1>1. ASSUME NEW c \in Callers, TrackCheck(c)
      PROVE  dropped' >= dropped /\ stored' >= stored
  BY <1>1 DEF TrackCheck
<1>2. ASSUME NEW c \in Callers, TrackSend(c)
      PROVE  dropped' >= dropped /\ stored' >= stored
  BY <1>2 DEF TrackSend
<1>3. ASSUME NEW c \in Callers, TrackDrop(c)
      PROVE  dropped' >= dropped /\ stored' >= stored
  BY <1>3 DEF TrackDrop
<1>4. ASSUME NEW c \in Callers, TrackReport(c)
      PROVE  dropped' >= dropped /\ stored' >= stored
  BY <1>4 DEF TrackReport, ReportDrops
<1>5. ASSUME NEW s \in Closers, ShutdownSwap(s)
      PROVE  dropped' >= dropped /\ stored' >= stored
  BY <1>5 DEF ShutdownSwap
<1>6. ASSUME NEW s \in Closers, ShutdownClose(s)
      PROVE  dropped' >= dropped /\ stored' >= stored
  BY <1>6 DEF ShutdownClose
<1>7. ASSUME NEW s \in Closers, ShutdownReturn(s)
      PROVE  dropped' >= dropped /\ stored' >= stored
  BY <1>7 DEF ShutdownReturn
<1>8. ASSUME StartDrain
      PROVE  dropped' >= dropped /\ stored' >= stored
  BY <1>8 DEF StartDrain
<1>9. ASSUME Receive
      PROVE  dropped' >= dropped /\ stored' >= stored
  BY <1>9 DEF Receive
<1>10. ASSUME DrainEnd
      PROVE  dropped' >= dropped /\ stored' >= stored
  BY <1>10 DEF DrainEnd, CallFlush
<1>11. ASSUME ReceiveClosed
      PROVE  dropped' >= dropped /\ stored' >= stored
  BY <1>11 DEF ReceiveClosed, CallFlush
<1>12. ASSUME UpsertOk
      PROVE  dropped' >= dropped /\ stored' >= stored
  BY <1>12 DEF UpsertOk
<1>13. ASSUME UpsertFail
      PROVE  dropped' >= dropped /\ stored' >= stored
  BY <1>13 DEF UpsertFail, Written
<1>14. ASSUME FlushReport
      PROVE  dropped' >= dropped /\ stored' >= stored
  BY <1>14 DEF FlushReport, ReportDrops
<1>15. ASSUME Tick
      PROVE  dropped' >= dropped /\ stored' >= stored
  BY <1>15 DEF Tick, CallFlush
<1>16. ASSUME Summary
      PROVE  dropped' >= dropped /\ stored' >= stored
  BY <1>16 DEF Summary
<1>17. ASSUME Flush
      PROVE  dropped' >= dropped /\ stored' >= stored
  BY <1>17 DEF Flush
<1>18. CASE UNCHANGED vars
  BY <1>18 DEF vars
<1>19. QED
  BY <1>1, <1>2, <1>3, <1>4, <1>5, <1>6, <1>7, <1>8, <1>9, <1>10, <1>11, <1>12, <1>13, <1>14, <1>15, <1>16, <1>17, <1>18
  DEF Next, Caller, Closer, Flusher

\* "monotonic total": no step takes a counted drop or a stored row back.
THEOREM TotalsMonotonic == Spec => Monotonic
<1>1. TypeOK /\ FlusherPlaces /\ [Next]_vars
        => [dropped' >= dropped /\ stored' >= stored]_vars
  <2> SUFFICES ASSUME TypeOK, FlusherPlaces, [Next]_vars
               PROVE  dropped' >= dropped /\ stored' >= stored
    OBVIOUS
  <2>1. QED
    BY Sizes, StepMonotonic
<1>2. QED
  BY <1>1, Invariance, PTL DEF IInv, Spec, Monotonic

\* Every step of the tracker is a step of the ledger or leaves it alone.
LEMMA LedgerStep ==
  ASSUME TypeOK, FlusherPlaces, [Next]_vars
  PROVE  [Promise!Next]_(Promise!vars)
<1> USE Sizes DEF TypeOK, FlusherPlaces, Held, outside, inside, counters, bounds
<1>1. ASSUME NEW c \in Callers, TrackCheck(c)
      PROVE  [Promise!Next]_(Promise!vars)
  BY <1>1 DEF TrackCheck, Promise!vars
<1>2. ASSUME NEW c \in Callers, TrackSend(c)
      PROVE  [Promise!Next]_(Promise!vars)
  BY <1>2 DEF TrackSend, Promise!Next, Promise!Take
<1>3. ASSUME NEW c \in Callers, TrackDrop(c)
      PROVE  [Promise!Next]_(Promise!vars)
  BY <1>3 DEF TrackDrop, Promise!Next, Promise!TurnAway
<1>4. ASSUME NEW c \in Callers, TrackReport(c)
      PROVE  [Promise!Next]_(Promise!vars)
  BY <1>4 DEF TrackReport, ReportDrops, Promise!vars
<1>5. ASSUME NEW s \in Closers, ShutdownSwap(s)
      PROVE  [Promise!Next]_(Promise!vars)
  BY <1>5 DEF ShutdownSwap, Promise!vars
<1>6. ASSUME NEW s \in Closers, ShutdownClose(s)
      PROVE  [Promise!Next]_(Promise!vars)
  <2>1. CASE bufClosed
    BY <1>6, <2>1 DEF ShutdownClose, Promise!vars
  <2>2. CASE ~bufClosed
    BY <1>6, <2>2 DEF ShutdownClose, Promise!Next, Promise!Close
  <2>3. QED
    BY <2>1, <2>2
<1>7. ASSUME NEW s \in Closers, ShutdownReturn(s)
      PROVE  [Promise!Next]_(Promise!vars)
  BY <1>7 DEF ShutdownReturn, Promise!vars
<1>8. ASSUME StartDrain
      PROVE  [Promise!Next]_(Promise!vars)
  BY <1>8 DEF StartDrain, Promise!vars
<1>9. ASSUME Receive
      PROVE  [Promise!Next]_(Promise!vars)
  BY <1>9 DEF Receive, Promise!vars
<1>10. ASSUME DrainEnd
      PROVE  [Promise!Next]_(Promise!vars)
  BY <1>10 DEF DrainEnd, CallFlush, Promise!vars
<1>11. ASSUME ReceiveClosed
      PROVE  [Promise!Next]_(Promise!vars)
  <2>1. CASE batch = 0
    BY <1>11, <2>1 DEF ReceiveClosed, CallFlush, Promise!Next, Promise!Drain
  <2>2. CASE batch # 0
    BY <1>11, <2>2 DEF ReceiveClosed, CallFlush, Promise!vars
  <2>3. QED
    BY <2>1, <2>2
<1>12. ASSUME UpsertOk
      PROVE  [Promise!Next]_(Promise!vars)
  <2>1. /\ batch \in 1..BatchSize /\ batch \in 0..BatchSize
        /\ batch <= buf + Held
        /\ buf' + Held' = buf + Held - batch
        /\ stored' = stored + batch /\ UNCHANGED dropped
    BY <1>12 DEF UpsertOk
  <2>2. Promise!Settle
    BY <1>12, <2>1 DEF UpsertOk, Promise!Settle
  <2>3. QED
    BY <2>2 DEF Promise!Next
<1>13. ASSUME UpsertFail
      PROVE  [Promise!Next]_(Promise!vars)
  <2>1. PICK k \in Written(batch) : stored' = stored + k
    BY <1>13 DEF UpsertFail
  <2>2. /\ batch \in 1..BatchSize /\ k \in 0..BatchSize /\ k <= batch
        /\ batch <= buf + Held
        /\ buf' + Held' = buf + Held - batch
        /\ dropped' = dropped + batch
    BY <1>13 DEF UpsertFail, Written
  <2>3. Promise!Settle
    BY <1>13, <2>1, <2>2 DEF UpsertFail, Promise!Settle
  <2>4. QED
    BY <2>3 DEF Promise!Next
<1>14. ASSUME FlushReport
      PROVE  [Promise!Next]_(Promise!vars)
  <2>1. CASE resume = "done"
    BY <1>14, <2>1 DEF FlushReport, ReportDrops, Promise!Next, Promise!Drain
  <2>2. CASE resume # "done"
    BY <1>14, <2>2 DEF FlushReport, ReportDrops, Promise!vars
  <2>3. QED
    BY <2>1, <2>2
<1>15. ASSUME Tick
      PROVE  [Promise!Next]_(Promise!vars)
  BY <1>15 DEF Tick, CallFlush, Promise!vars
<1>16. ASSUME Summary
      PROVE  [Promise!Next]_(Promise!vars)
  BY <1>16 DEF Summary, Promise!vars
<1>17. ASSUME Flush
      PROVE  [Promise!Next]_(Promise!vars)
  BY <1>17 DEF Flush, Promise!vars
<1>18. CASE UNCHANGED vars
  BY <1>18 DEF vars, Promise!vars
<1>19. QED
  BY <1>1, <1>2, <1>3, <1>4, <1>5, <1>6, <1>7, <1>8, <1>9, <1>10, <1>11, <1>12, <1>13, <1>14, <1>15, <1>16, <1>17, <1>18
  DEF Next, Caller, Closer, Flusher

\* Refinement: channel, batch and flusher together keep the ledger's promise.
THEOREM TrackerImplementsLedger == Spec => ImplementsLedger
<1>1. Init => Promise!Init
  BY DEF Init, Held, Promise!Init
<1>2. IInv /\ [Next]_vars => [Promise!Next]_(Promise!vars)
  BY LedgerStep DEF IInv
<1>3. QED
  BY <1>1, <1>2, Invariance, PTL DEF Spec, ImplementsLedger, Promise!Spec

-----------------------------------------------------------------------------
(* The process.                                                            *)

\* Every step of the composition is one of the tracker, or leaves it alone.
LEMMA TrackerSteps == LifeNext => [Next]_vars
<1> SUFFICES ASSUME LifeNext
             PROVE  [Next]_vars
  OBVIOUS
<1>1. ASSUME NEW c \in Callers, HandlerStep(c)
      PROVE  [Next]_vars
  <2>1. CASE Accept(c) \/ Abort(c) \/ WriteAnswer(c)
    BY <2>1 DEF Accept, Abort, WriteAnswer
  <2>2. CASE CallTrack(c) \/ InTrack(c)
    BY <2>2 DEF CallTrack, InTrack, Caller, Next
  <2>3. QED
    BY <1>1, <2>1, <2>2 DEF HandlerStep
<1>2. CASE FlusherRuns
  BY <1>2 DEF FlusherRuns, Next
<1>3. CASE Signal
  BY <1>3 DEF Signal
<1>4. CASE Main
  BY <1>4, LifecycleAssumption
     DEF Main, StartDraining, WaitDrained, CloseDB, Exit, Closer, Next
<1>5. QED
  BY <1>1, <1>2, <1>3, <1>4 DEF LifeNext

-----------------------------------------------------------------------------
\* How far main has got: before the signal nobody has closed the tracker, and
\* the pool is closed only after the first Shutdown has returned.
MainPlaces ==
  /\ main = "serve" => ~closed /\ shut[DrainCall] = "idle"
  /\ shut[DrainCall] # "returned"
  /\ db = "closed" => shut[DrainCall] \in {"drained", "timedOut"}

LifeInv == IInv /\ LifeTypeOK /\ MainPlaces

LEMMA LifeStep ==
  ASSUME LifeInv, [LifeNext]_lifeVars
  PROVE  LifeInv'
<1> USE DEF LifeInv
<1>1. IInv'
  <2>1. [Next]_vars
    BY TrackerSteps DEF lifeVars
  <2>2. QED
    BY <2>1, TypeStep, CountStep, DropsStep DEF IInv
<1>2. TypeOK'
  BY <1>1 DEF IInv
<1> SUFFICES (LifeTypeOK /\ MainPlaces)'
  BY <1>1
<1>3. ASSUME NEW c \in Callers, HandlerStep(c)
      PROVE  (LifeTypeOK /\ MainPlaces)'
  <2>1. UNCHANGED <<shut, closed, main, db>>
    BY <1>3 DEF HandlerStep, Accept, Abort, WriteAnswer, CallTrack, InTrack,
                TrackCheck, TrackSend, TrackDrop, TrackReport, vars, life
  <2>2. /\ http' \in {"up", "closing"}
        /\ work' \in [Callers -> {"none", "serving", "tracking", "answered",
                                  "failed", "cut"}]
    BY <1>3 DEF LifeTypeOK, HandlerStep, Accept, Abort, WriteAnswer, CallTrack,
                InTrack, Handler, life
  <2>3. QED
    BY <1>2, <2>1, <2>2 DEF LifeTypeOK, MainPlaces
<1>4. CASE FlusherRuns
  <2>1. UNCHANGED <<shut, closed, life>>
    BY <1>4 DEF FlusherRuns, Flusher, Tick, StartDrain, Receive, DrainEnd,
                ReceiveClosed, UpsertOk, UpsertFail, FlushReport, outside
  <2>2. QED
    BY <1>2, <2>1 DEF LifeTypeOK, MainPlaces, life
<1>5. CASE Signal
  BY <1>2, <1>5 DEF Signal, LifeTypeOK, MainPlaces, vars
<1>6. CASE Main
  <2>1. shut \in [Closers -> {"idle", "closing", "waiting", "returned", "drained",
                              "timedOut"}]
        /\ DrainCall \in Closers /\ DeferredCall \in Closers
        /\ DrainCall # DeferredCall
    BY LifecycleAssumption DEF LifeTypeOK, TypeOK
  <2>2. CASE StartDraining
    BY <1>2, <2>1, <2>2 DEF StartDraining, ShutdownSwap, LifeTypeOK, MainPlaces
  <2>3. CASE WaitDrained
    BY <1>2, <2>1, <2>3
       DEF WaitDrained, ShutdownClose, ShutdownReturn, LifeTypeOK, MainPlaces, life
  <2>4. CASE CloseDB
    BY <1>2, <2>1, <2>4 DEF CloseDB, LifeTypeOK, MainPlaces, vars
  <2>5. CASE Exit
    BY <1>2, <2>1, <2>5 DEF Exit, ShutdownSwap, LifeTypeOK, MainPlaces
  <2>6. QED
    BY <1>6, <2>2, <2>3, <2>4, <2>5 DEF Main
<1>7. CASE UNCHANGED lifeVars
  BY <1>2, <1>7 DEF lifeVars, life, vars, LifeTypeOK, MainPlaces
<1>8. QED
  BY <1>3, <1>4, <1>5, <1>6, <1>7 DEF LifeNext

LEMMA LifeInitInv == LifeInit => LifeInv
<1> SUFFICES ASSUME LifeInit
             PROVE  LifeInv
  OBVIOUS
<1>1. IInv
  BY InitIInv DEF LifeInit
<1>2. LifeTypeOK
  BY <1>1 DEF IInv, LifeInit, LifeTypeOK
<1>3. MainPlaces
  BY LifecycleAssumption DEF LifeInit, Init, MainPlaces
<1>4. QED
  BY <1>1, <1>2, <1>3 DEF LifeInv

-----------------------------------------------------------------------------
\* The composition keeps the tracker's invariant, its own types and MainPlaces.
THEOREM LifeInvariance == LifeSpec => []LifeInv
<1>1. LifeInv /\ [LifeNext]_lifeVars => LifeInv'
  BY LifeStep
<1>2. QED
  BY <1>1, LifeInitInv, PTL DEF LifeSpec

\* What main and the handlers do to the tracker is what callers and closers do
\* (server.Shutdown, trackDownload), so every theorem about it holds in them.
THEOREM LifeImplementsTracker == LifeSpec => Spec
<1>1. LifeInit => Init
  BY DEF LifeInit
<1>2. [LifeNext]_lifeVars => [Next]_vars
  BY TrackerSteps DEF lifeVars
<1>3. QED
  BY <1>1, <1>2, PTL DEF LifeSpec, Spec

\* From the first download to the exit, whatever the handlers are doing when
\* main shuts down, the process keeps the ledger's promise.
THEOREM ProcessImplementsLedger == LifeSpec => ImplementsLedger
BY LifeImplementsTracker, TrackerImplementsLedger

\* LifeTypeOK: types, of the tracker's variables too.
THEOREM LifeTypeCorrect == LifeSpec => []LifeTypeOK
<1>1. LifeInv => LifeTypeOK
  BY DEF LifeInv
<1>2. QED
  BY <1>1, LifeInvariance, PTL

\* FlushBeforeClose: server.Shutdown closes the pool after the tracker, so no
\* dependency record is lost to a closed pool unless the 10 s ran out.
THEOREM PoolClosedLast == LifeSpec => []FlushBeforeClose
<1>1. LifeInv => FlushBeforeClose
  BY LifecycleAssumption
     DEF LifeInv, IInv, MainPlaces, DrainedAtExit, FlushBeforeClose, Held, TypeOK
<1>2. QED
  BY <1>1, LifeInvariance, PTL

-----------------------------------------------------------------------------
(* Answered downloads.                                                     *)

\* The handlers whose call of Track has sent the record or turned it away.
Through == {c \in Callers : work[c] = "answered" \/ (work[c] = "tracking" /\ track[c] # "send")}

\* Each of them is in one of three counts, and Track ignores nobody before the
\* tracker is closed.
Accounted ==
  /\ Cardinality(Through) <= sent + turnedAway + ignored
  /\ ignored > 0 => closed

LEMMA ThroughFinite == IsFiniteSet(Through) /\ IsFiniteSet(Through')
BY TrackerAssumption, FS_Subset DEF Through

\* Handlers that are cut off or at work elsewhere do not count.
LEMMA ThroughShrinks ==
  ASSUME Accounted, TypeOK, Through' \subseteq Through, closed => closed',
         UNCHANGED <<sent, turnedAway, ignored>>
  PROVE  Accounted'
<1>1. Cardinality(Through') <= Cardinality(Through)
  BY ThroughFinite, FS_Subset
<1>2. Cardinality(Through) \in Nat /\ Cardinality(Through') \in Nat
  BY ThroughFinite, FS_CardinalityType
<1>3. QED
  BY <1>1, <1>2 DEF Accounted, TypeOK

\* A handler that gets through is counted in the same step.
LEMMA ThroughGrows ==
  ASSUME Accounted, TypeOK, NEW c, Through' \subseteq Through \union {c},
         TypeOK', sent' + turnedAway' + ignored' = sent + turnedAway + ignored + 1,
         ignored' > 0 => closed'
  PROVE  Accounted'
<1>1. IsFiniteSet(Through \union {c}) /\ Through' \in SUBSET (Through \union {c})
  BY ThroughFinite, FS_AddElement
<1>2. Cardinality(Through') <= Cardinality(Through \union {c})
  BY <1>1, FS_Subset
<1>3. /\ Cardinality(Through) \in Nat /\ Cardinality(Through') \in Nat
      /\ Cardinality(Through \union {c}) \in Nat
  BY <1>1, ThroughFinite, FS_CardinalityType
<1>4. Cardinality(Through \union {c}) =
        IF c \in Through THEN Cardinality(Through) ELSE Cardinality(Through) + 1
  BY ThroughFinite, FS_AddElement
<1>5. Cardinality(Through \union {c}) <= Cardinality(Through) + 1
  BY <1>3, <1>4
<1>6. /\ sent \in Nat /\ turnedAway \in Nat /\ ignored \in Nat
      /\ sent' \in Nat /\ turnedAway' \in Nat /\ ignored' \in Nat
  BY DEF TypeOK
<1>7. Cardinality(Through') <= sent' + turnedAway' + ignored'
  <2> DEFINE now == Cardinality(Through')
             both == Cardinality(Through \union {c})
             was == Cardinality(Through)
             counts == sent + turnedAway + ignored
             countsNow == sent' + turnedAway' + ignored'
  <2>1. was <= counts /\ countsNow = counts + 1
    BY DEF Accounted
  <2>2. counts \in Nat /\ countsNow \in Nat
    <3>1. \A x, y, z \in Nat : x + y + z \in Nat
      OBVIOUS
    <3>2. counts \in Nat
      BY <1>6, <3>1
    <3>3. countsNow \in Nat
      BY <2>1, <3>2
    <3>4. QED
      BY <3>2, <3>3
  <2>3. now <= both /\ both <= was + 1 /\ now \in Nat /\ both \in Nat /\ was \in Nat
    BY <1>2, <1>3, <1>5
  <2> HIDE DEF now, both, was, counts, countsNow
  <2>4. now <= countsNow
    BY <2>1, <2>2, <2>3
  <2>5. QED
    BY <2>4 DEF now, countsNow
<1>8. QED
  BY <1>7 DEF Accounted

LEMMA AccountedStep ==
  ASSUME Accounted, LifeInv, LifeInv', [LifeNext]_lifeVars
  PROVE  Accounted'
<1>1. /\ TypeOK /\ TypeOK' /\ LifeTypeOK
      /\ work \in [Callers -> {"none", "serving", "tracking", "answered", "failed", "cut"}]
      /\ track \in [Callers -> {"idle", "send", "report"}]
      /\ sent \in Nat /\ turnedAway \in Nat /\ ignored \in Nat
  BY DEF LifeInv, LifeTypeOK, IInv, TypeOK
<1>2. ASSUME NEW c \in Callers, HandlerStep(c)
      PROVE  Accounted'
  <2>1. CASE Accept(c) \/ Abort(c)
    <3>1. Through' \subseteq Through /\ UNCHANGED <<sent, turnedAway, ignored, closed>>
      BY <1>1, <2>1 DEF Accept, Abort, Handler, vars, Through
    <3>2. QED
      BY <1>1, <3>1, ThroughShrinks
  <2>2. CASE WriteAnswer(c)
    <3>1. Through' \subseteq Through /\ UNCHANGED <<sent, turnedAway, ignored, closed>>
      BY <1>1, <2>2 DEF WriteAnswer, Handler, vars, Through
    <3>2. QED
      BY <1>1, <3>1, ThroughShrinks
  <2>3. CASE CallTrack(c) /\ closed
    <3>1. /\ Through' \subseteq Through \union {c} /\ closed'
          /\ ignored' = ignored + 1 /\ UNCHANGED <<sent, turnedAway>>
      BY <1>1, <2>3 DEF CallTrack, TrackCheck, Handler, Through
    <3>2. QED
      BY <1>1, <3>1, ThroughGrows
  <2>4. CASE CallTrack(c) /\ ~closed
    <3>1. Through' \subseteq Through /\ UNCHANGED <<sent, turnedAway, ignored, closed>>
      BY <1>1, <2>4 DEF CallTrack, TrackCheck, Handler, Through
    <3>2. QED
      BY <1>1, <3>1, ThroughShrinks
  <2>5. CASE InTrack(c) /\ TrackSend(c)
    <3>1. /\ Through' \subseteq Through \union {c}
          /\ sent' = sent + 1 /\ UNCHANGED <<turnedAway, ignored, closed>>
      BY <1>1, <2>5 DEF InTrack, TrackSend, Through, life
    <3>2. QED
      BY <1>1, <3>1, ThroughGrows DEF Accounted
  <2>6. CASE InTrack(c) /\ TrackDrop(c)
    <3>1. /\ Through' \subseteq Through \union {c}
          /\ turnedAway' = turnedAway + 1 /\ UNCHANGED <<sent, ignored, closed>>
      BY <1>1, <2>6 DEF InTrack, TrackDrop, Through, life
    <3>2. QED
      BY <1>1, <3>1, ThroughGrows DEF Accounted
  <2>7. CASE InTrack(c) /\ TrackReport(c)
    <3>1. Through' \subseteq Through /\ UNCHANGED <<sent, turnedAway, ignored, closed>>
      BY <1>1, <2>7 DEF InTrack, TrackReport, Through, life
    <3>2. QED
      BY <1>1, <3>1, ThroughShrinks
  <2>8. QED
    BY <1>2, <2>1, <2>2, <2>3, <2>4, <2>5, <2>6, <2>7 DEF HandlerStep, InTrack
<1>3. ASSUME UNCHANGED <<track, work, sent, turnedAway, ignored>>, closed => closed'
      PROVE  Accounted'
  <2>1. Through' \subseteq Through
    BY <1>3 DEF Through
  <2>2. QED
    BY <1>1, <1>3, <2>1, ThroughShrinks
<1>4. CASE FlusherRuns
  BY <1>3, <1>4 DEF FlusherRuns, Flusher, Tick, StartDrain, Receive, DrainEnd,
     ReceiveClosed, UpsertOk, UpsertFail, FlushReport, outside, life
<1>5. CASE Signal
  BY <1>3, <1>5 DEF Signal, vars
<1>6. CASE StartDraining \/ WaitDrained \/ CloseDB
  BY <1>3, <1>6 DEF StartDraining, WaitDrained, CloseDB, ShutdownSwap, ShutdownClose,
     ShutdownReturn, inside, vars, life
<1>7. CASE Exit
  <2>1. Through' \subseteq Through /\ UNCHANGED <<sent, turnedAway, ignored>> /\ closed'
    BY <1>1, <1>7 DEF Exit, ShutdownSwap, inside, Through
  <2>2. QED
    BY <1>1, <2>1, ThroughShrinks
<1>8. CASE UNCHANGED lifeVars
  BY <1>3, <1>8 DEF lifeVars, vars, life
<1>9. QED
  BY <1>2, <1>4, <1>5, <1>6, <1>7, <1>8 DEF LifeNext, Main

\* AnsweredIsTracked holds until Shutdown closes the tracker: what is lost of it
\* afterwards (main.go:85) is exactly what Track ignores once t.closed is set.
THEOREM AnsweredIsTrackedTillClosed == LifeSpec => [](closed \/ AnsweredIsTracked)
<1>1. LifeInit => Accounted
  <2> SUFFICES ASSUME LifeInit PROVE Accounted
    OBVIOUS
  <2>1. Through = {}
    BY DEF LifeInit, Init, Through
  <2>2. QED
    BY <2>1, FS_EmptySet DEF LifeInit, Init, Accounted
<1>2. LifeInv /\ LifeInv' /\ Accounted /\ [LifeNext]_lifeVars => Accounted'
  BY AccountedStep
<1>3. LifeInv /\ Accounted => closed \/ AnsweredIsTracked
  <2> SUFFICES ASSUME LifeInv, Accounted, ~closed PROVE AnsweredIsTracked
    OBVIOUS
  <2> DEFINE A == {c \in Callers : work[c] = "answered"}
  <2>1. Cardinality(A) <= Cardinality(Through) /\ Cardinality(A) \in Nat
        /\ Cardinality(Through) \in Nat
    <3>1. A \in SUBSET Through
      BY DEF Through
    <3>2. QED
      BY <3>1, ThroughFinite, FS_Subset, FS_CardinalityType
  <2>2. sent \in Nat /\ turnedAway \in Nat /\ ignored = 0
    BY DEF LifeInv, LifeTypeOK, TypeOK, Accounted
  <2>3. QED
    BY <2>1, <2>2 DEF Accounted, AnsweredIsTracked
<1>4. QED
  BY <1>1, <1>2, <1>3, LifeInvariance, PTL DEF LifeSpec
===============================================================================
