-------------------------------- MODULE Tracker --------------------------------
(***************************************************************************)
(* project.Tracker: handlers hand download records to Track, which never   *)
(* blocks; one flusher goroutine moves them from the buffered channel into *)
(* a batch and the batch into the dependency store; Shutdown closes the    *)
(* channel and waits for the flusher's last flush.  Records are counted,   *)
(* not named: nothing in the tracker looks into one.  Each action is one   *)
(* atomic operation on shared state (channel, atomic counter, store).      *)
(***************************************************************************)
EXTENDS Integers, FiniteSets

CONSTANTS
  Callers,          \* goroutines that call Track
  Closers,          \* goroutines that call Shutdown
  ConfiguredBatch,  \* TrackerConfig.BatchSize
  DefaultBatch,     \* its default (100)
  MinCapacity,      \* the smallest channel buffer (1024)
  MaxBatchRows,     \* rows in one INSERT (500)
  MaxRecords,       \* bound: calls of Track
  MaxFailures,      \* bound: failed writes
  MaxSummaries,     \* bound: summaries logged; 0 is DropInterval <= 0
  MaxFlushes        \* bound: calls of Flush

ASSUME TrackerAssumption ==
  /\ IsFiniteSet(Callers)
  /\ ConfiguredBatch \in Int /\ DefaultBatch \in Nat \ {0}
  /\ MinCapacity \in Nat /\ MaxBatchRows \in Nat \ {0}
  /\ MaxRecords \in Nat /\ MaxFailures \in Nat
  /\ MaxSummaries \in Nat /\ MaxFlushes \in Nat

BatchSize == IF ConfiguredBatch <= 0 THEN DefaultBatch ELSE ConfiguredBatch
Capacity == IF 2 * BatchSize < MinCapacity THEN MinCapacity ELSE 2 * BatchSize

VARIABLES
  track,        \* where each caller is in Track
  shut,         \* where each closer is in Shutdown
  closed,       \* t.closed
  bufClosed,    \* t.buf is closed
  buf,          \* records in t.buf
  flushReq,     \* a token is in t.flush
  flusher,      \* where the flusher is
  resume,       \* where it continues after flush()
  batch,        \* len(batch)
  dropped,      \* t.dropped
  since,        \* t.droppedSinceReport
  stored,       \* rows' worth of records in the dependency store
  \* history: records sent, turned away, lost in a failed write and ignored
  \* after Shutdown; drops that summaries have reported; warnings since the
  \* last summary; the rest count towards bounds
  sent, turnedAway, lost, ignored, reported, warnings,
  failures, summaries, flushes

vars == <<track, shut, closed, bufClosed, buf, flushReq, flusher, resume,
          batch, dropped, since, stored, sent, turnedAway, lost, ignored,
          reported, warnings, failures, summaries, flushes>>

Init ==
  /\ track = [c \in Callers |-> "idle"]
  /\ shut = [s \in Closers |-> "idle"]
  /\ closed = FALSE /\ bufClosed = FALSE /\ flushReq = FALSE
  /\ buf = 0 /\ batch = 0
  /\ flusher = "select" /\ resume = "select"
  /\ dropped = 0 /\ since = 0 /\ stored = 0
  /\ sent = 0 /\ turnedAway = 0 /\ lost = 0 /\ ignored = 0
  /\ reported = 0 /\ warnings = 0
  /\ failures = 0 /\ summaries = 0 /\ flushes = 0

bounds == <<failures, summaries, flushes>>
counters == <<dropped, since, lost, reported, warnings>>

Sending == {c \in Callers : track[c] = "send"}
Reporting == {c \in Callers : track[c] = "report"}

\* Seeded defect: the warning is for after == 1, not after == n.
ReportDropsWarnsAtOne(n) ==
  /\ since' = since + n
  /\ warnings' = IF since + n = 1 THEN warnings + 1 ELSE warnings

\* The second half of recordDrops(n): the atomic add that also tells the
\* first drop after a summary.
ReportDrops(n) ==
  /\ since' = since + n
  /\ warnings' = IF since = 0 THEN warnings + 1 ELSE warnings

-----------------------------------------------------------------------------
(* Track.  The check of closed and the send are separate steps; a send on  *)
(* the closed channel panics, and recover turns it into a drop.            *)

TrackCheck(c) ==
  /\ track[c] = "idle"
  /\ sent + turnedAway + ignored + Cardinality(Sending) < MaxRecords
  /\ \/ ~closed /\ track' = [track EXCEPT ![c] = "send"] /\ UNCHANGED ignored
     \/ closed /\ ignored' = ignored + 1 /\ UNCHANGED track
  /\ UNCHANGED <<shut, closed, bufClosed, buf, flushReq, flusher, resume, batch,
                 stored, sent, turnedAway, counters, bounds>>

TrackSend(c) ==
  /\ track[c] = "send"
  /\ ~bufClosed /\ buf < Capacity
  /\ buf' = buf + 1 /\ sent' = sent + 1
  /\ track' = [track EXCEPT ![c] = "idle"]
  /\ UNCHANGED <<shut, closed, bufClosed, flushReq, flusher, resume, batch,
                 stored, turnedAway, ignored, counters, bounds>>

\* Seeded defect: the recovered panic is not counted.
TrackDropForgetsPanic(c) ==
  /\ track[c] = "send"
  /\ bufClosed \/ buf >= Capacity
  /\ dropped' = IF bufClosed THEN dropped ELSE dropped + 1
  /\ turnedAway' = turnedAway + 1
  /\ track' = [track EXCEPT ![c] = IF bufClosed THEN "idle" ELSE "report"]
  /\ UNCHANGED <<shut, closed, bufClosed, buf, flushReq, flusher, resume, batch,
                 stored, sent, since, lost, ignored, reported, warnings, bounds>>

TrackDrop(c) ==
  /\ track[c] = "send"
  /\ bufClosed \/ buf >= Capacity
  /\ dropped' = dropped + 1 /\ turnedAway' = turnedAway + 1
  /\ track' = [track EXCEPT ![c] = "report"]
  /\ UNCHANGED <<shut, closed, bufClosed, buf, flushReq, flusher, resume, batch,
                 stored, sent, since, lost, ignored, reported, warnings, bounds>>

TrackReport(c) ==
  /\ track[c] = "report"
  /\ ReportDrops(1)
  /\ track' = [track EXCEPT ![c] = "idle"]
  /\ UNCHANGED <<shut, closed, bufClosed, buf, flushReq, flusher, resume, batch,
                 dropped, stored, sent, turnedAway, lost, ignored, reported,
                 bounds>>

Flush ==
  /\ flushes < MaxFlushes /\ flushes' = flushes + 1
  /\ flushReq' = TRUE
  /\ UNCHANGED <<track, shut, closed, bufClosed, buf, flusher, resume, batch,
                 stored, sent, turnedAway, ignored, counters, failures, summaries>>

-----------------------------------------------------------------------------
(* The flusher.  In "select" it takes any ready case of its select, in     *)
(* "drain" only the channel; "upsert" is the call of UpsertBatch.          *)

outside == <<track, shut, closed, bufClosed, sent, turnedAway, ignored>>

\* flush(), called at l: nothing to do for an empty batch.
CallFlush(l) ==
  flusher' = (IF batch = 0 THEN l ELSE "upsert") /\ resume' = l

\* Seeded defect: the ticker flushes full batches only.
TickFullOnly ==
  /\ flusher = "select" /\ batch >= BatchSize
  /\ CallFlush("select")
  /\ UNCHANGED <<outside, buf, flushReq, batch, stored, counters, bounds>>

Tick ==
  /\ flusher = "select" /\ batch > 0
  /\ CallFlush("select")
  /\ UNCHANGED <<outside, buf, flushReq, batch, stored, counters, bounds>>

\* Seeded defect: the count is loaded, not swapped.
SummaryLoads ==
  /\ flusher = "select" /\ summaries < MaxSummaries
  /\ summaries' = summaries + 1
  /\ reported' = reported + since /\ warnings' = 0
  /\ UNCHANGED <<outside, buf, flushReq, flusher, resume, batch, dropped, since,
                 lost, stored, failures, flushes>>

Summary ==
  /\ flusher = "select" /\ summaries < MaxSummaries
  /\ summaries' = summaries + 1
  /\ reported' = reported + since /\ since' = 0 /\ warnings' = 0
  /\ UNCHANGED <<outside, buf, flushReq, flusher, resume, batch, dropped, lost,
                 stored, failures, flushes>>

StartDrain ==
  /\ flusher = "select" /\ flushReq
  /\ flushReq' = FALSE /\ flusher' = "drain"
  /\ UNCHANGED <<outside, buf, resume, batch, stored, counters, bounds>>

\* Seeded defect: a batch is full one record too late.
ReceiveOffByOne ==
  /\ flusher \in {"select", "drain"} /\ buf > 0
  /\ buf' = buf - 1 /\ batch' = batch + 1
  /\ \/ batch' > BatchSize /\ flusher' = "upsert" /\ resume' = flusher
     \/ batch' <= BatchSize /\ UNCHANGED <<flusher, resume>>
  /\ UNCHANGED <<outside, flushReq, stored, counters, bounds>>

Receive ==
  /\ flusher \in {"select", "drain"} /\ buf > 0
  /\ buf' = buf - 1 /\ batch' = batch + 1
  /\ \/ batch' >= BatchSize /\ flusher' = "upsert" /\ resume' = flusher
     \/ batch' < BatchSize /\ UNCHANGED <<flusher, resume>>
  /\ UNCHANGED <<outside, flushReq, stored, counters, bounds>>

\* Seeded defect: drain ignores that the channel is closed.
DrainEndIgnoresClose ==
  /\ flusher = "drain" /\ buf = 0
  /\ \/ bufClosed /\ UNCHANGED <<flusher, resume>>
     \/ ~bufClosed /\ CallFlush("select")
  /\ UNCHANGED <<outside, buf, flushReq, batch, stored, counters, bounds>>

\* drain on an empty channel: the last flush of it, or, if the channel is
\* closed, back to the select that will see so.
DrainEnd ==
  /\ flusher = "drain" /\ buf = 0
  /\ \/ bufClosed /\ flusher' = "select" /\ UNCHANGED resume
     \/ ~bufClosed /\ CallFlush("select")
  /\ UNCHANGED <<outside, buf, flushReq, batch, stored, counters, bounds>>

\* Seeded defect: no last flush.
ReceiveClosedExits ==
  /\ flusher = "select" /\ buf = 0 /\ bufClosed
  /\ flusher' = "done"
  /\ UNCHANGED <<outside, buf, flushReq, resume, batch, stored, counters, bounds>>

ReceiveClosed ==
  /\ flusher = "select" /\ buf = 0 /\ bufClosed
  /\ CallFlush("done")
  /\ UNCHANGED <<outside, buf, flushReq, batch, stored, counters, bounds>>

\* Seeded defect: batch = nil is missing.
UpsertOkKeepsBatch ==
  /\ flusher = "upsert"
  /\ stored' = stored + batch
  /\ flusher' = resume
  /\ UNCHANGED <<outside, buf, flushReq, resume, batch, counters, bounds>>

\* UpsertBatch returns nil; batch = nil follows.
UpsertOk ==
  /\ flusher = "upsert"
  /\ stored' = stored + batch /\ batch' = 0
  /\ flusher' = resume
  /\ UNCHANGED <<outside, buf, flushReq, resume, counters, bounds>>

\* The rows that a failed UpsertBatch may have left in the store: the chunks
\* before the failing one, and that one too if only its answer was lost.
Written(n) == {k \in 0..n : k % MaxBatchRows = 0 \/ k = n}

\* Seeded defect: the error is logged, the records are not counted.
UpsertFailUncounted ==
  /\ flusher = "upsert"
  /\ failures < MaxFailures /\ failures' = failures + 1
  /\ \E k \in Written(batch) : stored' = stored + k /\ lost' = lost + (batch - k)
  /\ batch' = 0 /\ flusher' = resume
  /\ UNCHANGED <<outside, buf, flushReq, resume, dropped, since, reported,
                 warnings, summaries, flushes>>

UpsertFail ==
  /\ flusher = "upsert"
  /\ failures < MaxFailures /\ failures' = failures + 1
  /\ \E k \in Written(batch) : stored' = stored + k /\ lost' = lost + (batch - k)
  /\ dropped' = dropped + batch
  /\ flusher' = "report"
  /\ UNCHANGED <<outside, buf, flushReq, resume, batch, since, reported, warnings,
                 summaries, flushes>>

FlushReport ==
  /\ flusher = "report"
  /\ ReportDrops(batch)
  /\ batch' = 0 /\ flusher' = resume
  /\ UNCHANGED <<outside, buf, flushReq, resume, dropped, lost, stored, reported,
                 bounds>>

-----------------------------------------------------------------------------
(* Shutdown.                                                               *)

inside == <<track, buf, flushReq, flusher, resume, batch, stored, sent,
            turnedAway, ignored, counters, bounds>>

ShutdownSwap(s) ==
  /\ shut[s] = "idle"
  /\ shut' = [shut EXCEPT ![s] = IF closed THEN "returned" ELSE "closing"]
  /\ closed' = TRUE
  /\ UNCHANGED <<bufClosed, inside>>

ShutdownClose(s) ==
  /\ shut[s] = "closing"
  /\ bufClosed' = TRUE
  /\ shut' = [shut EXCEPT ![s] = "waiting"]
  /\ UNCHANGED <<closed, inside>>

ShutdownReturn(s) ==
  /\ shut[s] = "waiting"
  /\ \/ flusher = "done" /\ shut' = [shut EXCEPT ![s] = "drained"]
     \/ shut' = [shut EXCEPT ![s] = "timedOut"]
  /\ UNCHANGED <<closed, bufClosed, inside>>

-----------------------------------------------------------------------------
Caller(c) == TrackCheck(c) \/ TrackSend(c) \/ TrackDrop(c) \/ TrackReport(c)
Closer(s) == ShutdownSwap(s) \/ ShutdownClose(s) \/ ShutdownReturn(s)

Flusher == \/ StartDrain \/ Receive \/ DrainEnd \/ ReceiveClosed
           \/ UpsertOk \/ UpsertFail \/ FlushReport

Next ==
  \/ \E c \in Callers : Caller(c)
  \/ \E s \in Closers : Closer(s)
  \/ Flusher \/ Tick \/ Summary \/ Flush

Spec == Init /\ [][Next]_vars

\* The flusher goroutine is scheduled, its ticker fires, and UpsertBatch
\* returns within the 5 s of its context.
FairSpec == Spec /\ WF_vars(Flusher) /\ WF_vars(Tick)

-----------------------------------------------------------------------------
\* Every variable keeps its type.
TypeOK ==
  /\ track \in [Callers -> {"idle", "send", "report"}]
  /\ shut \in [Closers -> {"idle", "closing", "waiting", "returned", "drained",
                           "timedOut"}]
  /\ closed \in BOOLEAN /\ bufClosed \in BOOLEAN /\ flushReq \in BOOLEAN
  /\ buf \in 0..Capacity /\ batch \in 0..BatchSize
  /\ flusher \in {"select", "drain", "upsert", "report", "done"}
  /\ resume \in {"select", "drain", "done"}
  /\ dropped \in Nat /\ since \in Nat /\ stored \in Nat /\ sent \in Nat
  /\ turnedAway \in Nat /\ lost \in Nat /\ ignored \in Nat
  /\ reported \in Nat /\ warnings \in Nat
  /\ failures \in Nat /\ summaries \in Nat /\ flushes \in Nat

\* Records the flusher holds and has not settled.
Held == IF flusher = "report" THEN 0 ELSE batch

\* No record that entered the channel disappears or is written twice: it is in
\* the channel, in the batch, in the store, or lost in a failed write.
Conservation == sent = buf + Held + stored + lost

\* Dropped() is never less than what was turned away or lost, whoever raced
\* with whom: a full buffer, a failed write, a send on the closed channel.
\* (It may be more: a failed UpsertBatch can have stored some chunks.)
NoSilentLoss == turnedAway + lost <= dropped

\* "always drains buffered records on Shutdown": when the flusher has exited,
\* and so when Shutdown returns in time, nothing sent is unsettled.
DrainedAtExit ==
  /\ flusher = "done" => buf = 0 /\ batch = 0 /\ sent = stored + lost
  /\ \A s \in Closers : shut[s] = "drained" => flusher = "done"

\* Summaries and the running count add up: a drop that races with a summary is
\* reported in this one or the next, never in both or in none.
DropsAddUp ==
  dropped = reported + since + Cardinality(Reporting)
              + (IF flusher = "report" THEN batch ELSE 0)

\* Dropped is "the monotonic total", and no write is taken back.
Monotonic == [][dropped' >= dropped /\ stored' >= stored]_vars

\* What the flusher's place says about the batch and the channel; with it the
\* safety properties are inductive.
FlusherPlaces ==
  /\ flusher \in {"upsert", "report"} => batch > 0
  /\ flusher \in {"select", "drain"} => batch < BatchSize
  /\ flusher = "done" => batch = 0
  /\ flusher = "done" \/ (flusher \in {"upsert", "report"} /\ resume = "done")
       => bufClosed /\ buf = 0

\* Together they are inductive.
IInv ==
  /\ TypeOK /\ FlusherPlaces /\ Conservation /\ NoSilentLoss
  /\ DrainedAtExit /\ DropsAddUp

\* Shutdown lets the flusher finish: once the channel is closed the flusher
\* settles everything and exits, whatever the callers do.
ShutdownDrains == bufClosed ~> flusher = "done"

\* No record waits for ever in the buffer or in a partial batch.
EveryRecordSettles ==
  \A n \in 1..MaxRecords : sent >= n ~> stored + lost >= n

\* The ledger whose pending records are those in the channel and in the batch.
Promise == INSTANCE Ledger WITH
  Room <- Capacity + BatchSize,
  BatchMax <- BatchSize,
  phase <- IF flusher = "done" THEN "drained"
           ELSE IF bufClosed THEN "closed" ELSE "open",
  pending <- buf + Held

\* The tracker keeps the promise of tracker.go:30-36: what it takes it settles,
\* and what is not stored is counted.
ImplementsLedger == Promise!Spec
===============================================================================
