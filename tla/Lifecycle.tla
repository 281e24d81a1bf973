------------------------------ MODULE Lifecycle ------------------------------
(***************************************************************************)
(* The end of the process: main, the HTTP server with the handlers it is   *)
(* running, the tracker and the database pool.  Extends Tracker: a caller  *)
(* of Track is a handler, the closers are main's explicit and its deferred *)
(* call of Server.Shutdown.  ListenAndServe returns when Shutdown is       *)
(* called, not when it is over, so main does not wait for handlers.        *)
(***************************************************************************)
EXTENDS Tracker

CONSTANTS DrainCall, DeferredCall   \* the two closers

ASSUME LifecycleAssumption == Closers = {DrainCall, DeferredCall} /\ DrainCall # DeferredCall

VARIABLES
  http,   \* "up", or "closing" once httpSrv.Shutdown has been called
  main,   \* "serve", "drain", "defer", "exited"
  db,     \* the pool: "open", "closed"
  work    \* what each handler is doing

life == <<http, main, db, work>>
lifeVars == <<vars, life>>

LifeInit ==
  /\ Init
  /\ http = "up" /\ main = "serve" /\ db = "open"
  /\ work = [c \in Callers |-> "none"]

-----------------------------------------------------------------------------
(* Handlers: project-scoped downloads.                                     *)

Handler(c, from, to) == work[c] = from /\ work' = [work EXCEPT ![c] = to]

Accept(c) ==
  /\ http = "up" /\ Handler(c, "none", "serving")
  /\ UNCHANGED <<vars, http, main, db>>

\* Without the pool, or for any other reason, the request fails.
Abort(c) ==
  /\ Handler(c, "serving", "failed")
  /\ UNCHANGED <<vars, http, main, db>>

CallTrack(c) ==
  /\ TrackCheck(c) /\ Handler(c, "serving", "tracking")
  /\ UNCHANGED <<http, main, db>>

InTrack(c) ==
  /\ main # "exited"
  /\ TrackSend(c) \/ TrackDrop(c) \/ TrackReport(c)
  /\ UNCHANGED life

WriteAnswer(c) ==
  /\ track[c] = "idle" /\ Handler(c, "tracking", "answered")
  /\ UNCHANGED <<vars, http, main, db>>

-----------------------------------------------------------------------------
(* The flusher writes through the pool.                                    *)

FlusherRuns ==
  /\ main # "exited"
  /\ Flusher \/ Tick
  /\ db = "closed" => stored' = stored
  /\ UNCHANGED life

-----------------------------------------------------------------------------
(* SIGTERM, and what main does after ListenAndServe.                       *)

Signal ==
  /\ http = "up" /\ http' = "closing"
  /\ UNCHANGED <<vars, main, db, work>>

StartDraining ==
  /\ main = "serve" /\ http = "closing"
  /\ main' = "drain"
  /\ ShutdownSwap(DrainCall)
  /\ UNCHANGED <<http, db, work>>

\* Seeded defects: the pool is closed without waiting for the flusher; main
\* waits for the flusher without a time limit.
CloseDBAtOnce ==
  /\ main = "drain" /\ shut[DrainCall] = "waiting"
  /\ db' = "closed" /\ main' = "defer"
  /\ UNCHANGED <<vars, http, work>>

WaitNoLimit ==
  /\ main = "drain"
  /\ \/ ShutdownClose(DrainCall)
     \/ ShutdownReturn(DrainCall) /\ shut'[DrainCall] = "drained"
  /\ UNCHANGED life

WaitDrained ==
  /\ main = "drain"
  /\ ShutdownClose(DrainCall) \/ ShutdownReturn(DrainCall)
  /\ UNCHANGED life

\* Server.Shutdown goes on to db.Close whatever the tracker returned.
CloseDB ==
  /\ main = "drain" /\ shut[DrainCall] \in {"drained", "timedOut", "returned"}
  /\ db' = "closed" /\ main' = "defer"
  /\ UNCHANGED <<vars, http, work>>

\* The deferred Shutdown finds the tracker closed; the process ends with the
\* handlers that are still running.
Exit ==
  /\ main = "defer" /\ main' = "exited"
  /\ ShutdownSwap(DeferredCall)
  /\ work' = [c \in Callers |->
                IF work[c] \in {"serving", "tracking"} THEN "cut" ELSE work[c]]
  /\ UNCHANGED <<http, db>>

Main == StartDraining \/ WaitDrained \/ CloseDB \/ Exit

HandlerStep(c) ==
  Accept(c) \/ Abort(c) \/ CallTrack(c) \/ InTrack(c) \/ WriteAnswer(c)

LifeNext == (\E c \in Callers : HandlerStep(c)) \/ FlusherRuns \/ Signal \/ Main

LifeSpec == LifeInit /\ [][LifeNext]_lifeVars

\* main's goroutine is scheduled; nothing is assumed of the flusher or of the
\* handlers.
LifeFairSpec == LifeSpec /\ WF_lifeVars(Main)

-----------------------------------------------------------------------------
\* Every variable keeps its type.
LifeTypeOK ==
  /\ TypeOK
  /\ http \in {"up", "closing"} /\ main \in {"serve", "drain", "defer", "exited"}
  /\ db \in {"open", "closed"}
  /\ work \in [Callers -> {"none", "serving", "tracking", "answered", "failed", "cut"}]

\* "drain buffered dependency records before the DB closes": unless the 10 s
\* ran out, the pool is closed only when the flusher has settled everything, so
\* that no record is lost to a closed pool.
FlushBeforeClose ==
  db = "closed" /\ shut[DrainCall] # "timedOut" => flusher = "done" /\ buf + Held = 0

\* A termination signal ends the process, even if the store never answers and
\* the handlers never finish.
SignalEnds == http = "closing" ~> main = "exited"

\* main.go:85 "The http server has returned [...] so no new requests can
\* enqueue; drain buffered dependency records": a download answered with 200
\* was sent to the flusher or counted as dropped.
AnsweredIsTracked ==
  Cardinality({c \in Callers : work[c] = "answered"}) <= sent + turnedAway
=============================================================================
