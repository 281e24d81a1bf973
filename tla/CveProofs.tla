------------------------------ MODULE CveProofs ------------------------------
(***************************************************************************)
(* The two OSV checks never act on knowledge older than one of their       *)
(* caches allows, for every number of requests, every time limit and every *)
(* severity threshold.  The severity of every OSV record is that of the    *)
(* standard, a record that gets worse does not get past a threshold that   *)
(* held it, and stored counts do for the list of vulnerabilities: for      *)
(* every list of records, of any length, with any metrics.  The second     *)
(* part has three steps: a metric that is raised raises the score, the     *)
(* loop of computeSeverity finds the best score, and what was decoded      *)
(* stays no worse than its record.                                         *)
(***************************************************************************)
EXTENDS Advisories, FoldTheorems

Config == [mode : [Kinds -> {"deny", "warn"}],
           onError : [Kinds -> {"fail_open", "fail_closed"}], min : Thresholds]

Check == [pc : Pcs, kind : Kinds, result : Result, sent : 0..MaxTime, code : Codes,
          at : 0..MaxTime, min : AllBands \union {NoThreshold}]

Typed ==
  /\ config \in Config
  /\ published \in [Bands -> (0..MaxTime) \union {None}]
  /\ mem = None \/ (mem.result \in Result /\ mem.expiry \in 0..(MaxTime + TTL))
  /\ row = None \/ (row.result \in Result /\ row.retrievedAt \in 0..MaxTime)
  /\ req \in [Requests -> Check]
  /\ now \in 0..MaxTime /\ faults \in 0..MaxFaults /\ restarts \in 0..MaxRestarts

LEMMA Bounds ==
  ASSUME Typed
  PROVE  /\ now \in Nat /\ TTL \in Nat /\ Duration \in Nat /\ Timeout \in Nat
         /\ config.min \in Thresholds /\ config.min \in AllBands \union {NoThreshold}
         /\ config.mode \in [Kinds -> {"deny", "warn"}]
         /\ config.onError \in [Kinds -> {"fail_open", "fail_closed"}]
         /\ mem # None => /\ mem.result \in Result /\ mem.expiry \in Nat
                          /\ mem.result.asOf \in Nat
         /\ row # None => /\ row.result \in Result /\ row.retrievedAt \in Nat
                          /\ row.result.asOf \in Nat
         /\ \A r \in Requests :
              /\ req[r] \in Check /\ req[r].pc \in Pcs /\ req[r].kind \in Kinds
              /\ req[r].result \in Result /\ req[r].result.asOf \in Nat
              /\ req[r].sent \in Nat /\ req[r].at \in Nat /\ req[r].code \in Codes
<1>1. now \in Nat /\ TTL \in Nat /\ Duration \in Nat /\ Timeout \in Nat
  BY CveRecheckAssumption DEF Typed
<1>2. /\ config.min \in Thresholds /\ config.mode \in [Kinds -> {"deny", "warn"}]
      /\ config.onError \in [Kinds -> {"fail_open", "fail_closed"}]
  BY DEF Typed, Config
<1>3. config.min \in AllBands \union {NoThreshold}
  BY <1>2, CveRecheckAssumption DEF AllBands
<1>4. \A res \in Result : res.asOf \in Nat
  BY DEF Result
<1>5. /\ mem # None => mem.result \in Result /\ mem.expiry \in Nat
      /\ row # None => row.result \in Result /\ row.retrievedAt \in Nat
  BY DEF Typed
<1>6. ASSUME NEW r \in Requests
      PROVE  /\ req[r] \in Check /\ req[r].pc \in Pcs /\ req[r].kind \in Kinds
             /\ req[r].result \in Result
             /\ req[r].sent \in Nat /\ req[r].at \in Nat /\ req[r].code \in Codes
  <2>1. req[r] \in Check
    BY DEF Typed
  <2>2. QED
    BY <2>1 DEF Check
<1>7. QED
  BY <1>1, <1>2, <1>3, <1>4, <1>5, <1>6

-----------------------------------------------------------------------------
(* What the steps do to the check that takes them.                         *)

Others(r) == \A o \in Requests \ {r} : req'[o] = req[o]

\* The check moves to another place, or gets another result.
Moves(r, l, res) ==
  /\ req' \in [Requests -> Check] /\ Others(r)
  /\ req'[r].pc = l /\ req'[r].result = res /\ req'[r].kind = req[r].kind

\* The check is over.
Ends(r, res, code) ==
  /\ Moves(r, "done", res)
  /\ req'[r].code = code /\ req'[r].at = now /\ req'[r].min = config.min

LEMMA Replaced ==
  ASSUME Typed, NEW r \in Requests, NEW s \in Check, req' = [req EXCEPT ![r] = s]
  PROVE  req' \in [Requests -> Check] /\ Others(r) /\ req'[r] = s
BY DEF Typed, Others

LEMMA FinishMoves ==
  ASSUME Typed, NEW r \in Requests, NEW res \in Result, NEW code \in Codes,
         Finish(r, res, code)
  PROVE  Ends(r, res, code)
<1> DEFINE z == 0
           s == [req[r] EXCEPT !.pc = "done", !.result = res, !.code = code,
                               !.sent = z, !.at = now, !.min = config.min]
<1>1. z \in 0..MaxTime /\ now \in 0..MaxTime /\ req[r] \in Check
      /\ config.min \in AllBands \union {NoThreshold}
  BY Bounds, CveRecheckAssumption DEF Typed
<1>2. req' = [req EXCEPT ![r] = s]
  BY DEF Finish
<1> HIDE DEF z
<1>3. s \in Check /\ s.pc = "done" /\ s.result = res /\ s.code = code
      /\ s.at = now /\ s.min = config.min /\ s.kind = req[r].kind
  BY <1>1 DEF Check, Pcs
<1> HIDE DEF s
<1>4. QED
  BY <1>2, <1>3, Replaced DEF Ends, Moves

LEMMA GotoMoves ==
  ASSUME Typed, NEW r \in Requests, NEW l \in Pcs, Goto(r, l)
  PROVE  Moves(r, l, req[r].result) /\ req'[r].code = req[r].code
<1> DEFINE s == [req[r] EXCEPT !.pc = l]
<1>1. req[r] \in Check
  BY Bounds
<1>2. s \in Check /\ s.pc = l /\ s.result = req[r].result /\ s.kind = req[r].kind
      /\ s.code = req[r].code
  BY <1>1 DEF Check
<1>3. req' = [req EXCEPT ![r] = s]
  BY DEF Goto
<1> HIDE DEF s
<1>4. QED
  BY <1>2, <1>3, Replaced DEF Moves

LEMMA PersistMoves ==
  ASSUME Typed, NEW r \in Requests, NEW res \in Result,
         req' = [req EXCEPT ![r].pc = "persist", ![r].result = res, ![r].sent = 0]
  PROVE  Moves(r, "persist", res) /\ req'[r].code = req[r].code
<1> DEFINE z == 0
           s == [req[r] EXCEPT !.pc = "persist", !.result = res, !.sent = z]
<1>1. req[r] \in Check /\ z \in 0..MaxTime
  BY Bounds, CveRecheckAssumption
<1>2. req' = [req EXCEPT ![r] = s]
  OBVIOUS
<1> HIDE DEF z
<1>3. s \in Check /\ s.pc = "persist" /\ s.result = res /\ s.kind = req[r].kind
      /\ s.code = req[r].code
  BY <1>1 DEF Check, Pcs
<1> HIDE DEF s
<1>4. QED
  BY <1>2, <1>3, Replaced DEF Moves

LEMMA AskMoves ==
  ASSUME Typed, NEW r \in Requests,
         req' = [req EXCEPT ![r].pc = "asked", ![r].sent = now]
  PROVE  Moves(r, "asked", req[r].result) /\ req'[r].sent = now
         /\ req'[r].code = req[r].code
<1> DEFINE s == [req[r] EXCEPT !.pc = "asked", !.sent = now]
<1>1. req[r] \in Check /\ now \in 0..MaxTime
  BY Bounds DEF Typed
<1>2. s \in Check /\ s.pc = "asked" /\ s.result = req[r].result
      /\ s.kind = req[r].kind /\ s.sent = now /\ s.code = req[r].code
  BY <1>1 DEF Check, Pcs
<1>3. req' = [req EXCEPT ![r] = s]
  OBVIOUS
<1> HIDE DEF s
<1>4. QED
  BY <1>2, <1>3, Replaced DEF Moves

LEMMA AnswerMoves ==
  ASSUME Typed, NEW r \in Requests, NEW res \in Result,
         req' = [req EXCEPT ![r].pc = "answered", ![r].result = res]
  PROVE  Moves(r, "answered", res) /\ req'[r].sent = req[r].sent
         /\ req'[r].code = req[r].code
<1> DEFINE s == [req[r] EXCEPT !.pc = "answered", !.result = res]
<1>1. req[r] \in Check
  BY Bounds
<1>2. s \in Check /\ s.pc = "answered" /\ s.result = res
      /\ s.kind = req[r].kind /\ s.sent = req[r].sent /\ s.code = req[r].code
  BY <1>1 DEF Check, Pcs
<1>3. req' = [req EXCEPT ![r] = s]
  OBVIOUS
<1> HIDE DEF s
<1>4. QED
  BY <1>2, <1>3, Replaced DEF Moves

LEMMA StartMoves ==
  ASSUME Typed, NEW r \in Requests, NEW kind \in Kinds, Start(r, kind)
  PROVE  /\ req' \in [Requests -> Check] /\ Others(r)
         /\ req'[r].pc = (IF kind = "serve" THEN "memory" ELSE "query")
         /\ req'[r].kind = kind /\ req'[r].result = req[r].result
         /\ req'[r].code = req[r].code
<1> DEFINE l == IF kind = "serve" THEN "memory" ELSE "query"
           s == [req[r] EXCEPT !.kind = kind, !.pc = l]
<1>1. req[r] \in Check /\ l \in Pcs
  BY Bounds DEF Pcs
<1>2. req' = [req EXCEPT ![r] = s]
  BY DEF Start
<1> HIDE DEF l
<1>3. s \in Check /\ s.pc = l /\ s.result = req[r].result /\ s.kind = kind
      /\ s.code = req[r].code
  BY <1>1 DEF Check
<1> HIDE DEF s
<1>4. QED
  BY <1>2, <1>3, Replaced DEF l

\* Severity filters.
LEMMA FilterTypes ==
  ASSUME NEW bands \in SUBSET Bands, NEW min
  PROVE  Filter(bands, min) \in SUBSET Bands
BY DEF Filter

LEMMA Ranks == \A s : SeverityRank(s) \in 0..4
BY DEF SeverityRank

\* Filtering what a weaker threshold has left is filtering everything.
LEMMA FilterAgain ==
  ASSUME NEW bands, NEW m, NEW n, SeverityRank(m) <= SeverityRank(n)
  PROVE  Filter(Filter(bands, m), n) = Filter(bands, n)
<1>1. CASE SeverityRank(m) <= 0
  BY <1>1 DEF Filter
<1>2. CASE ~(SeverityRank(m) <= 0)
  <2>1. ~(SeverityRank(n) <= 0)
    BY <1>2, Ranks
  <2>2. \A b : SeverityRank(b) >= SeverityRank(n) => SeverityRank(b) >= SeverityRank(m)
    BY Ranks
  <2>3. QED
    BY <1>2, <2>1, <2>2 DEF Filter
<1>3. QED
  BY <1>1, <1>2

LEMMA VerdictCodes ==
  ASSUME Typed, NEW r \in Requests, NEW bands
  PROVE  /\ Verdict(r, bands) \in {"served", "warned", "rejected"}
         /\ Verdict(r, bands) = "served" <=> bands = {}
         /\ Verdict(r, bands) = "warned" => config.mode[req[r].kind] = "warn"
         /\ Verdict(r, bands) \in Codes
<1>1. config.mode[req[r].kind] \in {"deny", "warn"}
  BY Bounds
<1>2. QED
  BY <1>1 DEF Verdict, Codes

-----------------------------------------------------------------------------
(* The steps of a check, by what they do to it and to the two caches.      *)

MemDropped == mem' = None
SameCaches == UNCHANGED <<mem, row>>

\* It begins, or leaves a cache without an answer.
Begins(r) ==
  /\ req' \in [Requests -> Check] /\ Others(r) /\ SameCaches
  /\ \/ req'[r].pc = "memory"
     \/ req'[r].pc = "query" /\ req'[r].kind = "validate"
  /\ req'[r].result = req[r].result

MissesMemory(r) ==
  /\ req[r].pc = "memory" /\ mem' = None /\ UNCHANGED row
  /\ \/ Persistent /\ Moves(r, "row", req[r].result)
     \/ ~Persistent /\ Moves(r, "query", req[r].result)

MissesRow(r) == req[r].pc = "row" /\ SameCaches /\ Moves(r, "query", req[r].result)

\* It acts on what a cache holds.
HitsMemory(r) ==
  /\ req[r].pc \in {"memory", "query"} /\ MemHit /\ SameCaches
  /\ Ends(r, mem.result, Verdict(r, mem.result.bands))

HitsRow(r) ==
  /\ req[r].pc = "row" /\ RowFresh /\ SameCaches
  /\ Ends(r, row.result, Verdict(r, Filter(row.result.bands, config.min)))

\* A serve that finds an answer in memory after all will persist it.
HitsLate(r) ==
  /\ req[r].pc = "query" /\ req[r].kind = "serve" /\ Persistent /\ MemHit /\ SameCaches
  /\ Moves(r, "persist", mem.result)

\* It asks, and gets an answer.
Asks(r) ==
  /\ req[r].pc = "query" /\ mem' = None /\ UNCHANGED row
  /\ Moves(r, "asked", req[r].result) /\ req'[r].sent = now

IsAnswered(r) ==
  /\ req[r].pc = "asked" /\ SameCaches
  /\ Moves(r, "answered", req'[r].result) /\ req'[r].sent = req[r].sent
  /\ req'[r].result = [bands |-> Filter(known, config.min), full |-> known, asOf |-> now]

Receives(r) ==
  /\ req[r].pc = "answered" /\ UNCHANGED row
  /\ mem' = [result |-> req[r].result, expiry |-> now + TTL] \/ UNCHANGED mem
  /\ \/ Ends(r, req[r].result, Verdict(r, req[r].result.bands))
     \/ Persistent /\ Moves(r, "persist", req[r].result)

Errs(r) ==
  /\ SameCaches
  /\ \/ Ends(r, NoResult, "outage")
     \/ config.onError[req[r].kind] = "fail_open" /\ Ends(r, NoResult, "unchecked")

Persists(r) ==
  /\ req[r].pc = "persist" /\ UNCHANGED mem
  /\ row' = [result |-> req[r].result, retrievedAt |-> now] \/ UNCHANGED row
  /\ Ends(r, req[r].result, Verdict(r, req[r].result.bands))

Goes(r) ==
  \/ Begins(r) \/ MissesMemory(r) \/ MissesRow(r) \/ HitsMemory(r) \/ HitsRow(r)
  \/ HitsLate(r) \/ Asks(r) \/ IsAnswered(r) \/ Receives(r) \/ Errs(r) \/ Persists(r)

\* After a query.
LEMMA AfterMoves ==
  ASSUME Typed, NEW r \in Requests, NEW res \in Result, AfterQuery(r, res)
  PROVE  \/ Ends(r, res, Verdict(r, res.bands))
         \/ req[r].kind = "serve" /\ Persistent /\ Moves(r, "persist", res)
BY FinishMoves, PersistMoves, VerdictCodes DEF AfterQuery

LEMMA MemGetCases ==
  ASSUME MemGet
  PROVE  (MemHit => mem' = mem) /\ (~MemHit => mem' = None)
BY DEF MemGet, MemHit

LEMMA KnownTypes == known \in SUBSET Bands
BY DEF known

LEMMA StepMoves ==
  ASSUME Typed, NEW r \in Requests, Step(r)
  PROVE  Goes(r) /\ UNCHANGED world /\ (UNCHANGED faults \/ Fails)
<1>0. \A b : Verdict(r, b) \in Codes
  BY VerdictCodes
<1>1. ASSUME NEW kind \in Kinds, Start(r, kind)
      PROVE  Begins(r)
  BY <1>1, StartMoves DEF Begins, Start, SameCaches, Kinds
<1>2. CASE Memory(r)
  <2>1. CASE MemHit /\ Finish(r, mem.result, Verdict(r, mem.result.bands))
    <3>1. Ends(r, mem.result, Verdict(r, mem.result.bands))
      BY <1>0, <2>1, Bounds, FinishMoves DEF MemHit
    <3>2. HitsMemory(r)
      BY <1>2, <2>1, <3>1, MemGetCases DEF Memory, At, HitsMemory, SameCaches
    <3>3. QED
      BY <1>2, <3>2 DEF Goes, Memory
  <2>2. CASE ~MemHit /\ Goto(r, IF Persistent THEN "row" ELSE "query")
    <3>1. "row" \in Pcs /\ "query" \in Pcs
      BY DEF Pcs
    <3>2. MissesMemory(r)
      BY <1>2, <2>2, <3>1, GotoMoves, MemGetCases DEF Memory, At, MissesMemory
    <3>3. QED
      BY <1>2, <3>2 DEF Goes, Memory
  <2>3. QED
    BY <1>2, <2>1, <2>2 DEF Memory
<1>3. CASE ReadRow(r)
  <2>1. CASE /\ RowFresh
             /\ Finish(r, row.result, Verdict(r, Filter(row.result.bands, config.min)))
    <3>1. Ends(r, row.result, Verdict(r, Filter(row.result.bands, config.min)))
      BY <1>0, <2>1, Bounds, FinishMoves DEF RowFresh
    <3>2. HitsRow(r)
      BY <1>3, <2>1, <3>1 DEF ReadRow, At, HitsRow, SameCaches
    <3>3. QED
      BY <1>3, <3>2 DEF Goes, ReadRow, Works
  <2>2. CASE Goto(r, "query")
    <3>1. Moves(r, "query", req[r].result)
      BY <2>2, GotoMoves DEF Pcs
    <3>2. QED
      BY <1>3, <3>1 DEF Goes, ReadRow, At, MissesRow, SameCaches, Works
  <2>3. QED
    BY <1>3, <2>1, <2>2 DEF ReadRow
<1>4. CASE Query(r)
  <2>1. CASE MemHit /\ AfterQuery(r, mem.result)
    <3>1. mem.result \in Result /\ mem' = mem
      BY <1>4, <2>1, Bounds, MemGetCases DEF MemHit, Query
    <3>2. HitsMemory(r) \/ HitsLate(r)
      BY <1>4, <2>1, <3>1, AfterMoves
         DEF Query, At, HitsMemory, HitsLate, SameCaches
    <3>3. QED
      BY <1>4, <3>2 DEF Goes, Query
  <2>2. CASE ~MemHit /\ req' = [req EXCEPT ![r].pc = "asked", ![r].sent = now]
    <3>1. Asks(r)
      BY <1>4, <2>2, AskMoves, MemGetCases DEF Query, At, Asks
    <3>2. QED
      BY <1>4, <3>1 DEF Goes, Query
  <2>3. QED
    BY <1>4, <2>1, <2>2 DEF Query
<1>5. CASE Answer(r)
  <2> DEFINE a == [bands |-> Filter(known, config.min), full |-> known, asOf |-> now]
  <2>1. a \in Result
    BY KnownTypes, FilterTypes DEF Typed, Result
  <2>2. req' = [req EXCEPT ![r].pc = "answered", ![r].result = a]
    BY <1>5 DEF Answer
  <2> HIDE DEF a
  <2>3. Moves(r, "answered", a) /\ req'[r].sent = req[r].sent
    BY <2>1, <2>2, AnswerMoves
  <2>4. req'[r].result = a
    BY <2>3 DEF Moves
  <2>5. IsAnswered(r)
    BY <1>5, <2>3, <2>4 DEF Answer, At, IsAnswered, SameCaches, a
  <2>6. QED
    BY <1>5, <2>5 DEF Goes, Answer
<1>6. CASE Receive(r)
  <2>1. req[r].result \in Result
    BY Bounds
  <2>2. Receives(r)
    BY <1>6, <2>1, AfterMoves DEF Receive, At, Receives
  <2>3. QED
    BY <1>6, <2>2 DEF Goes, Receive
<1>7. CASE QueryFails(r)
  <2>1. NoResult \in Result /\ "outage" \in Codes /\ "unchecked" \in Codes
    BY CveRecheckAssumption DEF NoResult, Result, Codes
  <2>2. config.onError[req[r].kind] \in {"fail_open", "fail_closed"}
    BY Bounds
  <2>3. Errs(r)
    BY <1>7, <2>1, <2>2, FinishMoves DEF QueryFails, Errs, SameCaches
  <2>4. QED
    BY <1>7, <2>3 DEF Goes, QueryFails
<1>8. CASE Persist(r)
  <2>1. Ends(r, req[r].result, Verdict(r, req[r].result.bands))
    BY <1>0, <1>8, Bounds, FinishMoves DEF Persist
  <2>2. Persists(r)
    BY <1>8, <2>1 DEF Persist, At, Persists
  <2>3. QED
    BY <1>8, <2>2 DEF Goes, Persist, Works
<1>9. QED
  BY <1>1, <1>2, <1>3, <1>4, <1>5, <1>6, <1>7, <1>8 DEF Step, Goes, Start

LEMMA TypeStep ==
  ASSUME Typed, [Next]_vars
  PROVE  Typed'
<1>1. ASSUME NEW r \in Requests, Step(r)
      PROVE  Typed'
  <2>1. Goes(r) /\ UNCHANGED world /\ (UNCHANGED faults \/ Fails)
    BY <1>1, StepMoves
  <2>2. req' \in [Requests -> Check]
    BY <2>1 DEF Goes, Begins, MissesMemory, MissesRow, HitsMemory, HitsRow, HitsLate,
                Asks, IsAnswered, Receives, Errs, Persists, Ends, Moves
  <2>3. mem' = None \/ (mem'.result \in Result /\ mem'.expiry \in 0..(MaxTime + TTL))
    <3>1. CASE mem' = mem \/ mem' = None
      BY <3>1 DEF Typed
    <3>2. CASE mem' = [result |-> req[r].result, expiry |-> now + TTL]
      BY <3>2, Bounds, CveRecheckAssumption DEF Typed
    <3>3. QED
      BY <2>1, <3>1, <3>2
         DEF Goes, Begins, MissesMemory, MissesRow, HitsMemory, HitsRow, HitsLate,
             Asks, IsAnswered, Receives, Errs, Persists, SameCaches
  <2>4. row' = None \/ (row'.result \in Result /\ row'.retrievedAt \in 0..MaxTime)
    <3>1. CASE row' = row
      BY <3>1 DEF Typed
    <3>2. CASE row' = [result |-> req[r].result, retrievedAt |-> now]
      BY <3>2, Bounds DEF Typed
    <3>3. QED
      BY <2>1, <3>1, <3>2
         DEF Goes, Begins, MissesMemory, MissesRow, HitsMemory, HitsRow, HitsLate,
             Asks, IsAnswered, Receives, Errs, Persists, SameCaches
  <2>5. faults' \in 0..MaxFaults
    BY <2>1, CveRecheckAssumption DEF Typed, Fails
  <2>6. QED
    BY <2>1, <2>2, <2>3, <2>4, <2>5 DEF Typed, world
<1>2. ASSUME NEW b \in Bands, Publish(b)
      PROVE  Typed'
  <2>1. published' \in [Bands -> (0..MaxTime) \union {None}]
    BY <1>2 DEF Publish, Typed
  <2>2. QED
    BY <1>2, <2>1 DEF Publish, Typed
<1>3. CASE Tick
  <2>1. now' \in 0..MaxTime
    BY <1>3, CveRecheckAssumption DEF Tick, Typed
  <2>2. QED
    BY <1>3, <2>1 DEF Tick, Typed
<1>4. CASE Restart
  <2>1. config' \in Config
    BY <1>4 DEF Restart, Typed, Config
  <2>2. restarts' \in 0..MaxRestarts
    BY <1>4, CveRecheckAssumption DEF Restart, Typed
  <2>3. [Idle EXCEPT !.pc = "done"] \in Check
    BY CveRecheckAssumption
       DEF Idle, Check, NoResult, Result, Codes, Pcs, Kinds, AllBands
  <2>4. req' \in [Requests -> Check]
    BY <1>4, <2>3 DEF Restart, Typed
  <2>5. QED
    BY <1>4, <2>1, <2>2, <2>4 DEF Restart, Typed
<1>5. CASE UNCHANGED vars
  BY <1>5 DEF vars, Typed
<1>6. QED
  BY <1>1, <1>2, <1>3, <1>4, <1>5 DEF Next

-----------------------------------------------------------------------------
(* Ages.                                                                   *)

\* A check q between its calls has just looked into memory: what it finds there
\* later, at the same time t, has been put there in the same instant.
TimesFor(q, t, m) ==
  /\ q.result.asOf <= t
  /\ q.pc = "row" => Persistent
  /\ q.pc \in {"row", "query"} /\ q.kind = "serve" => m = None \/ m.expiry = t + TTL
  /\ q.pc \in {"asked", "answered"} => q.sent <= t /\ t <= q.sent + Timeout
  /\ q.pc = "answered" => q.sent <= q.result.asOf
  /\ q.pc = "persist" => t <= q.result.asOf + Timeout
  /\ Decided(q) => q.at <= q.result.asOf + Oldest

MemTimes ==
  mem # None => mem.result.asOf <= now /\ mem.expiry <= mem.result.asOf + Timeout + TTL

RowTimes ==
  row # None => /\ row.result.asOf <= now /\ row.retrievedAt <= now
                /\ row.retrievedAt <= row.result.asOf + Timeout

Times == MemTimes /\ RowTimes /\ \A r \in Requests : TimesFor(req[r], now, mem)

LEMMA OldestBounds ==
  ASSUME Typed
  PROVE  /\ Oldest \in Nat /\ Oldest >= Timeout + TTL
         /\ Persistent /\ Duration > 0 => Oldest >= Timeout + Duration - 1
BY Bounds DEF Oldest

\* Checks that do nothing, while no time passes and memory keeps its entry,
\* loses it, or gets a new one.
LEMMA TimesStay ==
  ASSUME NEW q, NEW t, NEW m, NEW n, TimesFor(q, t, m),
         n = m \/ n = None \/ n.expiry = t + TTL
  PROVE  TimesFor(q, t, n)
BY DEF TimesFor

\* A check that ends on an answer that was got in time.
LEMMA TimesEnd ==
  ASSUME Typed, NEW r \in Requests, NEW res \in Result, NEW code, Ends(r, res, code),
         NEW m, res.asOf <= now,
         code \in {"outage", "unchecked"} \/ now <= res.asOf + Oldest
  PROVE  TimesFor(req'[r], now, m)
BY DEF Ends, Moves, TimesFor, Decided

LEMMA TimesStep ==
  ASSUME Typed, Times, [Next]_vars
  PROVE  Times'
<1>0. /\ \A r \in Requests : TimesFor(req[r], now, mem)
      /\ \A r \in Requests : req[r].result \in Result /\ req[r].result.asOf \in Nat
                             /\ req[r].sent \in Nat /\ req[r].at \in Nat
      /\ now \in Nat /\ TTL \in Nat /\ Timeout \in Nat /\ Duration \in Nat
      /\ Oldest \in Nat /\ Oldest >= Timeout + TTL
  BY Bounds, OldestBounds DEF Times
<1>1. ASSUME NEW r \in Requests, Step(r)
      PROVE  Times'
  <2>1. Goes(r) /\ now' = now
    BY <1>1, StepMoves DEF world
  <2>2. Others(r)
    BY <2>1 DEF Goes, Begins, MissesMemory, MissesRow, HitsMemory, HitsRow, HitsLate,
                Asks, IsAnswered, Receives, Errs, Persists, Ends, Moves
  <2>3. /\ MemTimes'
        /\ mem' = mem \/ mem' = None \/ mem'.expiry = now + TTL
    <3>1. CASE mem' = mem \/ mem' = None
      BY <2>1, <3>1 DEF Times, MemTimes
    <3>2. CASE Receives(r) /\ mem' = [result |-> req[r].result, expiry |-> now + TTL]
      <4>1. /\ req[r].result.asOf <= now /\ now <= req[r].sent + Timeout
            /\ req[r].sent <= req[r].result.asOf
        BY <1>0, <3>2 DEF TimesFor, Receives
      <4>2. mem'.result = req[r].result /\ mem'.expiry = now + TTL
        BY <3>2
      <4>3. now + TTL <= req[r].result.asOf + Timeout + TTL
        BY <1>0, <4>1
      <4>4. QED
        BY <2>1, <4>1, <4>2, <4>3 DEF MemTimes
    <3>3. QED
      BY <2>1, <3>1, <3>2
         DEF Goes, Begins, MissesMemory, MissesRow, HitsMemory, HitsRow, HitsLate,
             Asks, IsAnswered, Receives, Errs, Persists, SameCaches
  <2>4. RowTimes'
    <3>1. CASE row' = row
      BY <2>1, <3>1 DEF Times, RowTimes
    <3>2. CASE Persists(r) /\ row' = [result |-> req[r].result, retrievedAt |-> now]
      <4>1. req[r].result.asOf <= now /\ now <= req[r].result.asOf + Timeout
        BY <1>0, <3>2 DEF TimesFor, Persists
      <4>2. row'.result = req[r].result /\ row'.retrievedAt = now
        BY <3>2
      <4>3. QED
        BY <1>0, <2>1, <4>1, <4>2 DEF RowTimes
    <3>3. QED
      BY <2>1, <3>1, <3>2
         DEF Goes, Begins, MissesMemory, MissesRow, HitsMemory, HitsRow, HitsLate,
             Asks, IsAnswered, Receives, Errs, Persists, SameCaches
  <2>5. TimesFor(req'[r], now, mem')
    <3>1. CASE Begins(r)
      BY <1>0, <3>1 DEF Begins, TimesFor, Decided
    <3>2. CASE MissesMemory(r)
      BY <1>0, <3>2 DEF MissesMemory, Moves, TimesFor, Decided
    <3>3. CASE MissesRow(r)
      BY <1>0, <3>3 DEF MissesRow, SameCaches, Moves, TimesFor, Decided
    <3>4. CASE HitsMemory(r)
      <4>1. mem # None /\ now <= mem.expiry
        BY <3>4 DEF HitsMemory, MemHit, Live
      <4>2. mem.result \in Result /\ mem.expiry \in Nat /\ mem.result.asOf \in Nat
        BY <4>1, Bounds
      <4>3. mem.result.asOf <= now /\ mem.expiry <= mem.result.asOf + Timeout + TTL
        BY <4>1 DEF Times, MemTimes
      <4>4. now <= mem.result.asOf + Oldest
        BY <1>0, <4>1, <4>2, <4>3
      <4>5. QED
        BY <3>4, <4>2, <4>3, <4>4, TimesEnd DEF HitsMemory
    <3>5. CASE HitsRow(r)
      <4>1. row # None /\ now - row.retrievedAt < Duration /\ Persistent
        BY <1>0, <3>5 DEF HitsRow, RowFresh, TimesFor
      <4>2. row.result \in Result /\ row.retrievedAt \in Nat /\ row.result.asOf \in Nat
        BY <4>1, Bounds
      <4>3. /\ row.result.asOf <= now /\ row.retrievedAt <= now
            /\ row.retrievedAt <= row.result.asOf + Timeout
        BY <4>1 DEF Times, RowTimes
      <4>4. Oldest >= Timeout + Duration - 1
        BY <1>0, <4>1, <4>2, <4>3, OldestBounds
      <4>5. now <= row.result.asOf + Oldest
        BY <1>0, <4>1, <4>2, <4>3, <4>4
      <4>6. QED
        BY <3>5, <4>2, <4>3, <4>5, TimesEnd DEF HitsRow
    <3>6. CASE HitsLate(r)
      <4>1. mem # None /\ mem.expiry = now + TTL
        BY <1>0, <3>6 DEF HitsLate, MemHit, TimesFor
      <4>2. mem.expiry \in Nat /\ mem.result.asOf \in Nat
        BY <4>1, Bounds
      <4>3. mem.result.asOf <= now /\ mem.expiry <= mem.result.asOf + Timeout + TTL
        BY <4>1 DEF Times, MemTimes
      <4>4. now <= mem.result.asOf + Timeout
        BY <1>0, <4>1, <4>2, <4>3
      <4>5. QED
        BY <3>6, <4>3, <4>4 DEF HitsLate, Moves, TimesFor, Decided
    <3>7. CASE Asks(r)
      BY <1>0, <3>7 DEF Asks, Moves, TimesFor, Decided
    <3>8. CASE IsAnswered(r)
      <4>1. /\ req'[r].pc = "answered" /\ req'[r].sent = req[r].sent
            /\ req'[r].result.asOf = now
        BY <3>8 DEF IsAnswered, Moves
      <4>2. req[r].sent <= now /\ now <= req[r].sent + Timeout
        BY <1>0, <3>8 DEF IsAnswered, TimesFor
      <4>3. QED
        BY <1>0, <4>1, <4>2 DEF TimesFor, Decided
    <3>9. CASE Receives(r)
      <4>1. /\ req[r].result.asOf <= now /\ now <= req[r].sent + Timeout
            /\ req[r].sent <= req[r].result.asOf
        BY <1>0, <3>9 DEF TimesFor, Receives
      <4>2. now <= req[r].result.asOf + Timeout /\ now <= req[r].result.asOf + Oldest
        BY <1>0, <4>1
      <4>3. CASE Ends(r, req[r].result, Verdict(r, req[r].result.bands))
        BY <1>0, <4>1, <4>2, <4>3, TimesEnd
      <4>4. CASE Moves(r, "persist", req[r].result)
        BY <4>1, <4>2, <4>4 DEF Moves, TimesFor, Decided
      <4>5. QED
        BY <3>9, <4>3, <4>4 DEF Receives
    <3>10. CASE Errs(r)
      <4>1. NoResult \in Result /\ NoResult.asOf = 0
        BY CveRecheckAssumption DEF NoResult, Result
      <4>2. NoResult.asOf <= now
        BY <1>0, <4>1
      <4>3. QED
        BY <3>10, <4>1, <4>2, TimesEnd DEF Errs
    <3>11. CASE Persists(r)
      <4>1. req[r].result.asOf <= now /\ now <= req[r].result.asOf + Timeout
        BY <1>0, <3>11 DEF TimesFor, Persists
      <4>2. now <= req[r].result.asOf + Oldest
        BY <1>0, <4>1
      <4>3. QED
        BY <1>0, <3>11, <4>1, <4>2, TimesEnd DEF Persists
    <3>12. QED
      BY <2>1, <3>1, <3>2, <3>3, <3>4, <3>5, <3>6, <3>7, <3>8, <3>9, <3>10, <3>11
         DEF Goes
  <2>6. ASSUME NEW o \in Requests \ {r}
        PROVE  TimesFor(req'[o], now, mem')
    BY <1>0, <2>2, <2>3, TimesStay DEF Others
  <2>7. QED
    BY <2>1, <2>3, <2>4, <2>5, <2>6 DEF Times
<1>2. ASSUME NEW b \in Bands, Publish(b)
      PROVE  Times'
  BY <1>2 DEF Publish, Times, MemTimes, RowTimes
<1>3. CASE Tick
  <2>1. /\ now' = now + 1 /\ UNCHANGED <<mem, row, req>>
        /\ \A r \in Requests :
             \/ req[r].pc \in {"idle", "done"}
             \/ req[r].pc \in {"asked", "answered"} /\ now < req[r].sent + Timeout
    BY <1>3 DEF Tick
  <2>2. MemTimes' /\ RowTimes'
    BY <1>0, <2>1, Bounds DEF Times, MemTimes, RowTimes
  <2>3. ASSUME NEW r \in Requests
        PROVE  TimesFor(req[r], now', mem)
    <3>1. TimesFor(req[r], now, mem)
      BY <1>0
    <3>2. CASE req[r].pc \in {"idle", "done"}
      BY <1>0, <2>1, <3>1, <3>2 DEF TimesFor, Decided
    <3>3. CASE req[r].pc \in {"asked", "answered"} /\ now < req[r].sent + Timeout
      BY <1>0, <2>1, <3>1, <3>3 DEF TimesFor, Decided
    <3>4. QED
      BY <2>1, <3>2, <3>3
  <2>4. QED
    BY <2>1, <2>2, <2>3 DEF Times
<1>4. CASE Restart
  <2>1. mem' = None /\ UNCHANGED <<row, now>>
    BY <1>4 DEF Restart
  <2>2. ASSUME NEW r \in Requests
        PROVE  TimesFor(req'[r], now, None)
    <3> DEFINE s == [Idle EXCEPT !.pc = "done"]
    <3>1. s.pc = "done" /\ s.code = "none" /\ s.result.asOf = 0
      BY DEF Idle, NoResult
    <3>2. req'[r] = s \/ req'[r] = req[r]
      BY <1>4 DEF Restart
    <3> HIDE DEF s
    <3>3. TimesFor(s, now, None)
      BY <1>0, <3>1 DEF TimesFor, Decided
    <3>4. TimesFor(req[r], now, None)
      BY <1>0, TimesStay
    <3>5. QED
      BY <3>2, <3>3, <3>4
  <2>3. QED
    BY <2>1, <2>2 DEF Times, MemTimes, RowTimes
<1>5. CASE UNCHANGED vars
  BY <1>5 DEF vars, Times, MemTimes, RowTimes
<1>6. QED
  BY <1>1, <1>2, <1>3, <1>4, <1>5 DEF Next

-----------------------------------------------------------------------------
(* What results mean, as long as restarts only raise min_severity.         *)

\* The bands of a result are those that a threshold of its time left.
Exact(res, min) == res.bands = Filter(res.full, min)
ExactRow(res, min) ==
  \E m \in Thresholds : SeverityRank(m) <= SeverityRank(min) /\ Exact(res, m)

MeansFor(q, min) ==
  /\ q.pc \in {"answered", "persist"} => Exact(q.result, min)
  /\ Decided(q) => (q.code = "served" <=> Filter(q.result.full, q.min) = {})

Meanings ==
  /\ mem # None => Exact(mem.result, config.min)
  /\ row # None => ExactRow(row.result, config.min)
  /\ \A r \in Requests : MeansFor(req[r], config.min)

\* A check that ends on bands filtered with the threshold of the moment.
LEMMA MeansEnd ==
  ASSUME Typed, NEW r \in Requests, NEW res, NEW bands,
         bands = Filter(res.full, config.min), Ends(r, res, Verdict(r, bands))
  PROVE  MeansFor(req'[r], config.min)
BY VerdictCodes DEF Ends, Moves, MeansFor, Decided

LEMMA MeaningStep ==
  ASSUME Typed, Meanings, ~Lowering, [Next]_vars
  PROVE  Meanings'
<1>0. /\ \A r \in Requests : MeansFor(req[r], config.min)
      /\ config.min \in Thresholds
  BY Bounds DEF Meanings
<1>1. ASSUME NEW r \in Requests, Step(r)
      PROVE  Meanings'
  <2>1. Goes(r) /\ config' = config
    BY <1>1, StepMoves DEF world
  <2>2. Others(r)
    BY <2>1 DEF Goes, Begins, MissesMemory, MissesRow, HitsMemory, HitsRow, HitsLate,
                Asks, IsAnswered, Receives, Errs, Persists, Ends, Moves
  <2>3. mem' # None => Exact(mem'.result, config.min)
    <3>1. CASE mem' = mem \/ mem' = None
      BY <3>1 DEF Meanings
    <3>2. CASE Receives(r) /\ mem' = [result |-> req[r].result, expiry |-> now + TTL]
      BY <1>0, <3>2 DEF Receives, MeansFor
    <3>3. QED
      BY <2>1, <3>1, <3>2
         DEF Goes, Begins, MissesMemory, MissesRow, HitsMemory, HitsRow, HitsLate,
             Asks, IsAnswered, Receives, Errs, Persists, SameCaches
  <2>4. row' # None => ExactRow(row'.result, config.min)
    <3>1. CASE row' = row
      BY <3>1 DEF Meanings
    <3>2. CASE Persists(r) /\ row' = [result |-> req[r].result, retrievedAt |-> now]
      <4>1. Exact(req[r].result, config.min)
        BY <1>0, <3>2 DEF Persists, MeansFor
      <4>2. SeverityRank(config.min) <= SeverityRank(config.min)
        BY Ranks
      <4>3. row'.result = req[r].result
        BY <3>2
      <4>4. QED
        BY <1>0, <4>1, <4>2, <4>3 DEF ExactRow
    <3>3. QED
      BY <2>1, <3>1, <3>2
         DEF Goes, Begins, MissesMemory, MissesRow, HitsMemory, HitsRow, HitsLate,
             Asks, IsAnswered, Receives, Errs, Persists, SameCaches
  <2>5. MeansFor(req'[r], config.min)
    <3>1. CASE Begins(r) \/ MissesMemory(r) \/ MissesRow(r) \/ Asks(r)
      BY <3>1 DEF Begins, MissesMemory, MissesRow, Asks, Moves, MeansFor, Decided
    <3>2. CASE HitsMemory(r)
      BY <3>2, MeansEnd DEF HitsMemory, MemHit, Meanings, Exact
    <3>3. CASE HitsRow(r)
      <4>1. PICK m \in Thresholds : /\ SeverityRank(m) <= SeverityRank(config.min)
                                    /\ row.result.bands = Filter(row.result.full, m)
        BY <3>3 DEF HitsRow, RowFresh, Meanings, ExactRow, Exact
      <4>2. Filter(row.result.bands, config.min) = Filter(row.result.full, config.min)
        BY <4>1, FilterAgain
      <4>3. QED
        BY <3>3, <4>2, MeansEnd DEF HitsRow
    <3>4. CASE HitsLate(r)
      BY <3>4 DEF HitsLate, MemHit, Meanings, Moves, MeansFor, Decided
    <3>5. CASE IsAnswered(r)
      BY <3>5 DEF IsAnswered, Moves, MeansFor, Exact, Decided
    <3>6. CASE Receives(r)
      <4>1. Exact(req[r].result, config.min)
        BY <1>0, <3>6 DEF Receives, MeansFor
      <4>2. CASE Ends(r, req[r].result, Verdict(r, req[r].result.bands))
        BY <4>1, <4>2, MeansEnd DEF Exact
      <4>3. CASE Moves(r, "persist", req[r].result)
        BY <4>1, <4>3 DEF Moves, MeansFor, Decided
      <4>4. QED
        BY <3>6, <4>2, <4>3 DEF Receives
    <3>7. CASE Errs(r)
      BY <3>7 DEF Errs, Ends, Moves, MeansFor, Decided
    <3>8. CASE Persists(r)
      <4>1. Exact(req[r].result, config.min)
        BY <1>0, <3>8 DEF Persists, MeansFor
      <4>2. QED
        BY <3>8, <4>1, MeansEnd DEF Persists, Exact
    <3>9. QED
      BY <2>1, <3>1, <3>2, <3>3, <3>4, <3>5, <3>6, <3>7, <3>8 DEF Goes
  <2>6. QED
    BY <1>0, <2>1, <2>2, <2>3, <2>4, <2>5 DEF Meanings, Others
<1>2. CASE Restart
  <2>1. PICK m \in Thresholds : /\ SeverityRank(m) >= SeverityRank(config.min)
                                /\ config' = [config EXCEPT !.min = m]
    BY <1>2 DEF Restart
  <2>2. config'.min = m /\ mem' = None /\ row' = row
    BY <1>2, <2>1 DEF Restart, Typed, Config
  <2>3. row # None => ExactRow(row.result, m)
    <3>1. ASSUME NEW k \in Thresholds, SeverityRank(k) <= SeverityRank(config.min)
          PROVE  SeverityRank(k) <= SeverityRank(m)
      BY <2>1, <3>1, Ranks
    <3>2. QED
      BY <3>1 DEF Meanings, ExactRow
  <2>4. ASSUME NEW r \in Requests
        PROVE  MeansFor(req'[r], m)
    <3> DEFINE s == [Idle EXCEPT !.pc = "done"]
    <3>1. s.pc = "done" /\ s.code = "none"
      BY DEF Idle
    <3>2. req'[r] = s \/ (req'[r] = req[r] /\ req[r].pc \in {"idle", "done"})
      BY <1>2 DEF Restart
    <3> HIDE DEF s
    <3>3. QED
      BY <1>0, <3>1, <3>2 DEF MeansFor, Decided
  <2>5. QED
    BY <2>2, <2>3, <2>4 DEF Meanings
<1>3. ASSUME UNCHANGED <<config, mem, row, req>>
      PROVE  Meanings'
  BY <1>3 DEF Meanings
<1>4. QED
  BY <1>1, <1>2, <1>3 DEF Next, Publish, Tick, vars

-----------------------------------------------------------------------------
(* What results know, and what verdicts follow from.                       *)

\* A result reports every band that was published before it was asked for.
Informed(res, p) == \A b \in Bands : p[b] # None /\ p[b] < res.asOf => b \in res.full

Policy(q, c) ==
  q.pc = "done" => /\ q.code = "warned" => c.mode[q.kind] = "warn"
                   /\ q.code = "unchecked" => c.onError[q.kind] = "fail_open"

Knows ==
  /\ mem # None => Informed(mem.result, published)
  /\ row # None => Informed(row.result, published)
  /\ \A r \in Requests : Informed(req[r].result, published) /\ Policy(req[r], config)

LEMMA KnowStep ==
  ASSUME Typed, Times, Knows, [Next]_vars
  PROVE  Knows'
<1>0. Informed(NoResult, published)
  <2>1. \A b \in Bands : published[b] # None => published[b] \in Nat
    BY DEF Typed
  <2>2. QED
    BY <2>1 DEF Informed, NoResult
<1>1. ASSUME NEW r \in Requests, Step(r)
      PROVE  Knows'
  <2>1. Goes(r) /\ config' = config /\ published' = published
    BY <1>1, StepMoves DEF world
  <2>2. Others(r)
    BY <2>1 DEF Goes, Begins, MissesMemory, MissesRow, HitsMemory, HitsRow, HitsLate,
                Asks, IsAnswered, Receives, Errs, Persists, Ends, Moves
  <2>3. mem' = mem \/ mem' = None \/ mem'.result = req[r].result
    BY <2>1 DEF Goes, Begins, MissesMemory, MissesRow, HitsMemory, HitsRow, HitsLate,
                Asks, IsAnswered, Receives, Errs, Persists, SameCaches
  <2>4. row' = row \/ row'.result = req[r].result
    BY <2>1 DEF Goes, Begins, MissesMemory, MissesRow, HitsMemory, HitsRow, HitsLate,
                Asks, IsAnswered, Receives, Errs, Persists, SameCaches
  <2>5. Informed(req'[r].result, published)
    <3>1. CASE IsAnswered(r)
      BY <3>1 DEF IsAnswered, Informed, known
    <3>2. CASE ~IsAnswered(r)
      BY <1>0, <2>1, <3>2
         DEF Goes, Begins, MissesMemory, MissesRow, HitsMemory, HitsRow, HitsLate,
             Asks, Receives, Errs, Persists, Ends, Moves, MemHit, RowFresh, Knows
    <3>3. QED
      BY <3>1, <3>2
  <2>6. Policy(req'[r], config)
    <3>1. ASSUME NEW res, NEW bands, Ends(r, res, Verdict(r, bands))
          PROVE  Policy(req'[r], config)
      BY <3>1, VerdictCodes DEF Ends, Moves, Policy
    <3>2. CASE Errs(r)
      BY <3>2 DEF Errs, Ends, Moves, Policy
    <3>3. CASE req'[r].pc # "done"
      BY <3>3 DEF Policy
    <3>4. QED
      BY <2>1, <3>1, <3>2, <3>3
         DEF Goes, Begins, MissesMemory, MissesRow, HitsMemory, HitsRow, HitsLate,
             Asks, IsAnswered, Receives, Persists, Moves
  <2>7. QED
    BY <2>1, <2>2, <2>3, <2>4, <2>5, <2>6 DEF Knows, Others
<1>2. ASSUME NEW b \in Bands, Publish(b)
      PROVE  Knows'
  <2>1. /\ published' = [published EXCEPT ![b] = now]
        /\ UNCHANGED <<config, mem, row, req>>
    BY <1>2 DEF Publish
  <2>2. published'[b] = now /\ \A d \in Bands \ {b} : published'[d] = published[d]
    BY <2>1 DEF Typed
  <2>3. ASSUME NEW res, res.asOf \in Nat, res.asOf <= now, Informed(res, published)
        PROVE  Informed(res, published')
    BY <2>2, <2>3, Bounds DEF Informed
  <2>4. \A r \in Requests : req[r].result.asOf \in Nat /\ req[r].result.asOf <= now
    BY Bounds DEF Times, TimesFor
  <2>5. /\ mem # None => mem.result.asOf \in Nat /\ mem.result.asOf <= now
        /\ row # None => row.result.asOf \in Nat /\ row.result.asOf <= now
    BY Bounds DEF Times, MemTimes, RowTimes
  <2>6. QED
    BY <2>1, <2>3, <2>4, <2>5 DEF Knows
<1>3. CASE Restart
  <2>1. config'.mode = config.mode /\ config'.onError = config.onError
    BY <1>3 DEF Restart, Typed, Config
  <2>2. mem' = None /\ row' = row /\ published' = published
    BY <1>3 DEF Restart
  <2>3. ASSUME NEW r \in Requests
        PROVE  Informed(req'[r].result, published) /\ Policy(req'[r], config')
    <3> DEFINE s == [Idle EXCEPT !.pc = "done"]
    <3>1. s.code = "none" /\ s.result = NoResult
      BY DEF Idle
    <3>2. req'[r] = s \/ req'[r] = req[r]
      BY <1>3 DEF Restart
    <3> HIDE DEF s
    <3>3. QED
      BY <1>0, <2>1, <3>1, <3>2 DEF Knows, Policy
  <2>4. QED
    BY <2>2, <2>3 DEF Knows
<1>4. ASSUME UNCHANGED <<config, published, mem, row, req>>
      PROVE  Knows'
  BY <1>4 DEF Knows
<1>5. QED
  BY <1>1, <1>2, <1>3, <1>4 DEF Next, Tick, vars

-----------------------------------------------------------------------------
(* The theorems.                                                           *)

LEMMA InitInv == Init => Typed /\ Times /\ Meanings /\ Knows
<1> SUFFICES ASSUME Init
             PROVE  Typed /\ Times /\ Meanings /\ Knows
  OBVIOUS
<1>1. Idle \in Check
  BY CveRecheckAssumption
     DEF Idle, Check, NoResult, Result, Codes, Pcs, Kinds, AllBands
<1>2. Idle.pc = "idle" /\ Idle.result.asOf = 0 /\ Idle.result = NoResult
  BY DEF Idle, NoResult
<1> HIDE DEF Idle
<1>3. \A r \in Requests : req[r] = Idle
  BY DEF Init
<1>4. config \in Config
  BY CveRecheckAssumption DEF Init, Config
<1>5. Typed
  BY <1>1, <1>4, CveRecheckAssumption DEF Init, Typed
<1>6. Times
  BY <1>2, <1>3 DEF Init, Times, MemTimes, RowTimes, TimesFor, Decided
<1>7. Meanings
  BY <1>2, <1>3 DEF Init, Meanings, MeansFor, Decided
<1>8. Knows
  BY <1>2, <1>3 DEF Init, Knows, Informed, Policy
<1>9. QED
  BY <1>5, <1>6, <1>7, <1>8

CveInv == Typed /\ Times /\ Knows

\* Types, the ages of results, and what they know.
THEOREM CveInvariance == Spec => []CveInv
<1>1. Init => CveInv
  BY InitInv DEF CveInv
<1>2. CveInv /\ [Next]_vars => CveInv'
  BY TypeStep, TimesStep, KnowStep DEF CveInv
<1>3. QED
  BY <1>1, <1>2, PTL DEF Spec

\* TypeOK: types of the settings, the two caches and the checks.
THEOREM CveTypeCorrect == Spec => []TypeOK
<1>1. CveInv => TypeOK
  <2> SUFFICES ASSUME CveInv
               PROVE  TypeOK
    OBVIOUS
  <2>1. Typed
    BY DEF CveInv
  <2>2. QED
    BY <2>1, Bounds DEF Typed, Check, TypeOK
<1>2. QED
  BY <1>1, CveInvariance, PTL

\* StalenessBound: cverecheck.Fetch and cveosv.Client.Query never put what one
\* cache held into the other, so the ages do not add up, for every cache_ttl,
\* cache_duration and time limit.
THEOREM AgesDoNotAdd == Spec => []StalenessBound
<1>1. CveInv => StalenessBound
  <2> SUFFICES ASSUME CveInv, NEW r \in Requests, Decided(req[r])
               PROVE  req[r].at - req[r].result.asOf <= Oldest
    BY DEF StalenessBound
  <2>1. Typed /\ req[r].at <= req[r].result.asOf + Oldest
    BY DEF CveInv, Times, TimesFor
  <2>2. req[r].at \in Nat /\ req[r].result.asOf \in Nat /\ Oldest \in Nat
    BY <2>1, Bounds, OldestBounds
  <2>3. QED
    BY <2>1, <2>2
<1>2. QED
  BY <1>1, CveInvariance, PTL

\* DecidedByThreshold: as long as restarts only raise min_severity,
\* applyFromCounts makes of stored counts what a query would have given.
THEOREM ThresholdDecides ==
  ASSUME ~Lowering
  PROVE  Spec => []DecidedByThreshold
<1>1. Init => Meanings
  BY InitInv
<1>2. CveInv /\ Meanings /\ [Next]_vars => Meanings'
  BY MeaningStep, ~Lowering DEF CveInv
<1>3. Meanings => DecidedByThreshold
  BY DEF Meanings, MeansFor, DecidedByThreshold
<1>4. QED
  BY <1>1, <1>2, <1>3, CveInvariance, PTL DEF Spec

\* AdvisoryBites: an advisory that OSV has known for longer than Oldest rejects
\* every check in deny mode with fail_closed, whatever fails or restarts.
THEOREM EveryAdvisoryBites ==
  ASSUME ~Lowering
  PROVE  Spec => []AdvisoryBites
<1>1. CveInv /\ StalenessBound /\ DecidedByThreshold => AdvisoryBites
  <2> SUFFICES ASSUME CveInv, StalenessBound, DecidedByThreshold,
                      NEW r \in Requests, NEW b \in known,
                      req[r].pc = "done", req[r].code # "none",
                      config.mode[req[r].kind] = "deny",
                      config.onError[req[r].kind] = "fail_closed",
                      published[b] + Oldest < req[r].at,
                      b \in Filter(Bands, req[r].min)
               PROVE  req[r].code \in {"rejected", "outage"}
    BY DEF AdvisoryBites
  <2>1. Typed /\ Policy(req[r], config) /\ Informed(req[r].result, published)
    BY DEF CveInv, Knows
  <2>2. req[r].code # "warned" /\ req[r].code # "unchecked"
    BY <2>1 DEF Policy
  <2>3. req[r].code # "served"
    <3> SUFFICES ASSUME req[r].code = "served"
                 PROVE  FALSE
      OBVIOUS
    <3>1. Decided(req[r])
      BY DEF Decided
    <3>2. /\ req[r].at \in Nat /\ req[r].result.asOf \in Nat /\ Oldest \in Nat
          /\ published[b] \in Nat /\ published[b] # None /\ b \in Bands
      BY <2>1, Bounds, OldestBounds DEF known, Typed
    <3>3. req[r].at - req[r].result.asOf <= Oldest
      BY <3>1 DEF StalenessBound
    <3>4. published[b] < req[r].result.asOf
      BY <3>2, <3>3
    <3>5. b \in req[r].result.full
      BY <2>1, <3>2, <3>4 DEF Informed
    <3>6. b \in Filter(req[r].result.full, req[r].min)
      BY <3>5 DEF Filter
    <3>7. QED
      BY <3>1, <3>6 DEF DecidedByThreshold
  <2>4. QED
    BY <2>1, <2>2, <2>3, Bounds DEF Codes
<1>2. QED
  BY <1>1, CveInvariance, AgesDoNotAdd, ThresholdDecides, ~Lowering, PTL

-----------------------------------------------------------------------------
(* The weights of the metrics.                                             *)

\* A vector that is a map of metrics, and one that brings its score.
Parts == [Metrics -> Values]
Scored == [BS : Seq(Int)]

LEMMA VectorKinds ==
  /\ Vector = Parts \union Scored
  /\ \A v \in Parts : "BS" \notin DOMAIN v
  /\ \A v \in Scored : "BS" \in DOMAIN v /\ v["BS"] \in Seq(Int)
<1>1. \A v \in Parts : "BS" \notin DOMAIN v
  BY DEF Parts, Metrics
<1>2. \A v \in Scored : "BS" \in DOMAIN v /\ v["BS"] \in Seq(Int)
  BY DEF Scored
<1>3. QED
  BY <1>1, <1>2 DEF Vector, Parts, Scored

LEMMA Weights ==
  ASSUME NEW v \in Parts, NEW key \in Metrics \ {"S"}, HasMetric(v, key)
  PROVE  /\ MetricValue(v, key) \in 0..100
         /\ key \in {"C", "I", "A", "VC", "VI", "VA"} => MetricValue(v, key) \in {0, 22, 56}
<1> DEFINE scope == ScopeOf(v)
<1> USE DEF HasMetric, MetricValue, Metrics
<1>1. CASE key = "AV"
  BY <1>1 DEF Table
<1>2. CASE key = "AC"
  BY <1>2 DEF Table
<1>3. CASE key = "UI"
  BY <1>3 DEF Table
<1>4. CASE key = "PR"
  BY <1>4 DEF Table, PrWeight
<1>5. CASE key \in {"C", "I", "A", "VC", "VI", "VA"}
  <2>1. Table(key, scope) = ciaTable
    BY <1>5 DEF Table
  <2>2. QED
    BY <1>5, <2>1 DEF ciaTable
<1>6. QED
  BY <1>1, <1>2, <1>3, <1>4, <1>5

\* What Revise does to a vector.
Raised(v, w, key) ==
  \E n \in DOMAIN Ascending(key) \ {Len(Ascending(key))} :
    /\ v[key] = Ascending(key)[n]
    /\ w = [v EXCEPT ![key] = Ascending(key)[n + 1]]

LEMMA ValuesUp ==
  ASSUME NEW v \in Parts, NEW key \in Metrics, NEW w, Raised(v, w, key)
  PROVE  /\ w \in Parts
         /\ \A k \in Metrics \ {key} : w[k] = v[k]
         /\ key = "AV" => \/ v[key] = "P" /\ w[key] = "L"
                          \/ v[key] = "L" /\ w[key] = "A"
                          \/ v[key] = "A" /\ w[key] = "N"
         /\ key = "AC" => v[key] = "H" /\ w[key] = "L"
         /\ key = "PR" => \/ v[key] = "H" /\ w[key] = "L"
                          \/ v[key] = "L" /\ w[key] = "N"
         /\ key = "UI" => v[key] = "R" /\ w[key] = "N"
         /\ key = "S" => v[key] = "U" /\ w[key] = "C"
         /\ key \in {"C", "I", "A", "VC", "VI", "VA"}
              => \/ v[key] = "N" /\ w[key] = "L"
                 \/ v[key] = "L" /\ w[key] = "H"
<1>1. PICK n \in DOMAIN Ascending(key) \ {Len(Ascending(key))} :
        /\ v[key] = Ascending(key)[n]
        /\ w = [v EXCEPT ![key] = Ascending(key)[n + 1]]
  BY DEF Raised
<1>2. w[key] = Ascending(key)[n + 1] /\ \A k \in Metrics \ {key} : w[k] = v[k]
  BY <1>1 DEF Parts
<1> DEFINE Climbs(b, c) == Ascending(key)[n] = b /\ Ascending(key)[n + 1] = c
<1>3. ASSUME key = "AV" PROVE Climbs("P", "L") \/ Climbs("L", "A") \/ Climbs("A", "N")
  <2>1. Ascending(key) = <<"P", "L", "A", "N">>
    BY <1>3 DEF Ascending
  <2>2. n = 1 \/ n = 2 \/ n = 3
    BY <1>1, <2>1
  <2>3. Climbs("P", "L") \/ Climbs("L", "A") \/ Climbs("A", "N")
    BY <2>1, <2>2
  <2>4. QED
    BY <2>3
<1>4. ASSUME key \in {"AC", "UI", "S"}
      PROVE  /\ key = "AC" => Climbs("H", "L")
             /\ key = "UI" => Climbs("R", "N")
             /\ key = "S" => Climbs("U", "C")
  <2>1. /\ key = "AC" => Ascending(key) = <<"H", "L">>
        /\ key = "UI" => Ascending(key) = <<"R", "N">>
        /\ key = "S" => Ascending(key) = <<"U", "C">>
    BY DEF Ascending
  <2>2. n = 1
    <3>1. CASE key = "AC"
      <4>1. Ascending(key) = <<"H", "L">>
        BY <2>1, <3>1
      <4>2. QED
        BY <1>1, <4>1
    <3>2. CASE key = "UI"
      <4>1. Ascending(key) = <<"R", "N">>
        BY <2>1, <3>2
      <4>2. QED
        BY <1>1, <4>1
    <3>3. CASE key = "S"
      <4>1. Ascending(key) = <<"U", "C">>
        BY <2>1, <3>3
      <4>2. QED
        BY <1>1, <4>1
    <3>4. QED
      BY <1>4, <3>1, <3>2, <3>3
  <2>3. /\ key = "AC" => Climbs("H", "L")
        /\ key = "UI" => Climbs("R", "N")
        /\ key = "S" => Climbs("U", "C")
    BY <2>1, <2>2
  <2>4. QED
    BY <2>3
<1>5. ASSUME key = "PR" PROVE Climbs("H", "L") \/ Climbs("L", "N")
  <2>1. Ascending(key) = <<"H", "L", "N">>
    BY <1>5 DEF Ascending
  <2>2. n = 1 \/ n = 2
    BY <1>1, <2>1
  <2>3. Climbs("H", "L") \/ Climbs("L", "N")
    BY <2>1, <2>2
  <2>4. QED
    BY <1>5, <2>3
<1>6. ASSUME key \in {"C", "I", "A", "VC", "VI", "VA"} PROVE Climbs("N", "L") \/ Climbs("L", "H")
  <2>1. Ascending(key) = <<"N", "L", "H">>
    BY <1>6 DEF Ascending
  <2>2. n = 1 \/ n = 2
    BY <1>1, <2>1
  <2>3. Climbs("N", "L") \/ Climbs("L", "H")
    BY <2>1, <2>2
  <2>4. QED
    BY <1>6, <2>3
<1>7. /\ key = "AV" => Climbs("P", "L") \/ Climbs("L", "A") \/ Climbs("A", "N")
      /\ key = "AC" => Climbs("H", "L")
      /\ key = "PR" => Climbs("H", "L") \/ Climbs("L", "N")
      /\ key = "UI" => Climbs("R", "N")
      /\ key = "S" => Climbs("U", "C")
      /\ key \in {"C", "I", "A", "VC", "VI", "VA"} => Climbs("N", "L") \/ Climbs("L", "H")
  <2> HIDE DEF Climbs
  <2>1. key \in {"AV", "AC", "PR", "UI", "S", "C", "I", "A", "VC", "VI", "VA"}
    BY DEF Metrics
  <2>2. CASE key = "AV"
    BY <2>2, <1>3
  <2>3. CASE key \in {"AC", "UI", "S"}
    BY <2>3, <1>4
  <2>4. CASE key = "PR"
    BY <2>4, <1>5
  <2>5. CASE key \in {"C", "I", "A", "VC", "VI", "VA"}
    BY <2>5, <1>6
  <2>6. QED
    BY <2>1, <2>2, <2>3, <2>4, <2>5
<1>8. w \in Parts
  <2>1. key \in {"AV", "AC", "PR", "UI", "S", "C", "I", "A", "VC", "VI", "VA"}
    BY DEF Metrics
  <2>2. Ascending(key)[n + 1] \in {"L", "A", "N", "C", "H"}
    BY <1>7, <2>1
  <2>3. QED
    BY <1>1, <2>2 DEF Parts, Values
<1>9. QED
  BY <1>1, <1>2, <1>7, <1>8

\* A raise keeps what there is and what is looked at, and makes no weight less.
LEMMA WeightsUp ==
  ASSUME NEW v \in Parts, NEW key \in Metrics, NEW w, Raised(v, w, key)
  PROVE  /\ w \in Parts
         /\ Impacted(w) = Impacted(v)
         /\ ScopeOf(w) = ScopeOf(v) \/ (ScopeOf(v) = "U" /\ ScopeOf(w) = "C")
         /\ \A k \in Metrics \ {"S"} :
              /\ HasMetric(w, k) <=> HasMetric(v, k)
              /\ HasMetric(v, k) => MetricValue(v, k) <= MetricValue(w, k)
<1>1. w \in Parts /\ \A k \in Metrics \ {key} : w[k] = v[k]
  BY ValuesUp
<1>2. Impacted(w) = Impacted(v)
  <2>1. "VC" \in Metrics /\ "VC" \in {"C", "I", "A", "VC", "VI", "VA"}
    BY DEF Metrics
  <2>2. CASE key = "VC"
    <3>1. v["VC"] # Absent /\ w["VC"] # Absent
      BY <2>2, ValuesUp DEF Absent
    <3>2. QED
      BY <3>1 DEF Impacted
  <2>3. CASE key # "VC"
    <3>1. w["VC"] = v["VC"]
      BY <1>1, <2>1, <2>3
    <3>2. QED
      BY <3>1 DEF Impacted
  <2>4. QED
    BY <2>2, <2>3
<1>3. ScopeOf(w) = ScopeOf(v) \/ (ScopeOf(v) = "U" /\ ScopeOf(w) = "C")
  <2>1. CASE key = "S"
    <3>1. v["S"] = "U" /\ w["S"] = "C"
      BY <2>1, ValuesUp
    <3>2. QED
      BY <3>1 DEF ScopeOf, Absent
  <2>2. CASE key # "S"
    <3>1. w["S"] = v["S"]
      BY <1>1, <2>2 DEF Metrics
    <3>2. QED
      BY <3>1 DEF ScopeOf
  <2>3. QED
    BY <2>1, <2>2
<1>4. ASSUME NEW k \in Metrics \ {"S"}
      PROVE  /\ HasMetric(w, k) <=> HasMetric(v, k)
             /\ HasMetric(v, k) => MetricValue(v, k) <= MetricValue(w, k)
  <2>1. k = key \/ w[k] = v[k]
    BY <1>1, <1>4
  <2>2. CASE k = "AV"
    <3>1. ASSUME NEW scope PROVE Table(k, scope) = [N |-> 85, A |-> 62, L |-> 55, P |-> 20]
      BY <2>2 DEF Table
    <3>2. \/ w[k] = v[k]
          \/ v[k] = "P" /\ w[k] = "L"
          \/ v[k] = "L" /\ w[k] = "A"
          \/ v[k] = "A" /\ w[k] = "N"
      BY <2>1, <2>2, ValuesUp
    <3>3. QED
      BY <3>1, <3>2 DEF HasMetric, MetricValue
  <2>3. CASE k = "AC"
    <3>1. ASSUME NEW scope PROVE Table(k, scope) = [L |-> 77, H |-> 44]
      BY <2>3 DEF Table
    <3>2. w[k] = v[k] \/ (v[k] = "H" /\ w[k] = "L")
      BY <2>1, <2>3, ValuesUp
    <3>3. QED
      BY <3>1, <3>2 DEF HasMetric, MetricValue
  <2>4. CASE k = "UI"
    <3>1. ASSUME NEW scope PROVE Table(k, scope) = [N |-> 85, R |-> 62]
      BY <2>4 DEF Table
    <3>2. w[k] = v[k] \/ (v[k] = "R" /\ w[k] = "N")
      BY <2>1, <2>4, ValuesUp
    <3>3. QED
      BY <3>1, <3>2 DEF HasMetric, MetricValue
  <2>5. CASE k = "PR"
    <3>1. ASSUME NEW scope
          PROVE  Table(k, scope) = IF scope = "C" THEN [N |-> 85, L |-> 68, H |-> 50]
                                   ELSE [N |-> 85, L |-> 62, H |-> 27]
      BY <2>5 DEF Table, PrWeight
    <3>2. \/ w[k] = v[k]
          \/ v[k] = "H" /\ w[k] = "L"
          \/ v[k] = "L" /\ w[k] = "N"
      BY <2>1, <2>5, ValuesUp
    <3>3. QED
      BY <1>3, <3>1, <3>2 DEF HasMetric, MetricValue
  <2>6. CASE k \in {"C", "I", "A", "VC", "VI", "VA"}
    <3>1. ASSUME NEW scope PROVE Table(k, scope) = [H |-> 56, L |-> 22, N |-> 0]
      BY <2>6 DEF Table, ciaTable
    <3>2. \/ w[k] = v[k]
          \/ v[k] = "N" /\ w[k] = "L"
          \/ v[k] = "L" /\ w[k] = "H"
      BY <2>1, <2>6, ValuesUp
    <3>3. QED
      BY <3>1, <3>2 DEF HasMetric, MetricValue
  <2>7. QED
    BY <2>2, <2>3, <2>4, <2>5, <2>6 DEF Metrics
<1>5. QED
  BY <1>1, <1>2, <1>3, <1>4

-----------------------------------------------------------------------------
(* The equation: ten values that the impacts can come to, and its two      *)
(* forms on them.                                                          *)

IssValues == {0, 220000, 391600, 525448, 560000, 656800, 732304, 806400, 848992, 914816}
Iss(v) == LET lost(i) == 100 - MetricValue(v, Impacted(v)[i])
          IN Million - lost(1) * lost(2) * lost(3)
Plain(iss) == (642 * iss) \div 100
Changed(iss) == ((752 * (iss - 29000)) \div 100) - ((325 * Pow15(iss - 20000)) \div 100)

LEMMA ImpactValues ==
  /\ \A x \in IssValues : Plain(x) \in Int /\ Changed(x) \in Int
  /\ \A x, y \in IssValues : x <= y => Plain(x) <= Plain(y) /\ Changed(x) <= Changed(y)
  /\ \A x \in IssValues : Plain(x) > 0 => Plain(x) <= Changed(x)
<1>1. /\ Changed(0) = -218080 /\ Changed(220000) = 1436320
      /\ Changed(391600) = 2726752 /\ Changed(525448) = 3733178
      /\ Changed(560000) = 3992812 /\ Changed(656800) = 4717329
      /\ Changed(732304) = 5268810 /\ Changed(806400) = 5757639
      /\ Changed(848992) = 5971300 /\ Changed(914816) = 6047743
  <2>1. Changed(0) = -218080 /\ Changed(220000) = 1436320
    BY SMT DEF Changed, Pow15, Scaled, Million
  <2>2. Changed(391600) = 2726752 /\ Changed(525448) = 3733178
    BY SMT DEF Changed, Pow15, Scaled, Million
  <2>3. Changed(560000) = 3992812 /\ Changed(656800) = 4717329
    BY SMT DEF Changed, Pow15, Scaled, Million
  <2>4. Changed(732304) = 5268810 /\ Changed(806400) = 5757639
    BY SMT DEF Changed, Pow15, Scaled, Million
  <2>5. Changed(848992) = 5971300 /\ Changed(914816) = 6047743
    BY SMT DEF Changed, Pow15, Scaled, Million
  <2> HIDE DEF Changed
  <2>6. QED
    BY <2>1, <2>2, <2>3, <2>4, <2>5
<1>2. /\ Plain(0) = 0 /\ Plain(220000) = 1412400
      /\ Plain(391600) = 2514072 /\ Plain(525448) = 3373376
      /\ Plain(560000) = 3595200 /\ Plain(656800) = 4216656
      /\ Plain(732304) = 4701391 /\ Plain(806400) = 5177088
      /\ Plain(848992) = 5450528 /\ Plain(914816) = 5873118
  BY SMT DEF Plain
<1> HIDE DEF Plain, Changed
<1>3. QED
  BY <1>1, <1>2 DEF IssValues

LEMMA ImpactForms ==
  ASSUME NEW v \in Parts, Complete(v)
  PROVE  /\ Iss(v) \in IssValues
         /\ ImpactOf(v) = IF ScopeOf(v) = "C" THEN Changed(Iss(v)) ELSE Plain(Iss(v))
<1>1. ImpactOf(v) = IF ScopeOf(v) = "C" THEN Changed(Iss(v)) ELSE Plain(Iss(v))
  BY SMT DEF ImpactOf, Iss, Changed, Plain
<1> DEFINE lost(i) == 100 - MetricValue(v, Impacted(v)[i])
<1>2. ASSUME NEW i \in 1..3 PROVE lost(i) \in {100, 78, 44}
  <2>1. /\ Impacted(v)[i] \in {"C", "I", "A", "VC", "VI", "VA"}
        /\ Impacted(v)[i] \in {Impacted(v)[1], Impacted(v)[2], Impacted(v)[3]}
    BY DEF Impacted
  <2>2. Impacted(v)[i] \in Metrics \ {"S"}
    BY <2>1 DEF Metrics
  <2>3. HasMetric(v, Impacted(v)[i])
    BY <2>1 DEF Complete
  <2>4. MetricValue(v, Impacted(v)[i]) \in {0, 22, 56}
    BY <2>1, <2>2, <2>3, Weights
  <2>5. QED
    BY <2>4
<1>3. Iss(v) = 1000000 - lost(1) * lost(2) * lost(3)
  BY DEF Iss, Million
<1>4. \A a, b, c \in {100, 78, 44} : 1000000 - a * b * c \in IssValues
  BY SMT DEF IssValues
<1> HIDE DEF lost
<1>5. lost(1) \in {100, 78, 44} /\ lost(2) \in {100, 78, 44} /\ lost(3) \in {100, 78, 44}
  BY <1>2
<1>6. QED
  BY <1>1, <1>3, <1>4, <1>5

LEMMA ProductUp ==
  ASSUME NEW a \in Nat, NEW b \in Nat, NEW c \in Nat, NEW d \in Nat, a <= b, c <= d
  PROVE  a * c \in Nat /\ b * d \in Nat /\ a * c <= b * d
BY SMT

LEMMA QuotientUp ==
  ASSUME NEW a \in Int, NEW b \in Int, a <= b
  PROVE  /\ a \div 10 <= b \div 10 /\ a \div 100 <= b \div 100
         /\ a \div 10 \in Int /\ a \div 100 \in Int
         /\ a >= 0 => a \div 10 >= 0 /\ a \div 100 >= 0
BY SMT

\* Each factor is a weight, and so are what the product is made of.
LEMMA ExploitabilityIs ==
  ASSUME NEW v \in Parts, Complete(v)
  PROVE  /\ \A k \in {"AV", "AC", "PR", "UI"} : MetricValue(v, k) \in Nat
         /\ Exploitability(v) \in Nat
<1>1. ASSUME NEW k \in {"AV", "AC", "PR", "UI"} PROVE MetricValue(v, k) \in Nat
  <2>1. HasMetric(v, k) /\ k \in Metrics \ {"S"}
    BY DEF Complete, Metrics
  <2>2. QED
    BY <2>1, Weights
<1> DEFINE av == MetricValue(v, "AV")  ac == MetricValue(v, "AC")
           pr == MetricValue(v, "PR")  ui == MetricValue(v, "UI")
           reach == (822 * av * ac * pr) \div 100
<1>2. av \in Nat /\ ac \in Nat /\ pr \in Nat /\ ui \in Nat
  BY <1>1
<1>3. Exploitability(v) = (reach * ui) \div 100
  BY DEF Exploitability
<1> HIDE DEF av, ac, pr, ui
<1>4. 822 * av \in Nat /\ 822 * av * ac \in Nat /\ 822 * av * ac * pr \in Nat
  BY <1>2
<1>5. reach \in Nat
  <2> DEFINE p == 822 * av * ac * pr
  <2>1. p \in Nat
    BY <1>4
  <2> HIDE DEF p
  <2>2. p \div 100 \in Nat
    BY <2>1, QuotientUp
  <2>3. QED
    BY <2>2 DEF p
<1> HIDE DEF reach
<1>6. reach * ui \in Nat
  BY <1>2, <1>5
<1>7. (reach * ui) \div 100 \in Nat
  <2> DEFINE p == reach * ui
  <2>1. p \in Nat
    BY <1>6
  <2> HIDE DEF p
  <2>2. p \div 100 \in Nat
    BY <2>1, QuotientUp
  <2>3. QED
    BY <2>2 DEF p
<1>8. QED
  BY <1>1, <1>3, <1>7

LEMMA ExploitabilityUp ==
  ASSUME NEW v \in Parts, NEW w \in Parts, Complete(v), Complete(w),
         \A k \in {"AV", "AC", "PR", "UI"} : MetricValue(v, k) <= MetricValue(w, k)
  PROVE  Exploitability(v) <= Exploitability(w)
<1> DEFINE m(k) == MetricValue(v, k)  n(k) == MetricValue(w, k)
<1>1. \A k \in {"AV", "AC", "PR", "UI"} : m(k) \in Nat /\ n(k) \in Nat /\ m(k) <= n(k)
  BY ExploitabilityIs
<1>2. /\ Exploitability(v) = (((822 * m("AV") * m("AC") * m("PR")) \div 100) * m("UI")) \div 100
      /\ Exploitability(w) = (((822 * n("AV") * n("AC") * n("PR")) \div 100) * n("UI")) \div 100
  BY DEF Exploitability
<1> HIDE DEF m, n
<1>3. 822 * m("AV") \in Nat /\ 822 * n("AV") \in Nat /\ 822 * m("AV") <= 822 * n("AV")
  BY <1>1
<1>4. /\ 822 * m("AV") * m("AC") \in Nat /\ 822 * n("AV") * n("AC") \in Nat
      /\ 822 * m("AV") * m("AC") <= 822 * n("AV") * n("AC")
  BY <1>1, <1>3, ProductUp
<1> DEFINE p == 822 * m("AV") * m("AC") * m("PR")  q == 822 * n("AV") * n("AC") * n("PR")
<1>5. p \in Nat /\ q \in Nat /\ p <= q
  BY <1>1, <1>4, ProductUp
<1> HIDE DEF p, q
<1>6. p \div 100 \in Nat /\ q \div 100 \in Nat /\ p \div 100 <= q \div 100
  BY <1>5, QuotientUp
<1> DEFINE s == (p \div 100) * m("UI")  t == (q \div 100) * n("UI")
<1>7. s \in Nat /\ t \in Nat /\ s <= t
  BY <1>1, <1>6, ProductUp
<1>8. Exploitability(v) = s \div 100 /\ Exploitability(w) = t \div 100
  BY <1>2 DEF p, q
<1> HIDE DEF s, t
<1>9. QED
  BY <1>7, <1>8, QuotientUp

-----------------------------------------------------------------------------
(* The score.                                                              *)

LEMMA UnroundedIs ==
  ASSUME NEW v \in Parts, Complete(v)
  PROVE  ImpactOf(v) \in Int /\ Unrounded(v) \in Int /\ (ImpactOf(v) > 0 => Unrounded(v) >= 0)
<1>1. ImpactOf(v) \in Int
  BY ImpactForms, ImpactValues
<1>2. Exploitability(v) \in Nat
  BY ExploitabilityIs
<1>3. QED
  BY <1>1, <1>2, SMT DEF Unrounded

LEMMA Rounding ==
  /\ \A x \in Int : clampScore(x) \in 0..100
  /\ \A x \in Int : roundup(x) \in Int
  /\ \A x, y \in Int : x <= y => roundup(x) <= roundup(y) /\ clampScore(x) <= clampScore(y)
  /\ \A x \in Int : 10000 * roundup(x) >= x /\ 10000 * (roundup(x) - 1) < x
<1>1. \A x \in Int : roundup(x) \in Int /\ 10000 * roundup(x) >= x /\ 10000 * (roundup(x) - 1) < x
  BY SMT DEF roundup
<1>2. \A x, y \in Int : x <= y => roundup(x) <= roundup(y)
  BY <1>1
<1>3. \A x \in Int : clampScore(x) \in 0..100
  BY DEF clampScore
<1>4. \A x, y \in Int : x <= y => clampScore(x) <= clampScore(y)
  BY DEF clampScore
<1>5. QED
  BY <1>1, <1>2, <1>3, <1>4

\* The score is that of the standard, and none is what is not a score.
LEMMA ScoreIsStandard ==
  ASSUME NEW v \in Vector
  PROVE  IF Legible(v) THEN parseCVSSBaseScore(v) = Standard(v) /\ Standard(v) \in 0..100
         ELSE parseCVSSBaseScore(v) = NoScore
<1>1. CASE v \in Scored
  <2>1. "BS" \in DOMAIN v /\ v["BS"] \in Seq(Int)
    BY <1>1, VectorKinds
  <2>2. v["BS"] # <<>> => v["BS"][1] \in Int
    BY <2>1
  <2>3. CASE v["BS"] = <<>>
    BY <2>1, <2>3 DEF parseCVSSBaseScore, Legible
  <2>4. CASE v["BS"] # <<>>
    <3> DEFINE b == v["BS"][1]
    <3>1. parseCVSSBaseScore(v) = clampScore(b) /\ Legible(v)
      BY <2>1, <2>4 DEF parseCVSSBaseScore, Legible
    <3>2. Standard(v) = IF b \in 0..100 THEN b ELSE IF b < 0 THEN 0 ELSE 100
      BY <2>1, <2>4 DEF Standard
    <3>3. b \in Int
      BY <2>2, <2>4
    <3> HIDE DEF b
    <3>4. QED
      BY <3>1, <3>2, <3>3 DEF clampScore
  <2>5. QED
    BY <2>3, <2>4
<1>2. CASE v \in Parts /\ ~Complete(v)
  BY <1>2, VectorKinds DEF parseCVSSBaseScore, Legible
<1>3. CASE v \in Parts /\ Complete(v)
  <2>1. "BS" \notin DOMAIN v
    BY <1>3, VectorKinds
  <2>2. CASE ImpactOf(v) <= 0
    BY <1>3, <2>1, <2>2 DEF parseCVSSBaseScore, Legible, Standard
  <2>3. CASE ~(ImpactOf(v) <= 0)
    <3> DEFINE u == Unrounded(v)  x == IF u > Million THEN Million ELSE u
               t == clampScore(roundup(u))
    <3>1. u \in Int /\ u >= 0
      BY <1>3, <2>3, UnroundedIs
    <3>2. /\ parseCVSSBaseScore(v) = t
          /\ Standard(v) = CHOOSE s \in 0..100 : 10000 * s >= x /\ 10000 * (s - 1) < x
      BY <1>3, <2>1, <2>3 DEF parseCVSSBaseScore, Standard
    <3> HIDE DEF u
    <3>3. roundup(u) \in Int /\ 10000 * roundup(u) >= u /\ 10000 * (roundup(u) - 1) < u
      BY <3>1, Rounding
    <3>4. t \in 0..100 /\ 10000 * t >= x /\ 10000 * (t - 1) < x
      BY <3>1, <3>3 DEF clampScore, Million
    <3>5. \A s \in 0..100 : 10000 * s >= x /\ 10000 * (s - 1) < x => s = t
      BY <3>1, <3>4 DEF Million
    <3> HIDE DEF t, x
    <3>6. (CHOOSE s \in 0..100 : 10000 * s >= x /\ 10000 * (s - 1) < x) = t
      BY <3>4, <3>5
    <3>7. QED
      BY <1>3, <2>1, <3>2, <3>4, <3>6 DEF Legible
  <2>4. QED
    BY <2>2, <2>3
<1>4. QED
  BY <1>1, <1>2, <1>3, VectorKinds

\* A raise does not lower the score.
LEMMA ScoreUp ==
  ASSUME NEW v \in Parts, NEW key \in Metrics, NEW w, Raised(v, w, key)
  PROVE  /\ w \in Parts /\ parseCVSSBaseScore(v) <= parseCVSSBaseScore(w)
         /\ parseCVSSBaseScore(v) = NoScore <=> parseCVSSBaseScore(w) = NoScore
<1>1. /\ w \in Parts /\ Impacted(w) = Impacted(v)
      /\ ScopeOf(w) = ScopeOf(v) \/ (ScopeOf(v) = "U" /\ ScopeOf(w) = "C")
      /\ \A k \in Metrics \ {"S"} :
            /\ HasMetric(w, k) <=> HasMetric(v, k)
            /\ HasMetric(v, k) => MetricValue(v, k) <= MetricValue(w, k)
  BY WeightsUp
<1> DEFINE needed == {"AV", "AC", "UI", "PR", Impacted(v)[1], Impacted(v)[2], Impacted(v)[3]}
<1>2. needed \subseteq Metrics \ {"S"}
  BY DEF Impacted, Metrics
<1>3. /\ Complete(v) = \A k \in needed : HasMetric(v, k)
      /\ Complete(w) = \A k \in needed : HasMetric(w, k)
  BY <1>1 DEF Complete
<1> HIDE DEF needed
<1>4. Complete(w) <=> Complete(v)
  BY <1>1, <1>2, <1>3
<1>5. "BS" \notin DOMAIN v /\ "BS" \notin DOMAIN w
  BY <1>1, VectorKinds
<1>6. CASE ~Complete(v)
  BY <1>1, <1>4, <1>5, <1>6 DEF parseCVSSBaseScore, NoScore
<1>7. CASE Complete(v)
  <2>1. \A k \in needed : MetricValue(v, k) <= MetricValue(w, k)
    BY <1>1, <1>2, <1>3, <1>7
  <2>2. Exploitability(v) <= Exploitability(w)
    BY <1>1, <1>4, <1>7, <2>1, ExploitabilityUp DEF needed
  <2>3. /\ Exploitability(v) \in Nat /\ Exploitability(w) \in Nat
        /\ ImpactOf(v) \in Int /\ ImpactOf(w) \in Int
        /\ Unrounded(v) \in Int /\ Unrounded(w) \in Int
    BY <1>1, <1>4, <1>7, ExploitabilityIs, UnroundedIs
  <2>4. Iss(v) \in IssValues /\ Iss(w) \in IssValues /\ Iss(v) <= Iss(w)
    <3>1. Iss(v) \in IssValues /\ Iss(w) \in IssValues
      BY <1>1, <1>4, <1>7, ImpactForms
    <3> DEFINE a(i) == 100 - MetricValue(v, Impacted(v)[i])
               b(i) == 100 - MetricValue(w, Impacted(v)[i])
    <3>2. ASSUME NEW i \in 1..3 PROVE a(i) \in Nat /\ b(i) \in Nat /\ b(i) <= a(i)
      <4>1. Impacted(v)[i] \in needed
        BY DEF needed
      <4>2. HasMetric(v, Impacted(v)[i]) /\ HasMetric(w, Impacted(v)[i])
        BY <1>3, <1>4, <1>7, <4>1
      <4>3. /\ MetricValue(v, Impacted(v)[i]) \in 0..100
            /\ MetricValue(w, Impacted(v)[i]) \in 0..100
        BY <1>1, <1>2, <4>1, <4>2, Weights
      <4>4. QED
        BY <2>1, <4>1, <4>3
    <3>3. Iss(v) = 1000000 - a(1) * a(2) * a(3) /\ Iss(w) = 1000000 - b(1) * b(2) * b(3)
      BY <1>1 DEF Iss, Million
    <3> HIDE DEF a, b
    <3>4. b(1) * b(2) \in Nat /\ a(1) * a(2) \in Nat /\ b(1) * b(2) <= a(1) * a(2)
      BY <3>2, ProductUp
    <3>5. /\ b(1) * b(2) * b(3) \in Nat /\ a(1) * a(2) * a(3) \in Nat
          /\ b(1) * b(2) * b(3) <= a(1) * a(2) * a(3)
      BY <3>2, <3>4, ProductUp
    <3>6. QED
      BY <3>1, <3>3, <3>5
  <2>5. ImpactOf(v) > 0 => ImpactOf(v) <= ImpactOf(w)
    <3>1. /\ ImpactOf(v) = IF ScopeOf(v) = "C" THEN Changed(Iss(v)) ELSE Plain(Iss(v))
          /\ ImpactOf(w) = IF ScopeOf(w) = "C" THEN Changed(Iss(w)) ELSE Plain(Iss(w))
      BY <1>1, <1>4, <1>7, ImpactForms
    <3>2. /\ Plain(Iss(v)) <= Plain(Iss(w)) /\ Changed(Iss(v)) <= Changed(Iss(w))
          /\ Plain(Iss(v)) > 0 => Plain(Iss(v)) <= Changed(Iss(v))
          /\ Plain(Iss(v)) \in Int /\ Plain(Iss(w)) \in Int
          /\ Changed(Iss(v)) \in Int /\ Changed(Iss(w)) \in Int
      BY <2>4, ImpactValues
    <3>3. QED
      BY <1>1, <3>1, <3>2
  <2>6. ImpactOf(v) > 0 => Unrounded(v) <= Unrounded(w)
    BY <1>1, <2>2, <2>3, <2>5, SMT DEF Unrounded
  <2>7. parseCVSSBaseScore(v) = (IF ImpactOf(v) <= 0 THEN 0 ELSE clampScore(roundup(Unrounded(v))))
    BY <1>5, <1>7 DEF parseCVSSBaseScore
  <2>8. parseCVSSBaseScore(w) = (IF ImpactOf(w) <= 0 THEN 0 ELSE clampScore(roundup(Unrounded(w))))
    BY <1>4, <1>5, <1>7 DEF parseCVSSBaseScore
  <2>9. w \in Parts /\ parseCVSSBaseScore(v) # NoScore /\ parseCVSSBaseScore(w) # NoScore
    <3>1. Legible(v) /\ Legible(w)
      BY <1>4, <1>5, <1>7 DEF Legible
    <3>2. parseCVSSBaseScore(v) \in 0..100 /\ parseCVSSBaseScore(w) \in 0..100
      BY <1>1, <3>1, ScoreIsStandard, VectorKinds
    <3>3. QED
      BY <1>1, <3>2 DEF NoScore
  <2>10. CASE ImpactOf(v) <= 0
    <3>1. roundup(Unrounded(w)) \in Int
      BY <2>3, Rounding
    <3>2. clampScore(roundup(Unrounded(w))) \in 0..100
      BY <3>1, Rounding
    <3>3. QED
      BY <2>7, <2>8, <2>10, <2>9, <3>2
  <2>11. CASE ~(ImpactOf(v) <= 0)
    <3>1. ~(ImpactOf(w) <= 0) /\ Unrounded(v) <= Unrounded(w)
      BY <2>3, <2>5, <2>6, <2>11
    <3>2. /\ roundup(Unrounded(v)) \in Int /\ roundup(Unrounded(w)) \in Int
          /\ roundup(Unrounded(v)) <= roundup(Unrounded(w))
      BY <2>3, <3>1, Rounding
    <3>3. clampScore(roundup(Unrounded(v))) <= clampScore(roundup(Unrounded(w)))
      BY <3>2, Rounding
    <3>4. QED
      BY <2>7, <2>8, <2>11, <2>9, <3>1, <3>3
  <2>12. QED
    BY <2>10, <2>11
<1>8. QED
  BY <1>6, <1>7

-----------------------------------------------------------------------------
(* The loop over the scores of a record.                                   *)

\* What BestScore is defined by: the fold written out.
BestUpTo(raw) ==
  CHOOSE iter : iter = [s \in SUBSET (DOMAIN raw.severity) |->
    IF s = {} THEN NoScore
    ELSE IF /\ raw.severity[Max(s)].type \in ScoredTypes
            /\ parseCVSSBaseScore(raw.severity[Max(s)].score) > iter[s \ {Max(s)}]
         THEN parseCVSSBaseScore(raw.severity[Max(s)].score) ELSE iter[s \ {Max(s)}]]

LEMMA BestScoreFolds ==
  ASSUME NEW raw
  PROVE  BestScore(raw) = BestUpTo(raw)[DOMAIN raw.severity]
BY SMT DEF BestScore, BestUpTo, FoldLeft, MapThenFoldSet

\* What an entry of a record adds to its score.
Score(sev) == IF sev.type \in ScoredTypes THEN parseCVSSBaseScore(sev.score) ELSE NoScore

LEMMA RecIs ==
  ASSUME NEW raw \in Record
  PROVE  /\ Len(raw.severity) \in Nat /\ DOMAIN raw.severity = 1..Len(raw.severity)
         /\ \A j \in DOMAIN raw.severity :
              /\ raw.severity[j].score \in Vector
              /\ parseCVSSBaseScore(raw.severity[j].score) \in -1..100
              /\ Score(raw.severity[j]) \in -1..100
<1>1. /\ Len(raw.severity) \in Nat /\ DOMAIN raw.severity = 1..Len(raw.severity)
      /\ \A j \in DOMAIN raw.severity : raw.severity[j].score \in Vector
  <2> DEFINE S == [type : STRING, score : Vector]
  <2>1. raw.severity \in Seq(S)
    BY DEF Record
  <2>2. \A sev \in S : sev.score \in Vector
    OBVIOUS
  <2> HIDE DEF S
  <2>3. QED
    BY <2>1, <2>2
<1>2. ASSUME NEW v \in Vector PROVE parseCVSSBaseScore(v) \in -1..100
  <2>1. CASE Legible(v)
    BY <2>1, ScoreIsStandard
  <2>2. CASE ~Legible(v)
    BY <2>2, ScoreIsStandard DEF NoScore
  <2>3. QED
    BY <2>1, <2>2
<1>3. ASSUME NEW j \in DOMAIN raw.severity
      PROVE  /\ parseCVSSBaseScore(raw.severity[j].score) \in -1..100
             /\ Score(raw.severity[j]) \in -1..100
  <2>1. parseCVSSBaseScore(raw.severity[j].score) \in -1..100
    BY <1>1, <1>2
  <2>2. QED
    BY <2>1 DEF Score, NoScore
<1>4. QED
  BY <1>1, <1>3

LEMMA TakesBetter ==
  ASSUME NEW a \in -1..100, NEW p \in -1..100, NEW kind, NEW b, NEW s,
         b = IF kind \in ScoredTypes /\ p > a THEN p ELSE a,
         s = IF kind \in ScoredTypes THEN p ELSE -1
  PROVE  b \in -1..100 /\ s \in Int /\ a <= b /\ s <= b /\ (b = a \/ b = s)
OBVIOUS

\* The loop ends with the best score.
LEMMA BestIs ==
  ASSUME NEW raw \in Record
  PROVE  /\ BestScore(raw) \in -1..100
         /\ \A j \in DOMAIN raw.severity : Score(raw.severity[j]) <= BestScore(raw)
         /\ \/ BestScore(raw) = NoScore
            \/ \E j \in DOMAIN raw.severity : BestScore(raw) = Score(raw.severity[j])
<1> DEFINE n == Len(raw.severity)
           V == -1..100
           kind(i) == raw.severity[i].type
           parsed(i) == parseCVSSBaseScore(raw.severity[i].score)
           score(i) == Score(raw.severity[i])
           better(best, i) == IF kind(i) \in ScoredTypes /\ parsed(i) > best THEN parsed(i) ELSE best
           step == [i \in 1..n |-> [best \in V |-> better(best, i)]]
           g == BestUpTo(raw)
<1>1. n \in Nat /\ DOMAIN raw.severity = 1..n
  BY RecIs
<1>2. \A i \in 1..n : /\ parsed(i) \in -1..100
                      /\ score(i) = IF kind(i) \in ScoredTypes THEN parsed(i) ELSE -1
  BY <1>1, RecIs DEF Score, NoScore
<1>3. BestScore(raw) = g[1..n]
  BY <1>1, BestScoreFolds
<1> HIDE DEF n, kind, parsed, score
<1>4. g = [s \in SUBSET (1..n) |-> IF s = {} THEN -1 ELSE better(g[s \ {Max(s)}], Max(s))]
  <2>1. step \in [1..n -> [V -> V]]
    BY <1>2
  <2>2. -1 \in V
    OBVIOUS
  <2> HIDE DEF step, V, n
  <2>3. PICK h \in [SUBSET (1..n) -> V] : Folds1(h, n, -1, step)
    BY <1>1, <2>1, <2>2, FoldExists
  <2>4. ASSUME NEW s \in SUBSET (1..n)
        PROVE  h[s] = IF s = {} THEN -1 ELSE better(h[s \ {Max(s)}], Max(s))
    <3>1. h[s] = IF s = {} THEN -1 ELSE step[Max(s)][h[s \ {Max(s)}]]
      BY <2>3 DEF Folds1
    <3>2. CASE s # {}
      <4>1. s \in SUBSET (0..n)
        BY <1>1
      <4>2. Max(s) \in 1..n
        BY <1>1, <3>2, <4>1, GreatestElement
      <4>3. s \ {Max(s)} \in SUBSET (1..n)
        OBVIOUS
      <4>4. h[s \ {Max(s)}] \in V
        BY <2>3, <4>3
      <4> HIDE DEF better
      <4>5. step[Max(s)][h[s \ {Max(s)}]] = better(h[s \ {Max(s)}], Max(s))
        BY <4>2, <4>4 DEF step
      <4>6. QED
        BY <3>1, <3>2, <4>5
    <3>3. QED
      BY <3>1, <3>2
  <2>5. h = [s \in SUBSET (1..n) |-> IF s = {} THEN -1 ELSE better(h[s \ {Max(s)}], Max(s))]
    <3>1. h = [s \in SUBSET (1..n) |-> h[s]]
      BY <2>3
    <3> HIDE DEF better
    <3>2. QED
      BY <2>4, <3>1, Zenon
  <2>6. QED
    BY <1>1, <2>5 DEF BestUpTo, NoScore, kind, parsed, n
<1>5. g[1..0] = -1
  <2>1. 1..0 = {} /\ {} \in SUBSET (1..n)
    OBVIOUS
  <2> HIDE DEF g
  <2> HIDE DEF better
  <2>2. g[{}] = -1
    BY <1>4, <2>1
  <2>3. QED
    BY <2>1, <2>2
<1>6. ASSUME NEW m \in 1..n PROVE g[1..m] = better(g[1..(m - 1)], m)
  <2>1. 1..m # {} /\ 1..m \in SUBSET (1..n) /\ m \in Nat \ {0}
    BY <1>1
  <2>2. Max(1..m) = m /\ (1..m) \ {m} = 1..(m - 1)
    BY <2>1, LastIndex
  <2> HIDE DEF g, better
  <2>3. QED
    BY <1>4, <2>1, <2>2
<1> DEFINE Best(m) == /\ g[1..m] \in -1..100
                      /\ \A j \in 1..m : score(j) <= g[1..m]
                      /\ g[1..m] = -1 \/ \E j \in 1..m : g[1..m] = score(j)
           A == {m \in 0..n : Best(m)}
<1> HIDE DEF g
<1>7. 0 \in A
  BY <1>1, <1>5
<1>8. ASSUME NEW m \in 1..n, m - 1 \in A PROVE m \in A
  <2>1. m \in 0..n /\ 1..m = (1..(m - 1)) \union {m}
    BY <1>1
  <2>2. g[1..m] = better(g[1..(m - 1)], m)
    BY <1>6
  <2>3. /\ g[1..(m - 1)] \in -1..100
        /\ \A j \in 1..(m - 1) : score(j) <= g[1..(m - 1)]
        /\ g[1..(m - 1)] = -1 \/ \E j \in 1..(m - 1) : g[1..(m - 1)] = score(j)
    <3>1. Best(m - 1)
      <4> HIDE DEF Best
      <4>1. QED
        BY <1>8
    <3>2. QED
      BY <3>1
  <2>4. ASSUME NEW j \in 1..m PROVE score(j) \in Int
    <3>1. j \in 1..n
      BY <1>1
    <3>2. QED
      BY <1>2, <3>1
  <2>5. /\ parsed(m) \in -1..100
        /\ score(m) = IF kind(m) \in ScoredTypes THEN parsed(m) ELSE -1
    BY <1>2
  <2>6. g[1..m] \in -1..100 /\ g[1..(m - 1)] <= g[1..m] /\ score(m) <= g[1..m]
    <3> DEFINE b == g[1..m]  a == g[1..(m - 1)]  k == kind(m)  p == parsed(m)  s == score(m)
    <3>1. /\ a \in -1..100 /\ p \in -1..100
          /\ b = IF k \in ScoredTypes /\ p > a THEN p ELSE a
          /\ s = IF k \in ScoredTypes THEN p ELSE -1
      BY <2>2, <2>3, <2>5
    <3> HIDE DEF b, a, k, p, s
    <3>2. b \in -1..100 /\ a <= b /\ s <= b
      BY <3>1, TakesBetter
    <3>3. QED
      BY <3>2 DEF b, a, s
  <2>7. g[1..m] = g[1..(m - 1)] \/ g[1..m] = score(m)
    BY <2>2, <2>3, <2>5, TakesBetter
  <2>8. ASSUME NEW j \in 1..m PROVE score(j) <= g[1..m]
    <3>1. CASE j = m
      BY <2>6, <3>1
    <3>2. CASE j \in 1..(m - 1)
      <4>1. score(j) <= g[1..(m - 1)] /\ score(j) \in Int
        BY <2>3, <2>4, <3>2
      <4> DEFINE b == g[1..m]  a == g[1..(m - 1)]
      <4>2. a \in -1..100 /\ b \in -1..100 /\ a <= b /\ score(j) <= a /\ score(j) \in Int
        BY <2>3, <2>6, <4>1
      <4> HIDE DEF a, b
      <4>3. score(j) <= b
        BY <4>2
      <4>4. QED
        BY <4>3 DEF b
    <3>3. QED
      BY <2>1, <3>1, <3>2
  <2>9. g[1..m] = -1 \/ \E j \in 1..m : g[1..m] = score(j)
    BY <2>1, <2>3, <2>7
  <2>10. QED
    BY <2>1, <2>6, <2>8, <2>9
<1>9. n \in A
  <2> HIDE DEF A
  <2>1. \A m \in 0..n : m \in A
    BY <1>1, <1>7, <1>8, Induction
  <2>2. QED
    BY <1>1, <2>1
<1>10. QED
  BY <1>1, <1>3, <1>9 DEF NoScore, score

-----------------------------------------------------------------------------
(* The band of a record.                                                   *)

LEMMA BandsRise ==
  /\ \A t \in 0..100 : /\ bandFromScore(t) = Rating(t)
                       /\ SeverityRank(bandFromScore(t)) \in 0..4
  /\ \A t, u \in 0..100 :
       t <= u => SeverityRank(bandFromScore(t)) <= SeverityRank(bandFromScore(u))
<1>1. ASSUME NEW t \in 0..100
      PROVE  /\ bandFromScore(t) \in {"critical", "high", "medium", "low"}
             /\ bandFromScore(t) = "critical" <=> t \in 90..100
             /\ bandFromScore(t) = "high" <=> t \in 70..89
             /\ bandFromScore(t) = "medium" <=> t \in 40..69
             /\ bandFromScore(t) = "low" <=> t \in 0..39
  <2>1. CASE t \in 90..100
    BY <2>1 DEF bandFromScore
  <2>2. CASE t \in 70..89
    BY <2>2 DEF bandFromScore
  <2>3. CASE t \in 40..69
    BY <2>3 DEF bandFromScore
  <2>4. CASE t \in 0..39
    BY <2>4 DEF bandFromScore
  <2>5. QED
    BY <2>1, <2>2, <2>3, <2>4
<1>2. ASSUME NEW t \in 0..100 PROVE bandFromScore(t) = Rating(t)
  <2> DEFINE in(band) == t \in CASE band = "critical" -> 90..100 [] band = "high" -> 70..89
                                  [] band = "medium" -> 40..69 [] band = "low" -> 0..39
             four == {"critical", "high", "medium", "low"}
             b == bandFromScore(t)
  <2>1. \A band \in four : in(band) <=> b = band
    <3>1. in("critical") <=> t \in 90..100
      OBVIOUS
    <3>2. in("high") <=> t \in 70..89
      OBVIOUS
    <3>3. in("medium") <=> t \in 40..69
      OBVIOUS
    <3>4. in("low") <=> t \in 0..39
      OBVIOUS
    <3> HIDE DEF in
    <3>5. QED
      BY <1>1, <3>1, <3>2, <3>3, <3>4
  <2>2. Rating(t) = CHOOSE band \in four : in(band)
    BY DEF Rating
  <2> HIDE DEF in
  <2>3. b \in four
    BY <1>1
  <2> HIDE DEF four, b
  <2>4. (CHOOSE band \in four : in(band)) = b
    BY <2>1, <2>3
  <2>5. QED
    BY <2>2, <2>4 DEF b
<1>3. /\ SeverityRank("critical") = 4 /\ SeverityRank("high") = 3
      /\ SeverityRank("medium") = 2 /\ SeverityRank("low") = 1
  BY DEF SeverityRank
<1>4. ASSUME NEW t \in 0..100, NEW u \in 0..100, t <= u
      PROVE  SeverityRank(bandFromScore(t)) <= SeverityRank(bandFromScore(u))
  <2> DEFINE b == bandFromScore(t)  c == bandFromScore(u)
  <2>1. /\ b \in {"critical", "high", "medium", "low"} /\ c \in {"critical", "high", "medium", "low"}
        /\ b = "critical" => c = "critical"
        /\ b = "high" => c \in {"critical", "high"}
        /\ b = "medium" => c \in {"critical", "high", "medium"}
    BY <1>1, <1>4
  <2> HIDE DEF b, c
  <2>2. SeverityRank(b) <= SeverityRank(c)
    BY <1>3, <2>1
  <2>3. QED
    BY <2>2 DEF b, c
<1>5. \A t \in 0..100 : SeverityRank(bandFromScore(t)) \in 0..4
  BY <1>1, <1>3
<1>6. QED
  BY <1>2, <1>4, <1>5

\* What an entry of the list counts for, by the standard.
LEMMA ScoreIs ==
  ASSUME NEW raw \in Record, NEW j \in DOMAIN raw.severity
  PROVE  IF raw.severity[j].type \in ScoredTypes /\ Legible(raw.severity[j].score)
         THEN /\ Score(raw.severity[j]) \in 0..100
              /\ Score(raw.severity[j]) = Standard(raw.severity[j].score)
         ELSE Score(raw.severity[j]) = NoScore
<1> DEFINE v == raw.severity[j].score  k == raw.severity[j].type
<1>1. v \in Vector
  BY RecIs
<1>2. Score(raw.severity[j]) = IF k \in ScoredTypes THEN parseCVSSBaseScore(v) ELSE NoScore
  BY DEF Score
<1> HIDE DEF v, k
<1>3. IF Legible(v) THEN parseCVSSBaseScore(v) = Standard(v) /\ Standard(v) \in 0..100
      ELSE parseCVSSBaseScore(v) = NoScore
  BY <1>1, ScoreIsStandard
<1>4. IF k \in ScoredTypes /\ Legible(v)
      THEN Score(raw.severity[j]) \in 0..100 /\ Score(raw.severity[j]) = Standard(v)
      ELSE Score(raw.severity[j]) = NoScore
  BY <1>2, <1>3
<1>5. QED
  BY <1>4 DEF v, k

\* computeSeverity gives the band of the standard.
LEMMA RecordBand ==
  ASSUME NEW raw \in Record
  PROVE  LET rated == {Rating(Standard(sev.score)) :
                         sev \in {s \in Range(raw.severity) :
                                    s.type \in ScoredTypes /\ Legible(s.score)}}
             band == computeSeverity(raw)
         IN IF rated = {} THEN band = fromDatabase(raw)
            ELSE band \in rated /\ \A b \in rated : SeverityRank(b) <= SeverityRank(band)
<1> DEFINE sevs == raw.severity
           counts(sev) == sev.type \in ScoredTypes /\ Legible(sev.score)
           rate(sev) == Rating(Standard(sev.score))
           rated == {rate(sev) : sev \in {s \in Range(sevs) : counts(s)}}
           best == BestScore(raw)
           band == computeSeverity(raw)
<1>1. \A j \in DOMAIN sevs : /\ counts(sevs[j])
                                => /\ Score(sevs[j]) \in 0..100
                                   /\ rate(sevs[j]) = bandFromScore(Score(sevs[j]))
                             /\ ~counts(sevs[j]) => Score(sevs[j]) = NoScore
  <2> TAKE j \in DOMAIN sevs
  <2>1. CASE counts(sevs[j])
    <3>1. Score(sevs[j]) \in 0..100 /\ Score(sevs[j]) = Standard(sevs[j].score)
      BY <2>1, ScoreIs
    <3>2. bandFromScore(Score(sevs[j])) = Rating(Score(sevs[j]))
      BY <3>1, BandsRise
    <3>3. QED
      BY <2>1, <3>1, <3>2
  <2>2. CASE ~counts(sevs[j])
    BY <2>2, ScoreIs
  <2>3. QED
    BY <2>1, <2>2
<1>2. /\ best \in -1..100
      /\ \A j \in DOMAIN sevs : Score(sevs[j]) <= best
      /\ best = NoScore \/ \E j \in DOMAIN sevs : best = Score(sevs[j])
  BY BestIs
<1>3. band = IF best # NoScore THEN bandFromScore(best) ELSE fromDatabase(raw)
  BY DEF computeSeverity
<1>4. \A sev : sev \in Range(sevs) <=> \E j \in DOMAIN sevs : sev = sevs[j]
  BY DEF Range
<1> HIDE DEF sevs, counts, rate, best, band
<1>5. ASSUME best = NoScore PROVE rated = {} /\ band = fromDatabase(raw)
  <2>1. \A j \in DOMAIN sevs : ~counts(sevs[j])
    BY <1>1, <1>2, <1>5 DEF NoScore
  <2>2. rated = {}
    BY <1>4, <2>1, Zenon
  <2> HIDE DEF rated
  <2>3. QED
    BY <1>3, <1>5, <2>2
<1>6. ASSUME best # NoScore
      PROVE  band \in rated /\ \A b \in rated : SeverityRank(b) <= SeverityRank(band)
  <2>1. PICK j \in DOMAIN sevs : best = Score(sevs[j])
    BY <1>2, <1>6
  <2>2. counts(sevs[j]) /\ band = rate(sevs[j]) /\ best \in 0..100 /\ band = bandFromScore(best)
    BY <1>1, <1>3, <1>6, <2>1
  <2>3. band \in rated
    BY <1>4, <2>2
  <2>4. ASSUME NEW b \in rated PROVE SeverityRank(b) <= SeverityRank(band)
    <3>1. PICK i \in DOMAIN sevs : counts(sevs[i]) /\ b = rate(sevs[i])
      BY <1>4
    <3>2. Score(sevs[i]) \in 0..100 /\ b = bandFromScore(Score(sevs[i])) /\ Score(sevs[i]) <= best
      BY <1>1, <1>2, <3>1
    <3>3. SeverityRank(bandFromScore(Score(sevs[i]))) <= SeverityRank(bandFromScore(best))
      BY <2>2, <3>2, BandsRise
    <3>4. QED
      BY <2>2, <3>2, <3>3
  <2> HIDE DEF rated
  <2>5. QED
    BY <2>3, <2>4
<1> HIDE DEF rated
<1>7. IF rated = {} THEN band = fromDatabase(raw)
      ELSE band \in rated /\ \A b \in rated : SeverityRank(b) <= SeverityRank(band)
  BY <1>5, <1>6
<1>8. QED
  BY <1>7 DEF sevs, counts, rate, band, rated

\* What Revise does to a record: one metric of one entry goes up.
Revised(raw, more) ==
  \E j \in DOMAIN raw.severity : \E key \in Metrics \intersect DOMAIN raw.severity[j].score :
    \E n \in DOMAIN Ascending(key) \ {Len(Ascending(key))} :
      /\ raw.severity[j].score[key] = Ascending(key)[n]
      /\ more = [raw EXCEPT !.severity[j].score[key] = Ascending(key)[n + 1]]

LEMMA RecordUp ==
  ASSUME NEW raw \in Record, NEW more, Revised(raw, more)
  PROVE  /\ more \in Record
         /\ SeverityRank(computeSeverity(raw)) <= SeverityRank(computeSeverity(more))
<1> DEFINE S == [type : STRING, score : Vector]
<1>1. PICK j \in DOMAIN raw.severity : \E key \in Metrics \intersect DOMAIN raw.severity[j].score :
        \E n \in DOMAIN Ascending(key) \ {Len(Ascending(key))} :
          /\ raw.severity[j].score[key] = Ascending(key)[n]
          /\ more = [raw EXCEPT !.severity[j].score[key] = Ascending(key)[n + 1]]
  BY DEF Revised
<1>2. PICK key \in Metrics \intersect DOMAIN raw.severity[j].score :
        \E n \in DOMAIN Ascending(key) \ {Len(Ascending(key))} :
          /\ raw.severity[j].score[key] = Ascending(key)[n]
          /\ more = [raw EXCEPT !.severity[j].score[key] = Ascending(key)[n + 1]]
  BY <1>1, Zenon
<1>3. PICK n \in DOMAIN Ascending(key) \ {Len(Ascending(key))} :
        /\ raw.severity[j].score[key] = Ascending(key)[n]
        /\ more = [raw EXCEPT !.severity[j].score[key] = Ascending(key)[n + 1]]
  BY <1>2, Zenon
<1> DEFINE sevs == raw.severity
           sev == sevs[j]
           v == sev.score
           w == [v EXCEPT ![key] = Ascending(key)[n + 1]]
           up == [sev EXCEPT !.score = w]
           ups == [sevs EXCEPT ![j] = up]
<1>4. more = [raw EXCEPT !.severity = ups]
  BY <1>3
<1>5. sevs \in Seq(S) /\ raw = [severity |-> sevs, database |-> raw.database] /\ raw.database \in STRING
  BY DEF Record
<1>6. sev \in S /\ j \in DOMAIN sevs /\ v \in Vector
  <2> HIDE DEF S, sevs
  <2>1. j \in DOMAIN sevs
    BY DEF sevs
  <2>2. sev \in S
    BY <1>5, <2>1
  <2>3. QED
    BY <2>1, <2>2 DEF S
<1>7. Raised(v, w, key) /\ key \in Metrics /\ v \in Parts
  <2>1. key \in DOMAIN v
    OBVIOUS
  <2>2. Raised(v, w, key)
    BY <1>3 DEF Raised
  <2>3. v \in Parts
    <3> HIDE DEF v
    <3>1. QED
      BY <1>6, <2>1, VectorKinds DEF Scored, Metrics
  <2>4. QED
    BY <2>2, <2>3
<1> HIDE DEF v, w
<1>8. /\ w \in Parts /\ parseCVSSBaseScore(v) <= parseCVSSBaseScore(w)
      /\ parseCVSSBaseScore(v) = NoScore <=> parseCVSSBaseScore(w) = NoScore
  BY <1>7, ScoreUp
<1>9. up \in S /\ up.type = sev.type /\ up.score = w /\ sev.score = v
  <2>1. w \in Vector
    BY <1>8, VectorKinds
  <2>2. sev.score = v
    BY DEF v
  <2> HIDE DEF sev
  <2>3. QED
    BY <1>6, <2>1, <2>2
<1>10. /\ Score(sev) <= Score(up)
       /\ Score(sev) = NoScore <=> Score(up) = NoScore
  <2> HIDE DEF sev, up
  <2>1. QED
    BY <1>8, <1>9 DEF Score, NoScore
<1> HIDE DEF S, sev, up
<1>11. /\ ups \in Seq(S) /\ DOMAIN ups = DOMAIN sevs /\ ups[j] = up
       /\ \A i \in DOMAIN sevs \ {j} : ups[i] = sevs[i]
  <2> HIDE DEF sevs
  <2>1. QED
    BY <1>5, <1>6, <1>9
<1> HIDE DEF ups
<1>12. more \in Record /\ more.severity = ups /\ more.database = raw.database
  <2>1. more = [severity |-> ups, database |-> raw.database]
    BY <1>4, <1>5
  <2>2. QED
    BY <1>5, <1>11, <2>1 DEF Record, S
<1> DEFINE b == BestScore(raw)  c == BestScore(more)
<1>13. /\ b \in -1..100
       /\ \A i \in DOMAIN sevs : Score(sevs[i]) <= b /\ Score(sevs[i]) \in -1..100
       /\ b = NoScore \/ \E i \in DOMAIN sevs : b = Score(sevs[i])
  BY BestIs, RecIs
<1>14. /\ c \in -1..100
       /\ \A i \in DOMAIN ups : Score(ups[i]) <= c /\ Score(ups[i]) \in -1..100
       /\ c = NoScore \/ \E i \in DOMAIN ups : c = Score(ups[i])
  BY <1>12, BestIs, RecIs
<1>15. \A i \in DOMAIN sevs : /\ Score(sevs[i]) <= Score(ups[i])
                             /\ (Score(sevs[i]) = NoScore <=> Score(ups[i]) = NoScore)
  <2> TAKE i \in DOMAIN sevs
  <2>1. CASE i = j
    BY <1>10, <1>11, <2>1 DEF sev
  <2>2. CASE i # j
    <3>1. ups[i] = sevs[i]
      BY <1>11, <2>2
    <3> DEFINE x == Score(sevs[i])
    <3>2. x \in -1..100
      BY <1>13
    <3> HIDE DEF x
    <3>3. x <= x
      BY <3>2
    <3>4. QED
      BY <3>1, <3>3 DEF x
  <2>3. QED
    BY <2>1, <2>2
<1> HIDE DEF sevs, b, c
<1>16. b <= c /\ (b = NoScore <=> c = NoScore)
  <2>1. CASE b = NoScore
    <3>1. ASSUME NEW i \in DOMAIN sevs PROVE Score(sevs[i]) = NoScore
      <4> DEFINE x == Score(sevs[i])
      <4>1. x \in -1..100 /\ x <= b
        BY <1>13
      <4> HIDE DEF x
      <4>2. x = NoScore
        BY <2>1, <4>1 DEF NoScore
      <4>3. QED
        BY <4>2 DEF x
    <3>2. c = NoScore
      BY <1>11, <1>14, <1>15, <3>1
    <3>3. QED
      BY <1>13, <2>1, <3>2
  <2>2. CASE b # NoScore
    <3>1. PICK i \in DOMAIN sevs : b = Score(sevs[i])
      BY <1>13, <2>2
    <3>2. b <= Score(ups[i]) /\ Score(ups[i]) <= c /\ Score(ups[i]) \in -1..100
      BY <1>11, <1>14, <1>15, <3>1
    <3> DEFINE x == Score(ups[i])
    <3>3. b <= x /\ x <= c /\ x \in -1..100 /\ b \in -1..100 /\ c \in -1..100
      BY <1>13, <1>14, <3>2
    <3> HIDE DEF x
    <3>4. QED
      BY <2>2, <3>3 DEF NoScore
  <2>3. QED
    BY <2>1, <2>2
<1>17. /\ computeSeverity(raw) = IF b # NoScore THEN bandFromScore(b) ELSE fromDatabase(raw)
       /\ computeSeverity(more) = IF c # NoScore THEN bandFromScore(c) ELSE fromDatabase(more)
  BY DEF computeSeverity, b, c
<1>18. fromDatabase(raw) = fromDatabase(more)
  BY <1>12 DEF fromDatabase
<1>19. \A s : SeverityRank(s) \in 0..4
  BY DEF SeverityRank
<1>20. CASE b = NoScore
  BY <1>16, <1>17, <1>18, <1>19, <1>20, <1>12
<1>21. CASE b # NoScore
  <2>1. b \in 0..100 /\ c \in 0..100 /\ b <= c
    BY <1>13, <1>14, <1>16, <1>21 DEF NoScore
  <2>2. SeverityRank(bandFromScore(b)) <= SeverityRank(bandFromScore(c))
    BY <2>1, BandsRise
  <2>3. QED
    BY <1>12, <1>16, <1>17, <1>21, <2>2
<1>22. QED
  BY <1>20, <1>21

-----------------------------------------------------------------------------
(* The records as time goes by.                                            *)

\* What a query made of a record is no worse than what there is of it now.
RecordsOk ==
  /\ records = None \/ records \in Seq(Record)
  /\ records = None => decoded = {}
  /\ \A v \in decoded : /\ v.id \in DOMAIN records
                        /\ SeverityRank(v.severity) <= SeverityRank(computeSeverity(records[v.id]))

\* Revise at the level of the list of records.
LEMMA ReviseIs ==
  ASSUME records # None, RecordsOk, Revise
  PROVE  /\ records' \in Seq(Record) /\ DOMAIN records' = DOMAIN records
         /\ \A i \in DOMAIN records :
              SeverityRank(computeSeverity(records[i])) <= SeverityRank(computeSeverity(records'[i]))
<1>1. records \in Seq(Record)
  BY DEF RecordsOk
<1>2. PICK i \in DOMAIN records : \E j \in DOMAIN records[i].severity :
        \E key \in Metrics \intersect DOMAIN records[i].severity[j].score :
          \E n \in DOMAIN Ascending(key) \ {Len(Ascending(key))} :
            /\ records[i].severity[j].score[key] = Ascending(key)[n]
            /\ records' = [records EXCEPT ![i].severity[j].score[key] = Ascending(key)[n + 1]]
  BY Zenon DEF Revise
<1> DEFINE raw == records[i]
<1>3. PICK more : Revised(raw, more) /\ records' = [records EXCEPT ![i] = more]
  <2>1. PICK j \in DOMAIN raw.severity :
        \E key \in Metrics \intersect DOMAIN raw.severity[j].score :
          \E n \in DOMAIN Ascending(key) \ {Len(Ascending(key))} :
            /\ raw.severity[j].score[key] = Ascending(key)[n]
            /\ records' = [records EXCEPT ![i].severity[j].score[key] = Ascending(key)[n + 1]]
    BY <1>2, Zenon
  <2>2. PICK key \in Metrics \intersect DOMAIN raw.severity[j].score :
          \E n \in DOMAIN Ascending(key) \ {Len(Ascending(key))} :
            /\ raw.severity[j].score[key] = Ascending(key)[n]
            /\ records' = [records EXCEPT ![i].severity[j].score[key] = Ascending(key)[n + 1]]
    BY <2>1, Zenon
  <2>3. PICK n \in DOMAIN Ascending(key) \ {Len(Ascending(key))} :
            /\ raw.severity[j].score[key] = Ascending(key)[n]
            /\ records' = [records EXCEPT ![i].severity[j].score[key] = Ascending(key)[n + 1]]
    BY <2>2, Zenon
  <2> DEFINE more == [raw EXCEPT !.severity[j].score[key] = Ascending(key)[n + 1]]
  <2>4. Revised(raw, more)
    BY <2>3, Zenon DEF Revised
  <2>5. records' = [records EXCEPT ![i] = more]
    BY <2>3
  <2> HIDE DEF more
  <2>6. QED
    BY <2>4, <2>5
<1>4. raw \in Record
  BY <1>1
<1>5. more \in Record /\ SeverityRank(computeSeverity(raw)) <= SeverityRank(computeSeverity(more))
  BY <1>3, <1>4, RecordUp
<1>6. records' \in Seq(Record) /\ DOMAIN records' = DOMAIN records
  BY <1>1, <1>3, <1>5
<1>7. ASSUME NEW k \in DOMAIN records
      PROVE  SeverityRank(computeSeverity(records[k])) <= SeverityRank(computeSeverity(records'[k]))
  <2>1. CASE k = i
    BY <1>1, <1>3, <1>5, <2>1
  <2>2. CASE k # i
    <3>1. records'[k] = records[k]
      BY <1>1, <1>3, <2>2
    <3>2. SeverityRank(computeSeverity(records[k])) \in 0..4
      BY Ranks
    <3> DEFINE rank == SeverityRank(computeSeverity(records[k]))
    <3>3. rank <= rank
      BY <3>2
    <3>4. QED
      BY <3>1, <3>3
  <2>3. QED
    BY <2>1, <2>2
<1>8. QED
  BY <1>6, <1>7

LEMMA VulnsIs ==
  /\ \A v \in Vulns : v.id \in DOMAIN records /\ v.severity = computeSeverity(records[v.id])
  /\ \A i \in DOMAIN records : [id |-> i, severity |-> computeSeverity(records[i])] \in Vulns
<1>1. ASSUME NEW v \in Vulns
      PROVE  v.id \in DOMAIN records /\ v.severity = computeSeverity(records[v.id])
  <2>1. PICK i \in DOMAIN records : v = [id |-> i, severity |-> computeSeverity(records[i])]
    BY DEF Vulns
  <2>2. v.id = i /\ v.severity = computeSeverity(records[i])
    BY <2>1
  <2>3. QED
    BY <2>2
<1>2. \A i \in DOMAIN records : [id |-> i, severity |-> computeSeverity(records[i])] \in Vulns
  BY Zenon DEF Vulns
<1>3. QED
  BY <1>1, <1>2

LEMMA RecordsStep ==
  ASSUME RecordsOk, [AdvisoriesNext]_<<vars, records, decoded>>
  PROVE  RecordsOk'
<1>1. CASE Appear
  <2>1. records' \in Seq(Record) /\ records' # None /\ decoded' = decoded /\ decoded = {}
    BY <1>1, AdvisoriesAssumption DEF Appear, RecordsOk
  <2>2. QED
    BY <2>1 DEF RecordsOk
<1>2. CASE Decode
  <2>1. records' = records /\ records # None /\ decoded' = Vulns
    BY <1>2 DEF Decode
  <2>2. ASSUME NEW v \in Vulns
        PROVE  /\ v.id \in DOMAIN records
               /\ SeverityRank(v.severity) <= SeverityRank(computeSeverity(records[v.id]))
    <3>1. v.id \in DOMAIN records /\ v.severity = computeSeverity(records[v.id])
      BY VulnsIs
    <3> DEFINE rank == SeverityRank(v.severity)
    <3>2. rank \in 0..4
      BY Ranks
    <3>3. rank <= rank
      BY <3>2
    <3>4. QED
      BY <3>1, <3>3
  <2>3. QED
    BY <2>1, <2>2 DEF RecordsOk
<1>3. CASE Revise
  <2>1. records # None /\ decoded' = decoded
    BY <1>3 DEF Revise
  <2>2. /\ records' \in Seq(Record) /\ DOMAIN records' = DOMAIN records
        /\ \A i \in DOMAIN records :
             SeverityRank(computeSeverity(records[i])) <= SeverityRank(computeSeverity(records'[i]))
    BY <1>3, <2>1, ReviseIs
  <2>3. records' # None
    BY <2>2, AdvisoriesAssumption
  <2>4. ASSUME NEW v \in decoded
        PROVE  /\ v.id \in DOMAIN records'
               /\ SeverityRank(v.severity) <= SeverityRank(computeSeverity(records'[v.id]))
    <3> DEFINE a == SeverityRank(v.severity)
               b == SeverityRank(computeSeverity(records[v.id]))
               c == SeverityRank(computeSeverity(records'[v.id]))
    <3>1. v.id \in DOMAIN records /\ a <= b
      BY DEF RecordsOk
    <3>2. b <= c
      BY <2>2, <3>1
    <3>3. a \in 0..4 /\ b \in 0..4 /\ c \in 0..4
      BY Ranks
    <3> HIDE DEF a, b, c
    <3>4. a <= c
      BY <3>1, <3>2, <3>3
    <3>5. QED
      BY <2>2, <3>1, <3>4 DEF a, c
  <2>5. QED
    BY <2>1, <2>2, <2>3, <2>4 DEF RecordsOk
<1>4. CASE UNCHANGED <<records, decoded>>
  BY <1>4 DEF RecordsOk
<1>5. QED
  BY <1>1, <1>2, <1>3, <1>4 DEF AdvisoriesNext

\* What queryHTTP has decoded is about the records that OSV has, and no worse
\* than computeSeverity finds them now.
THEOREM RecordsInvariance == AdvisoriesSpec => []RecordsOk
<1>1. AdvisoriesInit => RecordsOk
  BY DEF AdvisoriesInit, RecordsOk
<1>2. RecordsOk /\ [AdvisoriesNext]_<<vars, records, decoded>> => RecordsOk'
  BY RecordsStep
<1>3. QED
  BY <1>1, <1>2, PTL DEF AdvisoriesSpec

\* BandIsStandard: computeSeverity gives every record the band that CVSS v3.1
\* gives its best score, whatever the list of scores is.
THEOREM EveryBandIsStandard == AdvisoriesSpec => []BandIsStandard
<1>1. RecordsOk => BandIsStandard
  <2> SUFFICES ASSUME RecordsOk, records # None, NEW i \in DOMAIN records
               PROVE  LET raw == records[i]
                          rated == {Rating(Standard(sev.score)) :
                                      sev \in {s \in Range(raw.severity) :
                                                 s.type \in ScoredTypes /\ Legible(s.score)}}
                          band == computeSeverity(raw)
                      IN IF rated = {} THEN band = fromDatabase(raw)
                         ELSE band \in rated /\ \A b \in rated : SeverityRank(b) <= SeverityRank(band)
    BY DEF BandIsStandard
  <2>1. records \in Seq(Record)
    BY DEF RecordsOk
  <2> DEFINE raw == records[i]
  <2>2. raw \in Record
    BY <2>1
  <2> HIDE DEF raw
  <2>3. QED
    BY <2>2, RecordBand DEF raw
<1>2. QED
  BY <1>1, RecordsInvariance, PTL

\* CountsAgree: FilterByMinSeverity on the counts that the persistent cache
\* stored does what filterBySeverity does on the list of a query.
THEOREM CountsSuffice == AdvisoriesSpec => []CountsAgree
<1>1. CountsAgree
  <2> SUFFICES ASSUME NEW min \in MinSeverities
               PROVE  FilterByMinSeverity(CountBySeverity(decoded), min)
                        = CountBySeverity(filterBySeverity(decoded, min))
    BY DEF CountsAgree
  <2>1. CASE SeverityRank(min) <= 0
    BY <2>1 DEF FilterByMinSeverity, filterBySeverity
  <2>2. CASE ~(SeverityRank(min) <= 0)
    <3> DEFINE kept == filterBySeverity(decoded, min)
    <3>1. kept = {v \in decoded : SeverityRank(v.severity) >= SeverityRank(min)}
      BY <2>2 DEF filterBySeverity
    <3>2. ASSUME NEW band \in AllBands
          PROVE  CountBySeverity(kept)[band]
                   = IF SeverityRank(band) >= SeverityRank(min) THEN CountBySeverity(decoded)[band] ELSE 0
      <4>1. CASE SeverityRank(band) >= SeverityRank(min)
        <5>1. {v \in kept : v.severity = band} = {v \in decoded : v.severity = band}
          BY <3>1, <4>1
        <5> HIDE DEF kept
        <5>2. QED
          BY <4>1, <5>1 DEF CountBySeverity
      <4>2. CASE ~(SeverityRank(band) >= SeverityRank(min))
        <5>1. {v \in kept : v.severity = band} = {}
          BY <3>1, <4>2
        <5>2. Cardinality({}) = 0
          BY FS_EmptySet
        <5> HIDE DEF kept
        <5>3. QED
          BY <4>2, <5>1, <5>2 DEF CountBySeverity
      <4>3. QED
        BY <4>1, <4>2
    <3>3. CountBySeverity(kept) = [band \in AllBands |-> CountBySeverity(kept)[band]]
      BY DEF CountBySeverity
    <3> HIDE DEF kept
    <3>4. CountBySeverity(kept)
            = [band \in AllBands |-> IF SeverityRank(band) >= SeverityRank(min)
                                     THEN CountBySeverity(decoded)[band] ELSE 0]
      BY <3>2, <3>3, Zenon
    <3>5. FilterByMinSeverity(CountBySeverity(decoded), min) = CountBySeverity(kept)
      BY <2>2, <3>4, Zenon DEF FilterByMinSeverity
    <3>6. QED
      BY <3>5 DEF kept
  <2>3. QED
    BY <2>1, <2>2
<1>2. QED
  BY <1>1, PTL

\* WorseStaysBlocked: no revision to something worse gets a vulnerability past a
\* threshold that held it, for every record and every value of its metrics.
THEOREM RevisionsStayBlocked == AdvisoriesSpec => WorseStaysBlocked
<1>1. RecordsOk /\ [AdvisoriesNext]_<<vars, records, decoded>>
        => [\A min \in MinSeverities : ActedOn(decoded, min) \subseteq ActedOn(decoded', min)]_decoded
  <2> SUFFICES ASSUME RecordsOk, AdvisoriesNext, decoded' # decoded, NEW min \in MinSeverities,
                      NEW v \in filterBySeverity(decoded, min)
               PROVE  v.id \in ActedOn(decoded', min)
    BY DEF ActedOn
  <2>1. records # None /\ decoded' = Vulns
    BY DEF AdvisoriesNext, Appear, Decode, Revise
  <2>2. v \in decoded /\ (SeverityRank(min) > 0 => SeverityRank(v.severity) >= SeverityRank(min))
    BY Ranks DEF filterBySeverity
  <2> DEFINE raw == records[v.id]
             w == [id |-> v.id, severity |-> computeSeverity(raw)]
  <2>3. v.id \in DOMAIN records /\ SeverityRank(v.severity) <= SeverityRank(computeSeverity(raw))
    BY <2>2 DEF RecordsOk
  <2>4. w \in Vulns /\ w.id = v.id /\ w.severity = computeSeverity(raw)
    BY <2>3, VulnsIs
  <2> HIDE DEF raw, w
  <2>5. SeverityRank(min) > 0 => SeverityRank(w.severity) >= SeverityRank(min)
    <3> DEFINE a == SeverityRank(min)
               b == SeverityRank(v.severity)
               c == SeverityRank(computeSeverity(raw))
    <3>1. a \in 0..4 /\ b \in 0..4 /\ c \in 0..4
      BY Ranks
    <3>2. a > 0 => b >= a
      BY <2>2
    <3>3. b <= c
      BY <2>3
    <3> HIDE DEF a, b, c
    <3>4. a > 0 => c >= a
      BY <3>1, <3>2, <3>3
    <3>5. QED
      BY <2>4, <3>4 DEF a, c
  <2>6. w \in filterBySeverity(decoded', min)
    BY <2>1, <2>4, <2>5, Ranks DEF filterBySeverity
  <2>7. QED
    BY <2>4, <2>6 DEF ActedOn
<1>2. QED
  BY <1>1, RecordsInvariance, PTL DEF AdvisoriesSpec, WorseStaysBlocked

-----------------------------------------------------------------------------
(* The checks beside the records.                                          *)

\* A query depends on the bands of a record only, and the checks do not notice
\* the rest, so what is shown of them here holds with the records as well.
THEOREM RecordsAside == AdvisoriesSpec => Spec
<1>1. AdvisoriesInit => Init
  BY DEF AdvisoriesInit
<1>2. [AdvisoriesNext]_<<vars, records, decoded>> => [Next]_vars
  BY DEF AdvisoriesNext, Appear, Decode, Revise
<1>3. QED
  BY <1>1, <1>2, PTL DEF AdvisoriesSpec, Spec
==============================================================================
