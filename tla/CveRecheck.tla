------------------------------ MODULE CveRecheck ------------------------------
(***************************************************************************)
(* The OSV checks of one package version: cve-check-retrieval on every     *)
(* serve and cve-check in the validation chain, over one cveosv.Client     *)
(* with its in-memory TTL cache and, for the former, the row of the        *)
(* persistent cache, which survives restarts.  A query result is the set   *)
(* of severity bands it has vulnerabilities in; the number in each band is *)
(* left out.  Results carry, as history, what OSV knew and when.           *)
(***************************************************************************)
EXTENDS Severity

CONSTANTS
  Requests,     \* serves and validations of the package version
  Bands,        \* severity bands an advisory may be published in
  Thresholds,   \* values of min_severity
  Policies,     \* mode and on_error of the two checks
  Persistent,   \* cache_enabled
  TTL,          \* cache_ttl of the in-memory cache
  Duration,     \* cache_duration of the persistent cache
  Timeout,      \* time limit of an OSV query
  Lowering,     \* whether a restart may lower min_severity
  None,
  MaxTime,      \* bound: ticks of the clock
  MaxFaults,    \* bound: failed queries and store calls
  MaxRestarts   \* bound: restarts

Kinds == {"serve", "validate"}  \* cve-check-retrieval, cve-check

ASSUME CveRecheckAssumption ==
  /\ Bands \subseteq AllBands
  /\ Thresholds \subseteq {"critical", "high", "medium", "low", NoThreshold}
  /\ Policies \subseteq [mode : [Kinds -> {"deny", "warn"}],
                         onError : [Kinds -> {"fail_open", "fail_closed"}]]
  /\ Persistent \in BOOLEAN /\ Lowering \in BOOLEAN
  /\ TTL \in Nat /\ Duration \in Nat /\ Timeout \in Nat
  /\ MaxTime \in Nat /\ MaxFaults \in Nat /\ MaxRestarts \in Nat

\* filterBySeverity on a query result and FilterByMinSeverity on stored counts,
\* which agree (Advisories!CountsAgree).
Filter(bands, min) ==
  IF SeverityRank(min) <= 0 THEN bands
  ELSE {b \in bands : SeverityRank(b) >= SeverityRank(min)}

VARIABLES
  config,     \* mode and on_error of each check, min_severity of the shared client
  published,  \* when OSV learned of a vulnerability in each band, if it did
  mem,        \* the in-memory entry: a result and its expiry
  row,        \* the persistent row: a result and retrieved_at
  req,        \* the checks
  now,
  faults, restarts

vars == <<config, published, mem, row, req, now, faults, restarts>>

\* bands: the filtered result; full, asOf: what OSV knew then, and when.
Result == [bands : SUBSET Bands, full : SUBSET Bands, asOf : 0..MaxTime]
NoResult == [bands |-> {}, full |-> {}, asOf |-> 0]

Idle == [pc |-> "idle", kind |-> "serve", result |-> NoResult, sent |-> 0,
         code |-> "none", at |-> 0, min |-> NoThreshold]

Init ==
  /\ \E p \in Policies, m \in Thresholds :
       config = [mode |-> p.mode, onError |-> p.onError, min |-> m]
  /\ published = [b \in Bands |-> None]
  /\ mem = None /\ row = None
  /\ req = [r \in Requests |-> Idle]
  /\ now = 0 /\ faults = 0 /\ restarts = 0

-----------------------------------------------------------------------------
At(r, l) == req[r].pc = l
Goto(r, l) == req' = [req EXCEPT ![r].pc = l]
Works == UNCHANGED faults
Fails == faults < MaxFaults /\ faults' = faults + 1
world == <<config, published, now, restarts>>

\* What OSV knows of the version now.
known == {b \in Bands : published[b] # None}

\* apply and applyFromCounts.
Verdict(r, bands) ==
  CASE bands = {} -> "served"
    [] bands # {} /\ config.mode[req[r].kind] = "warn" -> "warned"
    [] bands # {} /\ config.mode[req[r].kind] = "deny" -> "rejected"

\* at, min: when the check ended and the threshold then, for the properties.
Finish(r, res, code) ==
  req' = [req EXCEPT ![r].pc = "done", ![r].result = res, ![r].code = code,
                     ![r].sent = 0, ![r].at = now, ![r].min = config.min]

RowFresh == row # None /\ now - row.retrievedAt < Duration
Live(e) == now <= e.expiry

\* After a query: a serve persists the counts, a validation acts on them.
AfterQuery(r, res) ==
  IF req[r].kind = "serve" /\ Persistent
  THEN req' = [req EXCEPT ![r].pc = "persist", ![r].result = res, ![r].sent = 0]
  ELSE Finish(r, res, Verdict(r, res.bands))

-----------------------------------------------------------------------------
Start(r, kind) ==
  /\ At(r, "idle")
  /\ req' = [req EXCEPT ![r].kind = kind,
                        ![r].pc = IF kind = "serve" THEN "memory" ELSE "query"]
  /\ UNCHANGED <<world, mem, row, faults>>

\* Cache.Get, which drops an expired entry.
MemGet == mem' = IF mem # None /\ ~Live(mem) THEN None ELSE mem
MemHit == mem # None /\ Live(mem)

\* Fetch consults the in-memory cache first.
Memory(r) ==
  /\ At(r, "memory") /\ MemGet
  /\ \/ MemHit /\ Finish(r, mem.result, Verdict(r, mem.result.bands))
     \/ ~MemHit /\ Goto(r, IF Persistent THEN "row" ELSE "query")
  /\ UNCHANGED <<world, row, faults>>

\* Seeded defect: stored counts are not filtered again.
ReadRowUnfiltered(r) ==
  /\ At(r, "row")
  /\ \/ RowFresh /\ Finish(r, row.result, Verdict(r, row.result.bands))
     \/ ~RowFresh /\ Goto(r, "query")
  /\ UNCHANGED <<world, mem, row, faults>>

\* Seeded defect: a hit in the table is put into the in-memory cache.
ReadRowWarmsMemory(r) ==
  /\ At(r, "row")
  /\ \/ /\ RowFresh
        /\ mem' = [result |-> row.result, expiry |-> now + TTL]
        /\ Finish(r, row.result, Verdict(r, Filter(row.result.bands, config.min)))
     \/ ~RowFresh /\ Goto(r, "query") /\ UNCHANGED mem
  /\ UNCHANGED <<world, row, faults>>

\* fetchWithCache: a fresh row is applied, with the threshold of today; a
\* stale or unreadable one leads to a query.
ReadRow(r) ==
  /\ At(r, "row")
  /\ \/ /\ RowFresh /\ Works
        /\ Finish(r, row.result, Verdict(r, Filter(row.result.bands, config.min)))
     \/ ~RowFresh /\ Goto(r, "query") /\ Works
     \/ Goto(r, "query") /\ Fails
  /\ UNCHANGED <<world, mem, row>>

\* Client.Query: the cache again, then OSV.
Query(r) ==
  /\ At(r, "query") /\ MemGet
  /\ \/ MemHit /\ AfterQuery(r, mem.result)
     \/ ~MemHit /\ req' = [req EXCEPT ![r].pc = "asked", ![r].sent = now]
  /\ UNCHANGED <<world, row, faults>>

\* OSV answers with what it knows at that moment.
Answer(r) ==
  /\ At(r, "asked")
  /\ req' = [req EXCEPT ![r].pc = "answered",
       ![r].result = [bands |-> Filter(known, config.min), full |-> known, asOf |-> now]]
  /\ UNCHANGED <<world, mem, row, faults>>

\* The answer arrives and is cached, unless the cache is full of live entries
\* of other versions.
Receive(r) ==
  /\ At(r, "answered")
  /\ \/ mem' = [result |-> req[r].result, expiry |-> now + TTL]
     \/ UNCHANGED mem
  /\ AfterQuery(r, req[r].result)
  /\ UNCHANGED <<world, row, faults>>

\* Seeded defect: a failed query is served whatever on_error says.
QueryFailsOpen(r) ==
  /\ At(r, "asked") \/ At(r, "answered")
  /\ Finish(r, NoResult, "unchecked")
  /\ Fails
  /\ UNCHANGED <<world, mem, row>>

\* The query fails or times out: applyError.
QueryFails(r) ==
  /\ At(r, "asked") \/ At(r, "answered")
  /\ Finish(r, NoResult, IF config.onError[req[r].kind] = "fail_closed" THEN "outage" ELSE "unchecked")
  /\ Fails
  /\ UNCHANGED <<world, mem, row>>

\* cache.Put with the time of the write; a failure is only logged.
Persist(r) ==
  /\ At(r, "persist")
  /\ \/ row' = [result |-> req[r].result, retrievedAt |-> now] /\ Works
     \/ UNCHANGED row /\ Fails
  /\ Finish(r, req[r].result, Verdict(r, req[r].result.bands))
  /\ UNCHANGED <<world, mem>>

-----------------------------------------------------------------------------
Publish(b) ==
  /\ b \notin known /\ published' = [published EXCEPT ![b] = now]
  /\ UNCHANGED <<config, mem, row, req, now, faults, restarts>>

\* Time passes while OSV is being asked, up to the client's time limit; what
\* a check does between its calls takes none.
Tick ==
  /\ now < MaxTime /\ now' = now + 1
  /\ \A r \in Requests :
       \/ req[r].pc \in {"idle", "done"}
       \/ req[r].pc \in {"asked", "answered"} /\ now < req[r].sent + Timeout
  /\ UNCHANGED <<config, published, mem, row, req, faults, restarts>>

Restart ==
  /\ restarts < MaxRestarts /\ restarts' = restarts + 1
  /\ \E m \in Thresholds :
       /\ Lowering \/ SeverityRank(m) >= SeverityRank(config.min)
       /\ config' = [config EXCEPT !.min = m]
  /\ mem' = None
  /\ req' = [r \in Requests |-> IF req[r].pc \in {"idle", "done"} THEN req[r]
                                ELSE [Idle EXCEPT !.pc = "done"]]
  /\ UNCHANGED <<published, row, now, faults>>

Step(r) ==
  \/ \E kind \in Kinds : Start(r, kind)
  \/ Memory(r) \/ ReadRow(r) \/ Query(r) \/ Answer(r) \/ Receive(r)
  \/ QueryFails(r) \/ Persist(r)

Next ==
  \/ \E r \in Requests : Step(r)
  \/ \E b \in Bands : Publish(b)
  \/ Tick \/ Restart

Spec == Init /\ [][Next]_vars

-----------------------------------------------------------------------------
Codes == {"none", "served", "warned", "rejected", "outage", "unchecked"}
Pcs == {"idle", "memory", "row", "query", "asked", "answered", "persist", "done"}

\* Every variable keeps its type.
TypeOK ==
  /\ config.mode \in [Kinds -> {"deny", "warn"}]
  /\ config.onError \in [Kinds -> {"fail_open", "fail_closed"}]
  /\ config.min \in Thresholds
  /\ published \in [Bands -> (0..MaxTime) \union {None}]
  /\ mem = None \/ (mem.result \in Result /\ mem.expiry \in 0..(MaxTime + TTL))
  /\ row = None \/ (row.result \in Result /\ row.retrievedAt \in 0..MaxTime)
  /\ req \in [Requests -> [pc : Pcs, kind : Kinds, result : Result, sent : 0..MaxTime,
                          code : Codes, at : 0..MaxTime, min : AllBands \union {NoThreshold}]]
  /\ now \in 0..MaxTime /\ faults \in 0..MaxFaults /\ restarts \in 0..MaxRestarts

Decided(q) == q.pc = "done" /\ q.code \in {"served", "warned", "rejected"}

\* How old an answer of OSV can be when a check acts on it: the query itself,
\* then a life in one of the two caches, not in both.
Oldest == Timeout + (IF Persistent /\ Duration > TTL + 1 THEN Duration - 1 ELSE TTL)

\* Two caches stand between a check and OSV; a check acts on knowledge that is
\* old by the life of one of them, never of one after the other
\* (cverecheck.Fetch, fetchWithCache, cveosv.Client.Query).
StalenessBound == \A r \in Requests : Decided(req[r]) => req[r].at - req[r].result.asOf <= Oldest

\* The verdict is the one min_severity, as configured when the check ends,
\* gives on all that OSV reported, whichever threshold the counts were stored
\* under (cvecheckcache/store.go:7-11, applyFromCounts).
DecidedByThreshold ==
  \A r \in Requests : Decided(req[r]) =>
    (req[r].code = "served" <=> Filter(req[r].result.full, req[r].min) = {})

\* End to end: once OSV has known of a vulnerability above the threshold for
\* longer than the caches may hide it, a check in deny mode with fail_closed
\* lets nobody have the version, whatever fails (applyError, apply).
AdvisoryBites ==
  \A r \in Requests, b \in known :
    LET q == req[r] IN
    /\ q.pc = "done" /\ q.code # "none"
    /\ config.mode[q.kind] = "deny" /\ config.onError[q.kind] = "fail_closed"
    /\ published[b] + Oldest < q.at
    /\ b \in Filter(Bands, q.min)
    => q.code \in {"rejected", "outage"}
=============================================================================
