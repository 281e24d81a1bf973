------------------------------ MODULE TrustFlow ------------------------------
(***************************************************************************)
(* The trust flow of one artifact (one registry, name and version): every  *)
(* request for it, in whatever project scope, goes through                 *)
(* handleTarball, the retrieval chain                                      *)
(*      cve-check-retrieval -> local-disk-cache -> upstream-registry,      *)
(* and then serveTrusted or serveUntrusted.  Requests run concurrently and *)
(* share the cache backend, the trust store and the deny list; the cache's *)
(* per-key mutex belongs to one middleware instance, and a project that    *)
(* overrides its retrieval chain has an instance of its own over the same  *)
(* backend.  An artifact is identified with its sha256.                    *)
(***************************************************************************)
EXTENDS Naturals, FiniteSets

CONSTANTS
  Requests,      \* requests for the artifact
  Projects,      \* project scopes, Default among them
  Default,       \* the projectless scope (ProjectKey = "")
  Instances,     \* cache middleware instances, each with its own key lock
  CacheOf,       \* the instance each project's retrieval chain runs through
  NoCache,       \* CacheOf[p] when the chain of p has no cache
  AgeGated,      \* projects whose validation chain has min-publication-age
  Bytes,         \* possible contents of the artifact
  None,          \* "no such entry"
  MaxTrouble     \* bound: failures of store, cache, network and scanners,
                 \* replacements of the artifact upstream, and restarts

ASSUME TrustFlowAssumption ==
  /\ Default \in Projects
  /\ CacheOf \in [Projects -> Instances \union {NoCache}]
  /\ NoCache \notin Instances
  /\ None \notin Bytes /\ None \notin Requests
  /\ MaxTrouble \in Nat

VARIABLES
  req,          \* the pipeline context of each request
  upstream,     \* what the registry serves now
  young,        \* the version is younger than min_days
  cache,        \* the cache backend's entry; it survives a restart
  lock,         \* holder of each instance's mutex for this key
  trust,        \* the trust store: project -> validated hash
  denied,       \* the deny list: {<<project, hash>>}
  tracked,      \* download records handed to the tracker
  verdicts,     \* history: every verdict the validation chain has reached
  fetches,      \* history: upstream deliveries through each instance
  faults, republished, crashes   \* what the bound counts

vars == <<req, upstream, young, cache, lock, trust, denied, tracked,
          verdicts, fetches, faults, republished, crashes>>

Labels == {"idle", "lookup", "enter", "probe", "upstream", "fill", "recheck",
           "verify", "evict", "denyCheck", "ageCheck", "scan", "record",
           "anchor", "respond", "done"}

Codes == {"none", "ok", "error", "mismatch", "rechecked", "denied", "age",
          "flagged", "scanner", "lost"}

\* body: ctx.Tarball; index: ctx.Index is set; rec: the trust record found;
\* retry: verifyOrEvict is re-fetching.  The last three are history: the
\* denials of the scope when the request began, whether its deny lookup
\* failed open, and whether the version was young when it began.
Request == [pc : Labels, proj : Projects, body : Bytes \union {None},
            index : BOOLEAN, rec : Bytes \union {None}, retry : BOOLEAN,
            code : Codes, known : SUBSET Bytes, blind : BOOLEAN,
            bornYoung : BOOLEAN]

Idle == [pc |-> "idle", proj |-> Default, body |-> None, index |-> FALSE,
         rec |-> None, retry |-> FALSE, code |-> "none", known |-> {},
         blind |-> FALSE, bornYoung |-> FALSE]

Init ==
  /\ req = [r \in Requests |-> Idle]
  /\ upstream \in Bytes
  /\ young \in BOOLEAN
  /\ cache = None
  /\ lock = [i \in Instances |-> None]
  /\ trust = [p \in Projects |-> None]
  /\ denied = {} /\ tracked = {} /\ verdicts = {}
  /\ fetches = [i \in Instances |-> 0]
  /\ faults = 0 /\ republished = 0 /\ crashes = 0

-----------------------------------------------------------------------------
At(r, l) == req[r].pc = l
Inst(r) == CacheOf[req[r].proj]
Cached(r) == Inst(r) # NoCache

Goto(r, l) == req' = [req EXCEPT ![r].pc = l]
Answer(r, c) == req' = [req EXCEPT ![r].pc = "done", ![r].code = c]

Trouble == faults + republished + crashes < MaxTrouble

Works == UNCHANGED faults
Fails == Trouble /\ faults' = faults + 1

Release(r) == lock' = IF Cached(r) THEN [lock EXCEPT ![Inst(r)] = None]
                                   ELSE lock

environment == <<upstream, young, republished, crashes>>
stores == <<trust, denied, tracked, verdicts>>

-----------------------------------------------------------------------------
(* Seeded defects.  No action uses them: each stands for a bug that one of *)
(* the properties below is there to catch.                                 *)

\* The mutex is not taken.
EnterUnlocked(r) ==
  /\ At(r, "enter")
  /\ Goto(r, IF Cached(r) THEN "probe" ELSE "upstream")
  /\ UNCHANGED <<environment, stores, cache, lock, fetches, faults>>

\* The re-fetched artifact is not compared again.
VerifyTrustsRefetch(r) ==
  /\ At(r, "verify")
  /\ Goto(r, IF req[r].body = req[r].rec \/ req[r].retry THEN "denyCheck"
             ELSE "evict")
  /\ UNCHANGED <<environment, stores, cache, lock, fetches, faults>>

\* A trusted artifact is served without the deny-list gate.
VerifySkipsGate(r) ==
  /\ At(r, "verify")
  /\ \/ req[r].body = req[r].rec /\ Goto(r, "respond")
     \/ req[r].body # req[r].rec /\ ~req[r].retry /\ Goto(r, "evict")
     \/ req[r].body # req[r].rec /\ req[r].retry /\ Answer(r, "mismatch")
  /\ UNCHANGED <<environment, stores, cache, lock, fetches, faults>>

\* The retry goes back to the chain without dropping the entry.
EvictKeepsEntry(r) ==
  /\ At(r, "evict")
  /\ req' = [req EXCEPT ![r].pc = "enter", ![r].body = None, ![r].retry = TRUE]
  /\ UNCHANGED <<environment, stores, cache, lock, fetches, faults>>

\* The lookup forgets the project.
DeniedAnywhere(r) == \E p \in Projects : <<p, req[r].body>> \in denied

\* The download is recorded before the mutation chain has run.
RespondTracksFirst(r) ==
  /\ At(r, "respond")
  /\ tracked' = IF req[r].proj = Default THEN tracked
                ELSE tracked \union {<<req[r].proj, req[r].body>>}
  /\ \/ Answer(r, "ok") /\ Works
     \/ Answer(r, "error") /\ Fails
  /\ UNCHANGED <<environment, trust, denied, verdicts, cache, lock, fetches>>

-----------------------------------------------------------------------------
(* handleTarball: the path gives the project scope; Resolve, here, gives   *)
(* the chains of that scope.  Then the trust store is consulted.           *)

Begin(r, p) ==
  /\ At(r, "idle")
  /\ req' = [req EXCEPT ![r] = [Idle EXCEPT
               !.pc = "lookup", !.proj = p, !.bornYoung = young,
               !.known = {b \in Bytes : <<p, b>> \in denied}]]
  /\ UNCHANGED <<environment, stores, cache, lock, fetches, faults>>

Lookup(r) ==
  /\ At(r, "lookup")
  /\ \/ /\ req' = [req EXCEPT ![r].pc = "enter", ![r].rec = trust[req[r].proj]]
        /\ Works
     \/ Answer(r, "error") /\ Fails
  /\ UNCHANGED <<environment, stores, cache, lock, fetches>>

(* localcache.Fetch around upstreamRegistry.Fetch, then the re-check of    *)
(* cve-check-retrieval, which sees the artifact after the cache has it.    *)

Enter(r) ==
  /\ At(r, "enter")
  /\ \/ ~Cached(r) /\ Goto(r, "upstream") /\ UNCHANGED lock
     \/ /\ Cached(r) /\ lock[Inst(r)] = None
        /\ lock' = [lock EXCEPT ![Inst(r)] = r]
        /\ Goto(r, "probe")
  /\ UNCHANGED <<environment, stores, cache, fetches, faults>>

Probe(r) ==
  /\ At(r, "probe")
  /\ \/ /\ cache # None
        /\ req' = [req EXCEPT ![r].pc = "recheck", ![r].body = cache]
        /\ Release(r)
        /\ UNCHANGED cache /\ Works
     \/ /\ cache = None
        /\ Goto(r, "upstream")
        /\ UNCHANGED <<cache, lock>> /\ Works
     \/ \* unreadable entry: dropped, a miss
        /\ Goto(r, "upstream")
        /\ cache' = None
        /\ UNCHANGED lock /\ Fails
  /\ UNCHANGED <<environment, stores, fetches>>

FetchUpstream(r) ==
  /\ At(r, "upstream")
  /\ \/ /\ req' = [req EXCEPT ![r].index = TRUE, ![r].body = upstream,
                     ![r].pc = IF Cached(r) THEN "fill" ELSE "recheck"]
        /\ fetches' = IF Cached(r) THEN [fetches EXCEPT ![Inst(r)] = @ + 1]
                                   ELSE fetches
        /\ UNCHANGED lock /\ Works
     \/ Answer(r, "error") /\ Release(r) /\ UNCHANGED fetches /\ Fails
  /\ UNCHANGED <<environment, stores, cache>>

Fill(r) ==
  /\ At(r, "fill")
  /\ \/ cache' = req[r].body /\ Works
     \/ UNCHANGED cache /\ Fails          \* the Put error is ignored
  /\ Release(r)
  /\ Goto(r, "recheck")
  /\ UNCHANGED <<environment, stores, fetches>>

Recheck(r) ==
  /\ At(r, "recheck")
  /\ \/ Goto(r, IF req[r].rec # None THEN "verify" ELSE "denyCheck")
     \/ Answer(r, "rechecked")
  /\ UNCHANGED <<environment, stores, cache, lock, fetches, faults>>

(* serveTrusted: verifyOrEvict, then the deny-list gate alone.             *)

Verify(r) ==
  /\ At(r, "verify")
  /\ \/ req[r].body = req[r].rec /\ Goto(r, "denyCheck")
     \/ req[r].body # req[r].rec /\ ~req[r].retry /\ Goto(r, "evict")
     \/ req[r].body # req[r].rec /\ req[r].retry /\ Answer(r, "mismatch")
  /\ UNCHANGED <<environment, stores, cache, lock, fetches, faults>>

Evict(r) ==
  /\ At(r, "evict")
  /\ \/ cache' = (IF Cached(r) THEN None ELSE cache) /\ Works
     \/ Cached(r) /\ UNCHANGED cache /\ Fails   \* the Evict error is ignored
  /\ req' = [req EXCEPT ![r].pc = "enter", ![r].body = None, ![r].retry = TRUE]
  /\ UNCHANGED <<environment, stores, lock, fetches>>

(* The validation chain: deny-list-check first, min-publication-age, then  *)
(* the scanners.  A trusted request leaves it after deny-list-check.       *)

AfterDenyCheck(r) ==
  IF req[r].rec # None THEN "respond"
  ELSE IF req[r].proj \in AgeGated THEN "ageCheck" ELSE "scan"

Denied(r) == <<req[r].proj, req[r].body>> \in denied

DenyCheck(r) ==
  /\ At(r, "denyCheck")
  /\ \/ Denied(r) /\ Answer(r, "denied") /\ Works
     \/ /\ ~Denied(r)
        /\ Goto(r, AfterDenyCheck(r)) /\ Works
     \/ /\ req' = [req EXCEPT ![r].pc = AfterDenyCheck(r), ![r].blind = TRUE]
        /\ Fails                                \* a failed lookup fails open
  /\ UNCHANGED <<environment, stores, cache, lock, fetches>>

AgeCheck(r) ==
  /\ At(r, "ageCheck")
  /\ \/ (~req[r].index \/ young) /\ Answer(r, "age")
     \/ req[r].index /\ ~young /\ Goto(r, "scan")
  /\ UNCHANGED <<environment, stores, cache, lock, fetches, faults>>

Scan(r) ==
  /\ At(r, "scan")
  /\ \/ /\ verdicts' = verdicts \union {<<req[r].proj, req[r].body, "pass">>}
        /\ Goto(r, "anchor") /\ Works
     \/ /\ verdicts' = verdicts \union {<<req[r].proj, req[r].body, "deny">>}
        /\ Goto(r, "record") /\ Works
     \/ Answer(r, "scanner") /\ UNCHANGED verdicts /\ Fails
  /\ UNCHANGED <<environment, trust, denied, tracked, cache, lock, fetches>>

Record(r) ==
  /\ At(r, "record")
  /\ \/ denied' = denied \union {<<req[r].proj, req[r].body>>} /\ Works
     \/ UNCHANGED denied /\ Fails               \* best effort
  /\ Answer(r, "flagged")
  /\ UNCHANGED <<environment, trust, tracked, verdicts, cache, lock, fetches>>

(* The rest of serveUntrusted: the anchor is stored, then the answer.  A   *)
(* failed Put may still have committed.                                    *)

Anchor(r) ==
  /\ At(r, "anchor")
  /\ \/ /\ trust' = [trust EXCEPT ![req[r].proj] = req[r].body]
        /\ \/ Goto(r, "respond") /\ Works
           \/ Answer(r, "error") /\ Fails
     \/ Answer(r, "error") /\ Fails /\ UNCHANGED trust
  /\ UNCHANGED <<environment, denied, tracked, verdicts, cache, lock, fetches>>

Respond(r) ==
  /\ At(r, "respond")
  /\ \/ /\ tracked' = IF req[r].proj = Default THEN tracked
                      ELSE tracked \union {<<req[r].proj, req[r].body>>}
        /\ Answer(r, "ok") /\ Works
     \/ Answer(r, "error") /\ UNCHANGED tracked /\ Fails   \* RunPostFetch
  /\ UNCHANGED <<environment, trust, denied, verdicts, cache, lock, fetches>>

-----------------------------------------------------------------------------
(* What surrounds the proxy.                                               *)

Mature ==
  /\ young /\ young' = FALSE
  /\ UNCHANGED <<req, upstream, cache, lock, stores, fetches, faults,
                 republished, crashes>>

Republish ==
  /\ Trouble
  /\ republished' = republished + 1
  /\ upstream' \in Bytes \ {upstream}
  /\ UNCHANGED <<req, young, cache, lock, stores, fetches, faults, crashes>>

Corrupt ==
  /\ cache # None
  /\ cache' \in Bytes \ {cache}
  /\ Fails
  /\ UNCHANGED <<req, environment, lock, stores, fetches>>

\* A restart loses the requests and the mutexes; the cache entry and the
\* tables stay.  (DiskBackend.Put renames a complete file into place.)
Crash ==
  /\ Trouble
  /\ crashes' = crashes + 1
  /\ req' = [r \in Requests |->
               IF req[r].pc \in {"idle", "done"} THEN req[r]
               ELSE [req[r] EXCEPT !.pc = "done", !.code = "lost"]]
  /\ lock' = [i \in Instances |-> None]
  /\ UNCHANGED <<upstream, young, republished, cache, stores, fetches, faults>>

Step(r) ==
  \/ Lookup(r) \/ Enter(r) \/ Probe(r) \/ FetchUpstream(r) \/ Fill(r)
  \/ Recheck(r) \/ Verify(r) \/ Evict(r) \/ DenyCheck(r) \/ AgeCheck(r)
  \/ Scan(r) \/ Record(r) \/ Anchor(r) \/ Respond(r)

Terminated == (\A r \in Requests : At(r, "done")) /\ UNCHANGED vars

Next ==
  \/ \E r \in Requests, p \in Projects : Begin(r, p)
  \/ \E r \in Requests : Step(r)
  \/ Mature \/ Republish \/ Corrupt \/ Crash
  \/ Terminated

Spec == Init /\ [][Next]_vars

-----------------------------------------------------------------------------
\* Every variable keeps its type.
TypeOK ==
  /\ req \in [Requests -> Request]
  /\ upstream \in Bytes
  /\ young \in BOOLEAN
  /\ cache \in Bytes \union {None}
  /\ lock \in [Instances -> Requests \union {None}]
  /\ trust \in [Projects -> Bytes \union {None}]
  /\ denied \subseteq Projects \X Bytes
  /\ tracked \subseteq Projects \X Bytes
  /\ verdicts \subseteq Projects \X Bytes \X {"pass", "deny"}
  /\ fetches \in [Instances -> Nat]
  /\ faults \in Nat /\ republished \in Nat /\ crashes \in Nat

\* "Trust only validated artifacts": whatever reaches a client with 200, from
\* the cache or from upstream, is content that the validation chain of that
\* request's own project scope passed.  It holds although the cache is shared
\* by all scopes and is filled before validation, because serveTrusted serves
\* nothing that differs from an anchor of its scope (verifyOrEvict).
ServedWasValidated ==
  \A r \in Requests : req[r].code = "ok" =>
    <<req[r].proj, req[r].body, "pass">> \in verdicts

\* A denial sticks: content that the deny list of a scope held when a request
\* of that scope began is not served to it, not even as a trusted artifact
\* whose anchor predates the denial, unless that request's lookup failed
\* (deny-list-check fails open).
DenialSticks ==
  \A r \in Requests : req[r].code = "ok" /\ ~req[r].blind =>
    req[r].body \notin req[r].known

\* Matching is strict per project: deny-list-check rejects a request only for
\* a verdict reached in its own scope, however many scopes share the artifact.
DeniedByOwnScope ==
  \A r \in Requests : req[r].code = "denied" =>
    <<req[r].proj, req[r].body, "deny">> \in verdicts

\* The download records are exactly the project-scoped answers: none for a
\* rejected or failed download, none missing, none with another hash.
AuditExact ==
  tracked = {<<req[r].proj, req[r].body>> :
               r \in {q \in Requests : req[q].code = "ok"
                                       /\ req[q].proj # Default}}

\* The mutex of an instance is held by the request that is between Lock and
\* Unlock of localcache.Fetch, and by nobody when none is there.
LockHeldInside ==
  \A i \in Instances : \A r \in Requests :
    (lock[i] = r) <=> (req[r].pc \in {"probe", "upstream", "fill"} /\ Inst(r) = i)

\* "Tamper-resistant cache": while the upstream still serves the anchored
\* artifact, one failure alone (a corrupted entry, an unreadable one, a lost
\* Put) never makes a trusted request fail its integrity check: evict,
\* re-fetch and re-verify repair it.
SingleFaultHeals ==
  \A r \in Requests :
    req[r].code = "mismatch" /\ req[r].rec = upstream /\ republished = 0
      => faults >= 2

\* "A per-key mutex serializes concurrent requests for the same key so the
\* upstream is fetched once": without failures, an instance fetches the
\* artifact at most once in each run of the proxy.
OneFetchPerInstance ==
  faults = 0 /\ republished = 0 =>
    \A i \in Instances : fetches[i] <= 1 + crashes

-----------------------------------------------------------------------------
(* The inductive invariant behind the safety properties.                   *)

Vetted(r) == <<req[r].proj, req[r].body, "pass">> \in verdicts

\* Past the retrieval chain there is always a tarball to hash and to serve.
BodyPresent ==
  \A r \in Requests :
    req[r].pc \in {"fill", "recheck", "verify", "denyCheck", "ageCheck", "scan",
                  "record", "anchor", "respond"} => req[r].body \in Bytes

\* Every anchor, and every anchor a handler holds, names vetted content.
AnchorsVetted ==
  /\ \A p \in Projects : trust[p] # None => <<p, trust[p], "pass">> \in verdicts
  /\ \A r \in Requests : req[r].rec # None =>
        <<req[r].proj, req[r].rec, "pass">> \in verdicts

\* What is about to be anchored or served is vetted; on the trusted path this
\* is so because verifyOrEvict compared it with the anchor.
FlowVettedFor(r) ==
  /\ req[r].pc \in {"anchor", "respond"} => Vetted(r)
  /\ At(r, "denyCheck") /\ req[r].rec # None => req[r].body = req[r].rec
  /\ req[r].code # "none" => At(r, "done")

FlowVetted == \A r \in Requests : FlowVettedFor(r)

\* The denials a request began with are still there, and past the deny-list
\* gate its artifact is none of them.
DenialsRespected ==
  \A r \in Requests :
    /\ \A b \in req[r].known : <<req[r].proj, b>> \in denied
    /\ /\ req[r].pc \in {"ageCheck", "scan", "record", "anchor", "respond"}
       /\ ~req[r].blind
       => req[r].body \notin req[r].known

\* A denial on the list, or about to be recorded, was reached in its scope.
DenialsFounded ==
  /\ \A d \in denied : <<d[1], d[2], "deny">> \in verdicts
  /\ \A r \in Requests :
       At(r, "record") => <<req[r].proj, req[r].body, "deny">> \in verdicts

Genuine == {None, upstream}

\* While the upstream is unchanged: other bytes than its own are the work of a
\* fault and come through the cache; once a request whose anchor is genuine
\* has evicted, it takes a second fault to show it other bytes again.
HealsFor(r) ==
  /\ req[r].body \notin Genuine => faults >= 1 /\ Cached(r)
  /\ req[r].pc \in {"probe", "fill"} => Cached(r)
  /\ At(r, "fill") => req[r].body = upstream
  /\ At(r, "evict") => req[r].body # req[r].rec /\ req[r].body # None
  /\ At(r, "lookup") => ~req[r].retry
  /\ req[r].retry /\ req[r].rec = upstream =>
       /\ faults >= 1
       /\ faults = 1 => cache \in Genuine /\ req[r].body \in Genuine

HealsOnce ==
  republished = 0 => /\ cache \notin Genuine => faults >= 1
                     /\ \A r \in Requests : HealsFor(r)

\* Without failures no mismatch occurs, so an entry stays once it is filled,
\* and whoever goes upstream for it does so under the mutex of its instance.
PristineFor(r) ==
  /\ req[r].body \in Genuine /\ req[r].rec \in Genuine /\ ~At(r, "evict")
  /\ At(r, "verify") => req[r].rec # None
  /\ At(r, "upstream") /\ Cached(r) => fetches[Inst(r)] <= crashes

FetchBudget ==
  faults = 0 /\ republished = 0 =>
    /\ \A p \in Projects : trust[p] \in Genuine
    /\ \A r \in Requests : PristineFor(r)
    /\ \A i \in Instances :
         cache = None /\ (\A r \in Requests : ~(At(r, "fill") /\ Inst(r) = i))
           => fetches[i] <= crashes

\* Together they are inductive: the handler's local copies (body, rec, known)
\* stay consistent with the stores whatever the other requests do meanwhile.
IInv ==
  /\ TypeOK /\ BodyPresent
  /\ AnchorsVetted /\ FlowVetted /\ ServedWasValidated
  /\ DenialsRespected /\ DenialSticks
  /\ DenialsFounded /\ DeniedByOwnScope
  /\ AuditExact
  /\ LockHeldInside
  /\ HealsOnce /\ SingleFaultHeals
  /\ FetchBudget /\ OneFetchPerInstance

-----------------------------------------------------------------------------
Passed == {c \in Projects \X Bytes : <<c[1], c[2], "pass">> \in verdicts}
Served == {<<req[r].proj, req[r].body>> :
             r \in {q \in Requests : req[q].code = "ok"}}

Gate == INSTANCE TrustGate WITH
  Slots <- Projects,
  Audited <- Projects \ {Default},
  Contents <- Bytes,
  NoAnchor <- None,
  passed <- Passed, anchor <- trust, served <- Served, recorded <- tracked

\* The concurrent flow, with its shared cache filled before validation, its
\* retries, faults and restarts, is a gate: each of its steps passes, anchors
\* or serves (with the record) one artifact, or none at all.
ImplementsGate == Gate!Spec

-----------------------------------------------------------------------------
\* denylist/record.go:15 on min-publication-age: "time-based and
\* self-resolves".  A request that begins once the version is old enough is
\* not rejected for its age.
AgeSelfResolves ==
  \A r \in Requests : req[r].code = "age" => req[r].bornYoung
=============================================================================
