--------------------------- MODULE ValidationChain ---------------------------
(***************************************************************************)
(* The validation chain of a request scope: how the resolver builds it     *)
(* from the configuration and its hooks, how ValidationPipeline.Run walks  *)
(* it, and how the deny list is consulted and filled on the way.  Requests *)
(* of several scopes run concurrently; operators change the override of a  *)
(* project between them.  TrustFlow has the chain as one step; here every  *)
(* middleware is a step of its own.                                        *)
(***************************************************************************)
EXTENDS Naturals, Sequences, FiniteSets

CONSTANTS
  Requests,     \* untrusted requests
  Artifacts,    \* contents, identified with their sha256
  Projects,     \* project scopes
  Default,      \* the projectless scope
  Global,       \* the validation chain of the registry
  Overrides,    \* chains an operator may give a project; <<>> inherits
  Allowlist,    \* deny_list.record_middlewares
  Recording,    \* deny_list.enabled: the OnFailure hook is installed
  Flagged,      \* scanner -> the artifacts it condemns
  MaxFaults,    \* bound: outages and failed store calls
  MaxWrites     \* bound: admin writes

DenyList == "deny-list-check"
MinAge == "min-publication-age"
Scanners == {"cve-check", "malware-scan", "guarddog-scan", "provenance-verify"}
Entry == [type : Scanners \union {DenyList, MinAge}, mode : {"deny", "warn"},
          onError : {"fail_open", "fail_closed"}, enabled : BOOLEAN]

ASSUME ValidationChainAssumption ==
  /\ Default \notin Projects /\ Artifacts # {}
  /\ Global \in Seq(Entry) /\ Overrides \subseteq Seq(Entry)
  /\ Allowlist \subseteq Scanners \union {MinAge}
  /\ Recording \in BOOLEAN
  /\ Flagged \in [Scanners -> SUBSET Artifacts]
  /\ MaxFaults \in Nat /\ MaxWrites \in Nat

Scopes == Projects \union {Default}

VARIABLES
  override,   \* the validation chain configured for each project
  denied,     \* the deny list: {<<scope, artifact>>}
  young,      \* artifacts published less than min_days ago
  req,        \* the requests in validation
  faults, writes

vars == <<override, denied, young, req, faults, writes>>

Idle == [pc |-> "idle", scope |-> Default, art |-> CHOOSE a \in Artifacts : TRUE,
         chain |-> <<>>, step |-> 1, by |-> "none", outage |-> FALSE,
         known |-> FALSE, blind |-> FALSE, scans |-> 0]

Init ==
  /\ override = [p \in Projects |-> <<>>]
  /\ denied = {}
  /\ young \in SUBSET Artifacts
  /\ req = [r \in Requests |-> Idle]
  /\ faults = 0 /\ writes = 0

-----------------------------------------------------------------------------
At(r, l) == req[r].pc = l
Works == UNCHANGED faults
Fails == faults < MaxFaults /\ faults' = faults + 1
world == <<override, denied, young, writes>>

\* The entry the resolver prepends: deny-list-check without params.
Hook == [type |-> DenyList, mode |-> "deny", onError |-> "fail_open", enabled |-> TRUE]

\* Seeded defect: the hook goes to the end of the chain.
HookedLast(chain) ==
  IF chain = <<>> \/ chain[Len(chain)].type # DenyList THEN Append(chain, Hook) ELSE chain

\* applyHooks: prepended unless the chain already starts with that type.
Hooked(chain) ==
  IF chain = <<>> \/ Head(chain).type # DenyList THEN <<Hook>> \o chain ELSE chain

\* build: an empty override inherits the global chain.
ChainOf(scope) ==
  Hooked(IF scope = Default THEN Global
         ELSE IF override[scope] = <<>> THEN Global ELSE override[scope])

\* serveUntrusted has fetched and hashed the artifact and runs the chain of
\* its scope.  known is history: the scope had denied this content already.
Begin(r, s, a) ==
  /\ At(r, "idle")
  /\ req' = [req EXCEPT ![r] = [Idle EXCEPT
       !.pc = "run", !.scope = s, !.art = a, !.chain = ChainOf(s),
       !.known = <<s, a>> \in denied]]
  /\ UNCHANGED <<world, faults>>

Current(r) == req[r].chain[req[r].step]
Running(r) == At(r, "run") /\ req[r].step <= Len(req[r].chain)

Continue(r) == req' = [req EXCEPT ![r].step = @ + 1]

\* The first error ends the run and goes to the OnFailure hook, if there is one.
Fail(r, outage) ==
  req' = [req EXCEPT ![r].by = Current(r).type, ![r].outage = outage,
                     ![r].pc = IF Recording THEN "record" ELSE "done"]

\* checkMiddleware.Validate.
DenyCheck(r) ==
  /\ Running(r) /\ Current(r).type = DenyList
  /\ \/ ~Current(r).enabled /\ Continue(r) /\ Works
     \/ /\ Current(r).enabled /\ <<req[r].scope, req[r].art>> \in denied
        /\ Fail(r, FALSE) /\ Works
     \/ /\ Current(r).enabled /\ <<req[r].scope, req[r].art>> \notin denied
        /\ Continue(r) /\ Works
     \/ /\ Current(r).enabled                  \* the lookup fails open
        /\ req' = [req EXCEPT ![r].step = @ + 1, ![r].blind = TRUE] /\ Fails
  /\ UNCHANGED world

AgeCheck(r) ==
  /\ Running(r) /\ Current(r).type = MinAge
  /\ IF req[r].art \in young THEN Fail(r, FALSE) ELSE Continue(r)
  /\ UNCHANGED <<world, faults>>

Condemns(type, art) == art \in Flagged[type]

Scanned(r, steps) ==
  req' = [req EXCEPT ![r].step = @ + steps, ![r].scans = @ + 1]

Blocks(m, art) == Condemns(m.type, art) /\ m.mode = "deny"

\* Seeded defect: a finding in warn mode skips the middleware after it.
ScanWarnSkips(r) ==
  LET m == Current(r) IN
  /\ Running(r) /\ m.type \in Scanners
  /\ IF Blocks(m, req[r].art) THEN Fail(r, FALSE)
     ELSE Scanned(r, IF Condemns(m.type, req[r].art) THEN 2 ELSE 1)
  /\ Works
  /\ UNCHANGED world

\* A scanner's Validate: apply with its mode, or applyError with its on_error.
\* malware-scan runs in the process and cannot be out.
Scan(r) ==
  LET m == Current(r) IN
  /\ Running(r) /\ m.type \in Scanners
  /\ \/ Works /\ IF Blocks(m, req[r].art) THEN Fail(r, FALSE) ELSE Scanned(r, 1)
     \/ /\ m.type # "malware-scan" /\ Fails
        /\ IF m.onError = "fail_closed" THEN Fail(r, TRUE) ELSE Scanned(r, 1)
  /\ UNCHANGED world

\* Every middleware has passed: Run returns nil.
Pass(r) ==
  /\ At(r, "run") /\ req[r].step > Len(req[r].chain)
  /\ req' = [req EXCEPT ![r].pc = "done", ![r].by = "passed"]
  /\ UNCHANGED <<world, faults>>

\* Outages that carry a sentinel error the recorder knows.
Transient(r) == req[r].outage /\ req[r].by \in {"guarddog-scan", "cve-check"}

Recordable(r) == req[r].by \in Allowlist /\ ~Transient(r)

\* Seeded defect: an outage is recorded like a verdict.
RecordOutages(r) ==
  /\ At(r, "record")
  /\ \/ /\ denied' = IF req[r].by \in Allowlist
                     THEN denied \union {<<req[r].scope, req[r].art>>} ELSE denied
        /\ Works
     \/ req[r].by \in Allowlist /\ UNCHANGED denied /\ Fails
  /\ req' = [req EXCEPT ![r].pc = "done"]
  /\ UNCHANGED <<override, young, writes>>

\* The OnFailure hook: best effort, the request is rejected either way.
Record(r) ==
  /\ At(r, "record")
  /\ \/ /\ denied' = IF Recordable(r)
                     THEN denied \union {<<req[r].scope, req[r].art>>} ELSE denied
        /\ Works
     \/ Recordable(r) /\ UNCHANGED denied /\ Fails
  /\ req' = [req EXCEPT ![r].pc = "done"]
  /\ UNCHANGED <<override, young, writes>>

-----------------------------------------------------------------------------
Mature(a) ==
  /\ a \in young /\ young' = young \ {a}
  /\ UNCHANGED <<override, denied, req, faults, writes>>

\* An admin write of a project's chain; what the resolver caches in between
\* is ResolverCache's subject.
Configure(p, chain) ==
  /\ writes < MaxWrites /\ writes' = writes + 1
  /\ override' = [override EXCEPT ![p] = chain]
  /\ UNCHANGED <<denied, young, req, faults>>

Next ==
  \/ \E r \in Requests, s \in Scopes, a \in Artifacts : Begin(r, s, a)
  \/ \E r \in Requests : DenyCheck(r) \/ AgeCheck(r) \/ Scan(r) \/ Pass(r) \/ Record(r)
  \/ \E a \in Artifacts : Mature(a)
  \/ \E p \in Projects, chain \in Overrides : Configure(p, chain)

Spec == Init /\ [][Next]_vars

-----------------------------------------------------------------------------
Outcomes == Scanners \union {DenyList, MinAge, "none", "passed"}

\* Every variable keeps its type; a run never goes past the end of its chain.
TypeOK ==
  /\ override \in [Projects -> Seq(Entry)]
  /\ denied \subseteq Scopes \X Artifacts
  /\ young \subseteq Artifacts
  /\ \A r \in Requests : LET q == req[r] IN
       /\ q.pc \in {"idle", "run", "record", "done"} /\ q.by \in Outcomes
       /\ q.scope \in Scopes /\ q.art \in Artifacts /\ q.chain \in Seq(Entry)
       /\ q.step \in 1..(Len(q.chain) + 1) /\ q.scans \in 0..Len(q.chain)
       /\ {q.outage, q.known, q.blind} \subseteq BOOLEAN
  /\ faults \in 0..MaxFaults /\ writes \in 0..MaxWrites

\* Content that a scope has denied is denied again by deny-list-check, before
\* any scanner runs, whatever chain the scope has been given since
\* (resolver.go:149-152, "project overrides can never drop the deny-list
\* check"; README.md:215-219).  A lookup that failed is the exception.
DeniedFast ==
  \A r \in Requests : req[r].pc = "done" /\ req[r].known /\ ~req[r].blind
    => req[r].by = DenyList /\ req[r].scans = 0

\* What the deny list holds, a recorded scanner really condemns: neither an
\* outage nor the age of a version, which both pass, denies content for ever
\* (denylist/record.go:12-16, 47-49).
OnlyCondemnedDenied ==
  \A d \in denied : \E type \in Allowlist \ {MinAge} : Condemns(type, d[2])

\* A request that passed was vetted by the whole chain it began with: a
\* condemned or young artifact got through only where a scanner that fails
\* open was out.
PassedWasVetted ==
  \A r \in Requests : req[r].by = "passed" =>
    \A i \in 1..Len(req[r].chain) : LET m == req[r].chain[i] IN
      /\ m.type = MinAge => req[r].art \notin young
      /\ m.type \in Scanners /\ Blocks(m, req[r].art) =>
           m.type # "malware-scan" /\ m.onError = "fail_open" /\ faults > 0
=============================================================================
