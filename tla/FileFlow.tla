------------------------------- MODULE FileFlow -------------------------------
(***************************************************************************)
(* The trust flow of pypi files and go module zips behind the front door.  *)
(* It differs from the flow of npm tarballs (TrustFlow) in that a version  *)
(* has several files with one deny-list entry between them, that the index *)
(* and the file are two fetches with a checksum between them, and that     *)
(* the retrieval chain here is a chain of caches:                          *)
(*      local-disk-cache -> s3-cache -> upstream-registry.                 *)
(* Each cache holds its mutex for the file while it asks the next one.     *)
(***************************************************************************)
EXTENDS FrontDoor

CONSTANTS
  Configs,     \* the configurations that the front door is examined with
  Asks,        \* the requests that it is examined with
  Running,     \* the configuration that the flow runs under
  Downloads,   \* requests for artifacts
  Requests,
  Tiers,       \* the number of caches; 1 is the head of the chain
  Hashed,      \* artifacts whose index entry advertises a sha256
  AgeGated,    \* scopes whose validation chain has min-publication-age
  Bytes,       \* possible contents
  Published,   \* what the upstream may serve at first
  Fresh,       \* contents that are too young at first
  Earlier,     \* anchors of an earlier run: {<<<<scope, file>>, content>>}
  None,
  MaxTrouble   \* bound: failures, replacements upstream and restarts

\* An artifact is what an ask asks for, without the scope.
Unscoped(o) == [o EXCEPT !.scope = E]
Wanted == {Outcome(Running, a) : a \in Downloads}
Scopes == {o.scope : o \in Wanted}
Named == SetToSeq({Unscoped(o) : o \in Wanted})
Files == DOMAIN Named
FileOf(o) == CHOOSE f \in Files : Named[f] = Unscoped(o)

\* A cleaned path has no empty segments, but it may end in a slash.
ASSUME FrontDoorAssumption ==
  /\ None \notin [config : Configs, ask : Asks]
  /\ \A c \in Configs : \A i \in DOMAIN c.registries :
       LET r == c.registries[i] IN
       /\ r.prefix \in Seq(Seq(STRING))
       /\ Len(r.upstreams) \in Nat /\ DOMAIN r.upstreams = 1..Len(r.upstreams)
  /\ \A a \in Asks :
       /\ a = [method |-> a.method, path |-> a.path, cleaned |-> a.cleaned,
               auth |-> a.auth, cred |-> a.cred]
       /\ a.path \in Seq(Seq(STRING)) /\ a.cleaned \in Seq(Seq(STRING))
       /\ \A i \in DOMAIN a.cleaned :
            /\ a.cleaned[i] = E => i = Len(a.cleaned)
            /\ "/" \notin ToSet(a.cleaned[i])
  /\ Releases \union Listed \subseteq Seq(STRING)

ASSUME FileFlowAssumption ==
  /\ Starts(Running) /\ IsFiniteSet(Downloads)
  /\ \A o \in Wanted : Cacheable(o)
  /\ \A o \in Wanted :
       o = [kind |-> "artifact", reg |-> o.reg, scope |-> o.scope,
            name |-> o.name, version |-> o.version, file |-> o.file]
  /\ Tiers \in Nat \ {0} /\ MaxTrouble \in Nat
  /\ Published \subseteq [Files -> Bytes] /\ Fresh \subseteq Bytes /\ None \notin Bytes
  /\ Earlier \subseteq (Scopes \X Files) \X Bytes

VARIABLES
  visit,      \* the ask that a front door is answering, or None
  req,        \* the pipeline context of each request
  content,    \* what the upstream serves as each file now
  listing,    \* what its index says of each file
  young,      \* contents uploaded less than min_days ago
  cache,      \* the entries of each tier; they survive a restart
  lock,       \* holder of each tier's mutex for each file
  trust,      \* the trust store: scope, file -> validated hash
  denied,     \* the deny list: {<<scope, version, hash>>}
  tracked,    \* download records handed to the tracker
  passed,     \* history: what the validation chain of a scope let through
  trouble,    \* what the bound counts
  replaced,   \* history: the upstream has replaced a file
  deep        \* history: a tier behind the first one has failed

vars == <<visit, req, content, listing, young, cache, lock, trust, denied,
          tracked, passed, trouble, replaced, deep>>

Labels == {"idle", "lookup", "probe", "index", "file", "fill", "verify",
           "evict", "denyCheck", "ageCheck", "scan", "record", "anchor",
           "respond", "done"}

\* index: the entry of the file in ctx.Index; matched: ctx.Artifact is set;
\* tier: the cache that has to answer or to be filled next.
Request == [pc : Labels, scope : Scopes \union {E}, file : Files \union {None},
            body : Bytes \union {None}, index : Bytes \union {None},
            matched : BOOLEAN, tier : 0..Tiers, rec : Bytes \union {None},
            retry : BOOLEAN, code : {"none", "ok", "mismatch", "failed"},
            known : SUBSET Bytes, blind : BOOLEAN]

Idle == [pc |-> "idle", scope |-> E, file |-> None, body |-> None,
         index |-> None, matched |-> FALSE, tier |-> 0, rec |-> None,
         retry |-> FALSE, code |-> "none", known |-> {}, blind |-> FALSE]

\* The database may be older than the caches, whose volume can be lost.
Init ==
  /\ visit = None
  /\ req = [r \in Requests |-> Idle]
  /\ content \in Published /\ listing = content
  /\ young = Fresh
  /\ cache = [t \in 1..Tiers |-> [f \in Files |-> None]]
  /\ lock = [t \in 1..Tiers |-> [f \in Files |-> None]]
  /\ passed \in {{}, Earlier}
  /\ trust = [s \in Scopes |-> [f \in Files |->
                IF \E b \in Bytes : <<<<s, f>>, b>> \in passed
                  THEN CHOOSE b \in Bytes : <<<<s, f>>, b>> \in passed ELSE None]]
  /\ denied = {} /\ tracked = {}
  /\ trouble = 0 /\ replaced = FALSE /\ deep = FALSE

-----------------------------------------------------------------------------
At(r, l) == req[r].pc = l
Scope(r) == req[r].scope
File(r) == req[r].file
Slot(r) == <<req[r].scope, req[r].file>>

Goto(r, l) == req' = [req EXCEPT ![r].pc = l]
\* The context is gone with the answer, but for what is judged by it.
Answers(r, c) ==
  req' = [req EXCEPT ![r] = [@ EXCEPT !.pc = "done", !.code = c, !.tier = 0,
            !.index = None, !.matched = FALSE, !.retry = FALSE]]

Works == UNCHANGED trouble
Fails == trouble < MaxTrouble /\ trouble' = trouble + 1

\* The deferred unlocks of every cache that is still waiting for an answer.
ReleaseAll(r) ==
  lock' = [t \in 1..Tiers |-> [f \in Files |-> IF lock[t][f] = r THEN None
                                              ELSE lock[t][f]]]

environment == <<visit, content, listing, young, replaced>>
stores == <<trust, denied, tracked, passed>>

\* Where fetchBytes leads: ctx.Tarball is set.
Fetched(r) == IF req[r].rec # None THEN "verify" ELSE "denyCheck"

\* The answer of tier t is passed outwards, or it was the outermost one.
Outwards(r, t, body) ==
  req' = [req EXCEPT ![r].pc = IF t = 1 THEN Fetched(r) ELSE "fill",
                     ![r].tier = t - 1, ![r].body = body]

\* A seeded defect: every cache asks another one.
InwardsForEver(r, t) ==
  req' = [req EXCEPT ![r].pc = "probe", ![r].tier = t]

\* The request is handed on to tier t, or to upstream-registry.
Inwards(r, t) ==
  req' = [req EXCEPT ![r].pc = IF t <= Tiers THEN "probe" ELSE "index",
                     ![r].tier = IF t <= Tiers THEN t ELSE 0]

-----------------------------------------------------------------------------
(* Seeded defects.                                                         *)

\* A hit needs no metadata.
AgeCheckTrustsCache(r) ==
  /\ At(r, "ageCheck")
  /\ \/ req[r].matched /\ req[r].index \in young /\ Answers(r, "failed")
     \/ ~(req[r].matched /\ req[r].index \in young) /\ Goto(r, "scan")
  /\ UNCHANGED <<environment, stores, cache, lock, trouble, deep>>

\* The deny list is asked for a file.
FileVersion(f) == Named[f]


\* The innermost cache is evicted.
EvictsInnermost == {Tiers}

\* The re-fetched file is not compared again.
VerifyOnce(r) ==
  /\ At(r, "verify")
  /\ \/ (req[r].body = req[r].rec \/ req[r].retry) /\ Goto(r, "denyCheck")
     \/ req[r].body # req[r].rec /\ ~req[r].retry /\ Goto(r, "evict")
  /\ UNCHANGED <<environment, stores, cache, lock, trouble, deep>>

-----------------------------------------------------------------------------
(* The front door keeps no state: which handler it gives an ask to depends *)
(* on the configuration only, so it is visited while no request is under   *)
(* way, under each configuration that a proxy would start with.            *)

Quiet == trouble = 0 /\ \A r \in Requests : At(r, "idle")
Visit ==
  /\ Quiet /\ visit = None
  /\ visit' \in [config : {c \in Configs : Starts(c)}, ask : Asks]
  /\ UNCHANGED <<req, content, listing, young, cache, lock, trust, denied,
                 tracked, passed, trouble, replaced, deep>>

Leave ==
  /\ visit # None /\ visit' = None
  /\ UNCHANGED <<req, content, listing, young, cache, lock, trust, denied,
                 tracked, passed, trouble, replaced, deep>>

-----------------------------------------------------------------------------
(* serveArtifact and handleZip.                                            *)

\* The deny list knows versions, not files.
Version(f) == [Named[f] EXCEPT !.file = E]
SameVersion(f, g) == \A field \in {"reg", "name", "version"} :
                       Named[f][field] = Named[g][field]

\* Bound: a behaviour is about one registry.  Registries of two types share
\* no table and no cache entry, so their requests do not meet.
OneRegistry(o) ==
  \A q \in Requests : ~At(q, "idle") => Named[File(q)].reg = o.reg

Begin(r, o) ==
  /\ At(r, "idle") /\ OneRegistry(o)
  /\ req' = [req EXCEPT ![r] = [Idle EXCEPT
               !.pc = "lookup", !.scope = o.scope, !.file = FileOf(o),
               !.known = {b \in Bytes : \E f \in Files :
                            /\ SameVersion(f, FileOf(o))
                            /\ <<o.scope, Version(f), b>> \in denied}]]
  /\ UNCHANGED <<environment, stores, cache, lock, trouble, deep>>

Lookup(r) ==
  /\ At(r, "lookup")
  /\ \/ /\ req' = [req EXCEPT ![r].pc = "probe", ![r].tier = 1,
                              ![r].rec = trust[Scope(r)][File(r)]]
        /\ Works
     \/ Answers(r, "failed") /\ Fails
  /\ UNCHANGED <<environment, stores, cache, lock, deep>>

(* localcache.Fetch of each tier around the next one.                      *)

\* What both backends do: no entry is a miss, not an error.
Entry(t, f) == cache[t][f]
Without(t, f) == [cache[t] EXCEPT ![f] = None]

Probe(r) ==
  LET t == req[r].tier
      entry == Entry(t, File(r)) IN
  /\ At(r, "probe")
  /\ lock[t][File(r)] = None
  /\ \/ \* a hit: unlocked again on return
        /\ entry # None /\ Outwards(r, t, entry)
        /\ UNCHANGED <<lock, cache, deep>> /\ Works
     \/ /\ entry = None
        /\ lock' = [lock EXCEPT ![t][File(r)] = r]
        /\ Inwards(r, t + 1)
        /\ UNCHANGED <<cache, deep>> /\ Works
     \/ \* unreadable: dropped, a miss
        /\ lock' = [lock EXCEPT ![t][File(r)] = r]
        /\ cache' = [cache EXCEPT ![t] = Without(t, File(r))]
        /\ Inwards(r, t + 1)
        /\ deep' = (deep \/ t > 1) /\ Fails
  /\ UNCHANGED <<environment, stores>>

Fill(r) ==
  LET t == req[r].tier IN
  /\ At(r, "fill")
  /\ \/ /\ cache' = [cache EXCEPT ![t][File(r)] = req[r].body]
        /\ UNCHANGED deep /\ Works
     \/ UNCHANGED cache /\ deep' = (deep \/ t > 1) /\ Fails   \* ignored
  /\ lock' = [lock EXCEPT ![t][File(r)] = None]
  /\ Outwards(r, t, req[r].body)
  /\ UNCHANGED <<environment, stores>>

(* upstream-registry: the index, unless ctx.Index is still set from the    *)
(* fetch before verifyOrEvict, and then the file.                          *)

FetchIndex(r) ==
  /\ At(r, "index")
  /\ \/ /\ \/ req[r].index # None /\ Goto(r, "file")
           \/ /\ req[r].index = None /\ listing[File(r)] # None
              /\ req' = [req EXCEPT ![r].pc = "file", ![r].matched = TRUE,
                                    ![r].index = listing[File(r)]]
        /\ UNCHANGED lock /\ Works
     \/ /\ req[r].index = None /\ listing[File(r)] = None
        /\ Answers(r, "failed") /\ ReleaseAll(r) /\ Works
     \/ req[r].index = None /\ Answers(r, "failed") /\ ReleaseAll(r) /\ Fails
  /\ UNCHANGED <<environment, stores, cache, deep>>

Accepts(r) == content[File(r)] # None
              /\ (Named[File(r)] \in Hashed => content[File(r)] = req[r].index)

FetchFile(r) ==
  /\ At(r, "file")
  /\ \/ /\ Accepts(r)
        /\ req' = [req EXCEPT ![r].body = content[File(r)], ![r].tier = Tiers,
                              ![r].pc = "fill"]
        /\ UNCHANGED lock /\ Works
     \/ ~Accepts(r) /\ Answers(r, "failed") /\ ReleaseAll(r) /\ Works
     \/ Answers(r, "failed") /\ ReleaseAll(r) /\ Fails
  /\ UNCHANGED <<environment, stores, cache, deep>>

(* verifyOrEvict: the cache it evicts from is the head of the chain.       *)

Verify(r) ==
  /\ At(r, "verify")
  /\ \/ req[r].body = req[r].rec /\ Goto(r, "denyCheck")
     \/ req[r].body # req[r].rec /\ ~req[r].retry /\ Goto(r, "evict")
     \/ req[r].body # req[r].rec /\ req[r].retry /\ Answers(r, "mismatch")
  /\ UNCHANGED <<environment, stores, cache, lock, trouble, deep>>

EvictedTiers == {1}

Evict(r) ==
  /\ At(r, "evict")
  /\ \/ /\ cache' = [t \in 1..Tiers |-> IF t \in EvictedTiers
                                          THEN Without(t, File(r)) ELSE cache[t]]
        /\ Works
     \/ UNCHANGED cache /\ Fails                              \* ignored
  /\ req' = [req EXCEPT ![r].pc = "probe", ![r].tier = 1, ![r].body = None,
                        ![r].retry = TRUE]
  /\ UNCHANGED <<environment, stores, lock, deep>>

(* The validation chain; a trusted request leaves it after the deny list.  *)

AfterDenyCheck(r) ==
  IF req[r].rec # None THEN "respond"
  ELSE IF Scope(r) \in AgeGated THEN "ageCheck" ELSE "scan"

Denied(r) == <<Scope(r), Version(File(r)), req[r].body>> \in denied

DenyCheck(r) ==
  /\ At(r, "denyCheck")
  /\ \/ Denied(r) /\ Answers(r, "failed") /\ Works
     \/ ~Denied(r) /\ Goto(r, AfterDenyCheck(r)) /\ Works
     \/ /\ req' = [req EXCEPT ![r].pc = AfterDenyCheck(r), ![r].blind = TRUE]
        /\ Fails
  /\ UNCHANGED <<environment, stores, cache, lock, deep>>

AgeCheck(r) ==
  /\ At(r, "ageCheck")
  /\ \/ (~req[r].matched \/ req[r].index \in young) /\ Answers(r, "failed")
     \/ req[r].matched /\ req[r].index \notin young /\ Goto(r, "scan")
  /\ UNCHANGED <<environment, stores, cache, lock, trouble, deep>>

Scan(r) ==
  /\ At(r, "scan")
  /\ \/ passed' = passed \union {<<Slot(r), req[r].body>>} /\ Goto(r, "anchor")
     \/ Goto(r, "record") /\ UNCHANGED passed
  /\ UNCHANGED <<environment, trust, denied, tracked, cache, lock, trouble, deep>>

Record(r) ==
  /\ At(r, "record")
  /\ \/ /\ denied' = denied \union {<<Scope(r), Version(File(r)), req[r].body>>}
        /\ Works
     \/ UNCHANGED denied /\ Fails
  /\ Answers(r, "failed")
  /\ UNCHANGED <<environment, trust, tracked, passed, cache, lock, deep>>

Anchor(r) ==
  /\ At(r, "anchor")
  /\ \/ /\ trust' = [trust EXCEPT ![Scope(r)][File(r)] = req[r].body]
        /\ \/ Goto(r, "respond") /\ Works
           \/ Answers(r, "failed") /\ Fails                   \* a lost answer
     \/ Answers(r, "failed") /\ Fails /\ UNCHANGED trust
  /\ UNCHANGED <<environment, denied, tracked, passed, cache, lock, deep>>

\* The mutation chain, trackDownload and the answer.
Respond(r) ==
  /\ At(r, "respond")
  /\ \/ /\ tracked' = IF Scope(r) = E THEN tracked
                      ELSE tracked \union {<<Slot(r), req[r].body>>}
        /\ Answers(r, "ok") /\ Works
     \/ Answers(r, "failed") /\ Fails /\ UNCHANGED tracked
  /\ UNCHANGED <<environment, trust, denied, passed, cache, lock, deep>>

Step(r) ==
  \/ Lookup(r) \/ Probe(r) \/ Fill(r) \/ FetchIndex(r) \/ FetchFile(r)
  \/ Verify(r) \/ Evict(r) \/ DenyCheck(r) \/ AgeCheck(r) \/ Scan(r)
  \/ Record(r) \/ Anchor(r) \/ Respond(r)

-----------------------------------------------------------------------------
(* What surrounds the proxy.                                               *)

\* A file is replaced or withdrawn; the index follows sooner or later.
Replace(f) ==
  /\ content' \in {[content EXCEPT ![f] = b] :
                     b \in (Bytes \union {None}) \ {content[f]}}
  /\ replaced' = TRUE
  /\ Fails
  /\ UNCHANGED <<visit, req, listing, young, cache, lock, stores, deep>>

Reindex(f) ==
  /\ listing[f] # content[f]
  /\ listing' = [listing EXCEPT ![f] = content[f]]
  /\ UNCHANGED <<visit, req, content, young, replaced, cache, lock, stores,
                 trouble, deep>>

Mature ==
  /\ young # {} /\ young' = {}
  /\ UNCHANGED <<visit, req, content, listing, replaced, cache, lock, stores,
                 trouble, deep>>

Corrupt(t, f) ==
  /\ cache[t][f] # None
  /\ cache' \in {[cache EXCEPT ![t][f] = b] : b \in Bytes \ {cache[t][f]}}
  /\ deep' = (deep \/ t > 1) /\ Fails
  /\ UNCHANGED <<environment, req, lock, stores>>

Crash ==
  /\ req' = [r \in Requests |->
               IF req[r].pc \in {"idle", "done"} THEN req[r]
               ELSE [req[r] EXCEPT !.pc = "done", !.code = "failed"]]
  /\ lock' = [t \in 1..Tiers |-> [f \in Files |-> None]]
  /\ Fails
  /\ UNCHANGED <<environment, cache, stores, deep>>

Flow ==
  \/ \E r \in Requests, o \in Wanted : Begin(r, o)
  \/ \E r \in Requests : Step(r)
  \/ \E f \in Files : Replace(f) \/ Reindex(f)
  \/ \E t \in 1..Tiers, f \in Files : Corrupt(t, f)
  \/ Mature \/ Crash

Next ==
  \/ Visit
  \/ Leave
  \/ visit = None /\ Flow

Spec == Init /\ [][Next]_vars

\* A handler goroutine is scheduled, and every call it makes returns.
FairSpec == Spec /\ \A r \in Requests : WF_vars(Step(r))

-----------------------------------------------------------------------------
(* Properties.                                                             *)

\* The variables stay in their types: a request is at most at the last
\* cache, anchors, denials and records are about files that exist.
TypeOK ==
  /\ visit # None => visit.config \in Configs /\ visit.ask \in Asks
  /\ \A r \in Requests :
       /\ req[r].pc \in Labels /\ req[r].scope \in Scopes \union {E}
       /\ req[r].file \in Files \union {None} /\ req[r].tier \in 0..Tiers
       /\ {req[r].body, req[r].index, req[r].rec} \subseteq Bytes \union {None}
       /\ req[r].code \in {"none", "ok", "mismatch", "failed"}
       /\ req[r].known \subseteq Bytes
       /\ {req[r].matched, req[r].retry, req[r].blind} \subseteq BOOLEAN
  /\ {content, listing} \subseteq [Files -> Bytes \union {None}]
  /\ young \subseteq Bytes
  /\ cache \in [1..Tiers -> [Files -> Bytes \union {None}]]
  /\ lock \in [1..Tiers -> [Files -> Requests \union {None}]]
  /\ trust \in [Scopes -> [Files -> Bytes \union {None}]]
  /\ tracked \union passed \subseteq (Scopes \X Files) \X Bytes
  /\ trouble \in 0..MaxTrouble

Anchors == [s \in Scopes \X Files |-> trust[s[1]][s[2]]]
Served == {<<Slot(r), req[r].body>> : r \in {q \in Requests : req[q].code = "ok"}}

Gate == INSTANCE TrustGate WITH
  Slots <- Scopes \X Files,
  Audited <- (Scopes \ {E}) \X Files,
  Contents <- Bytes, NoAnchor <- None,
  anchor <- Anchors, served <- Served, recorded <- tracked

\* The flow of files keeps the promise that the flow of npm tarballs keeps
\* (TrustGate): whatever caches, indexes and retries lie between, a step
\* passes, anchors or serves one file in one scope, or none at all.
ImplementsGate == Gate!Spec

\* min-publication-age "fails closed": it judges the index entry, and what it
\* lets on is the file itself.  They are one thing only where the index
\* advertises a checksum and the file was fetched by this very request.
OldEnoughOnly ==
  \A r \in Requests :
    /\ req[r].pc \in {"scan", "record", "anchor"}
    /\ Scope(r) \in AgeGated /\ Named[File(r)] \in Hashed
    => req[r].body \notin young

\* A denial is recorded for a version and a hash: no file of that version
\* with that content is served in the scope to a request that begins later,
\* unless the deny list could not be asked.
DenialCoversVersion ==
  \A r \in Requests :
    req[r].code = "ok" /\ ~req[r].blind => req[r].body \notin req[r].known

\* "Evict removes the cached artifact (used when a cached artifact fails
\* integrity verification)": one failure of the outermost cache never makes
\* a trusted file fail while the upstream still serves it, although the
\* inner caches are not evicted.
OuterFaultHeals ==
  \A r \in Requests :
    req[r].code = "mismatch" /\ req[r].rec = content[File(r)] /\ ~replaced
      => trouble >= 2 \/ deep


\* "A client authorized to pull packages cannot mutate project configs":
\* packages need the one token, the admin API the other one and never the
\* first, and what is public asks for none.
TokensSeparate ==
  visit # None /\ Apart(visit.config) => Separated(visit.config, visit.ask)

\* How a client spells what it asks for.  A version is bare if the file name
\* rule of npm leaves it alone; no npm package is called p/<key> or -, none is
\* asked for with a slash at its end; a host has no dot after its port.
Bare(name, version) == BareVersion(Last(Segments(name)), version) = version
Spelled ==
  \A c \in Configs, a \in Asks :
    LET o == Outcome(c, a)
        path == Remaining(Below(Registry(c, a), a)) IN
    Starts(c) /\ Flat(c) =>
      /\ o.kind = "artifact" /\ o.reg = "npm" => Bare(o.name, o.version)
      /\ o.kind = "index" /\ o.reg = "npm" =>
           /\ ~Scoped(Segments(o.name)) /\ Last(Segments(o.name)) \notin {E, <<"-">>}
           /\ \A v \in Releases : v # E /\ Bare(o.name, v)
      /\ o.kind = "index" /\ o.reg = "pypi" => E \notin Listed
      /\ o.kind = "artifact" /\ o.reg = "pypi" /\ path[1] = <<"upstream">> =>
           NoPort(NoDot(path[2])) = NoDot(NoPort(path[2]))

\* A link in an index that the proxy rewrote leads to that artifact, every
\* spelling of an artifact is one identity in the trust store, with a cache
\* entry that no other artifact has, and a pull goes where its path says.
LinksResolve ==
  visit # None /\ Flat(visit.config) =>
    /\ Linked(visit.config, visit.ask)
    /\ Outcome(visit.config, visit.ask).kind = "artifact" =>
         LET o == Outcome(visit.config, visit.ask) IN
         \A a \in Asks :
           LET p == Outcome(visit.config, a) IN
           /\ p.kind = "artifact" /\ Cacheable(o) /\ Cacheable(p)
           /\ CacheKey(o) = CacheKey(p)
           => Unscoped(o) = Unscoped(p)
===============================================================================
