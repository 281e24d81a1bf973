----------------------------- MODULE FileFlowProofs -----------------------------
(***************************************************************************)
(* Theorems about FileFlow, for every configuration, set of requests,      *)
(* scopes and files, and every number of caches.  First the two tokens of  *)
(* the front door: the hand-written exempt predicate of the outer gate     *)
(* agrees with what the ServeMux behind it does.  Then the flow of files   *)
(* and zips: what each action does field by field, FlowInv, each of whose  *)
(* parts is carried through a step by one lemma, and the refinement of     *)
(* TrustGate.                                                              *)
(***************************************************************************)
EXTENDS FileFlow, FoldTheorems, FiniteSetTheorems, TLAPS

Segment == Seq(STRING)

\* Trimming the slashes at the end of a prefix leaves its first segment.
LEMMA TrimmedHead ==
  ASSUME NEW p \in Seq(Segment), Trimmed(p) # E
  PROVE  /\ Trimmed(p) \in Seq(Segment)
         /\ Len(Trimmed(p)) >= 1
         /\ Trimmed(p)[1] = p[1]
         /\ Len(p) >= 1
<1> DEFINE S == {0} \union {i \in DOMAIN p : p[i] # E}
           m == Max(S)
<1>1. S \in SUBSET (0..Len(p)) /\ S # {} /\ Len(p) \in Nat
  OBVIOUS
<1>2. m \in 0..Len(p)
  BY <1>1, GreatestElement
<1>3. Trimmed(p) = SubSeq(p, 1, m)
  BY DEF Trimmed
<1> HIDE DEF m
<1>4. m # 0
  BY <1>3 DEF E
<1>5. QED
  BY <1>2, <1>3, <1>4

\* What lies below a prefix begins with its first segment.
LEMMA UnderHead ==
  ASSUME NEW S, NEW p \in Seq(S), NEW T, NEW path \in Seq(T), Len(p) >= 1,
         Under(p, path)
  PROVE  path[1] = p[1]
<1>1. SubSeq(p, 1, Len(p)) = SubSeq(path, 1, Len(p)) /\ Len(p) <= Len(path)
  BY DEF Under, IsPrefix
<1>2. SubSeq(p, 1, Len(p))[1] = p[1]
  OBVIOUS
<1>3. SubSeq(path, 1, Len(p))[1] = path[1]
  BY <1>1
<1>4. QED
  BY <1>1, <1>2, <1>3

\* The same of the prefixes that have one segment.
LEMMA ShortPath ==
  ASSUME NEW path \in Seq(Segment), NEW s
  PROVE  /\ path[1] # s => ~Under(<<s>>, path)
         /\ Len(path) > 1 => path # <<s>>
<1> DEFINE p == <<s>>
<1>1. p \in Seq({s}) /\ Len(p) = 1 /\ p[1] = s
  OBVIOUS
<1> HIDE DEF p
<1>2. path[1] # s => ~Under(p, path)
  <2>1. Len(p) >= 1
    BY <1>1
  <2>2. Under(p, path) => path[1] = p[1]
    BY <1>1, <2>1, UnderHead, Zenon
  <2>3. QED
    BY <1>1, <2>2, Zenon
<1>3. Len(path) > 1 => path # p
  <2>1. \A n \in Nat : n > 1 => n # 1
    OBVIOUS
  <2>2. Len(path) \in Nat
    OBVIOUS
  <2>3. QED
    BY <1>1, <2>1, <2>2, Zenon
<1>4. QED
  BY <1>2, <1>3, Zenon DEF p

-----------------------------------------------------------------------------
Prefixed(c) == \A i \in DOMAIN c.registries : c.registries[i].prefix \in Seq(Segment)

\* A path that a registry is mounted at is neither below /admin nor /healthz,
\* so that Exempt does not excuse it.
LEMMA MountedNotExempt ==
  ASSUME NEW c, NEW path \in Seq(Segment), Starts(c), Apart(c), Prefixed(c),
         Mounted(c, path) # {}
  PROVE  ~Exempt(c, path)
<1>1. PICK i \in DOMAIN c.registries : Under(Trimmed(c.registries[i].prefix), path)
  BY DEF Mounted
<1> DEFINE p == c.registries[i].prefix
<1>2. p \in Seq(Segment) /\ Trimmed(p) # E
  BY <1>1 DEF Prefixed, Starts, Valid, ValidRegistry
<1>3. p[1] # <<"admin">>
  BY <1>1, <1>2 DEF Apart
<1> HIDE DEF p
<1>4. Under(Trimmed(p), path)
  BY <1>1 DEF p
<1>5. /\ Trimmed(p) \in Seq(Segment) /\ Len(Trimmed(p)) >= 1
      /\ Trimmed(p)[1] = p[1]
  BY <1>2, TrimmedHead
<1>6. path[1] # <<"admin">>
  BY <1>3, <1>4, <1>5, UnderHead
<1>7. Len(path) > 1
  BY <1>4, <1>5 DEF Under
<1>8. ~Under(<<<<"admin">>>>, path)
  BY <1>6, ShortPath, Zenon
<1>9. path # <<<<"healthz">>>>
  BY <1>7, ShortPath, Zenon
<1>10. QED
  BY <1>8, <1>9 DEF Exempt

\* The two gates keep what they promise of every request, in every
\* configuration that starts and has no registry below /admin.
LEMMA GatesApart ==
  ASSUME NEW c, NEW ask, ask.path \in Seq(Segment), Starts(c), Apart(c), Prefixed(c)
  PROVE  Separated(c, ask)
<1>1. ValidTokens(c)
  BY DEF Starts, Valid
<1>2. ASSUME Reaches(c, ask) = "registry"
      PROVE  c.token = "" \/ Presents(ask, c.token)
  <2>1. TokenAuth(c, ask) /\ Mux(c, ask) = "registry"
    BY <1>2 DEF Reaches
  <2>2. Mounted(c, ask.path) # {}
    BY <2>1 DEF Mux
  <2>3. QED
    BY <2>1, <2>2, MountedNotExempt DEF TokenAuth
<1>3. ASSUME Reaches(c, ask) = "admin"
      PROVE  /\ Presents(ask, c.admin)
             /\ c.token # "" => ~Presents(ask, c.token)
  <2>1. Mux(c, ask) = "admin"
    BY <1>3 DEF Reaches
  <2>2. AdminTokenAuth(c, ask)
    BY <2>1 DEF Mux
  <2>3. QED
    BY <2>2, <1>1 DEF AdminTokenAuth, Presents, ValidTokens
<1>4. ASSUME Mux(c, ask) \in {"healthz", "webui"}, ask.path = ask.cleaned
      PROVE  Reaches(c, ask) # "401"
  <2>1. Exempt(c, ask.path)
    BY <1>4 DEF Mux, Exempt
  <2>2. QED
    BY <2>1, <1>4 DEF TokenAuth, Reaches
<1>5. QED
  BY <1>2, <1>3, <1>4 DEF Separated

-----------------------------------------------------------------------------
\* A front door is only ever visited with a configuration that starts.
Visiting ==
  visit # None => /\ visit.config \in Configs /\ Starts(visit.config)
                  /\ visit.ask \in Asks

LEMMA VisitingInductive ==
  ASSUME Visiting, [Next]_vars
  PROVE  Visiting'
<1>1. CASE Visit
  BY <1>1, FrontDoorAssumption DEF Visit, Visiting
<1>2. CASE Leave
  BY <1>2 DEF Leave, Visiting
<1>3. ASSUME visit' = visit
      PROVE  Visiting'
  BY <1>3 DEF Visiting
<1>4. CASE visit = None /\ Flow
  <2> SUFFICES visit' = visit
    BY <1>3
  <2>1. CASE \E r \in Requests, o \in Wanted : Begin(r, o)
    BY <2>1 DEF Begin, environment
  <2>2. CASE \E r \in Requests : Step(r)
    <3> PICK r \in Requests : Step(r)
      BY <2>2
    <3>1. CASE Lookup(r) \/ Probe(r) \/ Fill(r) \/ FetchIndex(r) \/ FetchFile(r)
      BY <3>1 DEF Lookup, Probe, Fill, FetchIndex, FetchFile, environment
    <3>2. CASE Verify(r) \/ Evict(r) \/ DenyCheck(r) \/ AgeCheck(r)
      BY <3>2 DEF Verify, Evict, DenyCheck, AgeCheck, environment
    <3>3. CASE Scan(r) \/ Record(r) \/ Anchor(r) \/ Respond(r)
      BY <3>3 DEF Scan, Record, Anchor, Respond, environment
    <3>4. QED
      BY <3>1, <3>2, <3>3 DEF Step
  <2>3. CASE \E f \in Files : Replace(f) \/ Reindex(f)
    BY <2>3 DEF Replace, Reindex
  <2>4. CASE (\E t \in 1..Tiers, f \in Files : Corrupt(t, f)) \/ Mature \/ Crash
    BY <2>4 DEF Corrupt, Mature, Crash, environment
  <2>5. QED
    BY <1>4, <2>1, <2>2, <2>3, <2>4 DEF Flow
<1>5. CASE UNCHANGED vars
  BY <1>3, <1>5 DEF vars
<1>6. QED
  BY <1>1, <1>2, <1>4, <1>5 DEF Next

\* TokensSeparate: the package token and the admin token open different
\* doors, in every configuration that config.Validate and the adapters let
\* the proxy start with and for every request.
THEOREM TokensApart == Spec => []TokensSeparate
<1>1. Init => Visiting
  BY DEF Init, Visiting
<1>2. Visiting /\ [Next]_vars => Visiting'
  BY VisitingInductive
<1>3. Visiting => TokensSeparate
  <2>1. ASSUME Visiting, visit # None, Apart(visit.config)
        PROVE  Separated(visit.config, visit.ask)
    <3>1. Starts(visit.config) /\ Prefixed(visit.config)
      BY <2>1, FrontDoorAssumption DEF Visiting, Prefixed, Segment
    <3>2. visit.ask.path \in Seq(Segment)
      BY <2>1, FrontDoorAssumption DEF Visiting, Segment
    <3>3. QED
      BY <2>1, <3>1, <3>2, GatesApart
  <2>2. QED
    BY <2>1 DEF TokensSeparate
<1>4. QED
  BY <1>1, <1>2, <1>3, PTL DEF Spec

-----------------------------------------------------------------------------
(* The files that the downloads name.                                      *)

\* Every artifact that is downloaded has a number.
LEMMA NamedIsBijective ==
  /\ Named \in [Files -> {Unscoped(o) : o \in Wanted}]
  /\ \A o \in Wanted : \E f \in Files : Named[f] = Unscoped(o)
<1> DEFINE S == {Unscoped(o) : o \in Wanted}
           n == Cardinality(S)
<1>1. IsFiniteSet(Wanted)
  <2> DEFINE g == [a \in Downloads |-> Outcome(Running, a)]
  <2>1. g \in Surjection(Downloads, Wanted)
    BY Zenon DEF Surjection, Wanted
  <2>2. QED
    BY <2>1, FileFlowAssumption, FS_Surjection, Zenon
<1>2. IsFiniteSet(S)
  <2> DEFINE g == [o \in Wanted |-> Unscoped(o)]
  <2>1. g \in Surjection(Wanted, S)
    BY Zenon DEF Surjection
  <2>2. QED
    BY <1>1, <2>1, FS_Surjection, Zenon
<1>3. n \in Nat /\ ExistsBijection(1..n, S)
  BY <1>2, FS_CardinalityType, Zenon
<1>4. Named = SetToSeq(S)
  BY Zenon DEF Named
<1> HIDE DEF S, n
<1>5. Named = CHOOSE f \in [1..Cardinality(S) -> S] : IsInjective(f)
  BY <1>4, Zenon DEF SetToSeq
<1>6. PICK f \in [1..n -> S] : IsInjective(f)
  BY <1>3, Zenon DEF ExistsBijection, Bijection, Injection
<1>7. Named \in Injection(1..n, S)
  BY <1>5, <1>6, Zenon DEF Injection, n
<1>8. IsFiniteSet(1..n) /\ Cardinality(1..n) = n
  BY <1>3, FS_Interval
<1>9. Named \in Surjection(1..n, S)
  BY <1>2, <1>7, <1>8, FS_Injection, Zenon DEF n
<1>10. Files = 1..n
  BY <1>7, Zenon DEF Files, Injection
<1>11. QED
  BY <1>9, <1>10, Zenon DEF Surjection, S

\* FileOf finds it.
LEMMA FileOfIn ==
  ASSUME NEW o \in Wanted
  PROVE  FileOf(o) \in Files /\ Named[FileOf(o)] = Unscoped(o)
BY NamedIsBijective, Zenon DEF FileOf

Artifact(u, s, x, y, z) == [kind |-> "artifact", reg |-> u, scope |-> s,
                            name |-> x, version |-> y, file |-> z]

\* An artifact without its scope, and without its file.
LEMMA Cleared ==
  ASSUME NEW o, NEW u, NEW s, NEW x, NEW y, NEW z, o = Artifact(u, s, x, y, z)
  PROVE  /\ Unscoped(o).reg = u /\ Unscoped(o).name = x /\ Unscoped(o).version = y
         /\ [Unscoped(o) EXCEPT !.file = E] = Artifact(u, E, x, y, E)
<1>1. Unscoped(o) = Artifact(u, E, x, y, z)
  BY DEF Artifact, Unscoped
<1>2. [Artifact(u, E, x, y, z) EXCEPT !.file = E] = Artifact(u, E, x, y, E)
  BY DEF Artifact
<1>3. QED
  BY <1>1, <1>2 DEF Artifact

\* Files with the registry, the name and the version in common are of one
\* version to the deny list.
LEMMA OneVersion ==
  ASSUME NEW f \in Files, NEW g \in Files, SameVersion(f, g)
  PROVE  Version(f) = Version(g)
<1>1. \A h \in Files :
        Version(h) = Artifact(Named[h].reg, E, Named[h].name, Named[h].version, E)
  <2> TAKE h \in Files
  <2>1. PICK o \in Wanted : Named[h] = Unscoped(o)
    BY NamedIsBijective
  <2>2. o = Artifact(o.reg, o.scope, o.name, o.version, o.file)
    BY FileFlowAssumption, Zenon DEF Artifact
  <2>3. /\ Unscoped(o).reg = o.reg /\ Unscoped(o).name = o.name
        /\ Unscoped(o).version = o.version
        /\ [Unscoped(o) EXCEPT !.file = E] = Artifact(o.reg, E, o.name, o.version, E)
    BY <2>2, Cleared
  <2>4. QED
    BY <2>1, <2>3, Zenon DEF Version
<1>2. QED
  BY <1>1, Zenon DEF SameVersion

-----------------------------------------------------------------------------
\* A step of r leaves the contexts of the other requests alone.
Others(r) ==
  /\ req' \in [Requests -> Request]
  /\ \A q \in Requests : q # r => req'[q] = req[q]

\* It also keeps the slot of r and the denials that r has to heed.
Keeps(r) ==
  /\ Others(r)
  /\ req'[r].scope = req[r].scope /\ req'[r].file = req[r].file
  /\ req'[r].known = req[r].known

Remembers(r) ==
  /\ req'[r].index = req[r].index /\ (req'[r].matched <=> req[r].matched)
  /\ (req'[r].retry <=> req[r].retry)

\* It moves on to l with what it has.
Moves(r, l) ==
  /\ Keeps(r) /\ Remembers(r)
  /\ req'[r].pc = l /\ req'[r].code = req[r].code
  /\ req'[r].body = req[r].body /\ req'[r].rec = req[r].rec
  /\ (req'[r].blind <=> req[r].blind) /\ req'[r].tier = req[r].tier

\* It is answered.
Finishes(r, c) ==
  /\ Keeps(r)
  /\ req'[r].pc = "done" /\ req'[r].code = c
  /\ req'[r].body = req[r].body /\ req'[r].rec = req[r].rec
  /\ (req'[r].blind <=> req[r].blind) /\ ~req'[r].retry

\* It asks, or is answered by, another cache, or the upstream.
Passes(r, l, t, b) ==
  /\ Keeps(r) /\ Remembers(r)
  /\ req'[r].pc = l /\ req'[r].tier = t /\ req'[r].body = b
  /\ req'[r].code = req[r].code /\ req'[r].rec = req[r].rec
  /\ (req'[r].blind <=> req[r].blind)

Codes == {"none", "ok", "mismatch", "failed"}

\* The fields of the contexts.
LEMMA ContextTypes ==
  ASSUME req \in [Requests -> Request]
  PROVE  \A q \in Requests :
           /\ req[q].pc \in Labels /\ req[q].scope \in Scopes \union {E}
           /\ req[q].file \in Files \union {None} /\ req[q].tier \in 0..Tiers
           /\ req[q].body \in Bytes \union {None} /\ req[q].index \in Bytes \union {None}
           /\ req[q].rec \in Bytes \union {None} /\ req[q].code \in Codes
           /\ req[q].known \subseteq Bytes
           /\ req[q].matched \in BOOLEAN /\ req[q].retry \in BOOLEAN
           /\ req[q].blind \in BOOLEAN
BY DEF Request, Codes

\* One request's context is replaced.
LEMMA Replaced ==
  ASSUME req \in [Requests -> Request], NEW r \in Requests, NEW s \in Request,
         req' = [req EXCEPT ![r] = s]
  PROVE  Others(r) /\ req'[r] = s
BY DEF Others

\* The helpers that the actions change a context with.
LEMMA GotoMoves ==
  ASSUME req \in [Requests -> Request], NEW r \in Requests, NEW l \in Labels,
         Goto(r, l)
  PROVE  Moves(r, l)
<1> DEFINE c == req[r]
           s == [c EXCEPT !.pc = l]
<1>1. c \in Request
  OBVIOUS
<1>2. req' = [req EXCEPT ![r] = s]
  BY DEF Goto
<1> HIDE DEF c
<1>3. /\ s \in Request /\ s.scope = c.scope /\ s.file = c.file
      /\ s.known = c.known /\ s.index = c.index /\ (s.matched <=> c.matched)
      /\ (s.retry <=> c.retry) /\ s.pc = l /\ s.code = c.code /\ s.body = c.body
      /\ s.rec = c.rec /\ (s.blind <=> c.blind) /\ s.tier = c.tier
  BY <1>1 DEF Request
<1> HIDE DEF s
<1>4. Others(r) /\ req'[r] = s
  BY <1>2, <1>3, Replaced
<1>5. QED
  BY <1>3, <1>4 DEF Moves, Keeps, Remembers, c

LEMMA AnswerFinishes ==
  ASSUME req \in [Requests -> Request], NEW r \in Requests, NEW d \in Codes,
         Answers(r, d)
  PROVE  Finishes(r, d)
<1> DEFINE c == req[r]
           s == [c EXCEPT !.pc = "done", !.code = d, !.tier = 0,
                          !.index = None, !.matched = FALSE, !.retry = FALSE]
<1>1. c \in Request
  OBVIOUS
<1>2. req' = [req EXCEPT ![r] = s]
  BY DEF Answers
<1>3. 0 \in 0..Tiers /\ "done" \in Labels
  BY FileFlowAssumption DEF Labels
<1> HIDE DEF c
<1>4. /\ s \in Request /\ s.scope = c.scope /\ s.file = c.file
      /\ s.known = c.known /\ s.pc = "done" /\ s.code = d /\ s.body = c.body
      /\ s.rec = c.rec /\ (s.blind <=> c.blind) /\ ~s.retry
  BY ZenonT(60), <1>1, <1>3 DEF Request, Codes
<1> HIDE DEF s
<1>5. Others(r) /\ req'[r] = s
  BY <1>2, <1>4, Replaced
<1>6. QED
  BY <1>4, <1>5 DEF Finishes, Keeps, c

LEMMA PassesOn ==
  ASSUME req \in [Requests -> Request], NEW r \in Requests, NEW l \in Labels,
         NEW t \in 0..Tiers, NEW b \in Bytes \union {None},
         req' = [req EXCEPT ![r].pc = l, ![r].tier = t, ![r].body = b]
  PROVE  Passes(r, l, t, b)
<1> DEFINE c == req[r]
           s == [c EXCEPT !.pc = l, !.tier = t, !.body = b]
<1>1. c \in Request
  OBVIOUS
<1>2. req' = [req EXCEPT ![r] = s]
  OBVIOUS
<1> HIDE DEF c
<1>3. /\ s \in Request /\ s.scope = c.scope /\ s.file = c.file
      /\ s.known = c.known /\ s.index = c.index /\ (s.matched <=> c.matched)
      /\ (s.retry <=> c.retry) /\ s.pc = l /\ s.code = c.code /\ s.body = b
      /\ s.rec = c.rec /\ (s.blind <=> c.blind) /\ s.tier = t
  BY ZenonT(60), <1>1 DEF Request
<1> HIDE DEF s
<1>4. Others(r) /\ req'[r] = s
  BY <1>2, <1>3, Replaced
<1>5. QED
  BY <1>3, <1>4 DEF Passes, Keeps, Remembers, c

LEMMA LooksUp ==
  ASSUME req \in [Requests -> Request], NEW r \in Requests,
         NEW v \in Bytes \union {None},
         req' = [req EXCEPT ![r].pc = "probe", ![r].tier = 1, ![r].rec = v]
  PROVE  /\ Keeps(r) /\ Remembers(r) /\ req'[r].pc = "probe" /\ req'[r].tier = 1
         /\ req'[r].rec = v /\ req'[r].body = req[r].body
         /\ req'[r].code = req[r].code /\ (req'[r].blind <=> req[r].blind)
<1> DEFINE c == req[r]
           l == "probe"
           t == 1
           s == [c EXCEPT !.pc = l, !.tier = t, !.rec = v]
<1>1. c \in Request /\ l \in Labels /\ t \in 0..Tiers
  BY FileFlowAssumption DEF Labels
<1>2. req' = [req EXCEPT ![r] = s]
  OBVIOUS
<1> HIDE DEF c, l, t
<1>3. /\ s \in Request /\ s.scope = c.scope /\ s.file = c.file
      /\ s.known = c.known /\ s.index = c.index /\ (s.matched <=> c.matched)
      /\ (s.retry <=> c.retry) /\ s.pc = l /\ s.code = c.code /\ s.body = c.body
      /\ s.rec = v /\ (s.blind <=> c.blind) /\ s.tier = t
  BY ZenonT(60), <1>1 DEF Request
<1> HIDE DEF s
<1>4. Others(r) /\ req'[r] = s
  BY <1>2, <1>3, Replaced
<1>5. QED
  BY <1>3, <1>4 DEF Keeps, Remembers, c, l, t

LEMMA OutwardsPasses ==
  ASSUME req \in [Requests -> Request], NEW r \in Requests, NEW t \in 1..Tiers,
         NEW b \in Bytes \union {None}, Outwards(r, t, b)
  PROVE  Passes(r, IF t = 1 THEN Fetched(r) ELSE "fill", t - 1, b)
<1> DEFINE l == IF t = 1 THEN Fetched(r) ELSE "fill"
<1>1. l \in Labels
  BY DEF Fetched, Labels
<1>2. t - 1 \in 0..Tiers
  BY FileFlowAssumption
<1>3. req' = [req EXCEPT ![r].pc = l, ![r].tier = t - 1, ![r].body = b]
  BY DEF Outwards
<1> HIDE DEF l
<1>4. Passes(r, l, t - 1, b)
  BY <1>1, <1>2, <1>3, PassesOn
<1>5. QED
  BY <1>4 DEF l

LEMMA InwardsPasses ==
  ASSUME req \in [Requests -> Request], NEW r \in Requests, NEW t \in 1..Tiers,
         Inwards(r, t + 1)
  PROVE  \/ \E u \in 1..Tiers : Passes(r, "probe", u, req[r].body)
         \/ Passes(r, "index", 0, req[r].body)
<1> DEFINE l == IF t + 1 <= Tiers THEN "probe" ELSE "index"
           u == IF t + 1 <= Tiers THEN t + 1 ELSE 0
           c == req[r]
           s == [c EXCEPT !.pc = l, !.tier = u]
<1>1. c \in Request
  OBVIOUS
<1>2. req' = [req EXCEPT ![r] = s]
  BY DEF Inwards
<1>3. l \in Labels /\ u \in 0..Tiers
  BY FileFlowAssumption DEF Labels
<1>4. \/ l = "probe" /\ u \in 1..Tiers
      \/ l = "index" /\ u = 0
  BY FileFlowAssumption
<1> HIDE DEF c, l, u
<1>5. /\ s \in Request /\ s.scope = c.scope /\ s.file = c.file
      /\ s.known = c.known /\ s.index = c.index /\ (s.matched <=> c.matched)
      /\ (s.retry <=> c.retry) /\ s.pc = l /\ s.code = c.code /\ s.body = c.body
      /\ s.rec = c.rec /\ (s.blind <=> c.blind) /\ s.tier = u
  BY <1>1, <1>3 DEF Request
<1> HIDE DEF s
<1>6. Others(r) /\ req'[r] = s
  BY <1>2, <1>5, Replaced
<1>7. Passes(r, l, u, req[r].body)
  BY <1>5, <1>6 DEF Passes, Keeps, Remembers, c
<1>8. QED
  BY <1>4, <1>7

-----------------------------------------------------------------------------
\* A request under way has a slot, one that is with a cache knows which, one
\* past the retrieval has a file, and only an answer has a code.
Shaped(q) ==
  /\ req[q].pc # "idle" => req[q].scope \in Scopes /\ req[q].file \in Files
  /\ req[q].pc \in {"probe", "fill"} => req[q].tier \in 1..Tiers
  /\ req[q].pc \in {"fill", "verify", "denyCheck", "ageCheck", "scan", "record",
                    "anchor", "respond"} \/ req[q].code = "ok"
       => req[q].body \in Bytes
  /\ req[q].pc # "done" => req[q].code = "none"

CacheType == [1..Tiers -> [Files -> Bytes \union {None}]]
TrustType == [Scopes -> [Files -> Bytes \union {None}]]

Stored ==
  /\ content \in [Files -> Bytes \union {None}]
  /\ listing \in [Files -> Bytes \union {None}]
  /\ young \subseteq Bytes
  /\ cache \in CacheType
  /\ trust \in TrustType
  /\ tracked \subseteq (Scopes \X Files) \X Bytes
  /\ passed \subseteq (Scopes \X Files) \X Bytes
  /\ trouble \in 0..MaxTrouble

Typed ==
  /\ req \in [Requests -> Request]
  /\ Stored
  /\ \A q \in Requests : Shaped(q)

\* What the bound counts.
LEMMA Counted ==
  ASSUME trouble \in 0..MaxTrouble
  PROVE  /\ Works => trouble' = trouble
         /\ Fails => trouble' = trouble + 1
         /\ Works \/ Fails => trouble' \in 0..MaxTrouble
BY FileFlowAssumption DEF Works, Fails

\* The writes of the caches and of the trust store keep their types.
LEMMA CacheKept ==
  ASSUME cache \in CacheType, NEW t \in 1..Tiers, NEW f \in Files,
         NEW b \in Bytes \union {None}
  PROVE  /\ [cache EXCEPT ![t][f] = b] \in CacheType
         /\ [cache EXCEPT ![t] = Without(t, f)] \in CacheType
         /\ [u \in 1..Tiers |-> IF u = 1 THEN Without(u, f) ELSE cache[u]] \in CacheType
<1>1. \A u \in 1..Tiers : cache[u] \in [Files -> Bytes \union {None}]
  BY DEF CacheType
<1>2. \A u \in 1..Tiers : Without(u, f) \in [Files -> Bytes \union {None}]
  BY <1>1 DEF Without
<1>3. [cache[t] EXCEPT ![f] = b] \in [Files -> Bytes \union {None}]
  BY <1>1
<1>4. QED
  BY <1>1, <1>2, <1>3 DEF CacheType

LEMMA TrustKept ==
  ASSUME trust \in TrustType, NEW s \in Scopes, NEW f \in Files,
         NEW b \in Bytes \union {None}
  PROVE  [trust EXCEPT ![s][f] = b] \in TrustType
BY DEF TrustType

\* A request under way finds its slot and its file everywhere.
LEMMA Slotted ==
  ASSUME Typed, NEW r \in Requests, req[r].pc # "idle"
  PROVE  /\ req[r].scope \in Scopes /\ req[r].file \in Files
         /\ trust[req[r].scope][req[r].file] \in Bytes \union {None}
         /\ content[req[r].file] \in Bytes \union {None}
         /\ listing[req[r].file] \in Bytes \union {None}
         /\ \A t \in 1..Tiers : cache[t][req[r].file] \in Bytes \union {None}
BY DEF Typed, Stored, Shaped, CacheType, TrustType

-----------------------------------------------------------------------------
(* What each action does, field by field.                                  *)

LookupDoes(r) ==
  /\ UNCHANGED <<content, listing, young, replaced, cache, trust, denied,
                 tracked, passed, deep>>
  /\ req[r].pc = "lookup"
  /\ \/ /\ Keeps(r) /\ Remembers(r) /\ req'[r].pc = "probe" /\ req'[r].tier = 1
        /\ req'[r].rec = trust[req[r].scope][req[r].file]
        /\ req'[r].body = req[r].body /\ req'[r].code = req[r].code
        /\ (req'[r].blind <=> req[r].blind) /\ trouble' = trouble
     \/ Finishes(r, "failed") /\ trouble' = trouble + 1
  /\ trouble' \in 0..MaxTrouble

LEMMA LookupEffect ==
  ASSUME Typed, NEW r \in Requests, Lookup(r)
  PROVE  LookupDoes(r)
<1> USE DEF LookupDoes
<1>0. req \in [Requests -> Request] /\ trouble \in 0..MaxTrouble
  BY DEF Typed, Stored
<1>1. /\ Works => trouble' = trouble
      /\ Fails => trouble' = trouble + 1
      /\ Works \/ Fails => trouble' \in 0..MaxTrouble
  BY <1>0, Counted
<1>2. trust[req[r].scope][req[r].file] \in Bytes \union {None}
  BY Slotted DEF Lookup, At
<1>3. CASE /\ req' = [req EXCEPT ![r].pc = "probe", ![r].tier = 1,
                                ![r].rec = trust[Scope(r)][File(r)]]
           /\ Works
  <2>1. /\ Keeps(r) /\ Remembers(r) /\ req'[r].pc = "probe" /\ req'[r].tier = 1
        /\ req'[r].rec = trust[req[r].scope][req[r].file]
        /\ req'[r].body = req[r].body /\ req'[r].code = req[r].code
        /\ (req'[r].blind <=> req[r].blind)
    BY <1>0, <1>2, <1>3, LooksUp DEF Scope, File
  <2>2. QED
    BY <1>1, <1>3, <2>1 DEF Lookup, At, environment, stores
<1>4. CASE Answers(r, "failed") /\ Fails
  BY <1>0, <1>1, <1>4, AnswerFinishes DEF Codes, Lookup, At, environment, stores
<1>5. QED
  BY <1>3, <1>4 DEF Lookup

ProbeDoes(r) ==
  /\ UNCHANGED <<content, listing, young, replaced, trust, denied,
                 tracked, passed>>
  /\ req[r].pc = "probe"
  /\ req[r].tier \in 1..Tiers
  /\ \/ /\ cache[req[r].tier][req[r].file] # None
        /\ Passes(r, IF req[r].tier = 1 THEN Fetched(r) ELSE "fill",
                     req[r].tier - 1, cache[req[r].tier][req[r].file])
        /\ UNCHANGED <<cache, deep>> /\ trouble' = trouble
     \/ /\ \/ \E u \in 1..Tiers : Passes(r, "probe", u, req[r].body)
           \/ Passes(r, "index", 0, req[r].body)
        /\ \/ UNCHANGED <<cache, deep>> /\ trouble' = trouble
           \/ /\ cache' = [cache EXCEPT ![req[r].tier] =
                            Without(req[r].tier, req[r].file)]
              /\ deep' = (deep \/ req[r].tier > 1) /\ trouble' = trouble + 1
  /\ trouble' \in 0..MaxTrouble

LEMMA ProbeEffect ==
  ASSUME Typed, NEW r \in Requests, Probe(r)
  PROVE  ProbeDoes(r)
<1> USE DEF ProbeDoes
<1>0. req \in [Requests -> Request] /\ trouble \in 0..MaxTrouble
  BY DEF Typed, Stored
<1>1. /\ Works => trouble' = trouble
      /\ Fails => trouble' = trouble + 1
      /\ Works \/ Fails => trouble' \in 0..MaxTrouble
  BY <1>0, Counted
<1>2. req[r].pc = "probe" /\ req[r].tier \in 1..Tiers
  BY DEF Probe, At, Typed, Shaped
<1>3. \A t \in 1..Tiers : cache[t][req[r].file] \in Bytes \union {None}
  BY <1>2, Slotted
<1>4. CASE /\ Entry(req[r].tier, File(r)) # None
           /\ Outwards(r, req[r].tier, Entry(req[r].tier, File(r)))
           /\ UNCHANGED <<lock, cache, deep>> /\ Works
  <2>1. Passes(r, IF req[r].tier = 1 THEN Fetched(r) ELSE "fill",
                  req[r].tier - 1, cache[req[r].tier][req[r].file])
    BY <1>0, <1>2, <1>3, <1>4, OutwardsPasses DEF Entry, File
  <2>2. QED
    BY <1>1, <1>2, <1>4, <2>1 DEF Probe, Entry, File, environment, stores
<1>5. CASE Inwards(r, req[r].tier + 1)
  <2>1. \/ \E u \in 1..Tiers : Passes(r, "probe", u, req[r].body)
        \/ Passes(r, "index", 0, req[r].body)
    BY <1>0, <1>2, <1>5, InwardsPasses
  <2>2. CASE UNCHANGED <<cache, deep>> /\ Works
    BY <1>1, <1>2, <2>1, <2>2 DEF Probe, environment, stores
  <2>3. CASE /\ cache' = [cache EXCEPT ![req[r].tier] = Without(req[r].tier, File(r))]
             /\ deep' = (deep \/ req[r].tier > 1) /\ Fails
    BY <1>1, <1>2, <2>1, <2>3 DEF Probe, File, environment, stores
  <2>4. CASE Outwards(r, req[r].tier, Entry(req[r].tier, File(r)))
             /\ Entry(req[r].tier, File(r)) # None
             /\ UNCHANGED <<lock, cache, deep>> /\ Works
    BY <1>4, <2>4
  <2>5. QED
    BY <2>2, <2>3, <2>4 DEF Probe
<1>6. QED
  BY <1>4, <1>5 DEF Probe

FillDoes(r) ==
  /\ UNCHANGED <<content, listing, young, replaced, trust, denied,
                 tracked, passed>>
  /\ req[r].pc = "fill"
  /\ req[r].tier \in 1..Tiers
  /\ Passes(r, IF req[r].tier = 1 THEN Fetched(r) ELSE "fill",
               req[r].tier - 1, req[r].body)
  /\ \/ /\ cache' = [cache EXCEPT ![req[r].tier][req[r].file] = req[r].body]
        /\ UNCHANGED deep /\ trouble' = trouble
     \/ /\ UNCHANGED cache /\ deep' = (deep \/ req[r].tier > 1)
        /\ trouble' = trouble + 1
  /\ trouble' \in 0..MaxTrouble

LEMMA FillEffect ==
  ASSUME Typed, NEW r \in Requests, Fill(r)
  PROVE  FillDoes(r)
<1> USE DEF FillDoes
<1>0. req \in [Requests -> Request] /\ trouble \in 0..MaxTrouble
  BY DEF Typed, Stored
<1>1. /\ Works => trouble' = trouble
      /\ Fails => trouble' = trouble + 1
      /\ Works \/ Fails => trouble' \in 0..MaxTrouble
  BY <1>0, Counted
<1>2. req[r].pc = "fill" /\ req[r].tier \in 1..Tiers /\ req[r].body \in Bytes
  BY DEF Fill, At, Typed, Shaped
<1>3. Passes(r, IF req[r].tier = 1 THEN Fetched(r) ELSE "fill",
                req[r].tier - 1, req[r].body)
  BY <1>0, <1>2, OutwardsPasses DEF Fill
<1>4. CASE /\ cache' = [cache EXCEPT ![req[r].tier][File(r)] = req[r].body]
           /\ UNCHANGED deep /\ Works
  BY <1>1, <1>2, <1>3, <1>4 DEF Fill, File, environment, stores
<1>5. CASE UNCHANGED cache /\ deep' = (deep \/ req[r].tier > 1) /\ Fails
  BY <1>1, <1>2, <1>3, <1>5 DEF Fill, File, environment, stores
<1>6. QED
  BY <1>4, <1>5 DEF Fill

FetchIndexDoes(r) ==
  /\ UNCHANGED <<content, listing, young, replaced, trust, denied,
                 tracked, passed, cache, deep>>
  /\ req[r].pc = "index"
  /\ \/ req[r].index # None /\ Moves(r, "file") /\ trouble' = trouble
     \/ /\ req[r].index = None /\ Keeps(r) /\ req'[r].pc = "file"
        /\ req'[r].index = listing[req[r].file] /\ req'[r].matched
        /\ (req'[r].retry <=> req[r].retry) /\ req'[r].rec = req[r].rec
        /\ req'[r].body = req[r].body /\ req'[r].code = req[r].code
        /\ (req'[r].blind <=> req[r].blind) /\ trouble' = trouble
     \/ Finishes(r, "failed") /\ trouble' \in {trouble, trouble + 1}
  /\ trouble' \in 0..MaxTrouble

LEMMA FetchIndexEffect ==
  ASSUME Typed, NEW r \in Requests, FetchIndex(r)
  PROVE  FetchIndexDoes(r)
<1> USE DEF FetchIndexDoes
<1>0. req \in [Requests -> Request] /\ trouble \in 0..MaxTrouble
  BY DEF Typed, Stored
<1>1. /\ Works => trouble' = trouble
      /\ Fails => trouble' = trouble + 1
      /\ Works \/ Fails => trouble' \in 0..MaxTrouble
  BY <1>0, Counted
<1>2. listing[req[r].file] \in Bytes \union {None}
  BY Slotted DEF FetchIndex, At
<1>3. CASE req[r].index # None /\ Goto(r, "file") /\ Works
  BY <1>0, <1>1, <1>3, GotoMoves DEF FetchIndex, At, Labels, environment, stores
<1>4. CASE /\ req[r].index = None /\ Works
           /\ req' = [req EXCEPT ![r].pc = "file", ![r].matched = TRUE,
                                ![r].index = listing[File(r)]]
  <2> DEFINE c == req[r]
             v == listing[File(r)]
             s == [c EXCEPT !.pc = "file", !.matched = TRUE, !.index = v]
  <2>1. c \in Request /\ v \in Bytes \union {None}
    BY <1>0, <1>2 DEF File
  <2>2. req' = [req EXCEPT ![r] = s]
    BY <1>4
  <2> HIDE DEF c, v
  <2>3. /\ s \in Request /\ s.scope = c.scope /\ s.file = c.file
        /\ s.known = c.known /\ s.index = v /\ s.matched
        /\ (s.retry <=> c.retry) /\ s.pc = "file" /\ s.code = c.code
        /\ s.body = c.body /\ s.rec = c.rec /\ (s.blind <=> c.blind)
    BY ZenonT(60), <2>1 DEF Request, Labels
  <2> HIDE DEF s
  <2>4. Others(r) /\ req'[r] = s
    BY <1>0, <2>2, <2>3, Replaced
  <2>5. QED
    BY <1>1, <1>4, <2>3, <2>4
    DEF FetchIndex, At, Keeps, c, v, File, environment, stores
<1>5. CASE Answers(r, "failed") /\ (Works \/ Fails)
  BY <1>0, <1>1, <1>5, AnswerFinishes DEF Codes, FetchIndex, At, environment, stores
<1>6. QED
  BY <1>3, <1>4, <1>5 DEF FetchIndex

FetchFileDoes(r) ==
  /\ UNCHANGED <<content, listing, young, replaced, trust, denied,
                 tracked, passed, cache, deep>>
  /\ req[r].pc = "file"
  /\ \/ /\ Accepts(r) /\ Passes(r, "fill", Tiers, content[req[r].file])
        /\ trouble' = trouble
     \/ Finishes(r, "failed") /\ trouble' \in {trouble, trouble + 1}
  /\ trouble' \in 0..MaxTrouble

LEMMA FetchFileEffect ==
  ASSUME Typed, NEW r \in Requests, FetchFile(r)
  PROVE  FetchFileDoes(r)
<1> USE DEF FetchFileDoes
<1>0. req \in [Requests -> Request] /\ trouble \in 0..MaxTrouble
  BY DEF Typed, Stored
<1>1. /\ Works => trouble' = trouble
      /\ Fails => trouble' = trouble + 1
      /\ Works \/ Fails => trouble' \in 0..MaxTrouble
  BY <1>0, Counted
<1>2. content[req[r].file] \in Bytes \union {None}
  BY Slotted DEF FetchFile, At
<1>3. CASE /\ Accepts(r) /\ Works
           /\ req' = [req EXCEPT ![r].body = content[File(r)], ![r].tier = Tiers,
                                ![r].pc = "fill"]
  <2> DEFINE b == content[File(r)]
             c == [req EXCEPT ![r].pc = "fill", ![r].tier = Tiers, ![r].body = b]
  <2>1. b \in Bytes \union {None}
    BY <1>2 DEF File
  <2>2. Tiers \in 0..Tiers /\ "fill" \in Labels
    BY FileFlowAssumption DEF Labels
  <2> HIDE DEF b
  <2>3. req' = c
    BY <1>0, <1>3 DEF b, Request
  <2>4. Passes(r, "fill", Tiers, b)
    BY <1>0, <2>1, <2>2, <2>3, PassesOn
  <2>5. QED
    BY <1>1, <1>3, <2>4 DEF FetchFile, At, File, b, environment, stores
<1>4. CASE Answers(r, "failed") /\ (Works \/ Fails)
  BY <1>0, <1>1, <1>4, AnswerFinishes DEF Codes, FetchFile, At, environment, stores
<1>5. QED
  BY <1>3, <1>4 DEF FetchFile

VerifyDoes(r) ==
  /\ UNCHANGED <<content, listing, young, replaced, trust, denied,
                 tracked, passed, cache, deep, trouble>>
  /\ req[r].pc = "verify"
  /\ \/ req[r].body = req[r].rec /\ Moves(r, "denyCheck")
     \/ req[r].body # req[r].rec /\ Moves(r, "evict")
     \/ req[r].body # req[r].rec /\ req[r].retry /\ Finishes(r, "mismatch")

LEMMA VerifyEffect ==
  ASSUME Typed, NEW r \in Requests, Verify(r)
  PROVE  VerifyDoes(r)
<1> USE DEF VerifyDoes
<1>0. req \in [Requests -> Request] /\ trouble \in 0..MaxTrouble
  BY DEF Typed, Stored
<1>1. /\ Works => trouble' = trouble
      /\ Fails => trouble' = trouble + 1
      /\ Works \/ Fails => trouble' \in 0..MaxTrouble
  BY <1>0, Counted
<1>2. CASE req[r].body = req[r].rec /\ Goto(r, "denyCheck")
  BY <1>0, <1>2, GotoMoves DEF Verify, At, Labels, environment, stores
<1>3. CASE req[r].body # req[r].rec /\ ~req[r].retry /\ Goto(r, "evict")
  BY <1>0, <1>3, GotoMoves DEF Verify, At, Labels, environment, stores
<1>4. CASE req[r].body # req[r].rec /\ req[r].retry /\ Answers(r, "mismatch")
  BY <1>0, <1>4, AnswerFinishes DEF Verify, At, Codes, environment, stores
<1>5. QED
  BY <1>2, <1>3, <1>4 DEF Verify

EvictDoes(r) ==
  /\ UNCHANGED <<content, listing, young, replaced, trust, denied,
                 tracked, passed, deep>>
  /\ req[r].pc = "evict"
  /\ \/ /\ cache' = [t \in 1..Tiers |-> IF t = 1 THEN Without(t, req[r].file)
                                        ELSE cache[t]]
        /\ trouble' = trouble
     \/ UNCHANGED cache /\ trouble' = trouble + 1
  /\ Keeps(r) /\ req'[r].pc = "probe" /\ req'[r].tier = 1 /\ req'[r].body = None
  /\ req'[r].retry /\ req'[r].index = req[r].index
  /\ (req'[r].matched <=> req[r].matched) /\ req'[r].rec = req[r].rec
  /\ req'[r].code = req[r].code /\ (req'[r].blind <=> req[r].blind)
  /\ trouble' \in 0..MaxTrouble

LEMMA EvictEffect ==
  ASSUME Typed, NEW r \in Requests, Evict(r)
  PROVE  EvictDoes(r)
<1> USE DEF EvictDoes
<1>0. req \in [Requests -> Request] /\ trouble \in 0..MaxTrouble
  BY DEF Typed, Stored
<1>1. /\ Works => trouble' = trouble
      /\ Fails => trouble' = trouble + 1
      /\ Works \/ Fails => trouble' \in 0..MaxTrouble
  BY <1>0, Counted
<1> DEFINE c == req[r]
           s == [c EXCEPT !.pc = "probe", !.tier = 1, !.body = None, !.retry = TRUE]
<1>2. c \in Request /\ 1 \in 0..Tiers
  BY <1>0, FileFlowAssumption
<1>3. req' = [req EXCEPT ![r] = s]
  BY DEF Evict
<1> HIDE DEF c
<1>4. /\ s \in Request /\ s.scope = c.scope /\ s.file = c.file
      /\ s.known = c.known /\ s.index = c.index /\ (s.matched <=> c.matched)
      /\ s.retry /\ s.pc = "probe" /\ s.code = c.code
      /\ s.body = None /\ s.rec = c.rec /\ (s.blind <=> c.blind) /\ s.tier = 1
  BY ZenonT(60), <1>2 DEF Request, Labels
<1> HIDE DEF s
<1>5. Others(r) /\ req'[r] = s
  BY <1>0, <1>3, <1>4, Replaced
<1>6. CASE /\ cache' = [t \in 1..Tiers |-> IF t \in EvictedTiers
                          THEN Without(t, File(r)) ELSE cache[t]]
           /\ Works
  <2>1. cache' = [t \in 1..Tiers |-> IF t = 1 THEN Without(t, req[r].file)
                                    ELSE cache[t]]
    BY <1>6 DEF EvictedTiers, File
  <2>2. QED
    BY <1>1, <1>4, <1>5, <1>6, <2>1 DEF Evict, At, Keeps, c, environment, stores
<1>7. CASE UNCHANGED cache /\ Fails
  BY <1>1, <1>4, <1>5, <1>7 DEF Evict, At, Keeps, c, environment, stores
<1>8. QED
  BY <1>6, <1>7 DEF Evict

DenyCheckDoes(r) ==
  /\ UNCHANGED <<content, listing, young, replaced, trust, denied,
                 tracked, passed, cache, deep>>
  /\ req[r].pc = "denyCheck"
  /\ \/ Finishes(r, "failed") /\ trouble' = trouble
     \/ ~Denied(r) /\ Moves(r, AfterDenyCheck(r)) /\ trouble' = trouble
     \/ /\ Keeps(r) /\ Remembers(r) /\ req'[r].pc = AfterDenyCheck(r)
        /\ req'[r].blind /\ req'[r].tier = req[r].tier /\ req'[r].code = req[r].code
        /\ req'[r].body = req[r].body /\ req'[r].rec = req[r].rec
        /\ trouble' = trouble + 1
  /\ trouble' \in 0..MaxTrouble

LEMMA DenyCheckEffect ==
  ASSUME Typed, NEW r \in Requests, DenyCheck(r)
  PROVE  DenyCheckDoes(r)
<1> USE DEF DenyCheckDoes
<1>0. req \in [Requests -> Request] /\ trouble \in 0..MaxTrouble
  BY DEF Typed, Stored
<1>1. /\ Works => trouble' = trouble
      /\ Fails => trouble' = trouble + 1
      /\ Works \/ Fails => trouble' \in 0..MaxTrouble
  BY <1>0, Counted
<1>2. AfterDenyCheck(r) \in Labels
  BY DEF AfterDenyCheck, Labels
<1>3. CASE Answers(r, "failed") /\ Works
  BY <1>0, <1>1, <1>3, AnswerFinishes DEF Codes, DenyCheck, At, environment, stores
<1>4. CASE ~Denied(r) /\ Goto(r, AfterDenyCheck(r)) /\ Works
  BY <1>0, <1>1, <1>2, <1>4, GotoMoves DEF DenyCheck, At, environment, stores
<1>5. CASE /\ req' = [req EXCEPT ![r].pc = AfterDenyCheck(r), ![r].blind = TRUE]
           /\ Fails
  <2> DEFINE c == req[r]
             l == AfterDenyCheck(r)
             s == [c EXCEPT !.pc = l, !.blind = TRUE]
  <2>1. c \in Request /\ l \in Labels
    BY <1>0, <1>2
  <2>2. req' = [req EXCEPT ![r] = s]
    BY <1>5
  <2> HIDE DEF c, l
  <2>3. /\ s \in Request /\ s.scope = c.scope /\ s.file = c.file
        /\ s.known = c.known /\ s.index = c.index /\ (s.matched <=> c.matched)
        /\ (s.retry <=> c.retry) /\ s.pc = l /\ s.code = c.code
        /\ s.body = c.body /\ s.rec = c.rec /\ s.blind /\ s.tier = c.tier
    BY <2>1 DEF Request
  <2> HIDE DEF s
  <2>4. Others(r) /\ req'[r] = s
    BY <1>0, <2>2, <2>3, Replaced
  <2>5. QED
    BY <1>1, <1>5, <2>3, <2>4
    DEF DenyCheck, At, Keeps, Remembers, c, l, environment, stores
<1>6. QED
  BY <1>3, <1>4, <1>5 DEF DenyCheck

AgeCheckDoes(r) ==
  /\ UNCHANGED <<content, listing, young, replaced, trust, denied,
                 tracked, passed, cache, deep, trouble>>
  /\ req[r].pc = "ageCheck"
  /\ \/ Finishes(r, "failed")
     \/ req[r].matched /\ req[r].index \notin young /\ Moves(r, "scan")

LEMMA AgeCheckEffect ==
  ASSUME Typed, NEW r \in Requests, AgeCheck(r)
  PROVE  AgeCheckDoes(r)
<1> USE DEF AgeCheckDoes
<1>0. req \in [Requests -> Request] /\ trouble \in 0..MaxTrouble
  BY DEF Typed, Stored
<1>1. /\ Works => trouble' = trouble
      /\ Fails => trouble' = trouble + 1
      /\ Works \/ Fails => trouble' \in 0..MaxTrouble
  BY <1>0, Counted
<1>2. CASE Answers(r, "failed")
  BY <1>0, <1>2, AnswerFinishes DEF Codes, AgeCheck, At, environment, stores
<1>3. CASE req[r].matched /\ req[r].index \notin young /\ Goto(r, "scan")
  BY <1>0, <1>3, GotoMoves DEF AgeCheck, At, Labels, environment, stores
<1>4. QED
  BY <1>2, <1>3 DEF AgeCheck

ScanDoes(r) ==
  /\ UNCHANGED <<content, listing, young, replaced, trust, denied,
                 tracked, cache, deep, trouble>>
  /\ req[r].pc = "scan"
  /\ \/ /\ passed' = passed \union {<<Slot(r), req[r].body>>}
        /\ Moves(r, "anchor")
     \/ Moves(r, "record") /\ UNCHANGED passed

LEMMA ScanEffect ==
  ASSUME Typed, NEW r \in Requests, Scan(r)
  PROVE  ScanDoes(r)
<1> USE DEF ScanDoes
<1>0. req \in [Requests -> Request] /\ trouble \in 0..MaxTrouble
  BY DEF Typed, Stored
<1>1. /\ Works => trouble' = trouble
      /\ Fails => trouble' = trouble + 1
      /\ Works \/ Fails => trouble' \in 0..MaxTrouble
  BY <1>0, Counted
<1>2. CASE passed' = passed \union {<<Slot(r), req[r].body>>} /\ Goto(r, "anchor")
  BY <1>0, <1>2, GotoMoves DEF Scan, At, Labels, environment
<1>3. CASE Goto(r, "record") /\ UNCHANGED passed
  BY <1>0, <1>3, GotoMoves DEF Scan, At, Labels, environment
<1>4. QED
  BY <1>2, <1>3 DEF Scan

RecordDoes(r) ==
  /\ UNCHANGED <<content, listing, young, replaced, trust, tracked,
                 passed, cache, deep>>
  /\ req[r].pc = "record"
  /\ \/ /\ denied' = denied \union {<<req[r].scope, Version(req[r].file), req[r].body>>}
        /\ trouble' = trouble
     \/ UNCHANGED denied /\ trouble' = trouble + 1
  /\ Finishes(r, "failed")
  /\ trouble' \in 0..MaxTrouble

LEMMA RecordEffect ==
  ASSUME Typed, NEW r \in Requests, Record(r)
  PROVE  RecordDoes(r)
<1> USE DEF RecordDoes
<1>0. req \in [Requests -> Request] /\ trouble \in 0..MaxTrouble
  BY DEF Typed, Stored
<1>1. /\ Works => trouble' = trouble
      /\ Fails => trouble' = trouble + 1
      /\ Works \/ Fails => trouble' \in 0..MaxTrouble
  BY <1>0, Counted
<1>2. Finishes(r, "failed")
  BY <1>0, AnswerFinishes DEF Record, Codes
<1>3. QED
  BY <1>1, <1>2 DEF Record, At, Scope, File, environment

AnchorDoes(r) ==
  /\ UNCHANGED <<content, listing, young, replaced, denied, tracked,
                 passed, cache, deep>>
  /\ req[r].pc = "anchor"
  /\ \/ trust' = [trust EXCEPT ![req[r].scope][req[r].file] = req[r].body]
     \/ UNCHANGED trust
  /\ \/ Moves(r, "respond") /\ trouble' = trouble
        /\ trust' = [trust EXCEPT ![req[r].scope][req[r].file] = req[r].body]
     \/ Finishes(r, "failed") /\ trouble' = trouble + 1
  /\ trouble' \in 0..MaxTrouble

LEMMA AnchorEffect ==
  ASSUME Typed, NEW r \in Requests, Anchor(r)
  PROVE  AnchorDoes(r)
<1> USE DEF AnchorDoes
<1>0. req \in [Requests -> Request] /\ trouble \in 0..MaxTrouble
  BY DEF Typed, Stored
<1>1. /\ Works => trouble' = trouble
      /\ Fails => trouble' = trouble + 1
      /\ Works \/ Fails => trouble' \in 0..MaxTrouble
  BY <1>0, Counted
<1>2. CASE /\ trust' = [trust EXCEPT ![Scope(r)][File(r)] = req[r].body]
           /\ Goto(r, "respond") /\ Works
  BY <1>0, <1>1, <1>2, GotoMoves DEF Anchor, At, Labels, Scope, File, environment
<1>3. CASE /\ \/ trust' = [trust EXCEPT ![Scope(r)][File(r)] = req[r].body]
              \/ UNCHANGED trust
           /\ Answers(r, "failed") /\ Fails
  BY <1>0, <1>1, <1>3, AnswerFinishes DEF Anchor, At, Codes, Scope, File, environment
<1>4. QED
  BY <1>2, <1>3 DEF Anchor

RespondDoes(r) ==
  /\ UNCHANGED <<content, listing, young, replaced, trust, denied, passed,
                 cache, deep>>
  /\ req[r].pc = "respond"
  /\ \/ /\ tracked' = IF req[r].scope = E THEN tracked
                      ELSE tracked \union {<<Slot(r), req[r].body>>}
        /\ Finishes(r, "ok") /\ trouble' = trouble
     \/ Finishes(r, "failed") /\ trouble' = trouble + 1 /\ UNCHANGED tracked
  /\ trouble' \in 0..MaxTrouble

LEMMA RespondEffect ==
  ASSUME Typed, NEW r \in Requests, Respond(r)
  PROVE  RespondDoes(r)
<1> USE DEF RespondDoes
<1>0. req \in [Requests -> Request] /\ trouble \in 0..MaxTrouble
  BY DEF Typed, Stored
<1>1. /\ Works => trouble' = trouble
      /\ Fails => trouble' = trouble + 1
      /\ Works \/ Fails => trouble' \in 0..MaxTrouble
  BY <1>0, Counted
<1>2. CASE Answers(r, "ok") /\ Works
           /\ tracked' = IF Scope(r) = E THEN tracked
                         ELSE tracked \union {<<Slot(r), req[r].body>>}
  BY <1>0, <1>1, <1>2, AnswerFinishes DEF Respond, At, Codes, Scope, environment
<1>3. CASE Answers(r, "failed") /\ Fails /\ UNCHANGED tracked
  BY <1>0, <1>1, <1>3, AnswerFinishes DEF Respond, At, Codes, environment
<1>4. QED
  BY <1>2, <1>3 DEF Respond

BeginDoes(r, o) ==
  /\ UNCHANGED <<content, listing, young, replaced, cache, trust, denied,
                 tracked, passed, trouble, deep>>
  /\ req[r].pc = "idle" /\ Others(r)
  /\ req'[r].pc = "lookup" /\ req'[r].scope = o.scope /\ req'[r].scope \in Scopes
  /\ req'[r].file = FileOf(o) /\ req'[r].file \in Files
  /\ req'[r].body = None /\ req'[r].index = None /\ ~req'[r].matched
  /\ req'[r].rec = None /\ ~req'[r].retry /\ req'[r].code = "none"
  /\ \A b \in req'[r].known : <<o.scope, Version(FileOf(o)), b>> \in denied

LEMMA BeginEffect ==
  ASSUME Typed, NEW r \in Requests, NEW o \in Wanted, Begin(r, o)
  PROVE  BeginDoes(r, o)
<1> DEFINE k == {b \in Bytes : \E f \in Files :
                             /\ SameVersion(f, FileOf(o))
                             /\ <<o.scope, Version(f), b>> \in denied}
           s == [Idle EXCEPT !.pc = "lookup", !.scope = o.scope,
                             !.file = FileOf(o), !.known = k]
<1>1. o.scope \in Scopes /\ FileOf(o) \in Files
  BY FileOfIn DEF Scopes
<1>2. req' = [req EXCEPT ![r] = s]
  BY DEF Begin
<1>3. k \subseteq Bytes /\ 0 \in 0..Tiers
  BY FileFlowAssumption
<1>4. \A b \in k : <<o.scope, Version(FileOf(o)), b>> \in denied
  BY <1>1, OneVersion
<1> HIDE DEF k
<1>5. /\ s \in Request /\ s.scope = o.scope /\ s.file = FileOf(o)
      /\ s.known = k /\ s.index = None /\ ~s.matched /\ ~s.retry
      /\ s.pc = "lookup" /\ s.code = "none" /\ s.body = None /\ s.rec = None
  BY <1>1, <1>3 DEF Request, Labels, Idle
<1> HIDE DEF s
<1>6. Others(r) /\ req'[r] = s
  BY <1>2, <1>5, Replaced DEF Typed
<1>7. QED
  BY <1>1, <1>4, <1>5, <1>6 DEF BeginDoes, Begin, At, environment, stores

CrashDoes ==
  /\ UNCHANGED <<content, listing, young, replaced, cache, trust, denied,
                 tracked, passed, deep>>
  /\ trouble' = trouble + 1 /\ trouble' \in 0..MaxTrouble
  /\ req' \in [Requests -> Request]
  /\ \A q \in Requests :
       \/ req'[q] = req[q] /\ req[q].pc \in {"idle", "done"}
       \/ /\ req[q].pc \notin {"idle", "done"} /\ req'[q].pc = "done"
          /\ req'[q].code = "failed" /\ req'[q].scope = req[q].scope
          /\ req'[q].file = req[q].file /\ req'[q].body = req[q].body
          /\ req'[q].rec = req[q].rec /\ req'[q].known = req[q].known
          /\ (req'[q].retry <=> req[q].retry) /\ (req'[q].blind <=> req[q].blind)

\* A restart loses every request that is under way.
LEMMA CrashEffect ==
  ASSUME Typed, Crash
  PROVE  CrashDoes
<1> DEFINE s(q) == [req[q] EXCEPT !.pc = "done", !.code = "failed"]
<1> DEFINE Lost(c, d, l, k) ==
             /\ d \in Request /\ d.pc = l /\ d.code = k
             /\ d.scope = c.scope /\ d.file = c.file /\ d.body = c.body
             /\ d.rec = c.rec /\ d.known = c.known
             /\ (d.retry <=> c.retry) /\ (d.blind <=> c.blind)
<1>1. ASSUME NEW c \in Request, NEW l \in Labels, NEW k \in Codes
      PROVE  Lost(c, [c EXCEPT !.pc = l, !.code = k], l, k)
  BY ZenonT(60), <1>1 DEF Request, Codes
<1>2. \A q \in Requests : req[q] \in Request
  BY DEF Typed
<1>3. \A q \in Requests : Lost(req[q], s(q), "done", "failed")
  <2>1. "done" \in Labels /\ "failed" \in Codes
    BY DEF Labels, Codes
  <2> HIDE DEF Lost
  <2>2. QED
    BY <1>1, <1>2, <2>1, Zenon
<1>4. req' = [q \in Requests |->
                IF req[q].pc \in {"idle", "done"} THEN req[q] ELSE s(q)]
  BY DEF Crash
<1> HIDE DEF s
<1>5. /\ req' \in [Requests -> Request]
      /\ \A q \in Requests :
           req'[q] = IF req[q].pc \in {"idle", "done"} THEN req[q] ELSE s(q)
  BY <1>2, <1>3, <1>4
<1>6. trouble' = trouble + 1 /\ trouble' \in 0..MaxTrouble
  BY Counted DEF Crash, Typed, Stored
<1>7. QED
  BY ZenonT(60), <1>3, <1>5, <1>6 DEF CrashDoes, Crash, environment, stores

\* What the theorems are about: all but the front door and the mutexes.
state == <<req, content, listing, young, replaced, cache, trust, denied,
           tracked, passed, trouble, deep>>

\* Every step is one of those.
LEMMA Effects ==
  ASSUME Typed, [Next]_vars
  PROVE  \/ \E r \in Requests, o \in Wanted : BeginDoes(r, o)
         \/ \E r \in Requests : LookupDoes(r)
         \/ \E r \in Requests : ProbeDoes(r)
         \/ \E r \in Requests : FillDoes(r)
         \/ \E r \in Requests : FetchIndexDoes(r)
         \/ \E r \in Requests : FetchFileDoes(r)
         \/ \E r \in Requests : VerifyDoes(r)
         \/ \E r \in Requests : EvictDoes(r)
         \/ \E r \in Requests : DenyCheckDoes(r)
         \/ \E r \in Requests : AgeCheckDoes(r)
         \/ \E r \in Requests : ScanDoes(r)
         \/ \E r \in Requests : RecordDoes(r)
         \/ \E r \in Requests : AnchorDoes(r)
         \/ \E r \in Requests : RespondDoes(r)
         \/ \E f \in Files : Replace(f)
         \/ \E f \in Files : Reindex(f)
         \/ \E t \in 1..Tiers, f \in Files : Corrupt(t, f)
         \/ Mature \/ CrashDoes \/ UNCHANGED state
<1>1. CASE Visit \/ Leave \/ UNCHANGED vars
  BY <1>1 DEF Visit, Leave, vars, state
<1>2. ASSUME NEW r \in Requests, Step(r)
      PROVE  \/ LookupDoes(r) \/ ProbeDoes(r) \/ FillDoes(r) \/ FetchIndexDoes(r)
             \/ FetchFileDoes(r) \/ VerifyDoes(r) \/ EvictDoes(r) \/ DenyCheckDoes(r)
             \/ AgeCheckDoes(r) \/ ScanDoes(r) \/ RecordDoes(r) \/ AnchorDoes(r)
             \/ RespondDoes(r)
  BY <1>2, LookupEffect, ProbeEffect, FillEffect, FetchIndexEffect,
     FetchFileEffect, VerifyEffect, EvictEffect, DenyCheckEffect,
     AgeCheckEffect, ScanEffect, RecordEffect, AnchorEffect, RespondEffect DEF Step
<1>3. CASE Flow
  BY <1>2, <1>3, BeginEffect, CrashEffect DEF Flow
<1>4. QED
  BY <1>1, <1>3 DEF Next

-----------------------------------------------------------------------------
\* Shapes, through every step.
LEMMA TypeStep ==
  ASSUME Typed, [Next]_vars
  PROVE  Typed'
<1> USE FileFlowAssumption
    DEF Typed, Stored, Shaped, Keeps, Others, Remembers, Moves, Finishes, Passes
<1> req \in [Requests -> Request]
  BY DEF Typed
<1> \A q \in Requests :
      /\ req[q].pc \in Labels /\ req[q].scope \in Scopes \union {E}
      /\ req[q].file \in Files \union {None} /\ req[q].tier \in 0..Tiers
      /\ req[q].body \in Bytes \union {None}
  BY ContextTypes
<1>1. ASSUME NEW r \in Requests, NEW o \in Wanted, BeginDoes(r, o)
      PROVE  Typed'
  BY <1>1 DEF BeginDoes
<1>2. ASSUME NEW r \in Requests, LookupDoes(r)
      PROVE  Typed'
  BY <1>2 DEF LookupDoes
<1>3. ASSUME NEW r \in Requests, ProbeDoes(r)
      PROVE  Typed'
  <2>1. req' \in [Requests -> Request]
    BY <1>3 DEF ProbeDoes
  <2>2. Stored'
    <3>1. cache' \in CacheType
      <4>1. /\ req[r].tier \in 1..Tiers /\ req[r].file \in Files
            /\ cache \in CacheType /\ None \in Bytes \union {None}
        BY <1>3 DEF ProbeDoes
      <4>2. [cache EXCEPT ![req[r].tier] = Without(req[r].tier, req[r].file)] \in CacheType
        BY <4>1, CacheKept
      <4>3. QED
        BY <1>3, <4>1, <4>2 DEF ProbeDoes
    <3>2. UNCHANGED <<content, listing, young, trust, tracked, passed>>
      BY <1>3 DEF ProbeDoes
    <3>3. trouble' \in 0..MaxTrouble
      BY <1>3 DEF ProbeDoes
    <3>4. QED
      BY <3>1, <3>2, <3>3
  <2>3. ASSUME NEW q \in Requests
        PROVE  Shaped(q)'
    <3>1. CASE q = r
      <4>1. /\ req[r].tier \in 1..Tiers /\ req[r].pc = "probe"
            /\ cache[req[r].tier][req[r].file] \in Bytes \union {None}
        BY <1>3, Slotted DEF ProbeDoes
      <4>2. CASE /\ cache[req[r].tier][req[r].file] # None
                 /\ Passes(r, IF req[r].tier = 1 THEN Fetched(r) ELSE "fill",
                              req[r].tier - 1, cache[req[r].tier][req[r].file])
        BY <3>1, <4>1, <4>2 DEF Fetched
      <4>3. CASE \/ \E u \in 1..Tiers : Passes(r, "probe", u, req[r].body)
                 \/ Passes(r, "index", 0, req[r].body)
        BY <3>1, <4>1, <4>3
      <4>4. QED
        BY <1>3, <4>2, <4>3 DEF ProbeDoes
    <3>2. CASE q # r
      BY <1>3, <3>2 DEF ProbeDoes
    <3>3. QED
      BY <3>1, <3>2
  <2>4. QED
    BY <2>1, <2>2, <2>3
<1>4. ASSUME NEW r \in Requests, FillDoes(r)
      PROVE  Typed'
  <2>1. req' \in [Requests -> Request]
    BY <1>4 DEF FillDoes
  <2>2. Stored'
    <3>1. cache' \in CacheType
      <4>1. /\ req[r].tier \in 1..Tiers /\ req[r].file \in Files
            /\ cache \in CacheType /\ req[r].body \in Bytes \union {None}
        BY <1>4 DEF FillDoes
      <4>2. [cache EXCEPT ![req[r].tier][req[r].file] = req[r].body] \in CacheType
        BY <4>1, CacheKept
      <4>3. QED
        BY <1>4, <4>1, <4>2 DEF FillDoes
    <3>2. UNCHANGED <<content, listing, young, trust, tracked, passed>>
      BY <1>4 DEF FillDoes
    <3>3. trouble' \in 0..MaxTrouble
      BY <1>4 DEF FillDoes
    <3>4. QED
      BY <3>1, <3>2, <3>3
  <2>3. ASSUME NEW q \in Requests
        PROVE  Shaped(q)'
    <3>1. CASE q = r
      BY <1>4, <3>1 DEF FillDoes, Fetched
    <3>2. CASE q # r
      BY <1>4, <3>2 DEF FillDoes
    <3>3. QED
      BY <3>1, <3>2
  <2>4. QED
    BY <2>1, <2>2, <2>3
<1>5. ASSUME NEW r \in Requests, FetchIndexDoes(r)
      PROVE  Typed'
  BY <1>5 DEF FetchIndexDoes
<1>6. ASSUME NEW r \in Requests, FetchFileDoes(r)
      PROVE  Typed'
  <2>1. req' \in [Requests -> Request]
    BY <1>6 DEF FetchFileDoes
  <2>2. Stored'
    BY <1>6 DEF FetchFileDoes
  <2>3. ASSUME NEW q \in Requests
        PROVE  Shaped(q)'
    <3>1. CASE q = r
      BY <1>6, <3>1 DEF FetchFileDoes, Accepts, File
    <3>2. CASE q # r
      BY <1>6, <3>2 DEF FetchFileDoes
    <3>3. QED
      BY <3>1, <3>2
  <2>4. QED
    BY <2>1, <2>2, <2>3
<1>7. ASSUME NEW r \in Requests, VerifyDoes(r)
      PROVE  Typed'
  BY <1>7 DEF VerifyDoes
<1>8. ASSUME NEW r \in Requests, EvictDoes(r)
      PROVE  Typed'
  <2>1. req' \in [Requests -> Request]
    BY <1>8 DEF EvictDoes
  <2>2. Stored'
    <3>1. cache' \in CacheType
      <4>1. /\ req[r].file \in Files /\ 1 \in 1..Tiers
            /\ cache \in CacheType /\ None \in Bytes \union {None}
        BY <1>8 DEF EvictDoes
      <4>2. [t \in 1..Tiers |-> IF t = 1 THEN Without(t, req[r].file)
                               ELSE cache[t]] \in CacheType
        BY <4>1, CacheKept
      <4>3. QED
        BY <1>8, <4>1, <4>2 DEF EvictDoes
    <3>2. UNCHANGED <<content, listing, young, trust, tracked, passed>>
      BY <1>8 DEF EvictDoes
    <3>3. trouble' \in 0..MaxTrouble
      BY <1>8 DEF EvictDoes
    <3>4. QED
      BY <3>1, <3>2, <3>3
  <2>3. ASSUME NEW q \in Requests
        PROVE  Shaped(q)'
    <3>1. CASE q = r
      BY <1>8, <3>1 DEF EvictDoes
    <3>2. CASE q # r
      BY <1>8, <3>2 DEF EvictDoes
    <3>3. QED
      BY <3>1, <3>2
  <2>4. QED
    BY <2>1, <2>2, <2>3
<1>9. ASSUME NEW r \in Requests, DenyCheckDoes(r)
      PROVE  Typed'
  BY <1>9 DEF DenyCheckDoes, AfterDenyCheck
<1>10. ASSUME NEW r \in Requests, AgeCheckDoes(r)
      PROVE  Typed'
  BY <1>10 DEF AgeCheckDoes
<1>11. ASSUME NEW r \in Requests, ScanDoes(r)
      PROVE  Typed'
  BY <1>11 DEF ScanDoes, Slot
<1>12. ASSUME NEW r \in Requests, RecordDoes(r)
      PROVE  Typed'
  BY <1>12 DEF RecordDoes
<1>13. ASSUME NEW r \in Requests, AnchorDoes(r)
      PROVE  Typed'
  <2>1. req' \in [Requests -> Request]
    BY <1>13 DEF AnchorDoes
  <2>2. Stored'
    BY <1>13, TrustKept, Slotted DEF AnchorDoes
  <2>3. ASSUME NEW q \in Requests
        PROVE  Shaped(q)'
    <3>1. CASE q = r
      BY <1>13, <3>1 DEF AnchorDoes
    <3>2. CASE q # r
      BY <1>13, <3>2 DEF AnchorDoes
    <3>3. QED
      BY <3>1, <3>2
  <2>4. QED
    BY <2>1, <2>2, <2>3
<1>14. ASSUME NEW r \in Requests, RespondDoes(r)
      PROVE  Typed'
  <2>1. req' \in [Requests -> Request]
    BY <1>14 DEF RespondDoes
  <2>2. Stored'
    BY <1>14 DEF RespondDoes, Slot
  <2>3. ASSUME NEW q \in Requests
        PROVE  Shaped(q)'
    <3>1. CASE q = r
      BY <1>14, <3>1 DEF RespondDoes
    <3>2. CASE q # r
      BY <1>14, <3>2 DEF RespondDoes
    <3>3. QED
      BY <3>1, <3>2
  <2>4. QED
    BY <2>1, <2>2, <2>3
<1>15. ASSUME NEW f \in Files, Replace(f)
      PROVE  Typed'
  BY <1>15 DEF Replace, stores, Fails
<1>16. ASSUME NEW f \in Files, Reindex(f)
      PROVE  Typed'
  BY <1>16 DEF Reindex, stores
<1>17. ASSUME NEW t \in 1..Tiers, NEW f \in Files, Corrupt(t, f)
      PROVE  Typed'
  <2>1. cache' \in CacheType
    <3>1. PICK b \in Bytes : cache' = [cache EXCEPT ![t][f] = b]
      BY <1>17 DEF Corrupt
    <3>2. cache \in CacheType /\ b \in Bytes \union {None}
      OBVIOUS
    <3>3. QED
      BY <3>1, <3>2, CacheKept
  <2>2. UNCHANGED <<req, content, listing, young, trust, tracked, passed>>
    BY <1>17 DEF Corrupt, environment, stores
  <2>3. trouble' \in 0..MaxTrouble
    BY <1>17 DEF Corrupt, Fails
  <2>4. QED
    BY <2>1, <2>2, <2>3
<1>18. CASE Mature
  BY <1>18 DEF Mature, stores
<1>19. CASE CrashDoes
  BY <1>19 DEF CrashDoes
<1>20. CASE UNCHANGED state
  BY <1>20 DEF state
<1>21. QED
  BY Effects, <1>1, <1>2, <1>3, <1>4, <1>5, <1>6, <1>7, <1>8, <1>9, <1>10,
     <1>11, <1>12, <1>13, <1>14, <1>15, <1>16, <1>17, <1>18, <1>19, <1>20

-----------------------------------------------------------------------------
(* The inductive invariant, in parts.                                      *)

\* What has passed the validation chain of the slot of q.
Vets(q, b) == <<<<req[q].scope, req[q].file>>, b>> \in passed

\* An anchor was vetted in its slot.
AnchorsVetted ==
  \A s \in Scopes, f \in Files :
    trust[s][f] # None => <<<<s, f>>, trust[s][f]>> \in passed

\* So is what a request is about to anchor or to serve, or has served: it
\* passed the scans in that slot, or it equals the anchor.
FlowVetted(q) ==
  /\ req[q].rec # None => Vets(q, req[q].rec)
  /\ req[q].pc \in {"denyCheck", "respond"} /\ req[q].rec # None
       => req[q].body = req[q].rec
  /\ req[q].pc \in {"ageCheck", "scan", "anchor"} => req[q].rec = None
  /\ req[q].pc \in {"anchor", "respond"} \/ req[q].code = "ok"
       => Vets(q, req[q].body)

\* An untrusted request that knows the index entry holds the file itself,
\* and one that has passed the age check holds an old one.
Aged(q) ==
  /\ req[q].pc \in {"verify", "evict"} => req[q].rec # None
  /\ req[q].pc \in {"lookup", "ageCheck"} => req[q].rec = None
  /\ req[q].pc \in {"lookup", "probe", "index"} /\ req[q].rec = None
       => ~req[q].matched /\ req[q].index = None
  /\ req[q].pc \in {"fill", "denyCheck", "ageCheck"} =>
       (req[q].rec = None /\ req[q].matched /\ Named[req[q].file] \in Hashed
          => req[q].body = req[q].index)
  /\ req[q].pc \in {"scan", "record", "anchor"} =>
       (req[q].scope \in AgeGated /\ Named[req[q].file] \in Hashed
          => req[q].body \notin young)

\* The denials that a request began with are still there, and it does not
\* get past the deny list with one of them unless that could not be asked.
Heeds(q) ==
  /\ req[q].pc # "idle" => \A b \in req[q].known :
       <<req[q].scope, Version(req[q].file), b>> \in denied
  /\ req[q].pc \in {"ageCheck", "scan", "anchor", "respond"} \/ req[q].code = "ok"
       => req[q].blind \/ req[q].body \notin req[q].known

\* An anchor is written once the chain has passed its content.
LEMMA AnchorsStep ==
  ASSUME Typed, AnchorsVetted, \A q \in Requests : FlowVetted(q), [Next]_vars
  PROVE  AnchorsVetted'
<1> USE DEF AnchorsVetted
<1>1. ASSUME NEW r \in Requests, NEW o \in Wanted, BeginDoes(r, o)
      PROVE  AnchorsVetted'
  BY <1>1 DEF BeginDoes
<1>2. ASSUME NEW r \in Requests, LookupDoes(r)
      PROVE  AnchorsVetted'
  BY <1>2 DEF LookupDoes
<1>3. ASSUME NEW r \in Requests, ProbeDoes(r)
      PROVE  AnchorsVetted'
  BY <1>3 DEF ProbeDoes
<1>4. ASSUME NEW r \in Requests, FillDoes(r)
      PROVE  AnchorsVetted'
  BY <1>4 DEF FillDoes
<1>5. ASSUME NEW r \in Requests, FetchIndexDoes(r)
      PROVE  AnchorsVetted'
  BY <1>5 DEF FetchIndexDoes
<1>6. ASSUME NEW r \in Requests, FetchFileDoes(r)
      PROVE  AnchorsVetted'
  BY <1>6 DEF FetchFileDoes
<1>7. ASSUME NEW r \in Requests, VerifyDoes(r)
      PROVE  AnchorsVetted'
  BY <1>7 DEF VerifyDoes
<1>8. ASSUME NEW r \in Requests, EvictDoes(r)
      PROVE  AnchorsVetted'
  BY <1>8 DEF EvictDoes
<1>9. ASSUME NEW r \in Requests, DenyCheckDoes(r)
      PROVE  AnchorsVetted'
  BY <1>9 DEF DenyCheckDoes
<1>10. ASSUME NEW r \in Requests, AgeCheckDoes(r)
      PROVE  AnchorsVetted'
  BY <1>10 DEF AgeCheckDoes
<1>11. ASSUME NEW r \in Requests, ScanDoes(r)
      PROVE  AnchorsVetted'
  BY <1>11 DEF ScanDoes, Slot
<1>12. ASSUME NEW r \in Requests, RecordDoes(r)
      PROVE  AnchorsVetted'
  BY <1>12 DEF RecordDoes
<1>13. ASSUME NEW r \in Requests, AnchorDoes(r)
      PROVE  AnchorsVetted'
  <2>1. /\ req[r].scope \in Scopes /\ req[r].file \in Files
        /\ Vets(r, req[r].body) /\ passed' = passed /\ trust \in TrustType
    BY <1>13, Slotted DEF AnchorDoes, FlowVetted, Typed, Stored
  <2>2. CASE trust' = [trust EXCEPT ![req[r].scope][req[r].file] = req[r].body]
    <3>1. ASSUME NEW s \in Scopes, NEW f \in Files
          PROVE  \/ trust'[s][f] = trust[s][f]
                 \/ /\ s = req[r].scope /\ f = req[r].file
                    /\ trust'[s][f] = req[r].body
      BY <2>1, <2>2 DEF TrustType
    <3>2. QED
      BY <2>1, <3>1 DEF Vets
  <2>3. QED
    BY <1>13, <2>1, <2>2 DEF AnchorDoes
<1>14. ASSUME NEW r \in Requests, RespondDoes(r)
      PROVE  AnchorsVetted'
  BY <1>14 DEF RespondDoes
<1>15. ASSUME NEW f \in Files, Replace(f)
      PROVE  AnchorsVetted'
  BY <1>15 DEF Replace, stores, Fails
<1>16. ASSUME NEW f \in Files, Reindex(f)
      PROVE  AnchorsVetted'
  BY <1>16 DEF Reindex, stores
<1>17. ASSUME NEW t \in 1..Tiers, NEW f \in Files, Corrupt(t, f)
      PROVE  AnchorsVetted'
  BY <1>17 DEF Corrupt, environment, stores, Fails
<1>18. CASE Mature
  BY <1>18 DEF Mature, stores
<1>19. CASE CrashDoes
  BY <1>19 DEF CrashDoes
<1>20. CASE UNCHANGED state
  BY <1>20 DEF state
<1>21. QED
  BY Effects, <1>1, <1>2, <1>3, <1>4, <1>5, <1>6, <1>7, <1>8, <1>9, <1>10,
     <1>11, <1>12, <1>13, <1>14, <1>15, <1>16, <1>17, <1>18, <1>19, <1>20

\* What is served was vetted.
LEMMA FlowStep ==
  ASSUME Typed, AnchorsVetted, NEW q \in Requests, FlowVetted(q), [Next]_vars
  PROVE  FlowVetted(q)'
<1> USE DEF FlowVetted, Vets, Keeps, Others, Remembers, Moves, Finishes, Passes
<1> req \in [Requests -> Request]
  BY DEF Typed
<1> \A o \in Requests :
      /\ req[o].pc \in Labels /\ req[o].body \in Bytes \union {None}
      /\ req[o].rec \in Bytes \union {None} /\ Shaped(o)
  BY ContextTypes DEF Typed
<1>1. ASSUME NEW r \in Requests, NEW o \in Wanted, BeginDoes(r, o)
      PROVE  FlowVetted(q)'
  BY <1>1 DEF BeginDoes, Shaped
<1>2. ASSUME NEW r \in Requests, LookupDoes(r)
      PROVE  FlowVetted(q)'
  BY <1>2 DEF LookupDoes, AnchorsVetted, Shaped
<1>3. ASSUME NEW r \in Requests, ProbeDoes(r)
      PROVE  FlowVetted(q)'
  <2>1. CASE q # r
    <3>1. req'[q] = req[q] /\ UNCHANGED <<passed, denied>>
      BY <1>3, <2>1 DEF ProbeDoes
    <3>2. QED
      BY <3>1
  <2>2. CASE /\ q = r
             /\ Passes(r, IF req[r].tier = 1 THEN Fetched(r) ELSE "fill",
                          req[r].tier - 1, cache[req[r].tier][req[r].file])
    BY <1>3, <2>2 DEF ProbeDoes, Fetched, Shaped
  <2>3. CASE /\ q = r
             /\ \/ \E u \in 1..Tiers : Passes(r, "probe", u, req[r].body)
                \/ Passes(r, "index", 0, req[r].body)
    BY <1>3, <2>3 DEF ProbeDoes, Shaped
  <2>4. QED
    BY <1>3, <2>1, <2>2, <2>3 DEF ProbeDoes
<1>4. ASSUME NEW r \in Requests, FillDoes(r)
      PROVE  FlowVetted(q)'
  BY <1>4 DEF FillDoes, Fetched
<1>5. ASSUME NEW r \in Requests, FetchIndexDoes(r)
      PROVE  FlowVetted(q)'
  BY <1>5 DEF FetchIndexDoes
<1>6. ASSUME NEW r \in Requests, FetchFileDoes(r)
      PROVE  FlowVetted(q)'
  <2>1. CASE q = r
    BY <1>6, <2>1 DEF FetchFileDoes, Shaped
  <2>2. CASE q # r
    <3>1. req'[q] = req[q] /\ UNCHANGED <<passed, denied>>
      BY <1>6, <2>2 DEF FetchFileDoes
    <3>2. QED
      BY <3>1
  <2>3. QED
    BY <2>1, <2>2
<1>7. ASSUME NEW r \in Requests, VerifyDoes(r)
      PROVE  FlowVetted(q)'
  BY <1>7 DEF VerifyDoes
<1>8. ASSUME NEW r \in Requests, EvictDoes(r)
      PROVE  FlowVetted(q)'
  <2>1. CASE q = r
    BY <1>8, <2>1 DEF EvictDoes, Shaped
  <2>2. CASE q # r
    <3>1. req'[q] = req[q] /\ UNCHANGED <<passed, denied>>
      BY <1>8, <2>2 DEF EvictDoes
    <3>2. QED
      BY <3>1
  <2>3. QED
    BY <2>1, <2>2
<1>9. ASSUME NEW r \in Requests, DenyCheckDoes(r)
      PROVE  FlowVetted(q)'
  BY <1>9 DEF DenyCheckDoes, AfterDenyCheck
<1>10. ASSUME NEW r \in Requests, AgeCheckDoes(r)
      PROVE  FlowVetted(q)'
  BY <1>10 DEF AgeCheckDoes
<1>11. ASSUME NEW r \in Requests, ScanDoes(r)
      PROVE  FlowVetted(q)'
  BY <1>11 DEF ScanDoes, Slot
<1>12. ASSUME NEW r \in Requests, RecordDoes(r)
      PROVE  FlowVetted(q)'
  BY <1>12 DEF RecordDoes
<1>13. ASSUME NEW r \in Requests, AnchorDoes(r)
      PROVE  FlowVetted(q)'
  <2>1. CASE q = r
    BY <1>13, <2>1 DEF AnchorDoes, Shaped
  <2>2. CASE q # r
    <3>1. req'[q] = req[q] /\ UNCHANGED <<passed, denied>>
      BY <1>13, <2>2 DEF AnchorDoes
    <3>2. QED
      BY <3>1
  <2>3. QED
    BY <2>1, <2>2
<1>14. ASSUME NEW r \in Requests, RespondDoes(r)
      PROVE  FlowVetted(q)'
  BY <1>14 DEF RespondDoes
<1>15. ASSUME NEW f \in Files, Replace(f)
      PROVE  FlowVetted(q)'
  BY <1>15 DEF Replace, stores, Fails
<1>16. ASSUME NEW f \in Files, Reindex(f)
      PROVE  FlowVetted(q)'
  BY <1>16 DEF Reindex, stores
<1>17. ASSUME NEW t \in 1..Tiers, NEW f \in Files, Corrupt(t, f)
      PROVE  FlowVetted(q)'
  BY <1>17 DEF Corrupt, environment, stores, Fails
<1>18. CASE Mature
  BY <1>18 DEF Mature, stores
<1>19. CASE CrashDoes
  BY <1>19 DEF CrashDoes
<1>20. CASE UNCHANGED state
  BY <1>20 DEF state
<1>21. QED
  BY Effects, <1>1, <1>2, <1>3, <1>4, <1>5, <1>6, <1>7, <1>8, <1>9, <1>10,
     <1>11, <1>12, <1>13, <1>14, <1>15, <1>16, <1>17, <1>18, <1>19, <1>20

\* The age check judges the file that it lets on.
LEMMA AgedStep ==
  ASSUME Typed, NEW q \in Requests, Aged(q), [Next]_vars
  PROVE  Aged(q)'
<1> USE DEF Aged, Keeps, Others, Remembers, Moves, Finishes, Passes
<1> req \in [Requests -> Request]
  BY DEF Typed
<1> \A o \in Requests :
      /\ req[o].pc \in Labels /\ req[o].body \in Bytes \union {None}
      /\ req[o].rec \in Bytes \union {None} /\ Shaped(o)
  BY ContextTypes DEF Typed
<1>1. ASSUME NEW r \in Requests, NEW o \in Wanted, BeginDoes(r, o)
      PROVE  Aged(q)'
  BY <1>1 DEF BeginDoes
<1>2. ASSUME NEW r \in Requests, LookupDoes(r)
      PROVE  Aged(q)'
  BY <1>2 DEF LookupDoes
<1>3. ASSUME NEW r \in Requests, ProbeDoes(r)
      PROVE  Aged(q)'
  BY <1>3 DEF ProbeDoes, Fetched
<1>4. ASSUME NEW r \in Requests, FillDoes(r)
      PROVE  Aged(q)'
  BY <1>4 DEF FillDoes, Fetched
<1>5. ASSUME NEW r \in Requests, FetchIndexDoes(r)
      PROVE  Aged(q)'
  BY <1>5 DEF FetchIndexDoes
<1>6. ASSUME NEW r \in Requests, FetchFileDoes(r)
      PROVE  Aged(q)'
  BY <1>6 DEF FetchFileDoes, Accepts, File
<1>7. ASSUME NEW r \in Requests, VerifyDoes(r)
      PROVE  Aged(q)'
  BY <1>7 DEF VerifyDoes
<1>8. ASSUME NEW r \in Requests, EvictDoes(r)
      PROVE  Aged(q)'
  BY <1>8 DEF EvictDoes
<1>9. ASSUME NEW r \in Requests, DenyCheckDoes(r)
      PROVE  Aged(q)'
  BY <1>9 DEF DenyCheckDoes, AfterDenyCheck, Scope
<1>10. ASSUME NEW r \in Requests, AgeCheckDoes(r)
      PROVE  Aged(q)'
  BY <1>10 DEF AgeCheckDoes
<1>11. ASSUME NEW r \in Requests, ScanDoes(r)
      PROVE  Aged(q)'
  BY <1>11 DEF ScanDoes
<1>12. ASSUME NEW r \in Requests, RecordDoes(r)
      PROVE  Aged(q)'
  BY <1>12 DEF RecordDoes
<1>13. ASSUME NEW r \in Requests, AnchorDoes(r)
      PROVE  Aged(q)'
  BY <1>13 DEF AnchorDoes
<1>14. ASSUME NEW r \in Requests, RespondDoes(r)
      PROVE  Aged(q)'
  BY <1>14 DEF RespondDoes
<1>15. ASSUME NEW f \in Files, Replace(f)
      PROVE  Aged(q)'
  BY <1>15 DEF Replace, stores, Fails
<1>16. ASSUME NEW f \in Files, Reindex(f)
      PROVE  Aged(q)'
  BY <1>16 DEF Reindex, stores
<1>17. ASSUME NEW t \in 1..Tiers, NEW f \in Files, Corrupt(t, f)
      PROVE  Aged(q)'
  BY <1>17 DEF Corrupt, environment, stores, Fails
<1>18. CASE Mature
  BY <1>18 DEF Mature, stores
<1>19. CASE CrashDoes
  BY <1>19 DEF CrashDoes
<1>20. CASE UNCHANGED state
  BY <1>20 DEF state
<1>21. QED
  BY Effects, <1>1, <1>2, <1>3, <1>4, <1>5, <1>6, <1>7, <1>8, <1>9, <1>10,
     <1>11, <1>12, <1>13, <1>14, <1>15, <1>16, <1>17, <1>18, <1>19, <1>20

\* A denial stays, and binds the requests that begin after it.
LEMMA HeedsStep ==
  ASSUME Typed, NEW q \in Requests, Heeds(q), [Next]_vars
  PROVE  Heeds(q)'
<1> USE DEF Heeds, Keeps, Others, Remembers, Moves, Finishes, Passes
<1> req \in [Requests -> Request]
  BY DEF Typed
<1> \A o \in Requests :
      /\ req[o].pc \in Labels /\ req[o].body \in Bytes \union {None}
      /\ req[o].rec \in Bytes \union {None} /\ Shaped(o)
  BY ContextTypes DEF Typed
<1>1. ASSUME NEW r \in Requests, NEW o \in Wanted, BeginDoes(r, o)
      PROVE  Heeds(q)'
  BY <1>1 DEF BeginDoes, Shaped
<1>2. ASSUME NEW r \in Requests, LookupDoes(r)
      PROVE  Heeds(q)'
  BY <1>2 DEF LookupDoes
<1>3. ASSUME NEW r \in Requests, ProbeDoes(r)
      PROVE  Heeds(q)'
  <2>1. CASE q # r
    <3>1. req'[q] = req[q] /\ UNCHANGED <<passed, denied>>
      BY <1>3, <2>1 DEF ProbeDoes
    <3>2. QED
      BY <3>1
  <2>2. CASE /\ q = r
             /\ Passes(r, IF req[r].tier = 1 THEN Fetched(r) ELSE "fill",
                          req[r].tier - 1, cache[req[r].tier][req[r].file])
    BY <1>3, <2>2 DEF ProbeDoes, Fetched, Shaped
  <2>3. CASE /\ q = r
             /\ \/ \E u \in 1..Tiers : Passes(r, "probe", u, req[r].body)
                \/ Passes(r, "index", 0, req[r].body)
    BY <1>3, <2>3 DEF ProbeDoes, Shaped
  <2>4. QED
    BY <1>3, <2>1, <2>2, <2>3 DEF ProbeDoes
<1>4. ASSUME NEW r \in Requests, FillDoes(r)
      PROVE  Heeds(q)'
  BY <1>4 DEF FillDoes, Fetched
<1>5. ASSUME NEW r \in Requests, FetchIndexDoes(r)
      PROVE  Heeds(q)'
  BY <1>5 DEF FetchIndexDoes
<1>6. ASSUME NEW r \in Requests, FetchFileDoes(r)
      PROVE  Heeds(q)'
  <2>1. CASE q = r
    BY <1>6, <2>1 DEF FetchFileDoes, Shaped
  <2>2. CASE q # r
    <3>1. req'[q] = req[q] /\ UNCHANGED <<passed, denied>>
      BY <1>6, <2>2 DEF FetchFileDoes
    <3>2. QED
      BY <3>1
  <2>3. QED
    BY <2>1, <2>2
<1>7. ASSUME NEW r \in Requests, VerifyDoes(r)
      PROVE  Heeds(q)'
  BY <1>7 DEF VerifyDoes
<1>8. ASSUME NEW r \in Requests, EvictDoes(r)
      PROVE  Heeds(q)'
  <2>1. CASE q = r
    BY <1>8, <2>1 DEF EvictDoes, Shaped
  <2>2. CASE q # r
    <3>1. req'[q] = req[q] /\ UNCHANGED <<passed, denied>>
      BY <1>8, <2>2 DEF EvictDoes
    <3>2. QED
      BY <3>1
  <2>3. QED
    BY <2>1, <2>2
<1>9. ASSUME NEW r \in Requests, DenyCheckDoes(r)
      PROVE  Heeds(q)'
  BY <1>9 DEF DenyCheckDoes, AfterDenyCheck, Denied, Scope, File
<1>10. ASSUME NEW r \in Requests, AgeCheckDoes(r)
      PROVE  Heeds(q)'
  BY <1>10 DEF AgeCheckDoes
<1>11. ASSUME NEW r \in Requests, ScanDoes(r)
      PROVE  Heeds(q)'
  BY <1>11 DEF ScanDoes
<1>12. ASSUME NEW r \in Requests, RecordDoes(r)
      PROVE  Heeds(q)'
  BY <1>12 DEF RecordDoes
<1>13. ASSUME NEW r \in Requests, AnchorDoes(r)
      PROVE  Heeds(q)'
  BY <1>13 DEF AnchorDoes
<1>14. ASSUME NEW r \in Requests, RespondDoes(r)
      PROVE  Heeds(q)'
  BY <1>14 DEF RespondDoes
<1>15. ASSUME NEW f \in Files, Replace(f)
      PROVE  Heeds(q)'
  BY <1>15 DEF Replace, stores, Fails
<1>16. ASSUME NEW f \in Files, Reindex(f)
      PROVE  Heeds(q)'
  BY <1>16 DEF Reindex, stores
<1>17. ASSUME NEW t \in 1..Tiers, NEW f \in Files, Corrupt(t, f)
      PROVE  Heeds(q)'
  BY <1>17 DEF Corrupt, environment, stores, Fails
<1>18. CASE Mature
  BY <1>18 DEF Mature, stores
<1>19. CASE CrashDoes
  BY <1>19 DEF CrashDoes
<1>20. CASE UNCHANGED state
  BY <1>20 DEF state
<1>21. QED
  BY Effects, <1>1, <1>2, <1>3, <1>4, <1>5, <1>6, <1>7, <1>8, <1>9, <1>10,
     <1>11, <1>12, <1>13, <1>14, <1>15, <1>16, <1>17, <1>18, <1>19, <1>20

-----------------------------------------------------------------------------
(* One failure of the outermost cache heals.                               *)

\* What the actions write into the caches.
LEMMA Writes ==
  ASSUME Typed
  PROVE  /\ \A r \in Requests : FillDoes(r) =>
              \A t \in 1..Tiers, f \in Files :
                \/ cache'[t][f] = cache[t][f]
                \/ f = req[r].file /\ cache'[t][f] = req[r].body
         /\ \A r \in Requests : ProbeDoes(r) \/ EvictDoes(r) =>
              \A t \in 1..Tiers, f \in Files :
                cache'[t][f] = cache[t][f] \/ cache'[t][f] = None
         /\ \A r \in Requests : EvictDoes(r) /\ trouble' = trouble =>
              cache'[1][req[r].file] = None
         /\ \A u \in 1..Tiers, g \in Files : Corrupt(u, g) =>
              \A t \in 1..Tiers, f \in Files :
                t # u => cache'[t][f] = cache[t][f]
<1> cache \in CacheType /\ 1 \in 1..Tiers
  BY FileFlowAssumption DEF Typed, Stored
<1>1. ASSUME NEW r \in Requests, FillDoes(r), NEW t \in 1..Tiers, NEW f \in Files
      PROVE  \/ cache'[t][f] = cache[t][f]
             \/ f = req[r].file /\ cache'[t][f] = req[r].body
  <2>1. CASE UNCHANGED cache
    BY <2>1
  <2>2. CASE cache' = [cache EXCEPT ![req[r].tier][req[r].file] = req[r].body]
    <3>1. req[r].tier \in 1..Tiers /\ req[r].file \in Files
      BY <1>1, Slotted DEF FillDoes
    <3>2. QED
      BY <2>2, <3>1 DEF CacheType
  <2>3. QED
    BY <1>1, <2>1, <2>2 DEF FillDoes
<1>2. ASSUME NEW r \in Requests, ProbeDoes(r), NEW t \in 1..Tiers, NEW f \in Files
      PROVE  cache'[t][f] = cache[t][f] \/ cache'[t][f] = None
  <2>1. CASE UNCHANGED cache
    BY <2>1
  <2>2. CASE cache' = [cache EXCEPT ![req[r].tier] = Without(req[r].tier, req[r].file)]
    BY <1>2, <2>2, Slotted DEF ProbeDoes, CacheType, Without
  <2>3. QED
    BY <1>2, <2>1, <2>2 DEF ProbeDoes
<1>3. ASSUME NEW r \in Requests, EvictDoes(r), NEW t \in 1..Tiers, NEW f \in Files
      PROVE  cache'[t][f] = cache[t][f] \/ cache'[t][f] = None
  <2>1. CASE UNCHANGED cache
    BY <2>1
  <2>2. CASE cache' = [u \in 1..Tiers |-> IF u = 1 THEN Without(u, req[r].file)
                                         ELSE cache[u]]
    <3>1. cache'[t] = IF t = 1 THEN [cache[t] EXCEPT ![req[r].file] = None] ELSE cache[t]
      BY <2>2 DEF Without
    <3>2. cache[t] \in [Files -> Bytes \union {None}]
      BY DEF CacheType
    <3>3. QED
      BY <3>1, <3>2
  <2>3. QED
    BY <1>3, <2>1, <2>2 DEF EvictDoes
<1>4. ASSUME NEW r \in Requests, EvictDoes(r), trouble' = trouble
      PROVE  cache'[1][req[r].file] = None
  <2>1. trouble' # trouble + 1 /\ req[r].file \in Files
    BY <1>4, Slotted DEF EvictDoes, Typed, Stored
  <2>2. cache' = [t \in 1..Tiers |-> IF t = 1 THEN Without(t, req[r].file)
                                    ELSE cache[t]]
    BY <1>4, <2>1 DEF EvictDoes
  <2>3. QED
    BY <2>1, <2>2 DEF Without, CacheType
<1>5. ASSUME NEW u \in 1..Tiers, NEW g \in Files, Corrupt(u, g),
             NEW t \in 1..Tiers, NEW f \in Files, t # u
      PROVE  cache'[t][f] = cache[t][f]
  <2>1. PICK b \in Bytes : cache' = [cache EXCEPT ![u][g] = b]
    BY <1>5 DEF Corrupt
  <2>2. QED
    BY <1>5, <2>1 DEF CacheType
<1>6. QED
  BY <1>1, <1>2, <1>3, <1>4, <1>5

\* Whether a cache behind the first one has failed is not forgotten.
LEMMA Deepens ==
  /\ \A r \in Requests : ProbeDoes(r) \/ FillDoes(r) => (~deep' => ~deep)
  /\ \A t \in 1..Tiers, f \in Files :
       Corrupt(t, f) => (~deep' => ~deep /\ ~(t > 1))
<1>1. ASSUME NEW r \in Requests, ProbeDoes(r)
      PROVE  ~deep' => ~deep
  <2>1. deep' = deep \/ deep' = (deep \/ req[r].tier > 1)
    BY <1>1, Zenon DEF ProbeDoes
  <2>2. QED
    BY <2>1, Zenon
<1>2. ASSUME NEW r \in Requests, FillDoes(r)
      PROVE  ~deep' => ~deep
  <2>1. deep' = deep \/ deep' = (deep \/ req[r].tier > 1)
    BY <1>2, Zenon DEF FillDoes
  <2>2. QED
    BY <2>1, Zenon
<1>3. ASSUME NEW t \in 1..Tiers, NEW f \in Files, Corrupt(t, f)
      PROVE  ~deep' => ~deep /\ ~(t > 1)
  <2>1. deep' = (deep \/ t > 1)
    BY <1>3, Zenon DEF Corrupt
  <2>2. QED
    BY <2>1, Zenon
<1>4. QED
  BY <1>1, <1>2, <1>3

Clean == ~replaced /\ ~deep

\* A file of the upstream, or nothing.
Genuine(f, b) == b = None \/ b = content[f]

\* As long as the upstream has replaced nothing, the caches behind the first
\* one, unless they failed, hold what it serves, and so does the first one
\* until something has failed.
Faithful ==
  Clean => \A t \in 1..Tiers, f \in Files :
             t > 1 \/ trouble = 0 => Genuine(f, cache[t][f])

\* A request that retries has seen a first failure; without another one the
\* first cache no longer has the wrong file and the request is not given it.
Heals(q) ==
  /\ req[q].pc = "lookup" => ~req[q].retry
  /\ Clean /\ req[q].pc # "idle" =>
       /\ req[q].pc = "fill" => req[q].body = content[req[q].file]
       /\ trouble = 0 => Genuine(req[q].file, req[q].body)
       /\ (req[q].retry \/ req[q].pc = "evict") /\ req[q].rec = content[req[q].file]
            => trouble >= 1
       /\ trouble <= 1 /\ req[q].retry /\ req[q].rec = content[req[q].file]
            => /\ Genuine(req[q].file, req[q].body)
               /\ Genuine(req[q].file, cache[1][req[q].file])
       /\ req[q].code = "mismatch" /\ req[q].rec = content[req[q].file]
            => trouble >= 2

\* The caches are filled with what the upstream serves.
LEMMA FaithfulStep ==
  ASSUME Typed, Faithful, \A q \in Requests : Heals(q), [Next]_vars
  PROVE  Faithful'
<1> USE DEF Faithful, Clean, Genuine
<1> trouble \in Nat
  BY DEF Typed, Stored
<1>1. ASSUME NEW r \in Requests, NEW o \in Wanted, BeginDoes(r, o)
      PROVE  Faithful'
  BY <1>1 DEF BeginDoes
<1>2. ASSUME NEW r \in Requests, LookupDoes(r)
      PROVE  Faithful'
  BY <1>2 DEF LookupDoes
<1>3. ASSUME NEW r \in Requests, ProbeDoes(r)
      PROVE  Faithful'
  <2>1. /\ UNCHANGED <<content, replaced>> /\ (~deep' => ~deep)
        /\ trouble' \in {trouble, trouble + 1}
    BY <1>3, Deepens DEF ProbeDoes
  <2>2. \A t \in 1..Tiers, f \in Files :
          cache'[t][f] = cache[t][f] \/ cache'[t][f] = None
    BY <1>3, Writes
  <2>3. QED
    BY <2>1, <2>2
<1>4. ASSUME NEW r \in Requests, FillDoes(r)
      PROVE  Faithful'
  <2>1. /\ UNCHANGED <<content, replaced>> /\ (~deep' => ~deep)
        /\ trouble' \in {trouble, trouble + 1} /\ req[r].pc = "fill"
    BY <1>4, Deepens DEF FillDoes
  <2>2. \A t \in 1..Tiers, f \in Files :
          \/ cache'[t][f] = cache[t][f]
          \/ f = req[r].file /\ cache'[t][f] = req[r].body
    BY <1>4, Writes
  <2>3. Clean => req[r].body = content[req[r].file]
    BY <2>1 DEF Heals
  <2>4. QED
    BY <2>1, <2>2, <2>3
<1>5. ASSUME NEW r \in Requests, FetchIndexDoes(r)
      PROVE  Faithful'
  BY <1>5 DEF FetchIndexDoes
<1>6. ASSUME NEW r \in Requests, FetchFileDoes(r)
      PROVE  Faithful'
  BY <1>6 DEF FetchFileDoes
<1>7. ASSUME NEW r \in Requests, VerifyDoes(r)
      PROVE  Faithful'
  BY <1>7 DEF VerifyDoes
<1>8. ASSUME NEW r \in Requests, EvictDoes(r)
      PROVE  Faithful'
  BY <1>8, Writes DEF EvictDoes
<1>9. ASSUME NEW r \in Requests, DenyCheckDoes(r)
      PROVE  Faithful'
  BY <1>9 DEF DenyCheckDoes
<1>10. ASSUME NEW r \in Requests, AgeCheckDoes(r)
      PROVE  Faithful'
  BY <1>10 DEF AgeCheckDoes
<1>11. ASSUME NEW r \in Requests, ScanDoes(r)
      PROVE  Faithful'
  BY <1>11 DEF ScanDoes
<1>12. ASSUME NEW r \in Requests, RecordDoes(r)
      PROVE  Faithful'
  BY <1>12 DEF RecordDoes
<1>13. ASSUME NEW r \in Requests, AnchorDoes(r)
      PROVE  Faithful'
  BY <1>13 DEF AnchorDoes
<1>14. ASSUME NEW r \in Requests, RespondDoes(r)
      PROVE  Faithful'
  BY <1>14 DEF RespondDoes
<1>15. ASSUME NEW f \in Files, Replace(f)
      PROVE  Faithful'
  BY <1>15 DEF Replace, stores, Fails
<1>16. ASSUME NEW f \in Files, Reindex(f)
      PROVE  Faithful'
  BY <1>16 DEF Reindex, stores
<1>17. ASSUME NEW t \in 1..Tiers, NEW f \in Files, Corrupt(t, f)
      PROVE  Faithful'
  <2>1. /\ UNCHANGED <<content, replaced>> /\ trouble' = trouble + 1
        /\ (~deep' => ~deep /\ ~(t > 1))
    BY <1>17, Deepens DEF Corrupt, environment, Fails
  <2>2. \A u \in 1..Tiers, g \in Files : u # t => cache'[u][g] = cache[u][g]
    BY <1>17, Writes
  <2>3. QED
    BY <2>1, <2>2
<1>18. CASE Mature
  BY <1>18 DEF Mature, stores
<1>19. CASE CrashDoes
  BY <1>19 DEF CrashDoes
<1>20. CASE UNCHANGED state
  BY <1>20 DEF state
<1>21. QED
  BY Effects, <1>1, <1>2, <1>3, <1>4, <1>5, <1>6, <1>7, <1>8, <1>9, <1>10,
     <1>11, <1>12, <1>13, <1>14, <1>15, <1>16, <1>17, <1>18, <1>19, <1>20

\* A request heals.
LEMMA HealsStep ==
  ASSUME Typed, Faithful, NEW q \in Requests, Heals(q),
         \A p \in Requests : Heals(p), [Next]_vars
  PROVE  Heals(q)'
<1> USE DEF Heals, Clean, Genuine, Keeps, Others, Remembers, Moves, Finishes, Passes
<1> req \in [Requests -> Request] /\ trouble \in Nat
  BY DEF Typed, Stored
<1> 1 \in 1..Tiers
  BY FileFlowAssumption
<1> \A o \in Requests :
      /\ req[o].pc \in Labels /\ req[o].body \in Bytes \union {None}
      /\ req[o].rec \in Bytes \union {None} /\ Shaped(o)
  BY ContextTypes DEF Typed
<1>1. ASSUME NEW r \in Requests, NEW o \in Wanted, BeginDoes(r, o)
      PROVE  Heals(q)'
  BY <1>1 DEF BeginDoes
<1>2. ASSUME NEW r \in Requests, LookupDoes(r)
      PROVE  Heals(q)'
  <2>1. CASE q # r
    <3>1. req'[q] = req[q] /\ UNCHANGED <<content, replaced>> /\ (~deep' => ~deep)
      BY <1>2, <2>1, Deepens DEF LookupDoes
    <3>2. trouble' \in {trouble, trouble + 1}
      BY <1>2 DEF LookupDoes
    <3>3. UNCHANGED cache
      BY <1>2 DEF LookupDoes
    <3>4. QED
      BY <3>1, <3>2, <3>3, Slotted
  <2>2. CASE q = r
    <3>1. /\ UNCHANGED <<content, replaced, deep, cache>> /\ ~req'[q].retry
          /\ req'[q].pc \in {"probe", "done"} /\ req'[q].code # "mismatch"
          /\ req'[q].body = req[q].body /\ req'[q].file = req[q].file
          /\ req[q].pc = "lookup"
      BY <1>2, <2>2 DEF LookupDoes, Shaped
    <3>2. trouble' \in {trouble, trouble + 1}
      BY <1>2 DEF LookupDoes
    <3>3. QED
      BY <3>1, <3>2
  <2>3. QED
    BY <2>1, <2>2
<1>3. ASSUME NEW r \in Requests, ProbeDoes(r)
      PROVE  Heals(q)'
  <2>1. CASE q # r
    <3>1. req'[q] = req[q] /\ UNCHANGED <<content, replaced>> /\ (~deep' => ~deep)
      BY <1>3, <2>1, Deepens DEF ProbeDoes
    <3>2. trouble' \in {trouble, trouble + 1}
      BY <1>3 DEF ProbeDoes
    <3>3. \A f \in Files : cache'[1][f] = cache[1][f] \/ cache'[1][f] = None
      BY <1>3, Writes
    <3>4. QED
      BY <3>1, <3>2, <3>3, Slotted
  <2>2. CASE q = r
    <3>1. /\ req[r].tier \in 1..Tiers /\ req[r].pc = "probe" /\ req[r].code = "none"
          /\ req[r].file \in Files /\ req[r].tier \in Nat
      BY SMTT(60), <1>3, Slotted DEF ProbeDoes, Shaped
    <3>2. \A f \in Files : cache'[1][f] = cache[1][f] \/ cache'[1][f] = None
      BY <1>3, Writes
    <3>3. CASE /\ cache[req[r].tier][req[r].file] # None
               /\ Passes(r, IF req[r].tier = 1 THEN Fetched(r) ELSE "fill",
                            req[r].tier - 1, cache[req[r].tier][req[r].file])
               /\ UNCHANGED <<cache, deep>> /\ trouble' = trouble
      <4>1. /\ UNCHANGED <<content, replaced, deep, cache, trouble>>
            /\ (req'[q].retry <=> req[q].retry) /\ req'[q].code = "none"
            /\ req'[q].body = cache[req[r].tier][req[r].file]
            /\ req'[q].file = req[q].file /\ req'[q].rec = req[q].rec
            /\ req'[q].pc \in {"fill", "verify", "denyCheck"}
            /\ (req'[q].pc = "fill" => req[r].tier # 1)
        BY <1>3, <2>2, <3>1, <3>3 DEF ProbeDoes, Fetched
      <4>2. Clean /\ req[r].tier # 1 =>
              cache[req[r].tier][req[r].file] = content[req[r].file]
        BY <3>1, <3>3 DEF Faithful
      <4>3. Clean /\ trouble = 0 =>
              cache[req[r].tier][req[r].file] = content[req[r].file]
        BY <3>1, <3>3 DEF Faithful
      <4>4. QED
        BY <2>2, <3>1, <4>1, <4>2, <4>3
    <3>4. CASE \/ \E u \in 1..Tiers : Passes(r, "probe", u, req[r].body)
               \/ Passes(r, "index", 0, req[r].body)
      <4>1. /\ UNCHANGED <<content, replaced>> /\ (~deep' => ~deep)
            /\ trouble' \in {trouble, trouble + 1}
        BY <1>3, Deepens DEF ProbeDoes
      <4>2. /\ (req'[q].retry <=> req[q].retry) /\ req'[q].code = "none"
            /\ req'[q].body = req[q].body /\ req'[q].pc \in {"probe", "index"}
            /\ req'[q].file = req[q].file /\ req'[q].rec = req[q].rec
        BY <2>2, <3>1, <3>4
      <4>3. QED
        BY <2>2, <3>1, <3>2, <4>1, <4>2
    <3>5. QED
      BY <1>3, <3>3, <3>4 DEF ProbeDoes
  <2>3. QED
    BY <2>1, <2>2
<1>4. ASSUME NEW r \in Requests, FillDoes(r)
      PROVE  Heals(q)'
  <2>1. CASE q # r
    <3>1. req'[q] = req[q] /\ UNCHANGED <<content, replaced>> /\ (~deep' => ~deep)
      BY <1>4, <2>1, Deepens DEF FillDoes
    <3>2. trouble' \in {trouble, trouble + 1}
      BY <1>4 DEF FillDoes
    <3>3. /\ req[r].pc = "fill"
          /\ \A f \in Files : \/ cache'[1][f] = cache[1][f]
                              \/ f = req[r].file /\ cache'[1][f] = req[r].body
      BY SMTT(60), <1>4, Writes DEF FillDoes
    <3>4. QED
      BY <3>1, <3>2, <3>3, Slotted
  <2>2. CASE q = r
    <3>1. /\ req[r].pc = "fill" /\ req[r].code = "none" /\ req[r].file \in Files
          /\ UNCHANGED <<content, replaced>> /\ (~deep' => ~deep)
          /\ trouble' \in {trouble, trouble + 1}
      BY <1>4, Slotted, Deepens DEF FillDoes, Shaped
    <3>2. /\ (req'[q].retry <=> req[q].retry) /\ req'[q].code = "none"
          /\ req'[q].body = req[q].body /\ req'[q].pc \notin {"evict", "idle", "lookup"}
          /\ req'[q].file = req[q].file /\ req'[q].rec = req[q].rec
      BY <1>4, <2>2, <3>1 DEF FillDoes, Fetched
    <3>3. \/ cache'[1][req[r].file] = cache[1][req[r].file]
          \/ cache'[1][req[r].file] = req[r].body
      BY <1>4, <3>1, Writes
    <3>4. QED
      BY <2>2, <3>1, <3>2, <3>3
  <2>3. QED
    BY <2>1, <2>2
<1>5. ASSUME NEW r \in Requests, FetchIndexDoes(r)
      PROVE  Heals(q)'
  BY <1>5 DEF FetchIndexDoes
<1>6. ASSUME NEW r \in Requests, FetchFileDoes(r)
      PROVE  Heals(q)'
  BY <1>6 DEF FetchFileDoes, Accepts, File
<1>7. ASSUME NEW r \in Requests, VerifyDoes(r)
      PROVE  Heals(q)'
  <2>1. CASE q # r
    <3>1. req'[q] = req[q] /\ UNCHANGED <<content, replaced>> /\ (~deep' => ~deep)
      BY <1>7, <2>1, Deepens DEF VerifyDoes
    <3>2. trouble' \in {trouble, trouble + 1}
      BY <1>7 DEF VerifyDoes
    <3>3. UNCHANGED cache
      BY <1>7 DEF VerifyDoes
    <3>4. QED
      BY <3>1, <3>2, <3>3, Slotted
  <2>2. CASE q = r
    <3>1. /\ req[r].pc = "verify" /\ req[r].code = "none" /\ req[r].body \in Bytes
          /\ UNCHANGED <<content, replaced, deep, cache, trouble>>
          /\ req'[q].file = req[q].file /\ req'[q].rec = req[q].rec
          /\ req'[q].body = req[q].body
      BY <1>7, <2>2 DEF VerifyDoes, Shaped
    <3>2. \/ /\ req'[q].pc = "denyCheck" /\ (req'[q].retry <=> req[q].retry)
             /\ req'[q].code = "none"
          \/ /\ req'[q].pc = "evict" /\ (req'[q].retry <=> req[q].retry)
             /\ req'[q].code = "none" /\ req[q].body # req[q].rec
          \/ /\ req'[q].pc = "done" /\ ~req'[q].retry /\ req[q].retry
             /\ req[q].body # req[q].rec
      BY <1>7, <2>2, <3>1 DEF VerifyDoes
    <3>3. QED
      BY <2>2, <3>1, <3>2, FileFlowAssumption
  <2>3. QED
    BY <2>1, <2>2
<1>8. ASSUME NEW r \in Requests, EvictDoes(r)
      PROVE  Heals(q)'
  <2>1. CASE q # r
    <3>1. req'[q] = req[q] /\ UNCHANGED <<content, replaced>> /\ (~deep' => ~deep)
      BY <1>8, <2>1, Deepens DEF EvictDoes
    <3>2. trouble' \in {trouble, trouble + 1}
      BY <1>8 DEF EvictDoes
    <3>3. \A f \in Files : cache'[1][f] = cache[1][f] \/ cache'[1][f] = None
      BY <1>8, Writes
    <3>4. QED
      BY <3>1, <3>2, <3>3, Slotted
  <2>2. CASE q = r
    <3>1. /\ req[r].pc = "evict" /\ req[r].code = "none" /\ req[r].file \in Files
          /\ UNCHANGED <<content, replaced, deep>>
          /\ req'[q].file = req[q].file /\ req'[q].rec = req[q].rec
          /\ req'[q].body = None /\ req'[q].pc = "probe" /\ req'[q].code = "none"
      BY <1>8, <2>2, Slotted DEF EvictDoes, Shaped
    <3>2. trouble' = trouble => cache'[1][req[r].file] = None
      BY <1>8, Writes
    <3>3. trouble' = trouble \/ trouble' = trouble + 1
      BY <1>8 DEF EvictDoes
    <3>4. QED
      BY <2>2, <3>1, <3>2, <3>3
  <2>3. QED
    BY <2>1, <2>2
<1>9. ASSUME NEW r \in Requests, DenyCheckDoes(r)
      PROVE  Heals(q)'
  BY <1>9 DEF DenyCheckDoes, AfterDenyCheck
<1>10. ASSUME NEW r \in Requests, AgeCheckDoes(r)
      PROVE  Heals(q)'
  BY <1>10 DEF AgeCheckDoes
<1>11. ASSUME NEW r \in Requests, ScanDoes(r)
      PROVE  Heals(q)'
  BY <1>11 DEF ScanDoes
<1>12. ASSUME NEW r \in Requests, RecordDoes(r)
      PROVE  Heals(q)'
  BY <1>12 DEF RecordDoes
<1>13. ASSUME NEW r \in Requests, AnchorDoes(r)
      PROVE  Heals(q)'
  BY <1>13 DEF AnchorDoes
<1>14. ASSUME NEW r \in Requests, RespondDoes(r)
      PROVE  Heals(q)'
  BY <1>14 DEF RespondDoes
<1>15. ASSUME NEW f \in Files, Replace(f)
      PROVE  Heals(q)'
  BY <1>15 DEF Replace, stores, Fails
<1>16. ASSUME NEW f \in Files, Reindex(f)
      PROVE  Heals(q)'
  BY <1>16 DEF Reindex, stores
<1>17. ASSUME NEW t \in 1..Tiers, NEW f \in Files, Corrupt(t, f)
      PROVE  Heals(q)'
  <2>1. /\ UNCHANGED <<content, replaced, req>> /\ trouble' = trouble + 1
        /\ (~deep' => ~deep)
    BY <1>17 DEF Corrupt, environment, Fails
  <2>2. QED
    BY <2>1
<1>18. CASE Mature
  BY <1>18 DEF Mature, stores
<1>19. CASE CrashDoes
  BY <1>19 DEF CrashDoes
<1>20. CASE UNCHANGED state
  BY <1>20 DEF state
<1>21. QED
  BY Effects, <1>1, <1>2, <1>3, <1>4, <1>5, <1>6, <1>7, <1>8, <1>9, <1>10,
     <1>11, <1>12, <1>13, <1>14, <1>15, <1>16, <1>17, <1>18, <1>19, <1>20

-----------------------------------------------------------------------------
(* The flow implements the gate.                                           *)

\* Answers are never taken back, and nobody but Respond gives one.
LEMMA ServedKept ==
  ASSUME \A q \in Requests :
           /\ req'[q].code = "ok" <=> req[q].code = "ok"
           /\ req[q].code = "ok" =>
                /\ req'[q].scope = req[q].scope /\ req'[q].file = req[q].file
                /\ req'[q].body = req[q].body
  PROVE  Served' = Served
BY DEF Served, Slot

\* A step is one of the gate, or none.
LEMMA GateStep ==
  ASSUME Typed, \A q \in Requests : FlowVetted(q), [Next]_vars
  PROVE  [Gate!Next]_(Gate!vars)
<1> USE DEF Shaped, Keeps, Others, Remembers, Moves, Finishes, Passes
<1> \A o \in Requests : Shaped(o) /\ FlowVetted(o)
  BY DEF Typed
<1>1. ASSUME NEW r \in Requests, NEW o \in Wanted, BeginDoes(r, o)
      PROVE  [Gate!Next]_(Gate!vars)
  <2>1. Served' = Served
    BY <1>1, ServedKept DEF BeginDoes
  <2>2. UNCHANGED <<trust, tracked, passed>>
    BY <1>1 DEF BeginDoes
  <2>3. QED
    BY <2>1, <2>2 DEF Gate!vars, Anchors
<1>2. ASSUME NEW r \in Requests, LookupDoes(r)
      PROVE  [Gate!Next]_(Gate!vars)
  <2>1. Served' = Served
    BY <1>2, ServedKept DEF LookupDoes
  <2>2. UNCHANGED <<trust, tracked, passed>>
    BY <1>2 DEF LookupDoes
  <2>3. QED
    BY <2>1, <2>2 DEF Gate!vars, Anchors
<1>3. ASSUME NEW r \in Requests, ProbeDoes(r)
      PROVE  [Gate!Next]_(Gate!vars)
  <2>1. Served' = Served
    BY <1>3, ServedKept DEF ProbeDoes
  <2>2. UNCHANGED <<trust, tracked, passed>>
    BY <1>3 DEF ProbeDoes
  <2>3. QED
    BY <2>1, <2>2 DEF Gate!vars, Anchors
<1>4. ASSUME NEW r \in Requests, FillDoes(r)
      PROVE  [Gate!Next]_(Gate!vars)
  <2>1. Served' = Served
    BY <1>4, ServedKept DEF FillDoes
  <2>2. UNCHANGED <<trust, tracked, passed>>
    BY <1>4 DEF FillDoes
  <2>3. QED
    BY <2>1, <2>2 DEF Gate!vars, Anchors
<1>5. ASSUME NEW r \in Requests, FetchIndexDoes(r)
      PROVE  [Gate!Next]_(Gate!vars)
  <2>1. Served' = Served
    BY <1>5, ServedKept DEF FetchIndexDoes
  <2>2. UNCHANGED <<trust, tracked, passed>>
    BY <1>5 DEF FetchIndexDoes
  <2>3. QED
    BY <2>1, <2>2 DEF Gate!vars, Anchors
<1>6. ASSUME NEW r \in Requests, FetchFileDoes(r)
      PROVE  [Gate!Next]_(Gate!vars)
  <2>1. Served' = Served
    BY <1>6, ServedKept DEF FetchFileDoes
  <2>2. UNCHANGED <<trust, tracked, passed>>
    BY <1>6 DEF FetchFileDoes
  <2>3. QED
    BY <2>1, <2>2 DEF Gate!vars, Anchors
<1>7. ASSUME NEW r \in Requests, VerifyDoes(r)
      PROVE  [Gate!Next]_(Gate!vars)
  <2>1. Served' = Served
    BY <1>7, ServedKept DEF VerifyDoes
  <2>2. UNCHANGED <<trust, tracked, passed>>
    BY <1>7 DEF VerifyDoes
  <2>3. QED
    BY <2>1, <2>2 DEF Gate!vars, Anchors
<1>8. ASSUME NEW r \in Requests, EvictDoes(r)
      PROVE  [Gate!Next]_(Gate!vars)
  <2>1. Served' = Served
    BY <1>8, ServedKept DEF EvictDoes
  <2>2. UNCHANGED <<trust, tracked, passed>>
    BY <1>8 DEF EvictDoes
  <2>3. QED
    BY <2>1, <2>2 DEF Gate!vars, Anchors
<1>9. ASSUME NEW r \in Requests, DenyCheckDoes(r)
      PROVE  [Gate!Next]_(Gate!vars)
  <2>1. Served' = Served
    BY <1>9, ServedKept DEF DenyCheckDoes
  <2>2. UNCHANGED <<trust, tracked, passed>>
    BY <1>9 DEF DenyCheckDoes
  <2>3. QED
    BY <2>1, <2>2 DEF Gate!vars, Anchors
<1>10. ASSUME NEW r \in Requests, AgeCheckDoes(r)
      PROVE  [Gate!Next]_(Gate!vars)
  <2>1. Served' = Served
    BY <1>10, ServedKept DEF AgeCheckDoes
  <2>2. UNCHANGED <<trust, tracked, passed>>
    BY <1>10 DEF AgeCheckDoes
  <2>3. QED
    BY <2>1, <2>2 DEF Gate!vars, Anchors
<1>11. ASSUME NEW r \in Requests, ScanDoes(r)
      PROVE  [Gate!Next]_(Gate!vars)
  <2>1. Served' = Served
    BY <1>11, ServedKept DEF ScanDoes
  <2>2. UNCHANGED <<trust, tracked>>
    BY <1>11 DEF ScanDoes
  <2>3. req[r].body \in Bytes /\ Slot(r) \in Scopes \X Files
    BY <1>11, Slotted DEF ScanDoes, Shaped, Slot
  <2>4. CASE passed' = passed \union {<<Slot(r), req[r].body>>}
    BY <2>1, <2>2, <2>3, <2>4 DEF Gate!Next, Gate!Pass, Anchors
  <2>5. CASE UNCHANGED passed
    BY <2>1, <2>2, <2>5 DEF Gate!vars, Anchors
  <2>6. QED
    BY <1>11, <2>4, <2>5 DEF ScanDoes
<1>12. ASSUME NEW r \in Requests, RecordDoes(r)
      PROVE  [Gate!Next]_(Gate!vars)
  <2>1. Served' = Served
    BY <1>12, ServedKept DEF RecordDoes
  <2>2. UNCHANGED <<trust, tracked, passed>>
    BY <1>12 DEF RecordDoes
  <2>3. QED
    BY <2>1, <2>2 DEF Gate!vars, Anchors
<1>13. ASSUME NEW r \in Requests, AnchorDoes(r)
      PROVE  [Gate!Next]_(Gate!vars)
  <2>1. Served' = Served
    BY <1>13, ServedKept DEF AnchorDoes
  <2>2. UNCHANGED <<passed, tracked>>
    BY <1>13 DEF AnchorDoes
  <2>3. /\ req[r].body \in Bytes /\ Slot(r) \in Scopes \X Files
        /\ <<Slot(r), req[r].body>> \in passed
    BY <1>13, Slotted DEF AnchorDoes, Shaped, Slot, FlowVetted, Vets
  <2>4. CASE trust' = [trust EXCEPT ![req[r].scope][req[r].file] = req[r].body]
    <3>1. Anchors' = [Anchors EXCEPT ![Slot(r)] = req[r].body]
      <4>1. /\ trust \in TrustType /\ req[r].scope \in Scopes /\ req[r].file \in Files
        BY <1>13, Slotted DEF AnchorDoes, Typed, Stored
      <4>2. ASSUME NEW s \in Scopes, NEW f \in Files
            PROVE  trust'[s][f] = IF s = req[r].scope /\ f = req[r].file
                                    THEN req[r].body ELSE trust[s][f]
        BY <2>4, <4>1 DEF TrustType
      <4>3. ASSUME NEW x \in Scopes \X Files
            PROVE  trust'[x[1]][x[2]] = IF x = Slot(r) THEN req[r].body
                                        ELSE trust[x[1]][x[2]]
        <5>1. /\ x[1] \in Scopes /\ x[2] \in Files
              /\ (x = Slot(r) <=> x[1] = req[r].scope /\ x[2] = req[r].file)
          BY DEF Slot
        <5>2. QED
          BY <4>2, <5>1
      <4>4. QED
        BY <2>3, <4>3 DEF Anchors
    <3>2. Gate!Anchor(Slot(r), req[r].body)
      BY <2>1, <2>2, <2>3, <3>1 DEF Gate!Anchor
    <3>3. QED
      BY <2>3, <3>2 DEF Gate!Next
  <2>5. CASE UNCHANGED trust
    BY <2>1, <2>2, <2>5 DEF Gate!vars, Anchors
  <2>6. QED
    BY <1>13, <2>4, <2>5 DEF AnchorDoes
<1>14. ASSUME NEW r \in Requests, RespondDoes(r)
      PROVE  [Gate!Next]_(Gate!vars)
  <2>1. UNCHANGED <<passed, trust>>
    BY <1>14 DEF RespondDoes
  <2>2. /\ req[r].body \in Bytes /\ Slot(r) \in Scopes \X Files
        /\ <<Slot(r), req[r].body>> \in passed /\ req[r].code = "none"
        /\ (Slot(r) \in (Scopes \ {E}) \X Files <=> req[r].scope # E)
    BY <1>14, Slotted DEF RespondDoes, Shaped, Slot, FlowVetted, Vets
  <2>3. CASE /\ Finishes(r, "ok")
             /\ tracked' = IF req[r].scope = E THEN tracked
                           ELSE tracked \union {<<Slot(r), req[r].body>>}
    <3>1. Served' = Served \union {<<Slot(r), req[r].body>>}
      BY <2>2, <2>3 DEF Served, Slot
    <3>2. Gate!Serve(Slot(r), req[r].body)
      BY <2>1, <2>2, <2>3, <3>1 DEF Gate!Serve, Anchors
    <3>3. QED
      BY <2>2, <3>2 DEF Gate!Next
  <2>4. CASE Finishes(r, "failed") /\ UNCHANGED tracked
    <3>1. Served' = Served
      BY <2>2, <2>4, ServedKept
    <3>2. QED
      BY <2>1, <2>4, <3>1 DEF Gate!vars, Anchors
  <2>5. QED
    BY <1>14, <2>3, <2>4 DEF RespondDoes
<1>15. ASSUME NEW f \in Files, Replace(f)
      PROVE  [Gate!Next]_(Gate!vars)
  <2>1. Served' = Served
    BY <1>15, ServedKept DEF Replace
  <2>2. UNCHANGED <<trust, tracked, passed>>
    BY <1>15 DEF Replace, stores
  <2>3. QED
    BY <2>1, <2>2 DEF Gate!vars, Anchors
<1>16. ASSUME NEW f \in Files, Reindex(f)
      PROVE  [Gate!Next]_(Gate!vars)
  <2>1. Served' = Served
    BY <1>16, ServedKept DEF Reindex
  <2>2. UNCHANGED <<trust, tracked, passed>>
    BY <1>16 DEF Reindex, stores
  <2>3. QED
    BY <2>1, <2>2 DEF Gate!vars, Anchors
<1>17. ASSUME NEW t \in 1..Tiers, NEW f \in Files, Corrupt(t, f)
      PROVE  [Gate!Next]_(Gate!vars)
  <2>1. Served' = Served
    BY <1>17, ServedKept DEF Corrupt
  <2>2. UNCHANGED <<trust, tracked, passed>>
    BY <1>17 DEF Corrupt, stores
  <2>3. QED
    BY <2>1, <2>2 DEF Gate!vars, Anchors
<1>18. CASE Mature
  <2>1. Served' = Served
    BY <1>18, ServedKept DEF Mature
  <2>2. UNCHANGED <<trust, tracked, passed>>
    BY <1>18 DEF Mature, stores
  <2>3. QED
    BY <2>1, <2>2 DEF Gate!vars, Anchors
<1>19. CASE CrashDoes
  <2>1. Served' = Served
    BY <1>19, ServedKept DEF CrashDoes
  <2>2. UNCHANGED <<trust, tracked, passed>>
    BY <1>19 DEF CrashDoes
  <2>3. QED
    BY <2>1, <2>2 DEF Gate!vars, Anchors
<1>20. CASE UNCHANGED state
  <2>1. Served' = Served
    BY <1>20, ServedKept DEF state
  <2>2. UNCHANGED <<trust, tracked, passed>>
    BY <1>20 DEF state
  <2>3. QED
    BY <2>1, <2>2 DEF Gate!vars, Anchors
<1>21. QED
  BY Effects, <1>1, <1>2, <1>3, <1>4, <1>5, <1>6, <1>7, <1>8, <1>9, <1>10,
     <1>11, <1>12, <1>13, <1>14, <1>15, <1>16, <1>17, <1>18, <1>19, <1>20

-----------------------------------------------------------------------------
(* The theorems.                                                           *)

LockType == [1..Tiers -> [Files -> Requests \union {None}]]

\* A mutex is held by a request, or free.
LEMMA LockStep ==
  ASSUME Typed, lock \in LockType, [Next]_vars
  PROVE  lock' \in LockType
<1>1. ASSUME NEW t \in 1..Tiers, NEW f \in Files, NEW r \in Requests \union {None}
      PROVE  [lock EXCEPT ![t][f] = r] \in LockType
  BY DEF LockType
<1>2. ASSUME NEW r, ReleaseAll(r)
      PROVE  lock' \in LockType
  <2>1. \A t \in 1..Tiers : \A f \in Files :
          (IF lock[t][f] = r THEN None ELSE lock[t][f]) \in Requests \union {None}
    BY DEF LockType
  <2>2. QED
    BY <1>2, <2>1 DEF ReleaseAll, LockType
<1>3. ASSUME UNCHANGED lock
      PROVE  lock' \in LockType
  BY <1>3
<1>4. CASE Visit \/ Leave \/ UNCHANGED vars
  BY <1>3, <1>4 DEF Visit, Leave, vars
<1>5. ASSUME NEW r \in Requests, Step(r)
      PROVE  lock' \in LockType
  <2>1. CASE Lookup(r) \/ Verify(r) \/ Evict(r) \/ DenyCheck(r) \/ AgeCheck(r)
    BY <1>3, <2>1 DEF Lookup, Verify, Evict, DenyCheck, AgeCheck
  <2>2. CASE Scan(r) \/ Record(r) \/ Anchor(r) \/ Respond(r)
    BY <1>3, <2>2 DEF Scan, Record, Anchor, Respond
  <2>3. CASE Probe(r)
    <3>1. req[r].tier \in 1..Tiers /\ File(r) \in Files
      BY <2>3, Slotted DEF Probe, At, Typed, Shaped, File
    <3>2. \/ UNCHANGED lock
          \/ lock' = [lock EXCEPT ![req[r].tier][File(r)] = r]
      BY <2>3 DEF Probe
    <3>3. QED
      BY <1>1, <3>1, <3>2
  <2>4. CASE Fill(r)
    <3>1. req[r].tier \in 1..Tiers /\ File(r) \in Files
      BY <2>4, Slotted DEF Fill, At, Typed, Shaped, File
    <3>2. lock' = [lock EXCEPT ![req[r].tier][File(r)] = None]
      BY <2>4 DEF Fill
    <3>3. QED
      BY <1>1, <3>1, <3>2
  <2>5. CASE FetchIndex(r) \/ FetchFile(r)
    <3>1. UNCHANGED lock \/ ReleaseAll(r)
      BY <2>5 DEF FetchIndex, FetchFile
    <3>2. QED
      BY <1>2, <1>3, <3>1
  <2>6. QED
    BY <1>5, <2>1, <2>2, <2>3, <2>4, <2>5 DEF Step
<1>6. CASE Flow
  <2>1. CASE \E r \in Requests, o \in Wanted : Begin(r, o)
    BY <1>3, <2>1 DEF Begin
  <2>2. CASE \E f \in Files : Replace(f) \/ Reindex(f)
    BY <1>3, <2>2 DEF Replace, Reindex
  <2>3. CASE (\E t \in 1..Tiers, f \in Files : Corrupt(t, f)) \/ Mature
    BY <1>3, <2>3 DEF Corrupt, Mature
  <2>4. CASE Crash
    BY <2>4 DEF Crash, LockType
  <2>5. QED
    BY <1>5, <1>6, <2>1, <2>2, <2>3, <2>4 DEF Flow
<1>7. QED
  BY <1>4, <1>6 DEF Next

\* The inductive invariant.
FlowInv ==
  /\ Typed /\ lock \in LockType /\ Visiting /\ AnchorsVetted /\ Faithful
  /\ \A q \in Requests : FlowVetted(q) /\ Aged(q) /\ Heeds(q) /\ Heals(q)

\* It holds at first, with the anchors of an earlier run or none.
LEMMA InitFlowInv == Init => FlowInv
<1> SUFFICES ASSUME Init PROVE FlowInv
  OBVIOUS
<1>1. /\ Idle \in Request /\ Idle.pc = "idle" /\ Idle.code = "none"
      /\ Idle.rec = None /\ ~Idle.retry
  BY FileFlowAssumption DEF Idle, Request, Labels
<1>2. \A q \in Requests :
        /\ req[q].pc = "idle" /\ req[q].code = "none" /\ req[q].rec = None
        /\ ~req[q].retry
  BY <1>1 DEF Init
<1>3. passed \subseteq (Scopes \X Files) \X Bytes
  BY FileFlowAssumption DEF Init
<1>4. ASSUME NEW s \in Scopes, NEW f \in Files
      PROVE  /\ trust[s][f] \in Bytes \union {None}
             /\ trust[s][f] # None => <<<<s, f>>, trust[s][f]>> \in passed
  <2> DEFINE P(b) == <<<<s, f>>, b>> \in passed
  <2>1. trust[s][f] = IF \E b \in Bytes : P(b) THEN CHOOSE b \in Bytes : P(b) ELSE None
    BY DEF Init
  <2> HIDE DEF P
  <2>2. CASE \E b \in Bytes : P(b)
    <3>1. trust[s][f] \in Bytes /\ P(trust[s][f])
      BY <2>1, <2>2, Zenon
    <3>2. QED
      BY <3>1 DEF P
  <2>3. CASE ~\E b \in Bytes : P(b)
    BY <2>1, <2>3
  <2>4. QED
    BY <2>2, <2>3
<1>5. trust \in TrustType
  <2>1. trust = [s \in Scopes |-> [f \in Files |-> trust[s][f]]]
    BY DEF Init
  <2>2. QED
    BY <1>4, <2>1 DEF TrustType
<1>6. Stored
  <2>1. content \in [Files -> Bytes \union {None}] /\ listing = content
    BY FileFlowAssumption DEF Init
  <2>2. cache \in CacheType
    BY DEF Init, CacheType
  <2>3. tracked = {} /\ young \subseteq Bytes /\ trouble \in 0..MaxTrouble
    BY FileFlowAssumption DEF Init
  <2>4. QED
    BY <1>3, <1>5, <2>1, <2>2, <2>3 DEF Stored
<1>7. Typed
  BY <1>1, <1>2, <1>6 DEF Typed, Shaped, Init
<1>8. AnchorsVetted /\ Visiting /\ lock \in LockType
  BY <1>4 DEF AnchorsVetted, Visiting, Init, LockType
<1>9. Faithful
  <2>1. \A t \in 1..Tiers : \A f \in Files : cache[t][f] = None
    BY DEF Init
  <2>2. QED
    BY <2>1 DEF Faithful, Genuine
<1>10. ASSUME NEW q \in Requests
       PROVE  FlowVetted(q) /\ Aged(q) /\ Heeds(q) /\ Heals(q)
  <2>1. FlowVetted(q)
    BY <1>2 DEF FlowVetted
  <2>2. Aged(q)
    <3>1. req[q].pc = "idle"
      BY <1>2
    <3>2. QED
      BY <3>1 DEF Aged
  <2>3. Heeds(q)
    BY <1>2 DEF Heeds
  <2>4. Heals(q)
    BY <1>2 DEF Heals
  <2>5. QED
    BY <2>1, <2>2, <2>3, <2>4
<1>11. QED
  BY <1>7, <1>8, <1>9, <1>10 DEF FlowInv

\* FlowInv is an invariant: with every answer of a cache, an index or the deny
\* list, every failure and every restart.
THEOREM FlowInvariance == Spec => []FlowInv
<1>1. ASSUME FlowInv, [Next]_vars
      PROVE  FlowInv'
  <2>1. Typed' /\ (lock' \in LockType) /\ Visiting' /\ AnchorsVetted' /\ Faithful'
    BY <1>1, TypeStep, LockStep, VisitingInductive, AnchorsStep, FaithfulStep DEF FlowInv
  <2>2. ASSUME NEW q \in Requests
        PROVE  FlowVetted(q)' /\ Aged(q)' /\ Heeds(q)' /\ Heals(q)'
    BY <1>1, FlowStep, AgedStep, HeedsStep, HealsStep DEF FlowInv
  <2>3. QED
    BY <2>1, <2>2 DEF FlowInv
<1>2. QED
  BY InitFlowInv, <1>1, PTL DEF Spec

\* TypeOK: the contexts, the tiers, the mutexes and the tables keep their
\* shape through every action of serveArtifact, handleZip and the caches.
THEOREM FlowTypeCorrect == Spec => []TypeOK
<1>1. FlowInv => TypeOK
  <2> SUFFICES ASSUME FlowInv PROVE TypeOK
    OBVIOUS
  <2>1. \A r \in Requests :
          /\ req[r].pc \in Labels /\ req[r].scope \in Scopes \union {E}
          /\ req[r].file \in Files \union {None} /\ req[r].tier \in 0..Tiers
          /\ {req[r].body, req[r].index, req[r].rec} \subseteq Bytes \union {None}
          /\ req[r].code \in {"none", "ok", "mismatch", "failed"}
          /\ req[r].known \subseteq Bytes
          /\ {req[r].matched, req[r].retry, req[r].blind} \subseteq BOOLEAN
    BY ContextTypes DEF FlowInv, Typed, Codes
  <2>2. /\ {content, listing} \subseteq [Files -> Bytes \union {None}]
        /\ young \subseteq Bytes
        /\ cache \in [1..Tiers -> [Files -> Bytes \union {None}]]
        /\ lock \in [1..Tiers -> [Files -> Requests \union {None}]]
        /\ trust \in [Scopes -> [Files -> Bytes \union {None}]]
        /\ tracked \union passed \subseteq (Scopes \X Files) \X Bytes
        /\ trouble \in 0..MaxTrouble
    BY DEF FlowInv, Typed, Stored, CacheType, TrustType, LockType
  <2>3. visit # None => visit.config \in Configs /\ visit.ask \in Asks
    BY DEF FlowInv, Visiting
  <2>4. QED
    BY <2>1, <2>2, <2>3 DEF TypeOK
<1>2. QED
  BY <1>1, FlowInvariance, PTL

\* OldEnoughOnly: where the index advertises a checksum, min-publication-age
\* lets no file on that is too young, whatever is cached and however often
\* the upstream replaces files behind its index.
THEOREM OnlyOldEnough == Spec => []OldEnoughOnly
<1>1. FlowInv => OldEnoughOnly
  BY DEF FlowInv, Aged, OldEnoughOnly, Scope, File
<1>2. QED
  BY <1>1, FlowInvariance, PTL

\* DenialCoversVersion: a recorded denial binds every file of its version
\* with that content, for each later request that could ask the deny list.
THEOREM DenialsCover == Spec => []DenialCoversVersion
<1>1. FlowInv => DenialCoversVersion
  BY DEF FlowInv, Heeds, DenialCoversVersion
<1>2. QED
  BY <1>1, FlowInvariance, PTL

\* OuterFaultHeals: one failure of the outermost cache never makes a trusted
\* file fail its integrity check, for any number of tiers and requests.
THEOREM OuterHeals == Spec => []OuterFaultHeals
<1>1. FlowInv => OuterFaultHeals
  <2> SUFFICES ASSUME FlowInv, NEW r \in Requests, req[r].code = "mismatch",
                      req[r].rec = content[File(r)], ~replaced, ~deep
               PROVE  trouble >= 2
    BY DEF OuterFaultHeals
  <2>1. Heals(r) /\ Shaped(r)
    BY DEF FlowInv, Typed
  <2>2. QED
    BY <2>1 DEF Heals, Shaped, Clean, File
<1>2. QED
  BY <1>1, FlowInvariance, PTL

\* The flow of files and zips implements TrustGate, as the flow of tarballs
\* does: for any number of scopes, files, tiers and requests.
THEOREM FilesAreGated == Spec => ImplementsGate
<1>1. Init => Gate!Init
  <2> SUFFICES ASSUME Init PROVE Gate!Init
    OBVIOUS
  <2>1. FlowInv
    BY InitFlowInv
  <2>2. Served = {}
    BY DEF Init, Idle, Served
  <2>3. ASSUME NEW x \in Scopes \X Files
        PROVE  /\ Anchors[x] \in Bytes \union {None}
               /\ Anchors[x] # None => <<x, Anchors[x]>> \in passed
    <3>1. PICK s \in Scopes, f \in Files : x = <<s, f>>
      OBVIOUS
    <3>2. Anchors[x] = trust[s][f]
      BY <3>1 DEF Anchors
    <3>3. QED
      BY <2>1, <3>1, <3>2 DEF FlowInv, AnchorsVetted, Typed, Stored, TrustType
  <2>4. Anchors \in [Scopes \X Files -> Bytes \union {None}]
    <3>1. Anchors = [x \in Scopes \X Files |-> Anchors[x]]
      BY DEF Anchors
    <3>2. QED
      BY <2>3, <3>1
  <2>5. passed \subseteq (Scopes \X Files) \X Bytes /\ tracked = {}
    BY <2>1 DEF FlowInv, Typed, Stored, Init
  <2>6. QED
    BY <2>2, <2>3, <2>4, <2>5 DEF Gate!Init
<1>2. FlowInv /\ [Next]_vars => [Gate!Next]_(Gate!vars)
  BY GateStep DEF FlowInv
<1>3. QED
  BY <1>1, <1>2, FlowInvariance, PTL DEF Spec, Gate!Spec, ImplementsGate
===============================================================================
