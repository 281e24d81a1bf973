-------------------------------- MODULE Paths --------------------------------
(***************************************************************************)
(* What a path below a registry's prefix asks for: the path handling of    *)
(* the npm, pypi, goproxy and oci adapters, the links that the adapters    *)
(* write into indexes, and the host allowlist of the upstream clients.     *)
(*                                                                         *)
(* A path is the sequence of its segments: "/a/b" is <<a, b>>, "/a/" ends  *)
(* in the empty segment E, "/" is <<E>>.  A segment is the sequence of the *)
(* pieces that the code cuts it into: what is between dashes, then the     *)
(* file extensions; "left-pad-1.0.tgz" is <<"left", "pad", "1.0", ".tgz">> *)
(* and a host with a port is <<"mirror.example", ":8443">>.                *)
(***************************************************************************)
EXTENDS Naturals, Sequences, FiniteSets, SequencesExt

CONSTANTS
  KeyPieces,    \* pieces that consist of [a-zA-Z0-9._] and are not too long
  Extensions,   \* the pieces that are file extensions
  Normal,       \* piece -> what it becomes under PEP 503, a segment
  Unescaped,    \* escaped module piece -> its real form, or Malformed
  Malformed,
  Hosted,       \* digest -> the digest of what an upstream serves under it
  Dns           \* host name -> "public", "private", "unknown" or "literal"

E == <<>>

\* Nothing in a path is a slash.  "-" names no project; normal forms are
\* normal; escaping is undone by unescaping, and nothing that needed to be
\* escaped may stand in a path.
ASSUME PathsAssumption ==
  /\ "-" \notin KeyPieces
  /\ \A piece \in DOMAIN Normal :
       /\ Normal[piece] \in Seq(STRING) \ {E}
       /\ ToSet(Normal[piece]) \cap (DOMAIN Normal \union {"/"}) = {}
  /\ \A e \in DOMAIN Unescaped :
       /\ Unescaped[e] # "/"
       /\ Unescaped[e] # Malformed =>
            /\ Unescaped[e] \in DOMAIN Unescaped
            /\ Unescaped[Unescaped[e]] = Malformed
            /\ \A f \in DOMAIN Unescaped : Unescaped[f] = Unescaped[e] => f = e

Answer(kind) == [kind |-> kind, reg |-> "", scope |-> E, name |-> E,
                 version |-> E, file |-> E]

\* A sequence of segments as one segment, with its slashes.
Joined(path) == FoldLeft(LAMBDA done, s : IF done = E THEN s ELSE done \o <<"/">> \o s,
                         E, path)
\* And back.
Segments(seg) == FoldLeft(LAMBDA done, piece :
                            IF piece = "/" THEN Append(done, E)
                            ELSE [done EXCEPT ![Len(done)] = Append(@, piece)],
                          <<E>>, seg)

Ends(seg, ext) == seg # E /\ Last(seg) = ext
Strip(seg, ext) == IF Ends(seg, ext) THEN Front(seg) ELSE seg

-----------------------------------------------------------------------------
(* Project scopes.                                                         *)

ValidProjectKey(key) == key # E /\ \A i \in DOMAIN key : key[i] \in KeyPieces

Scoped(path) ==
  Len(path) >= 2 /\ path[1] = <<"p">> /\ ValidProjectKey(path[2])

ProjectKey(path) == IF Scoped(path) THEN path[2] ELSE E
Remaining(path) ==
  IF ~Scoped(path) THEN path
  ELSE IF Len(path) = 2 THEN <<E>> ELSE SubSeq(path, 3, Len(path))

-----------------------------------------------------------------------------
(* npm.                                                                    *)

DashAt(path) == {i \in 1..(Len(path) - 1) : path[i] = <<"-">>}

\* Both the proxy's own link (<version>) and the public file name
\* (<name>-<version>.tgz) give the bare version.
BareVersion(base, seg) ==
  LET version == Strip(seg, ".tgz") IN
  IF IsStrictPrefix(base, version) /\ version[Len(base) + 1] \notin Extensions
    THEN SubSeq(version, Len(base) + 1, Len(version))
    ELSE version

NpmTarball(path) ==
  LET dash == Min(DashAt(path)) IN
  IF \/ dash = 1 \/ Len(path) # dash + 1
     \/ BareVersion(path[dash - 1], path[dash + 1]) = E
    THEN Answer("404")
    ELSE [Answer("artifact") EXCEPT
            !.name = Joined(SubSeq(path, 1, dash - 1)),
            !.version = BareVersion(path[dash - 1], path[dash + 1])]

NpmServe(method, path) ==
  IF method # "GET" THEN Answer("405")
  ELSE IF DashAt(path) # {} THEN NpmTarball(path)
  ELSE IF path = <<E>> THEN Answer("404")
  ELSE [Answer("index") EXCEPT !.name = Joined(path)]

\* The link to a version in the packument of pkg, which is a path.
NpmLink(pkg, version) == pkg \o <<<<"-">>, version>>

-----------------------------------------------------------------------------
(* pypi.  Names in file names are not normalised; the names in trust keys  *)
(* are.                                                                    *)

Normalize(seg) ==
  FoldLeft(LAMBDA done, piece : done \o (IF piece \in DOMAIN Normal THEN Normal[piece]
                                         ELSE <<piece>>),
           E, seg)

Unparsed == [ok |-> FALSE, name |-> E, version |-> E]

ParseWheel(fn) ==
  LET parts == Strip(fn, ".whl") IN
  IF Len(parts) < 5 THEN Unparsed
  ELSE [ok |-> TRUE, name |-> <<parts[1]>>, version |-> <<parts[2]>>]

\* The last dash divides an sdist; a name without one is all version.
ParseSdist(fn) ==
  LET stem == IF Ends(fn, ".tar.gz") THEN Strip(fn, ".tar.gz") ELSE Strip(fn, ".zip")
      last == Max({1} \union {i \in DOMAIN stem : stem[i] \notin Extensions})
  IN [ok |-> TRUE, name |-> SubSeq(stem, 1, last - 1),
      version |-> SubSeq(stem, last, Len(stem))]

ParseFilename(fn) ==
  IF fn = E THEN Unparsed
  ELSE IF Ends(fn, ".whl") THEN ParseWheel(fn) ELSE ParseSdist(fn)

Versioned(fn) == ParseFilename(fn).ok /\ ParseFilename(fn).version # E

PypiArtifact(name, fn) ==
  IF name = E \/ Ends(fn, ".metadata") \/ ~Versioned(fn) THEN Answer("404")
  ELSE [Answer("artifact") EXCEPT !.name = name, !.file = fn,
                                  !.version = ParseFilename(fn).version]

\* A seeded defect: the version in the path is decoration.
AnyVersion(pkg, version, fn) ==
  IF E \in {pkg, version, fn} \/ ~Versioned(fn) THEN Answer("404")
  ELSE PypiArtifact(Normalize(pkg), fn)

\* The version in the path must be the one in the file name.
PypiFile(pkg, version, fn) ==
  IF \/ E \in {pkg, version, fn} \/ ~Versioned(fn)
     \/ ParseFilename(fn).version # version
    THEN Answer("404")
    ELSE PypiArtifact(Normalize(pkg), fn)

-----------------------------------------------------------------------------
(* The host allowlist.  Case folding is part of the spelling of a name.    *)

IsPort(piece) == piece \in {":443", ":8443"}
NoDot(host) == Strip(host, ".")
NoPort(host) == IF host # E /\ IsPort(Last(host)) THEN Front(host) ELSE host

\* config: an entry is stored without its port and must be a host.
HostAllowed(entry) == NoDot(entry) # E /\ "@" \notin ToSet(entry)
NormalizeAllowedHost(entry) == NoPort(NoDot(entry))

Allowlist(base, extra) == {NoDot(h) : h \in {NoPort(base)} \union extra} \ {E}

Allows(hosts, host) == NoPort(NoDot(host)) \in hosts

\* The test of a URL before it is fetched.
CheckURL(hosts, scheme, host) ==
  LET h == NoDot(NoPort(host)) IN
  /\ scheme \in {"http", "https"}
  /\ h \in hosts \ {E}
  /\ Dns[h] \in {"public", "literal"}

-----------------------------------------------------------------------------
\* path.Base: the last segment that is not empty.
BaseName(path) ==
  LET last == Max({0} \union {i \in DOMAIN path : path[i] # E}) IN
  IF last = 0 THEN <<"/">> ELSE path[last]

\* The path below /upstream/<host>/ is decoration but for its file name.
PypiUpstream(hosts, host, rest) ==
  LET fn == BaseName(rest) IN
  IF \/ host = E \/ rest = <<E>> \/ ~Allows(hosts, host)
     \/ ~ParseFilename(fn).ok \/ ParseFilename(fn).name = E
    THEN Answer("404")
    ELSE PypiArtifact(Normalize(ParseFilename(fn).name), fn)

PypiPattern(alias, path) ==
  CASE path[1] = <<"simple">> /\ Len(path) >= 3 -> "simple"
    [] path[1] = <<"files">> /\ Len(path) = 4 /\ path[4] # E -> "files"
    [] path[1] = <<"upstream">> /\ Len(path) >= 3 /\ alias -> "upstream"
    [] path[1] = <<"simple">> /\ Len(path) = 2 /\ path[2] # E -> "slash"
    [] path[1] = <<"upstream">> /\ Len(path) = 2 /\ path[2] # E /\ alias -> "slash"
    [] OTHER -> "none"

\* GET patterns of a ServeMux also take HEAD, and it adds a missing slash.
PypiServe(hosts, alias, method, path) ==
  LET pattern == PypiPattern(alias, path) IN
  IF pattern = "none" THEN Answer("404")
  ELSE IF method \notin {"GET", "HEAD"} THEN Answer("405")
  ELSE CASE pattern = "slash" -> Answer("redirect")
         [] pattern = "simple" -> [Answer("index") EXCEPT !.name = path[2]]
         [] pattern = "files" -> PypiFile(path[2], path[3], path[4])
         [] pattern = "upstream" ->
              PypiUpstream(hosts, path[2], SubSeq(path, 3, Len(path)))

\* The link to a file in the index of name: no file keeps its upstream URL.
PypiLink(name, fn) ==
  <<<<"files">>, name,
    IF Versioned(fn) THEN ParseFilename(fn).version ELSE <<"_">>, fn>>

-----------------------------------------------------------------------------
(* goproxy.                                                                *)

Unescape(path) ==
  [i \in DOMAIN path |-> [j \in DOMAIN path[i] |->
     IF path[i][j] \in DOMAIN Unescaped THEN Unescaped[path[i][j]] ELSE path[i][j]]]

GoAnswer(kind, escaped, version) ==
  LET module == Joined(Unescape(escaped)) IN
  IF Malformed \in ToSet(module) THEN Answer("400")
  ELSE [Answer(kind) EXCEPT !.name = module, !.version = version]

\* What the client asks the upstream for, which wants the path escaped again.
Escape(seg) ==
  LET inverse == [real \in {Unescaped[e] : e \in DOMAIN Unescaped} |->
                    CHOOSE e \in DOMAIN Unescaped : Unescaped[e] = real] IN
  [j \in DOMAIN seg |-> IF seg[j] \in DOMAIN inverse THEN inverse[seg[j]] ELSE seg[j]]

GoUpstream(module, version) ==
  Segments(Escape(module)) \o <<<<"@v">>>> \o Segments(version \o <<".zip">>)

AtV(path) == {i \in 2..(Len(path) - 1) : path[i] = <<"@v">>}

GoVersion(module, rest) ==
  LET version == Front(Joined(rest)) IN
  CASE rest = <<<<"list">>>> -> GoAnswer("index", module, E)
    [] Ends(Last(rest), ".info") -> GoAnswer("index", module, version)
    [] Ends(Last(rest), ".mod") -> GoAnswer("index", module, version)
    [] Ends(Last(rest), ".zip") -> GoAnswer("artifact", module, version)
    [] OTHER -> Answer("404")

GoServe(method, path) ==
  LET v == Min(AtV(path)) IN
  IF method # "GET" THEN Answer("405")
  ELSE IF Len(path) >= 2 /\ Last(path) = <<"@latest">>
    THEN GoAnswer("index", Front(path), E)
  ELSE IF AtV(path) = {} THEN Answer("404")
  ELSE GoVersion(SubSeq(path, 1, v - 1), SubSeq(path, v + 1, Len(path)))

-----------------------------------------------------------------------------
\* The path of an artifact below the root of a cache backend; a cache fails
\* where a segment of the name, the version or the file is not one.
ValidSeg(seg) == seg \notin {E, <<".">>, <<"..">>} /\ "/" \notin ToSet(seg)
CachePath(o) ==
  <<<<o.reg>>>> \o Segments(o.name)
    \o (IF o.file = E THEN <<o.version>> ELSE <<o.version, o.file>>)
Cacheable(o) == \A i \in DOMAIN CachePath(o) : ValidSeg(CachePath(o)[i])
CacheKey(o) == Joined(CachePath(o)) \o <<".bin">>

-----------------------------------------------------------------------------
(* oci.  An upstream is a record with its name and, per pattern of its     *)
(* path-allowlist, a path in which <<"*">> stands for any one segment.     *)

PathMatch(pattern, repo) ==
  /\ Len(pattern) = Len(repo)
  /\ \A i \in DOMAIN pattern : pattern[i] \in {<<"*">>, repo[i]}

PathAllowed(upstream, repo) ==
  \/ ~upstream.listed
  \/ \E i \in DOMAIN upstream.patterns : PathMatch(upstream.patterns[i], repo)

\* Where the last "/<sep>/" with something on both sides is, if anywhere.
CutAt(rest, sep) == {i \in 2..(Len(rest) - 1) : rest[i] = <<sep>>}
Cut(rest, sep) ==
  LET i == Max({1} \union CutAt(rest, sep)) IN
  [ok |-> CutAt(rest, sep) # {} /\ Joined(SubSeq(rest, i + 1, Len(rest))) # E,
   repo |-> SubSeq(rest, 1, i - 1), ref |-> Joined(SubSeq(rest, i + 1, Len(rest)))]

\* A blob is asked for by its sha256 only, and must have it.
OciPull(kind, upstream, cut) ==
  IF ~PathAllowed(upstream, cut.repo) THEN Answer("403")
  ELSE IF kind = "blob" /\ (Head(cut.ref) # "sha256:" \/ Hosted[cut.ref] # cut.ref)
    THEN Answer("404")
  ELSE [Answer(kind) EXCEPT !.file = upstream.name, !.name = Joined(cut.repo),
                            !.version = cut.ref]

OciRoute(upstream, rest) ==
  IF Cut(rest, "manifests").ok THEN OciPull("manifest", upstream, Cut(rest, "manifests"))
  ELSE IF Cut(rest, "blobs").ok THEN OciPull("blob", upstream, Cut(rest, "blobs"))
  ELSE Answer("404")

OciServe(upstreams, path) ==
  LET named == {i \in DOMAIN upstreams : upstreams[i].name = path[1]} IN
  IF path = <<E>> THEN Answer("ping")
  ELSE IF Len(path) = 1 \/ named = {} THEN Answer("404")
  ELSE OciRoute(upstreams[Max(named)], Tail(path))

OciLink(kind, upstream, repo, ref) ==
  <<upstream.name>> \o repo \o <<<<IF kind = "blob" THEN "blobs" ELSE "manifests">>>>
    \o Segments(ref)
==============================================================================
