------------------------------ MODULE FrontDoor ------------------------------
(***************************************************************************)
(* The HTTP front of the proxy: which configurations it starts with, which *)
(* handler of the ServeMux a request reaches, past which of the two        *)
(* tokens, and what that handler takes the request for.                    *)
(*                                                                         *)
(* A configuration is a record [storage, token, admin, registries]; a      *)
(* registry is [type, prefix, upstream, extra, alias, validation,          *)
(* retrieval, mutation, denyList, upstreams], where an upstream of an oci  *)
(* registry is [name, upstream, extra, validation, listed, patterns].      *)
(* An ask is a request: [method, path, cleaned, auth, cred], where cleaned *)
(* is the path without empty and dot segments.                             *)
(***************************************************************************)
EXTENDS Paths

CONSTANTS
  NameLike,    \* segments that ociUpstreamNameRE matches
  Releases,    \* versions that an upstream packument lists
  Listed       \* file names that an upstream simple index lists

-----------------------------------------------------------------------------
(* config.Validate.                                                        *)

Trimmed(prefix) ==
  SubSeq(prefix, 1, Max({0} \union {i \in DOMAIN prefix : prefix[i] # E}))

Distinct(seq) == \A i, j \in DOMAIN seq : seq[i] = seq[j] => i = j

MiddlewaresNamed(chain) == \A i \in DOMAIN chain : chain[i] # ""
HostsValid(extra) == \A h \in extra : HostAllowed(h)

ValidOCI(r) ==
  /\ Trimmed(r.prefix) = <<<<"v2">>>>
  /\ ~r.denyList
  /\ Len(r.upstreams) > 0
  /\ \A i \in DOMAIN r.upstreams :
       LET u == r.upstreams[i] IN
       /\ u.name \in NameLike
       /\ u.upstream # E /\ HostsValid(u.extra) /\ MiddlewaresNamed(u.validation)
  /\ Distinct([i \in DOMAIN r.upstreams |-> r.upstreams[i].name])

ValidRegistry(r) ==
  /\ r.type # "" /\ Trimmed(r.prefix) # E
  /\ IF r.type = "oci" THEN ValidOCI(r)
     ELSE /\ r.upstream # E /\ HostsValid(r.extra)
          /\ MiddlewaresNamed(r.validation) /\ MiddlewaresNamed(r.retrieval)
          /\ MiddlewaresNamed(r.mutation)

PrefixesDiffer(c) ==
  Distinct([i \in DOMAIN c.registries |-> Trimmed(c.registries[i].prefix)])

\* A seeded defect: one token may be both.
TokensMayBeEqual(c) == c.admin # ""

\* The admin API is always there, and the two tokens differ.
ValidTokens(c) == c.admin # "" /\ c.admin # c.token

Valid(c) ==
  /\ c.storage = "postgres" /\ ValidTokens(c)
  /\ Len(c.registries) > 0 /\ PrefixesDiffer(c)
  /\ \A i \in DOMAIN c.registries : ValidRegistry(c.registries[i])

-----------------------------------------------------------------------------
(* adapter.Build: every type is known, and each factory accepts its chains.*)

Retrievals == {"cve-check-retrieval", "local-disk-cache", "s3-cache",
               "upstream-registry"}
Vetting == {"deny-list-check", "min-publication-age", "cve-check"}
Scanning == {"malware-scan", "guarddog-scan", "provenance-verify"}

Validations(type) ==
  IF type = "goproxy" THEN Vetting
  ELSE IF type = "oci" THEN {"path-allowlist"} ELSE Vetting \union Scanning

Mutations(type) ==
  {"noop"} \union (IF type = "npm" THEN {"strip-install-scripts"} ELSE {})

BuildsOCI(r) ==
  \A i \in DOMAIN r.upstreams :
    /\ ToSet(r.upstreams[i].validation) \subseteq Validations("oci")
    /\ r.upstreams[i].listed => Len(r.upstreams[i].patterns) > 0

BuildsChains(r) ==
  /\ r.type = "goproxy" \/ NoDot(NoPort(r.upstream)) # E
  /\ ToSet(r.validation) \subseteq Validations(r.type)
  /\ ToSet(r.retrieval) \subseteq Retrievals
  /\ ToSet(r.mutation) \subseteq Mutations(r.type)

Builds(r) ==
  \/ r.type = "maven"
  \/ r.type = "oci" /\ BuildsOCI(r)
  \/ r.type \in {"npm", "pypi", "goproxy"} /\ BuildsChains(r)

\* The mux panics when two handlers have one pattern.
Mounts(r) == Trimmed(r.prefix) # <<<<"admin">>>>

Starts(c) ==
  Valid(c) /\ \A i \in DOMAIN c.registries :
                Builds(c.registries[i]) /\ Mounts(c.registries[i])

-----------------------------------------------------------------------------
(* Credentials and the two gates.                                          *)

\* Bearer and Basic carry a secret; anything else is no credential.
Presents(ask, token) ==
  ask.auth \in {"bearer", "basic"} /\ ask.cred = token

AdminTokenAuth(c, ask) == c.admin # "" /\ Presents(ask, c.admin)

Under(prefix, path) == Len(path) > Len(prefix) /\ IsPrefix(prefix, path)

Mounted(c, path) ==
  {i \in DOMAIN c.registries : Under(Trimmed(c.registries[i].prefix), path)}

\* It looks at the path as it came, before the mux cleans it.
Exempt(c, path) ==
  \/ path = <<<<"healthz">>>>
  \/ Under(<<<<"admin">>>>, path)
  \/ Mounted(c, path) = {}

TokenAuth(c, ask) ==
  c.token = "" \/ Exempt(c, ask.path) \/ Presents(ask, c.token)

-----------------------------------------------------------------------------
(* The ServeMux: the longest pattern wins.                                 *)

Longest(c, on) ==
  CHOOSE i \in on : \A j \in on :
    Len(Trimmed(c.registries[i].prefix)) >= Len(Trimmed(c.registries[j].prefix))

AdminWins(c, path) ==
  /\ Under(<<<<"admin">>>>, path)
  /\ \A i \in Mounted(c, path) : Len(Trimmed(c.registries[i].prefix)) <= 1

AddsSlash(c, path) ==
  \/ path = <<<<"admin">>>>
  \/ path \in {Trimmed(c.registries[i].prefix) : i \in DOMAIN c.registries}

Mux(c, ask) ==
  CASE ask.path = <<<<"healthz">>>> -> "healthz"
    [] ask.path # <<<<"healthz">>>> /\ AddsSlash(c, ask.path) -> "redirect"
    [] AdminWins(c, ask.path) /\ ~AddsSlash(c, ask.path) ->
         IF AdminTokenAuth(c, ask) THEN "admin" ELSE "401"
    [] Mounted(c, ask.path) # {} /\ ~AdminWins(c, ask.path)
         /\ ~AddsSlash(c, ask.path) -> "registry"
    [] OTHER -> "webui"

\* What an adapter makes of the path below its prefix.
Registry(c, ask) == c.registries[Longest(c, Mounted(c, ask.path))]
Below(r, ask) == SubSeq(ask.path, Len(Trimmed(r.prefix)) + 1, Len(ask.path))
HasScopes(r) == r.type \in {"npm", "pypi", "goproxy"}

FileHosts(r) ==
  Allowlist(r.upstream, {NormalizeAllowedHost(h) : h \in r.extra}
                          \union {<<"files.pythonhosted.org">>})

Serve(r, ask) ==
  LET below == Below(r, ask)
      path == Remaining(below)
      says == CASE r.type = "npm" -> NpmServe(ask.method, path)
                [] r.type = "goproxy" -> GoServe(ask.method, path)
                [] r.type = "maven" -> Answer("501")
                [] r.type = "oci" -> OciServe(r.upstreams, below)
                [] r.type = "pypi" ->
                     PypiServe(FileHosts(r), r.alias, ask.method, path)
  IN [says EXCEPT !.reg = r.type,
                  !.scope = IF HasScopes(r) THEN ProjectKey(below) ELSE E]

Reaches(c, ask) ==
  CASE ~TokenAuth(c, ask) -> "401"
    [] TokenAuth(c, ask) /\ ask.path # ask.cleaned -> "redirect"
    [] OTHER -> Mux(c, ask)

Outcome(c, ask) ==
  IF Reaches(c, ask) = "registry" THEN Serve(Registry(c, ask), ask)
  ELSE Answer(Reaches(c, ask))

-----------------------------------------------------------------------------
(* What the front door promises of one ask.                                *)

\* No registry lies below /admin: the token of such a one is never asked for.
Apart(c) == \A i \in DOMAIN c.registries :
              Head(c.registries[i].prefix) # <<"admin">>

Separated(c, ask) ==
  LET at == Reaches(c, ask) IN
  /\ at = "registry" => c.token = "" \/ Presents(ask, c.token)
  /\ at = "admin" => /\ Presents(ask, c.admin)
                     /\ c.token # "" => ~Presents(ask, c.token)
  /\ Mux(c, ask) \in {"healthz", "webui"} /\ ask.path = ask.cleaned => at # "401"

\* No registry lies below another one, which would take some of its paths.
Flat(c) == \A i, j \in DOMAIN c.registries :
  IsPrefix(Trimmed(c.registries[i].prefix), Trimmed(c.registries[j].prefix)) => i = j

\* The answer to what the client of this ask gets by following a link, which
\* is to another path if it has an empty segment.
Follow(c, ask, below) ==
  LET path == Trimmed(Registry(c, ask).prefix) \o below IN
  IF E \in ToSet(below) THEN Answer("redirect")
  ELSE Outcome(c, [ask EXCEPT !.method = "GET", !.path = path, !.cleaned = path])

\* Every version in a packument, and every file in a simple index, is linked
\* to where the proxy serves just that one in the default scope; a file whose
\* name has no version, or is metadata, is linked to nothing.
NpmIndexLinks(c, ask, o) ==
  \A v \in Releases :
    Follow(c, ask, NpmLink(Segments(o.name), v)) =
      [Answer("artifact") EXCEPT !.reg = "npm", !.name = o.name, !.version = v]

PypiIndexLinks(c, ask, o) ==
  \A fn \in Listed :
    LET f == Follow(c, ask, PypiLink(o.name, fn)) IN
    IF Versioned(fn) /\ ~Ends(fn, ".metadata")
      THEN f = [Answer("artifact") EXCEPT !.reg = "pypi", !.file = fn,
                  !.name = Normalize(o.name), !.version = ParseFilename(fn).version]
      ELSE f.kind = "404"

\* Whatever spelling an artifact was asked for by, its own link in that scope
\* gives the same; a path that names a version got that version; a host that
\* the alias took is one that the client may fetch from.
OneIdentity(c, ask, o) ==
  LET r == Registry(c, ask)
      path == Remaining(Below(r, ask))
      scope == IF o.scope = E THEN <<>> ELSE <<<<"p">>, o.scope>>
  IN CASE o.reg = "npm" ->
            Follow(c, ask, scope \o NpmLink(Segments(o.name), o.version)) = o
       [] o.reg = "goproxy" -> GoUpstream(o.name, o.version) = path
       [] o.reg = "pypi" ->
            /\ Follow(c, ask, scope \o PypiLink(o.name, o.file)) = o
            /\ path[1] = <<"files">> => path[3] = o.version
            /\ path[1] = <<"upstream">>
                 /\ Dns[NoDot(NoPort(path[2]))] \in {"public", "literal"}
               => CheckURL(FileHosts(r), "https", path[2])

\* A pull goes to the upstream that the path names first, for a repository
\* that its allowlist has.
PullRouted(c, ask, o) ==
  LET r == Registry(c, ask) IN
  \E i \in DOMAIN r.upstreams :
    /\ PathAllowed(r.upstreams[i], Segments(o.name))
    /\ Below(r, ask) = OciLink(o.kind, r.upstreams[i], Segments(o.name), o.version)

Linked(c, ask) ==
  LET o == Outcome(c, ask) IN
  /\ o.kind = "index" /\ o.reg = "npm" => NpmIndexLinks(c, ask, o)
  /\ o.kind = "index" /\ o.reg = "pypi" => PypiIndexLinks(c, ask, o)
  /\ o.kind = "artifact" => OneIdentity(c, ask, o)
  /\ o.kind \in {"manifest", "blob"} => PullRouted(c, ask, o)
==============================================================================
