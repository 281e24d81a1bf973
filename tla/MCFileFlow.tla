------------------------------ MODULE MCFileFlow ------------------------------
(***************************************************************************)
(* The configurations and the asks that the front door is visited with, in *)
(* the pieces of Paths, and the downloads that run through the flow.       *)
(***************************************************************************)
EXTENDS FileFlow, TLC

CONSTANT b1

ThePieces == {"p", "acme", "1.0", "py3", "_"}
TheExtensions == {".tgz", ".whl", ".tar.gz", ".zip", ".metadata", ".info", ".mod"}
TheNormal == ("Foo_Bar" :> <<"foo", "bar">>) @@ ("foo_bar" :> <<"foo", "bar">>)
TheUnescaped == ("!abc" :> "Abc") @@ ("Abc" :> "malformed")
TheHosted == (<<"sha256:", "aa">> :> <<"sha256:", "aa">>)
             @@ (<<"sha256:", "bb">> :> <<"sha256:", "cc">>)
TheDns == (<<"pypi.org">> :> "public") @@ (<<"files.pythonhosted.org">> :> "public")
          @@ (<<"mirror">> :> "public") @@ (<<"intra">> :> "private")
          @@ (<<"evil">> :> "public")

TheNames == {<<"hub">>, <<"ghcr">>}
TheReleases == {<<"1.0">>, <<"1.0", "rc1">>}
Wheel == <<"foo_bar", "1.0", "py3", "none", "any", ".whl">>
Sdist == <<"foo_bar", "1.0", ".tar.gz">>
TheListed == {Wheel, Sdist, <<"foo", "bar", "1.0", "1", ".zip">>, <<"odd", ".whl">>,
              Wheel \o <<".metadata">>}

-----------------------------------------------------------------------------
Reg(type, prefix) ==
  [type |-> type, prefix |-> prefix, upstream |-> <<"pypi.org", ":443">>,
   extra |-> {<<"mirror", ":8443">>, <<"intra", ".">>}, alias |-> TRUE,
   validation |-> <<"min-publication-age">>,
   retrieval |-> <<"local-disk-cache", "s3-cache", "upstream-registry">>,
   mutation |-> <<"noop">>, denyList |-> FALSE, upstreams |-> <<>>]

Upstream(name, listed) ==
  [name |-> name, upstream |-> name, extra |-> {}, listed |-> listed,
   validation |-> IF listed THEN <<"path-allowlist">> ELSE <<>>,
   patterns |-> IF listed THEN <<<<<<"library">>, <<"*">>>>>> ELSE <<>>]

Npm == Reg("npm", <<<<"npm">>>>)
Pypi == Reg("pypi", <<<<"pypi">>>>)
Go == Reg("goproxy", <<<<"go">>, E>>)
Oci == [Reg("oci", <<<<"v2">>>>) EXCEPT
          !.upstreams = <<Upstream(<<"hub">>, TRUE), Upstream(<<"ghcr">>, FALSE)>>]
Config(token, registries) ==
  [storage |-> "postgres", token |-> token, admin |-> "root",
   registries |-> registries]

Usual == Config("pull", <<Npm, Pypi, Go, Oci, Reg("maven", <<<<"mvn">>>>)>>)
TheConfigs ==
  {Usual,
   Config("", <<Npm, [Pypi EXCEPT !.alias = FALSE]>>),
   Config("pull", <<Npm, Reg("pypi", <<<<"npm">>, <<"left", "pad">>>>)>>),
   Config("pull", <<Reg("npm", <<<<"admin">>, <<"npm">>>>), Go>>),
   \* and some that do not start:
   Config("root", <<Npm>>),
   Config("pull", <<Npm, Reg("pypi", <<<<"npm">>, E>>)>>),
   Config("pull", <<[Npm EXCEPT !.mutation = <<"guarddog-scan">>]>>),
   Config("pull", <<Reg("npm", <<<<"admin">>>>)>>),
   Config("pull", <<[Oci EXCEPT !.prefix = <<<<"oci">>>>]>>)}

-----------------------------------------------------------------------------
Files_(name, version, fn) == <<<<"pypi">>, <<"files">>, name, version, fn>>
Tarball == <<<<"left", "pad">>, <<"-">>, <<"left", "pad", "1.0", ".tgz">>>>
Module == <<<<"example.com">>, <<"!abc">>>>
Scope_ == <<<<"p">>, <<"acme">>>>

NpmPaths == {<<<<"npm">>>> \o path : path \in
  {<<>>, <<E>>, <<<<"left", "pad">>>>, <<<<"@s">>, <<"x">>>>, Tarball,
   <<<<"left", "pad">>, <<"-">>, <<"1.0">>>>, <<<<"left", "pad">>, <<"-">>, E>>,
   <<<<"@s">>, <<"x">>, <<"-">>, <<"x", "1.0", ".tgz">>>>,
   Scope_, Scope_ \o Tarball, Scope_ \o <<<<"left", "pad">>>>,
   <<<<"p">>>>, <<<<"p">>, <<"-">>, <<"1.0">>>>}}

PypiPaths ==
  {Files_(<<"foo", "bar">>, <<"1.0">>, Wheel), Files_(<<"Foo_Bar">>, <<"1.0">>, Sdist),
   Files_(<<"foo", "bar">>, <<"9.9">>, Wheel),
   Files_(<<"foo", "bar">>, <<"1.0">>, Wheel \o <<".metadata">>),
   Files_(<<"foo", "bar">>, <<"_">>, <<"odd", ".whl">>)}
  \union {<<<<"pypi">>>> \o path : path \in
    {<<<<"simple">>, <<"Foo_Bar">>>>, <<<<"simple">>, <<"Foo_Bar">>, E>>,
     Scope_ \o <<<<"simple">>, <<"foo", "bar">>, E>>,
     Scope_ \o <<<<"files">>, <<"foo", "bar">>, <<"1.0">>, Wheel>>,
     Scope_ \o <<<<"files">>, <<"foo", "bar">>, <<"1.0">>, Sdist>>,
     <<<<"upstream">>, <<"files.pythonhosted.org">>, <<"aa">>, Sdist>>,
     <<<<"upstream">>, <<"mirror", ":443">>, Wheel>>,
     <<<<"upstream">>, <<"intra">>, Wheel>>, <<<<"upstream">>, <<"evil">>, Wheel>>,
     <<<<"upstream">>, <<"mirror">>, E>>, <<<<"upstream">>, <<"mirror">>>>,
     <<<<"upstream">>, <<"mirror">>, <<"odd", ".whl">>>>}}

GoPaths == {<<<<"go">>>> \o path : path \in
  {Module \o <<<<"@latest">>>>, Module \o <<<<"@v">>, <<"list">>>>,
   Module \o <<<<"@v">>, <<"v1.0", ".info">>>>, Module \o <<<<"@v">>, <<"v1.0", ".mod">>>>,
   Module \o <<<<"@v">>, <<"v1.0", ".zip">>>>,
   Scope_ \o Module \o <<<<"@v">>, <<"v1.0", "rc1", ".zip">>>>,
   Module \o <<<<"@v">>, <<"v1.0">>>>, Module,
   \* a version with a slash has no cache entry, for it would be that of the next
   Module \o <<<<"@v">>, <<"sub">>, <<"v1.0", ".zip">>>>,
   Module \o <<<<"sub">>, <<"@v">>, <<"v1.0", ".zip">>>>,
   <<<<"example.com">>, <<"Abc">>, <<"@v">>, <<"v1.0", ".zip">>>>}}

OciPaths == {<<<<"v2">>>> \o path : path \in
  {<<>>, <<E>>, <<<<"hub">>>>,
   <<<<"hub">>, <<"library">>, <<"nginx">>, <<"manifests">>, <<"latest">>>>,
   <<<<"hub">>, <<"library">>, <<"nginx">>, <<"blobs">>, <<"sha256:", "aa">>>>,
   <<<<"hub">>, <<"library">>, <<"nginx">>, <<"blobs">>, <<"sha256:", "bb">>>>,
   <<<<"hub">>, <<"library">>, <<"nginx">>, <<"blobs">>, <<"md5:", "aa">>>>,
   <<<<"hub">>, <<"evil">>, <<"manifests">>, <<"latest">>>>,
   <<<<"hub">>, <<"manifests">>, E>>,
   <<<<"ghcr">>, <<"hub">>, <<"x">>, <<"y">>, <<"manifests">>, <<"sha256:", "aa">>>>,
   <<<<"ghcr">>, <<"x">>, <<"manifests">>, <<"y">>, <<"manifests">>, <<"latest">>>>,
   <<<<"ghcr">>, <<"x">>, <<"manifests">>, <<"y">>, <<"latest">>>>,
   <<<<"ghcr">>, <<"x">>, <<"blobs">>, <<"y">>, <<"manifests">>, <<"latest">>, E>>,
   <<<<"quay">>, <<"x">>, <<"manifests">>, <<"latest">>>>}}

PlainPaths == {<<<<"healthz">>>>, <<<<"admin">>>>, <<<<"admin">>, <<"projects">>>>,
               <<<<"admin">>, <<"npm">>, <<"left", "pad">>>>, <<E>>, <<<<"index.html">>>>,
               <<<<"mvn">>, <<"x">>>>,
               <<<<"npm">>, <<"left", "pad">>, <<"files">>, <<"foo">>, <<"1.0">>, Wheel>>}

Ask(method, path, cleaned, auth, cred) ==
  [method |-> method, path |-> path, cleaned |-> cleaned, auth |-> auth, cred |-> cred]
Creds == {<<"none", "">>, <<"bearer", "pull">>, <<"basic", "root">>, <<"digest", "pull">>}

AllPaths == NpmPaths \union PypiPaths \union GoPaths \union OciPaths \union PlainPaths
TheAsks ==
  {Ask("GET", path, path, cred[1], cred[2]) : path \in AllPaths, cred \in Creds}
  \union {Ask(method, path, path, "bearer", "pull") :
            method \in {"HEAD", "POST"}, path \in AllPaths}
  \* /x/../npm/left-pad, and the like through /admin
  \union {Ask("GET", <<<<top>>, <<"..">>>> \o path, path, cred[1], cred[2]) :
            top \in {"x", "admin", "npm"}, cred \in Creds,
            path \in {<<<<"npm">>, <<"left", "pad">>>>, <<<<"admin">>, <<"projects">>>>}}

Get(path) == Ask("GET", path, path, "basic", "pull")
TheDownloads == {Get(Files_(<<"foo", "bar">>, <<"1.0">>, Wheel)),
                 Get(<<<<"pypi">>>> \o Scope_
                       \o <<<<"files">>, <<"foo", "bar">>, <<"1.0">>, Wheel>>),
                 Get(<<<<"pypi">>>> \o Scope_
                       \o <<<<"files">>, <<"foo", "bar">>, <<"1.0">>, Sdist>>),
                 Get(<<<<"go">>>> \o Module \o <<<<"@v">>, <<"v1.0", ".zip">>>>)}
ASSUME SpelledAssumption == Spelled

TheHashed == {Named[f] : f \in {g \in Files : Named[g].file = Wheel}}
ThePublished == {[f \in Files |-> b] : b \in Bytes}
TheEarlier == {<<<<<<"acme">>, f>>, b1>> : f \in {g \in Files : Named[g].file = Wheel}}
TheAgeGated == {<<"acme">>}
==============================================================================
