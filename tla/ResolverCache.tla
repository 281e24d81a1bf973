---------------------------- MODULE ResolverCache ----------------------------
(***************************************************************************)
(* The pipelines of one project key: the projects table, the handlers of   *)
(* the admin API that write it, and the project.Resolver of every registry *)
(* adapter, which memoizes what it built from the table.  Requests resolve *)
(* the key while admin handlers run.  A configuration is identified with   *)
(* the number of the commit that wrote it; a Resolved with the commit it   *)
(* was built from and the build that made it.                              *)
(***************************************************************************)
EXTENDS Naturals, Sequences

CONSTANTS
  Readers,     \* calls of Resolve
  Admins,      \* admin requests
  Ops,         \* operations the admins may ask for
  Local,       \* adapters of this replica, in configuration order
  Remote,      \* adapters of the other replicas
  None,        \* no cache entry
  MaxCommits,  \* bound: commits to the projects table
  MaxFaults    \* bound: failed store calls

Adapters == {Local[i] : i \in 1..Len(Local)} \union Remote

\* What a configuration is to a resolver: it overrides chains of this
\* registry, has no entry for it, or names chains that cannot be built.
Kinds == {"override", "inherit", "broken"}

Config == [ver : 0..MaxCommits, kind : Kinds \union {"absent"}]

\* build = 0 is the global Resolved.
Resolved == [ver : 0..MaxCommits, build : Nat]

ASSUME ResolverCacheAssumption ==
  /\ Ops \subseteq {"create", "put", "delete"}
  /\ Len(Local) \in Nat
  /\ \A i, j \in 1..Len(Local) : Local[i] = Local[j] => i = j
  /\ \A i \in 1..Len(Local) : Local[i] \notin Remote
  /\ MaxCommits \in Nat /\ MaxFaults \in Nat
  /\ None \notin Resolved

VARIABLES
  store,     \* the row of the key, with kind "absent" when there is none
  cache,     \* Resolver.cache of each adapter
  res,       \* the calls of Resolve
  adm,       \* the admin requests
  builds,    \* Resolved values built so far
  faults,
  \* history
  epoch,     \* invalidations of each adapter's entry
  raced,     \* the entry was stored across an invalidation
  silent,    \* a commit was not followed by an invalidation of the entry
  acked      \* the last commit that an admin request was told of

vars == <<store, cache, res, adm, builds, faults, epoch, raced, silent, acked>>

Init ==
  /\ store = [ver |-> 0, kind |-> "absent"]
  /\ cache = [a \in Adapters |-> None]
  /\ res = [r \in Readers |->
              [pc |-> "idle", adapter |-> None, cfg |-> store, code |-> "none",
               result |-> [ver |-> 0, build |-> 0], memoized |-> FALSE,
               epoch |-> 0, floor |-> 0]]
  /\ adm = [m \in Admins |->
              [pc |-> "idle", op |-> "put", ver |-> 0, next |-> 1, code |-> 0]]
  /\ builds = 0 /\ faults = 0
  /\ epoch = [a \in Adapters |-> 0]
  /\ raced = [a \in Adapters |-> FALSE]
  /\ silent = [a \in Adapters |-> FALSE]
  /\ acked = 0

Works == UNCHANGED faults
Fails == faults < MaxFaults /\ faults' = faults + 1

-----------------------------------------------------------------------------
(* Resolve.                                                                *)

table == <<store, adm, silent, acked>>

Return(r, rp, memo) ==
  res' = [res EXCEPT ![r].pc = "done", ![r].code = "ok", ![r].result = rp,
                     ![r].memoized = memo, ![r].epoch = epoch[res[r].adapter]]

ReturnError(r) == res' = [res EXCEPT ![r].pc = "done", ![r].code = "error"]

\* Seeded defect: ok of cache.Load is not looked at.
LoadIgnoresMiss(r, a) ==
  /\ res[r].pc = "idle"
  /\ res' = [res EXCEPT ![r] =
       [@ EXCEPT !.pc = "done", !.adapter = a, !.floor = acked, !.code = "ok",
                 !.result = cache[a], !.memoized = TRUE, !.epoch = epoch[a]]]
  /\ UNCHANGED <<table, cache, builds, faults, epoch, raced>>

Load(r, a) ==
  /\ res[r].pc = "idle"
  /\ res' = [res EXCEPT ![r] =
       IF cache[a] = None
       THEN [@ EXCEPT !.pc = "get", !.adapter = a, !.floor = acked]
       ELSE [@ EXCEPT !.pc = "done", !.adapter = a, !.floor = acked, !.code = "ok",
                      !.result = cache[a], !.memoized = TRUE, !.epoch = epoch[a]]]
  /\ UNCHANGED <<table, cache, builds, faults, epoch, raced>>

\* Seeded defect: the fallback of an unknown key is cached.
GetCachesMiss(r) ==
  /\ res[r].pc = "get"
  /\ \/ /\ store.kind = "absent"
        /\ Return(r, [ver |-> store.ver, build |-> 0], TRUE)
        /\ cache' = [cache EXCEPT ![res[r].adapter] = res'[r].result]
     \/ /\ store.kind # "absent" /\ UNCHANGED cache
        /\ res' = [res EXCEPT ![r].pc = "build", ![r].cfg = store,
                              ![r].epoch = epoch[res[r].adapter]]
  /\ UNCHANGED <<table, faults, builds, epoch, raced>>

\* An unknown key gets the global pipelines, and that answer is not cached.
Get(r) ==
  /\ res[r].pc = "get"
  /\ \/ /\ store.kind = "absent" /\ Works
        /\ Return(r, [ver |-> store.ver, build |-> 0], FALSE)
     \/ /\ store.kind # "absent" /\ Works
        /\ res' = [res EXCEPT ![r].pc = "build", ![r].cfg = store,
                              ![r].epoch = epoch[res[r].adapter]]
     \/ ReturnError(r) /\ Fails
  /\ UNCHANGED <<table, cache, builds, epoch, raced>>

\* Seeded defect: Store instead of LoadOrStore.
BuildAndOverwrite(r) ==
  LET a == res[r].adapter
      rp == [ver |-> res[r].cfg.ver, build |-> builds + 1]
  IN
  /\ res[r].pc = "build"
  /\ builds' = builds + 1
  /\ cache' = [cache EXCEPT ![a] = rp]
  /\ raced' = [raced EXCEPT ![a] = res[r].epoch # epoch[a]]
  /\ Return(r, rp, TRUE)
  /\ UNCHANGED <<table, faults, epoch>>

\* build, which touches nothing shared, and LoadOrStore.
BuildAndStore(r) ==
  LET a == res[r].adapter
      c == res[r].cfg
      rp == [ver |-> c.ver, build |-> IF c.kind = "inherit" THEN 0 ELSE builds + 1]
  IN
  /\ res[r].pc = "build"
  /\ \/ c.kind = "broken" /\ ReturnError(r) /\ UNCHANGED <<cache, builds, raced>>
     \/ /\ c.kind # "broken"
        /\ builds' = builds + 1
        /\ IF cache[a] = None
             THEN /\ cache' = [cache EXCEPT ![a] = rp]
                  /\ raced' = [raced EXCEPT ![a] = res[r].epoch # epoch[a]]
                  /\ Return(r, rp, TRUE)
             ELSE /\ Return(r, cache[a], TRUE)
                  /\ UNCHANGED <<cache, raced>>
  /\ UNCHANGED <<table, faults, epoch>>

-----------------------------------------------------------------------------
(* The handlers create, put and delete of the admin API.                   *)

caches == <<cache, res, builds, epoch, raced>>

Reply(m, code) == adm' = [adm EXCEPT ![m].pc = "done", ![m].code = code]

\* The answer that store.Get leads each operation to, if all goes well.
Verdict(op, found) ==
  CASE op = "create" -> IF found THEN 409 ELSE 201
    [] op = "put"    -> IF found THEN 200 ELSE 201
    [] op = "delete" -> IF found THEN 204 ELSE 404

AdminGet(m, op) ==
  LET code == Verdict(op, store.kind # "absent") IN
  /\ adm[m].pc = "idle"
  /\ \/ /\ adm' = [adm EXCEPT ![m] = [@ EXCEPT !.op = op, !.code = code,
                    !.pc = IF code \in {404, 409} THEN "done" ELSE "write"]]
        /\ Works
     \/ /\ adm' = [adm EXCEPT ![m] = [@ EXCEPT !.op = op, !.code = 500, !.pc = "done"]]
        /\ Fails
  /\ UNCHANGED <<store, caches, silent, acked>>

\* Put or Delete commits; nobody tells the other replicas.  Deleting no row
\* changes nothing.
Commit(m) ==
  IF adm[m].op = "delete" /\ store.kind = "absent" THEN UNCHANGED store
  ELSE /\ store.ver < MaxCommits
       /\ \E k \in IF adm[m].op = "delete" THEN {"absent"} ELSE Kinds :
            store' = [ver |-> store.ver + 1, kind |-> k]

Silence(A) == silent' = [a \in Adapters |-> silent[a] \/ a \in A]

\* A call that fails may have committed; the handler answers 500 and does not
\* invalidate.
AdminWrite(m) ==
  /\ adm[m].pc = "write"
  /\ \/ /\ Commit(m) /\ Silence(Remote) /\ Works
        /\ adm' = [adm EXCEPT ![m].pc = "invalidate", ![m].ver = store'.ver]
     \/ Commit(m) /\ Silence(Adapters) /\ Reply(m, 500) /\ Fails
     \/ UNCHANGED <<store, silent>> /\ Reply(m, 500) /\ Fails
  /\ UNCHANGED <<caches, acked>>

\* Seeded defect: the loop over the adapters ends after the first.
InvalidateFirstOnly(m) ==
  LET a == Local[1] IN
  /\ adm[m].pc = "invalidate" /\ adm[m].next = 1
  /\ cache' = [cache EXCEPT ![a] = None]
  /\ epoch' = [epoch EXCEPT ![a] = @ + 1]
  /\ raced' = [raced EXCEPT ![a] = FALSE]
  /\ silent' = [silent EXCEPT ![a] = FALSE]
  /\ adm' = [adm EXCEPT ![m].next = Len(Local) + 1]
  /\ UNCHANGED <<store, res, builds, faults, acked>>

\* adapterInvalidator: one adapter after the other; then the answer.
Invalidate(m) ==
  LET a == Local[adm[m].next] IN
  /\ adm[m].pc = "invalidate" /\ adm[m].next <= Len(Local)
  /\ cache' = [cache EXCEPT ![a] = None]
  /\ epoch' = [epoch EXCEPT ![a] = @ + 1]
  /\ raced' = [raced EXCEPT ![a] = FALSE]
  /\ silent' = [silent EXCEPT ![a] = FALSE]
  /\ adm' = [adm EXCEPT ![m].next = @ + 1]
  /\ UNCHANGED <<store, res, builds, faults, acked>>

AdminReply(m) ==
  /\ adm[m].pc = "invalidate" /\ adm[m].next > Len(Local)
  /\ adm' = [adm EXCEPT ![m].pc = "done"]
  /\ acked' = IF adm[m].ver > acked THEN adm[m].ver ELSE acked
  /\ UNCHANGED <<store, caches, faults, silent>>

-----------------------------------------------------------------------------
Reader(r) == (\E a \in Adapters : Load(r, a)) \/ Get(r) \/ BuildAndStore(r)
Admin(m) == (\E op \in Ops : AdminGet(m, op)) \/ AdminWrite(m) \/ Invalidate(m)
            \/ AdminReply(m)

Next ==
  \/ \E r \in Readers : Reader(r)
  \/ \E m \in Admins : Admin(m)

Spec == Init /\ [][Next]_vars

-----------------------------------------------------------------------------
\* Every variable keeps its type.
TypeOK ==
  /\ store \in Config
  /\ cache \in [Adapters -> Resolved \union {None}]
  /\ res \in [Readers -> [pc : {"idle", "get", "build", "done"}, 
                          adapter : Adapters \union {None},
                          cfg : Config, code : {"none", "ok", "error"},
                          result : Resolved, memoized : BOOLEAN, epoch : Nat,
                          floor : 0..MaxCommits]]
  /\ adm \in [Admins -> [pc : {"idle", "write", "invalidate", "done"},
                         op : {"create", "put", "delete"}, ver : 0..MaxCommits,
                         next : 1..(Len(Local) + 1),
                         code : {0, 200, 201, 204, 404, 409, 500}]]
  /\ builds \in Nat /\ faults \in Nat
  /\ epoch \in [Adapters -> Nat]
  /\ raced \in [Adapters -> BOOLEAN] /\ silent \in [Adapters -> BOOLEAN]
  /\ acked \in 0..MaxCommits

\* An unknown key leaves nothing in any cache: an entry exists only for a key
\* whose row some commit has written.
OnlyCreatedCached == \A a \in Adapters : cache[a] # None => cache[a].ver > 0

\* All requests that get memoized pipelines from an adapter between two
\* invalidations get the same Resolved, so they share its middleware instances
\* (and with them the key mutexes of its cache).
OneResolvedPerEpoch ==
  \A q, r \in Readers :
    /\ res[q].code = "ok" /\ res[q].memoized /\ res[r].code = "ok" /\ res[r].memoized
    /\ res[q].adapter = res[r].adapter /\ res[q].epoch = res[r].epoch
    => res[q].result = res[r].result

\* An invalidation of a that a handler still owes.
Owed(a) ==
  \E m \in Admins : /\ adm[m].pc = "invalidate"
                    /\ \E i \in adm[m].next..Len(Local) : Local[i] = a

\* An entry older than the table has one of three causes: its invalidation is
\* on its way; it was never sent (a failed call that committed, or a commit of
\* another replica); or a Resolve that had read the old row stored it after
\* the invalidation.
StaleHasCause ==
  \A a \in Adapters :
    cache[a] # None /\ cache[a].ver < store.ver => Owed(a) \/ silent[a] \/ raced[a]

-----------------------------------------------------------------------------
\* README.md:405 "After a PUT or DELETE, the resolver cache for that key is
\* dropped across every adapter, so the next request rebuilds from the updated
\* config".
FreshAfterAck ==
  \A r \in Readers :
    res[r].pc = "done" /\ res[r].code = "ok" => res[r].result.ver >= res[r].floor
=============================================================================
