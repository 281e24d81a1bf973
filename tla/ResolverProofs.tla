---------------------------- MODULE ResolverProofs ----------------------------
(***************************************************************************)
(* What the resolvers' caches hold, for every number of requests, adapters *)
(* and replicas.                                                           *)
(***************************************************************************)
EXTENDS ResolverCache, TLAPS

\* A call of Resolve, and an admin request.
Call == [pc : {"idle", "get", "build", "done"}, adapter : Adapters \union {None},
         cfg : Config, code : {"none", "ok", "error"}, result : Resolved,
         memoized : BOOLEAN, epoch : Nat, floor : 0..MaxCommits]
Codes == {0, 200, 201, 204, 404, 409, 500}
AdminCall == [pc : {"idle", "write", "invalidate", "done"},
              op : {"create", "put", "delete"}, ver : 0..MaxCommits,
              next : 1..(Len(Local) + 1), code : Codes]

LEMMA CallTypes ==
  ASSUME TypeOK
  PROVE  /\ res \in [Readers -> Call] /\ adm \in [Admins -> AdminCall]
         /\ store.ver \in 0..MaxCommits /\ store.kind \in Kinds \union {"absent"}
         /\ \A r \in Readers :
              /\ res[r].cfg \in Config /\ res[r].result \in Resolved
              /\ res[r].epoch \in Nat /\ res[r].cfg.ver \in 0..MaxCommits
         /\ \A m \in Admins :
              /\ adm[m].next \in 1..(Len(Local) + 1) /\ adm[m].next \in Nat
              /\ adm[m].ver \in 0..MaxCommits
BY ResolverCacheAssumption DEF TypeOK, Call, AdminCall, Codes, Config

-----------------------------------------------------------------------------
(* What the steps do to the call, and to the admin request, that takes them. *)

Others(r) == \A o \in Readers \ {r} : res'[o] = res[o]
OtherAdmins(m) == \A o \in Admins \ {m} : adm'[o] = adm[o]

LEMMA Replaced ==
  ASSUME TypeOK, NEW r \in Readers, NEW s \in Call, res' = [res EXCEPT ![r] = s]
  PROVE  res' \in [Readers -> Call] /\ Others(r) /\ res'[r] = s
BY CallTypes DEF Others

LEMMA AdminReplaced ==
  ASSUME TypeOK, NEW m \in Admins, NEW s \in AdminCall, adm' = [adm EXCEPT ![m] = s]
  PROVE  adm' \in [Admins -> AdminCall] /\ OtherAdmins(m) /\ adm'[m] = s
BY CallTypes DEF OtherAdmins

LEMMA LoadMoves ==
  ASSUME TypeOK, NEW r \in Readers, NEW a \in Adapters, Load(r, a)
  PROVE  /\ res' \in [Readers -> Call] /\ Others(r) /\ res'[r].adapter = a
         /\ \/ res'[r].pc = "get" /\ res'[r].code = res[r].code
            \/ /\ cache[a] # None /\ res'[r].pc = "done" /\ res'[r].code = "ok"
               /\ res'[r].result = cache[a] /\ res'[r].epoch = epoch[a]
<1>1. res[r] \in Call /\ acked \in 0..MaxCommits /\ epoch[a] \in Nat
  BY CallTypes DEF TypeOK
<1>2. CASE cache[a] = None
  <2> DEFINE s == [res[r] EXCEPT !.pc = "get", !.adapter = a, !.floor = acked]
  <2>1. s \in Call /\ s.adapter = a /\ s.pc = "get" /\ s.code = res[r].code
    BY <1>1 DEF Call
  <2>2. res' = [res EXCEPT ![r] = s]
    BY <1>2 DEF Load
  <2> HIDE DEF s
  <2>3. QED
    BY <2>1, <2>2, Replaced
<1>3. CASE cache[a] # None
  <2> DEFINE s == [res[r] EXCEPT !.pc = "done", !.adapter = a, !.floor = acked,
                     !.code = "ok", !.result = cache[a], !.memoized = TRUE,
                     !.epoch = epoch[a]]
  <2>1. cache[a] \in Resolved
    BY <1>3 DEF TypeOK
  <2>2. s \in Call /\ s.adapter = a /\ s.pc = "done" /\ s.code = "ok"
        /\ s.result = cache[a] /\ s.epoch = epoch[a]
    BY <1>1, <2>1 DEF Call
  <2>3. res' = [res EXCEPT ![r] = s]
    BY <1>3 DEF Load
  <2> HIDE DEF s
  <2>4. QED
    BY <1>3, <2>2, <2>3, Replaced
<1>4. QED
  BY <1>2, <1>3

LEMMA ReturnMoves ==
  ASSUME TypeOK, NEW r \in Readers, NEW rp \in Resolved, NEW memo \in BOOLEAN,
         res[r].adapter \in Adapters, Return(r, rp, memo)
  PROVE  /\ res' \in [Readers -> Call] /\ Others(r)
         /\ res'[r].adapter = res[r].adapter /\ res'[r].pc = "done"
         /\ res'[r].code = "ok" /\ res'[r].result = rp
         /\ (res'[r].memoized <=> memo) /\ res'[r].epoch = epoch[res[r].adapter]
<1> DEFINE e == epoch[res[r].adapter]
           s == [res[r] EXCEPT !.pc = "done", !.code = "ok", !.result = rp,
                               !.memoized = memo, !.epoch = e]
<1>1. res[r] \in Call /\ e \in Nat
  BY CallTypes DEF TypeOK
<1> HIDE DEF e
<1>2. /\ s \in Call /\ s.adapter = res[r].adapter /\ s.pc = "done" /\ s.code = "ok"
      /\ s.result = rp /\ (s.memoized <=> memo) /\ s.epoch = e
  BY <1>1 DEF Call
<1>3. res' = [res EXCEPT ![r] = s]
  BY DEF Return, e
<1> HIDE DEF s
<1>4. QED
  BY <1>2, <1>3, Replaced DEF e

LEMMA ErrorMoves ==
  ASSUME TypeOK, NEW r \in Readers, ReturnError(r)
  PROVE  /\ res' \in [Readers -> Call] /\ Others(r)
         /\ res'[r].adapter = res[r].adapter /\ res'[r].pc = "done"
         /\ res'[r].code = "error"
<1> DEFINE s == [res[r] EXCEPT !.pc = "done", !.code = "error"]
<1>1. res[r] \in Call
  BY CallTypes
<1>2. s \in Call /\ s.adapter = res[r].adapter /\ s.pc = "done" /\ s.code = "error"
  BY <1>1 DEF Call
<1>3. res' = [res EXCEPT ![r] = s]
  BY DEF ReturnError
<1> HIDE DEF s
<1>4. QED
  BY <1>2, <1>3, Replaced

LEMMA ReadMoves ==
  ASSUME TypeOK, NEW r \in Readers, res[r].adapter \in Adapters,
         res' = [res EXCEPT ![r].pc = "build", ![r].cfg = store,
                            ![r].epoch = epoch[res[r].adapter]]
  PROVE  /\ res' \in [Readers -> Call] /\ Others(r)
         /\ res'[r].adapter = res[r].adapter /\ res'[r].pc = "build"
         /\ res'[r].code = res[r].code /\ res'[r].cfg = store
         /\ res'[r].epoch = epoch[res[r].adapter]
<1> DEFINE e == epoch[res[r].adapter]
           s == [res[r] EXCEPT !.pc = "build", !.cfg = store, !.epoch = e]
<1>1. res[r] \in Call /\ e \in Nat /\ store \in Config
  BY CallTypes DEF TypeOK
<1>2. res' = [res EXCEPT ![r] = s]
  OBVIOUS
<1> HIDE DEF e
<1>3. /\ s \in Call /\ s.adapter = res[r].adapter /\ s.pc = "build"
      /\ s.code = res[r].code /\ s.cfg = store /\ s.epoch = e
  BY <1>1 DEF Call
<1> HIDE DEF s
<1>4. QED
  BY <1>2, <1>3, Replaced DEF e

-----------------------------------------------------------------------------
(* Types, and where the calls and the requests are.                        *)

\* A call that has begun has an adapter, and has no answer before its end; it
\* builds only from a row that some commit has written.
CallPlace(q) ==
  /\ q.pc # "idle" => q.adapter \in Adapters
  /\ q.pc # "done" => q.code = "none"
  /\ q.pc = "build" => q.cfg.ver > 0

Places ==
  /\ \A r \in Readers : CallPlace(res[r])
  /\ \A m \in Admins : adm[m].pc \in {"idle", "write"} => adm[m].next = 1
  /\ store.kind # "absent" => store.ver > 0

Base == TypeOK /\ Places /\ OnlyCreatedCached

\* BuildAndStore: the call fails, puts what it built into the empty entry, or
\* takes what another one has put there.
Stored(r, a, rp) ==
  /\ cache[a] = None /\ cache' = [cache EXCEPT ![a] = rp]
  /\ raced' = [raced EXCEPT ![a] = res[r].epoch # epoch[a]]
  /\ Return(r, rp, TRUE)

Shared(r, a) ==
  /\ cache[a] # None /\ Return(r, cache[a], TRUE) /\ UNCHANGED <<cache, raced>>

LEMMA BuildMoves ==
  ASSUME Base, NEW r \in Readers, BuildAndStore(r)
  PROVE  /\ res[r].pc = "build" /\ res[r].adapter \in Adapters
         /\ UNCHANGED <<table, faults, epoch>> /\ builds' \in Nat
         /\ \/ ReturnError(r) /\ UNCHANGED <<cache, raced>>
            \/ \E rp \in Resolved : /\ rp.ver = res[r].cfg.ver
                                    /\ Stored(r, res[r].adapter, rp)
            \/ Shared(r, res[r].adapter)
<1> DEFINE n == builds + 1
           b == IF res[r].cfg.kind = "inherit" THEN 0 ELSE n
           rp == [ver |-> res[r].cfg.ver, build |-> b]
<1>1. n \in Nat /\ b \in Nat
  BY DEF Base, TypeOK
<1>2. /\ res[r].pc = "build" /\ res[r].adapter \in Adapters
      /\ UNCHANGED <<table, faults, epoch>>
  BY DEF BuildAndStore, Base, Places, CallPlace
<1>3. \/ ReturnError(r) /\ UNCHANGED <<cache, builds, raced>>
      \/ builds' = n /\ Stored(r, res[r].adapter, rp)
      \/ builds' = n /\ Shared(r, res[r].adapter)
  BY DEF BuildAndStore, Stored, Shared
<1> HIDE DEF n, b
<1>4. rp \in Resolved /\ rp.ver = res[r].cfg.ver
  BY <1>1, CallTypes DEF Base, Resolved
<1> HIDE DEF rp
<1>5. builds' \in Nat
  BY <1>1, <1>3 DEF Base, TypeOK
<1>6. QED
  BY <1>2, <1>3, <1>4, <1>5

LEMMA FaultsGrow ==
  ASSUME faults \in Nat, Works \/ Fails
  PROVE  faults' \in Nat
BY DEF Works, Fails

\* The steps that leave the table and the admin requests alone.
LEMMA ReaderBase ==
  ASSUME Base, NEW r \in Readers, Others(r), res' \in [Readers -> Call],
         CallPlace(res'[r]), UNCHANGED table, builds' \in Nat, faults' \in Nat,
         epoch' = epoch, raced' \in [Adapters -> BOOLEAN],
         cache' \in [Adapters -> Resolved \union {None}], OnlyCreatedCached'
  PROVE  Base'
<1>1. TypeOK'
  BY DEF Base, TypeOK, table, Call
<1>2. Places'
  BY DEF Base, Places, table, Others
<1>3. QED
  BY <1>1, <1>2 DEF Base

LEMMA ReaderStep ==
  ASSUME Base, NEW r \in Readers, Reader(r)
  PROVE  Base'
<1>1. ASSUME NEW a \in Adapters, Load(r, a)
      PROVE  Base'
  <2>1. /\ res' \in [Readers -> Call] /\ Others(r) /\ res'[r].adapter = a
        /\ \/ res'[r].pc = "get" /\ res'[r].code = res[r].code
           \/ res'[r].pc = "done"
    BY <1>1, LoadMoves DEF Base
  <2>2. res[r].code = "none"
    BY <1>1 DEF Load, Base, Places, CallPlace
  <2>3. CallPlace(res'[r])
    BY <2>1, <2>2 DEF CallPlace
  <2>4. UNCHANGED <<table, cache, builds, faults, epoch, raced>>
    BY <1>1 DEF Load
  <2>5. QED
    BY <2>1, <2>3, <2>4, ReaderBase DEF Base, TypeOK, OnlyCreatedCached
<1>2. CASE Get(r)
  <2>1. res[r].adapter \in Adapters /\ res[r].code = "none"
    BY <1>2 DEF Get, Base, Places, CallPlace
  <2>2. UNCHANGED <<table, cache, builds, epoch, raced>> /\ faults' \in Nat
    BY <1>2, FaultsGrow DEF Get, Base, TypeOK
  <2>3. [ver |-> store.ver, build |-> 0] \in Resolved
    BY CallTypes DEF Base, Resolved
  <2>4. res' \in [Readers -> Call] /\ Others(r) /\ CallPlace(res'[r])
    <3>1. CASE Return(r, [ver |-> store.ver, build |-> 0], FALSE)
      BY <2>1, <2>3, <3>1, ReturnMoves DEF CallPlace, Base
    <3>2. CASE ReturnError(r)
      BY <2>1, <3>2, ErrorMoves DEF CallPlace, Base
    <3>3. CASE /\ store.kind # "absent"
               /\ res' = [res EXCEPT ![r].pc = "build", ![r].cfg = store,
                                     ![r].epoch = epoch[res[r].adapter]]
      BY <2>1, <3>3, ReadMoves DEF CallPlace, Base, Places
    <3>4. QED
      BY <1>2, <3>1, <3>2, <3>3 DEF Get
  <2>5. QED
    BY <2>2, <2>4, ReaderBase DEF Base, TypeOK, OnlyCreatedCached
<1>3. CASE BuildAndStore(r)
  <2>1. /\ res[r].pc = "build" /\ res[r].adapter \in Adapters
        /\ UNCHANGED <<table, faults, epoch>> /\ builds' \in Nat
    BY <1>3, BuildMoves
  <2>2. CASE ReturnError(r) /\ UNCHANGED <<cache, raced>>
    <3>1. res' \in [Readers -> Call] /\ Others(r) /\ CallPlace(res'[r])
      BY <2>1, <2>2, ErrorMoves DEF CallPlace, Base
    <3>2. QED
      BY <2>1, <2>2, <3>1, ReaderBase DEF Base, TypeOK, OnlyCreatedCached
  <2>3. CASE Shared(r, res[r].adapter)
    <3>1. cache[res[r].adapter] \in Resolved
      BY <2>1, <2>3 DEF Shared, Base, TypeOK
    <3>2. res' \in [Readers -> Call] /\ Others(r) /\ CallPlace(res'[r])
      BY <2>1, <2>3, <3>1, ReturnMoves DEF CallPlace, Base, Shared
    <3>3. QED
      BY <2>1, <2>3, <3>2, ReaderBase DEF Base, TypeOK, OnlyCreatedCached, Shared
  <2>4. ASSUME NEW rp \in Resolved, rp.ver = res[r].cfg.ver,
               Stored(r, res[r].adapter, rp)
        PROVE  Base'
    <3>1. res' \in [Readers -> Call] /\ Others(r) /\ CallPlace(res'[r])
      BY <2>1, <2>4, ReturnMoves DEF CallPlace, Base, Stored
    <3>2. rp.ver > 0
      BY <2>1, <2>4 DEF Base, Places, CallPlace
    <3>3. cache' \in [Adapters -> Resolved \union {None}]
          /\ raced' \in [Adapters -> BOOLEAN]
      BY <2>4 DEF Stored, Base, TypeOK
    <3>4. OnlyCreatedCached'
      BY <2>4, <3>2 DEF Stored, Base, TypeOK, OnlyCreatedCached
    <3>5. QED
      BY <2>1, <3>1, <3>3, <3>4, ReaderBase DEF Base, TypeOK
  <2>5. QED
    BY <1>3, <2>2, <2>3, <2>4, BuildMoves
<1>4. QED
  BY <1>1, <1>2, <1>3 DEF Reader

LEMMA CommitMoves ==
  ASSUME Base, NEW m \in Admins, Commit(m)
  PROVE  /\ store' \in Config /\ (store'.kind # "absent" => store'.ver > 0)
         /\ store'.ver >= store.ver
<1>1. CASE UNCHANGED store
  BY <1>1, CallTypes DEF Base, Places, TypeOK
<1>2. ASSUME NEW k \in Kinds \union {"absent"}, store.ver < MaxCommits,
             store' = [ver |-> store.ver + 1, kind |-> k]
      PROVE  /\ store' \in Config /\ store'.ver > 0 /\ store'.ver >= store.ver
  <2> DEFINE n == store.ver + 1
  <2>1. n \in 0..MaxCommits /\ n > 0 /\ n >= store.ver
    BY <1>2, CallTypes, ResolverCacheAssumption DEF Base
  <2>2. store' = [ver |-> n, kind |-> k]
    BY <1>2
  <2> HIDE DEF n
  <2>3. QED
    BY <2>1, <2>2 DEF Config
<1>3. QED
  BY <1>1, <1>2 DEF Commit

LEMMA AdminGetMoves ==
  ASSUME TypeOK, NEW m \in Admins, NEW op \in Ops, AdminGet(m, op)
  PROVE  /\ adm' \in [Admins -> AdminCall] /\ OtherAdmins(m)
         /\ adm'[m].pc \in {"write", "done"} /\ adm'[m].next = adm[m].next
<1> DEFINE v == Verdict(op, store.kind # "absent")
           w == IF v \in {404, 409} THEN "done" ELSE "write"
           S(c, p) == [adm[m] EXCEPT !.op = op, !.code = c, !.pc = p]
<1>1. adm[m] \in AdminCall /\ op \in {"create", "put", "delete"}
  BY CallTypes, ResolverCacheAssumption
<1>2. v \in {200, 201, 204, 404, 409} /\ w \in {"write", "done"}
  BY <1>1 DEF Verdict
<1>3. adm' = [adm EXCEPT ![m] = S(v, w)] \/ adm' = [adm EXCEPT ![m] = S(500, "done")]
  BY DEF AdminGet
<1> DEFINE e == 500
<1>4. v \in Codes /\ e \in Codes
  BY <1>2 DEF Codes
<1>5. adm' = [adm EXCEPT ![m] = S(v, w)] \/ adm' = [adm EXCEPT ![m] = S(e, "done")]
  BY <1>3
<1> HIDE DEF v, w, e
<1>6. ASSUME NEW c \in Codes, NEW p \in {"write", "done"}
      PROVE  S(c, p) \in AdminCall /\ S(c, p).pc = p /\ S(c, p).next = adm[m].next
  BY <1>1 DEF AdminCall
<1> HIDE DEF S
<1>7. QED
  BY <1>2, <1>4, <1>5, <1>6, AdminReplaced

LEMMA ReplyMoves ==
  ASSUME TypeOK, NEW m \in Admins, NEW code \in Codes, Reply(m, code)
  PROVE  /\ adm' \in [Admins -> AdminCall] /\ OtherAdmins(m) /\ adm'[m].pc = "done"
<1> DEFINE s == [adm[m] EXCEPT !.pc = "done", !.code = code]
<1>1. adm[m] \in AdminCall
  BY CallTypes
<1>2. adm' = [adm EXCEPT ![m] = s]
  BY DEF Reply
<1>3. s \in AdminCall /\ s.pc = "done"
  BY <1>1 DEF AdminCall
<1> HIDE DEF s
<1>4. QED
  BY <1>2, <1>3, AdminReplaced

LEMMA CommittedMoves ==
  ASSUME TypeOK, NEW m \in Admins, store' \in Config,
         adm' = [adm EXCEPT ![m].pc = "invalidate", ![m].ver = store'.ver]
  PROVE  /\ adm' \in [Admins -> AdminCall] /\ OtherAdmins(m)
         /\ adm'[m].pc = "invalidate" /\ adm'[m].next = adm[m].next
<1> DEFINE v == store'.ver
           s == [adm[m] EXCEPT !.pc = "invalidate", !.ver = v]
<1>1. v \in 0..MaxCommits /\ adm[m] \in AdminCall
  BY CallTypes DEF Config
<1>2. adm' = [adm EXCEPT ![m] = s]
  OBVIOUS
<1> HIDE DEF v
<1>3. s \in AdminCall /\ s.pc = "invalidate" /\ s.next = adm[m].next
  BY <1>1 DEF AdminCall
<1> HIDE DEF s
<1>4. QED
  BY <1>2, <1>3, AdminReplaced

LEMMA InvalidateMoves ==
  ASSUME TypeOK, NEW m \in Admins, Invalidate(m)
  PROVE  /\ adm' \in [Admins -> AdminCall] /\ OtherAdmins(m)
         /\ adm'[m].pc = "invalidate" /\ adm'[m].next = adm[m].next + 1
         /\ adm[m].next \in 1..Len(Local) /\ Local[adm[m].next] \in Adapters
<1> DEFINE n == adm[m].next + 1
           s == [adm[m] EXCEPT !.next = n]
<1>1. n \in 1..(Len(Local) + 1) /\ adm[m].next \in 1..Len(Local)
  BY CallTypes, ResolverCacheAssumption DEF Invalidate
<1>2. adm[m] \in AdminCall /\ adm[m].pc = "invalidate"
  BY CallTypes DEF Invalidate
<1>3. adm' = [adm EXCEPT ![m] = s]
  BY DEF Invalidate
<1> HIDE DEF n
<1>4. s \in AdminCall /\ s.pc = "invalidate" /\ s.next = n
  BY <1>1, <1>2 DEF AdminCall
<1> HIDE DEF s
<1>5. Local[adm[m].next] \in Adapters
  BY <1>1 DEF Adapters
<1>6. QED
  BY <1>1, <1>3, <1>4, <1>5, AdminReplaced DEF n

LEMMA AnsweredMoves ==
  ASSUME TypeOK, NEW m \in Admins, AdminReply(m)
  PROVE  /\ adm' \in [Admins -> AdminCall] /\ OtherAdmins(m) /\ adm'[m].pc = "done"
         /\ acked' \in 0..MaxCommits
<1> DEFINE s == [adm[m] EXCEPT !.pc = "done"]
<1>1. s \in AdminCall /\ s.pc = "done"
  BY CallTypes DEF AdminCall
<1>2. adm' = [adm EXCEPT ![m] = s]
  BY DEF AdminReply
<1> HIDE DEF s
<1>3. acked' \in 0..MaxCommits
  BY CallTypes DEF AdminReply, TypeOK
<1>4. QED
  BY <1>1, <1>2, <1>3, AdminReplaced

LEMMA AdminWriteCases ==
  ASSUME Base, NEW m \in Admins, AdminWrite(m)
  PROVE  /\ adm' \in [Admins -> AdminCall] /\ OtherAdmins(m)
         /\ adm[m].pc = "write" /\ store' \in Config
         /\ (store'.kind # "absent" => store'.ver > 0) /\ store'.ver >= store.ver
         /\ \/ adm'[m].pc = "invalidate" /\ adm'[m].next = 1 /\ Silence(Remote)
            \/ adm'[m].pc = "done" /\ Silence(Adapters)
            \/ adm'[m].pc = "done" /\ UNCHANGED <<store, silent>>
<1>1. adm[m].pc = "write" /\ adm[m].next = 1 /\ 500 \in Codes
  BY DEF AdminWrite, Base, Places, Codes
<1>2. CASE /\ Commit(m) /\ Silence(Remote)
           /\ adm' = [adm EXCEPT ![m].pc = "invalidate", ![m].ver = store'.ver]
  BY <1>1, <1>2, CommitMoves, CommittedMoves DEF Base
<1>3. CASE Commit(m) /\ Silence(Adapters) /\ Reply(m, 500)
  BY <1>1, <1>3, CommitMoves, ReplyMoves DEF Base
<1>4. CASE UNCHANGED <<store, silent>> /\ Reply(m, 500)
  BY <1>1, <1>4, CallTypes, ReplyMoves DEF Base, Places, TypeOK
<1>5. QED
  BY <1>2, <1>3, <1>4 DEF AdminWrite

LEMMA AdminBase ==
  ASSUME Base, NEW m \in Admins, OtherAdmins(m), adm' \in [Admins -> AdminCall],
         adm'[m].pc \in {"idle", "write"} => adm'[m].next = 1,
         UNCHANGED <<res, builds>>, faults' \in Nat, store' \in Config,
         store'.kind # "absent" => store'.ver > 0,
         cache' \in [Adapters -> Resolved \union {None}], OnlyCreatedCached',
         epoch' \in [Adapters -> Nat], raced' \in [Adapters -> BOOLEAN],
         silent' \in [Adapters -> BOOLEAN], acked' \in 0..MaxCommits
  PROVE  Base'
<1>1. TypeOK'
  BY DEF Base, TypeOK, AdminCall, Codes
<1>2. Places'
  BY DEF Base, Places, OtherAdmins
<1>3. QED
  BY <1>1, <1>2 DEF Base

LEMMA AdminStep ==
  ASSUME Base, NEW m \in Admins, Admin(m)
  PROVE  Base'
<1>0. /\ store.kind # "absent" => store.ver > 0
      /\ adm[m].pc \in {"idle", "write"} => adm[m].next = 1
  BY DEF Base, Places
<1>1. ASSUME NEW op \in Ops, AdminGet(m, op)
      PROVE  Base'
  <2>1. adm[m].pc = "idle" /\ UNCHANGED <<store, caches, silent, acked>>
    BY <1>1 DEF AdminGet
  <2>2. faults' \in Nat
    BY <1>1, FaultsGrow DEF AdminGet, Base, TypeOK
  <2>3. /\ adm' \in [Admins -> AdminCall] /\ OtherAdmins(m)
        /\ adm'[m].pc \in {"idle", "write"} => adm'[m].next = 1
    BY <1>0, <1>1, <2>1, AdminGetMoves DEF Base
  <2>4. QED
    BY <1>0, <2>1, <2>2, <2>3, AdminBase
       DEF caches, Base, TypeOK, OnlyCreatedCached
<1>2. CASE AdminWrite(m)
  <2>1. faults' \in Nat /\ UNCHANGED <<caches, acked>>
    BY <1>2, FaultsGrow DEF AdminWrite, Base, TypeOK
  <2>2. silent' \in [Adapters -> BOOLEAN]
    <3>1. ASSUME NEW A, Silence(A)
          PROVE  silent' \in [Adapters -> BOOLEAN]
      <4>1. \A a \in Adapters : (silent[a] \/ a \in A) \in BOOLEAN
        OBVIOUS
      <4>2. QED
        BY <3>1, <4>1, Zenon DEF Silence
    <3>2. QED
      BY <1>2, <3>1, AdminWriteCases DEF Base, TypeOK
  <2>3. QED
    BY <1>2, <2>1, <2>2, AdminWriteCases, AdminBase
       DEF caches, Base, TypeOK, OnlyCreatedCached
<1>3. CASE Invalidate(m)
  <2> DEFINE a == Local[adm[m].next]
             n == epoch[a] + 1
  <2>1. /\ cache' = [cache EXCEPT ![a] = None] /\ epoch' = [epoch EXCEPT ![a] = n]
        /\ raced' = [raced EXCEPT ![a] = FALSE] /\ silent' = [silent EXCEPT ![a] = FALSE]
        /\ UNCHANGED <<store, res, builds, faults, acked>>
    BY <1>3 DEF Invalidate
  <2>2. a \in Adapters /\ n \in Nat
    BY <1>3, InvalidateMoves DEF Base, TypeOK
  <2> HIDE DEF a, n
  <2>3. /\ cache' \in [Adapters -> Resolved \union {None}]
        /\ epoch' \in [Adapters -> Nat] /\ raced' \in [Adapters -> BOOLEAN]
        /\ silent' \in [Adapters -> BOOLEAN] /\ OnlyCreatedCached'
    BY <2>1, <2>2 DEF Base, TypeOK, OnlyCreatedCached
  <2>4. /\ adm' \in [Admins -> AdminCall] /\ OtherAdmins(m)
        /\ adm'[m].pc = "invalidate"
    BY <1>3, InvalidateMoves DEF Base
  <2>5. QED
    BY <1>0, <2>1, <2>3, <2>4, AdminBase DEF Base, TypeOK
<1>4. CASE AdminReply(m)
  <2>1. UNCHANGED <<store, caches, faults, silent>>
    BY <1>4 DEF AdminReply
  <2>2. QED
    BY <1>0, <1>4, <2>1, AnsweredMoves, AdminBase
       DEF caches, Base, TypeOK, OnlyCreatedCached
<1>5. QED
  BY <1>1, <1>2, <1>3, <1>4 DEF Admin

LEMMA BaseStep ==
  ASSUME Base, [Next]_vars
  PROVE  Base'
<1>1. CASE UNCHANGED vars
  BY <1>1 DEF vars, Base, TypeOK, Places, OnlyCreatedCached
<1>2. QED
  BY <1>1, ReaderStep, AdminStep DEF Next

LEMMA InitBase == Init => Base
<1> SUFFICES ASSUME Init
             PROVE  Base
  OBVIOUS
<1>1. TypeOK
  BY ResolverCacheAssumption DEF Init, TypeOK, Config, Resolved
<1>2. Places
  BY DEF Init, Places, CallPlace
<1>3. OnlyCreatedCached
  BY DEF Init, OnlyCreatedCached
<1>4. QED
  BY <1>1, <1>2, <1>3 DEF Base

-----------------------------------------------------------------------------
(* One Resolved per epoch.                                                 *)

\* A memoized answer of the current epoch is what the entry holds.
MemoFor(q, e, c) ==
  q.code = "ok" /\ q.memoized =>
    /\ q.epoch <= e[q.adapter]
    /\ q.epoch = e[q.adapter] => c[q.adapter] = q.result

Memo == \A r \in Readers : MemoFor(res[r], epoch, cache)

Memoized(q) == q.code = "ok" /\ q.memoized

LEMMA Answered ==
  ASSUME Base, NEW r \in Readers, res[r].code = "ok"
  PROVE  res[r].adapter \in Adapters /\ epoch[res[r].adapter] \in Nat
         /\ res[r].epoch \in Nat /\ res[r].result # None
<1>1. res[r].adapter \in Adapters
  BY DEF Base, Places, CallPlace
<1>2. QED
  BY <1>1, CallTypes, ResolverCacheAssumption DEF Base, TypeOK

LEMMA MemoStep ==
  ASSUME Base, Memo, OneResolvedPerEpoch, [Next]_vars
  PROVE  (Memo /\ OneResolvedPerEpoch)'
<1>1. CASE UNCHANGED <<res, cache, epoch>>
  BY <1>1 DEF Memo, OneResolvedPerEpoch
\* A call that goes on, fails, or is answered with the global pipelines.
<1>2. ASSUME NEW r \in Readers, Others(r), ~Memoized(res'[r]),
             UNCHANGED <<cache, epoch>>
      PROVE  (Memo /\ OneResolvedPerEpoch)'
  BY <1>2 DEF Memo, MemoFor, Memoized, OneResolvedPerEpoch, Others
\* A call that is answered with what the entry holds, or has just got.
<1>3. ASSUME NEW r \in Readers, Others(r), NEW a \in Adapters,
             res'[r].adapter = a, res'[r].epoch = epoch[a], UNCHANGED epoch,
             res'[r].result = cache'[a],
             \A b \in Adapters : cache'[b] = cache[b] \/ (b = a /\ cache[a] = None)
      PROVE  (Memo /\ OneResolvedPerEpoch)'
  <2>1. ASSUME NEW q \in Readers \ {r}
        PROVE  /\ MemoFor(res'[q], epoch', cache')
               /\ Memoized(res'[q]) /\ res'[q].adapter = a /\ res'[q].epoch = epoch[a]
                    => res'[q].result = cache'[a]
    <3>1. res'[q] = res[q] /\ MemoFor(res[q], epoch, cache)
      BY <1>3 DEF Others, Memo
    <3>2. CASE ~Memoized(res[q])
      BY <3>1, <3>2 DEF MemoFor, Memoized
    <3>3. CASE Memoized(res[q])
      BY <1>3, <3>1, <3>3, Answered DEF MemoFor, Memoized
    <3>4. QED
      BY <3>2, <3>3
  <2>2. MemoFor(res'[r], epoch', cache')
    <3>1. epoch[a] \in Nat
      BY DEF Base, TypeOK
    <3>2. QED
      BY <1>3, <3>1 DEF MemoFor
  <2>3. Memo'
    BY <2>1, <2>2 DEF Memo
  <2>4. OneResolvedPerEpoch'
    BY <1>3, <2>1 DEF OneResolvedPerEpoch, Memoized, Others
  <2>5. QED
    BY <2>3, <2>4
<1>4. ASSUME NEW r \in Readers, NEW a \in Adapters, Load(r, a)
      PROVE  (Memo /\ OneResolvedPerEpoch)'
  <2>1. Others(r) /\ res'[r].adapter = a
        /\ \/ res'[r].code = res[r].code
           \/ res'[r].result = cache[a] /\ res'[r].epoch = epoch[a]
    BY <1>4, LoadMoves DEF Base
  <2>2. res[r].code = "none" /\ UNCHANGED <<cache, epoch>>
    BY <1>4 DEF Load, Base, Places, CallPlace
  <2>3. QED
    BY <1>2, <1>3, <2>1, <2>2 DEF Memoized
<1>5. ASSUME NEW r \in Readers, Get(r)
      PROVE  (Memo /\ OneResolvedPerEpoch)'
  <2>1. res[r].adapter \in Adapters /\ res[r].code = "none"
        /\ UNCHANGED <<cache, epoch>>
    BY <1>5 DEF Get, Base, Places, CallPlace
  <2>2. [ver |-> store.ver, build |-> 0] \in Resolved
    BY CallTypes DEF Base, Resolved
  <2>3. CASE Return(r, [ver |-> store.ver, build |-> 0], FALSE)
    BY <1>2, <2>1, <2>2, <2>3, ReturnMoves DEF Memoized, Base
  <2>4. CASE ReturnError(r)
    BY <1>2, <2>1, <2>4, ErrorMoves DEF Memoized, Base
  <2>5. CASE res' = [res EXCEPT ![r].pc = "build", ![r].cfg = store,
                                ![r].epoch = epoch[res[r].adapter]]
    BY <1>2, <2>1, <2>5, ReadMoves DEF Memoized, Base
  <2>6. QED
    BY <1>5, <2>3, <2>4, <2>5 DEF Get
<1>6. ASSUME NEW r \in Readers, BuildAndStore(r)
      PROVE  (Memo /\ OneResolvedPerEpoch)'
  <2>1. res[r].adapter \in Adapters /\ UNCHANGED epoch
    BY <1>6, BuildMoves
  <2>2. CASE ReturnError(r) /\ UNCHANGED <<cache, raced>>
    BY <1>2, <2>1, <2>2, ErrorMoves DEF Memoized, Base
  <2>3. CASE Shared(r, res[r].adapter)
    <3>1. cache[res[r].adapter] \in Resolved
      BY <2>1, <2>3 DEF Shared, Base, TypeOK
    <3>2. QED
      BY <1>3, <2>1, <2>3, <3>1, ReturnMoves DEF Shared, Base
  <2>4. ASSUME NEW rp \in Resolved, Stored(r, res[r].adapter, rp)
        PROVE  (Memo /\ OneResolvedPerEpoch)'
    <3>1. /\ cache'[res[r].adapter] = rp
          /\ \A b \in Adapters : cache'[b] = cache[b]
                 \/ (b = res[r].adapter /\ cache[res[r].adapter] = None)
      BY <2>1, <2>4 DEF Stored, Base, TypeOK
    <3>2. QED
      BY <1>3, <2>1, <2>4, <3>1, ReturnMoves DEF Stored, Base
  <2>5. QED
    BY <1>6, <2>2, <2>3, <2>4, BuildMoves
<1>7. ASSUME NEW m \in Admins, Invalidate(m)
      PROVE  (Memo /\ OneResolvedPerEpoch)'
  <2> DEFINE a == Local[adm[m].next]
             n == epoch[a] + 1
  <2>1. /\ cache' = [cache EXCEPT ![a] = None] /\ epoch' = [epoch EXCEPT ![a] = n]
        /\ UNCHANGED res
    BY <1>7 DEF Invalidate
  <2>2. a \in Adapters /\ epoch[a] \in Nat /\ n = epoch[a] + 1
    BY <1>7, InvalidateMoves DEF Base, TypeOK
  <2> HIDE DEF a, n
  <2>3. \A b \in Adapters : (b # a => cache'[b] = cache[b] /\ epoch'[b] = epoch[b])
    BY <2>1 DEF Base, TypeOK
  <2>4. epoch'[a] = epoch[a] + 1
    BY <2>1, <2>2 DEF Base, TypeOK
  <2>5. ASSUME NEW r \in Readers
        PROVE  MemoFor(res[r], epoch', cache')
    <3>1. MemoFor(res[r], epoch, cache)
      BY DEF Memo
    <3>2. QED
      BY <2>2, <2>3, <2>4, <3>1, Answered DEF MemoFor
  <2>6. QED
    BY <2>1, <2>5 DEF Memo, OneResolvedPerEpoch
<1>8. QED
  BY <1>1, <1>4, <1>5, <1>6, <1>7
     DEF Next, Reader, Admin, AdminGet, AdminWrite, AdminReply, caches, vars

-----------------------------------------------------------------------------
(* Why an entry can be old.                                                *)

\* A row that a call has read and that has changed since: an invalidation is
\* owed, will never come, or has already run.
StaleFor(q, s, si, e) ==
  q.pc = "build" =>
    /\ q.epoch <= e[q.adapter]
    /\ q.cfg.ver < s.ver =>
         Owed(q.adapter) \/ si[q.adapter] \/ q.epoch # e[q.adapter]

Reading == \A r \in Readers : StaleFor(res[r], store, silent, epoch)

\* Where nothing is invalidated or committed, an invalidation that is owed
\* stays owed.
LEMMA OwedStays ==
  ASSUME Base, NEW m \in Admins, OtherAdmins(m), adm[m].pc # "invalidate",
         NEW a \in Adapters, Owed(a)
  PROVE  Owed(a)'
<1>1. PICK n \in Admins : /\ adm[n].pc = "invalidate"
                          /\ \E i \in adm[n].next..Len(Local) : Local[i] = a
  BY DEF Owed
<1>2. adm'[n] = adm[n]
  BY <1>1 DEF OtherAdmins
<1>3. QED
  BY <1>1, <1>2 DEF Owed

LEMMA OwedElsewhere ==
  ASSUME Base, NEW m \in Admins, Invalidate(m),
         NEW b \in Adapters, b # Local[adm[m].next], Owed(b)
  PROVE  Owed(b)'
<1>1. /\ OtherAdmins(m) /\ adm'[m].pc = "invalidate"
      /\ adm'[m].next = adm[m].next + 1 /\ adm[m].next \in Nat
  BY InvalidateMoves, CallTypes DEF Base
<1>2. PICK n \in Admins : /\ adm[n].pc = "invalidate"
                          /\ \E i \in adm[n].next..Len(Local) : Local[i] = b
  BY DEF Owed
<1>3. CASE n # m
  BY <1>1, <1>2, <1>3 DEF Owed, OtherAdmins
<1>4. CASE n = m
  <2>1. PICK i \in adm[m].next..Len(Local) : Local[i] = b
    BY <1>2, <1>4
  <2>2. i \in (adm[m].next + 1)..Len(Local)
    BY <1>1, <2>1, ResolverCacheAssumption
  <2>3. QED
    BY <1>1, <2>1, <2>2 DEF Owed
<1>5. QED
  BY <1>3, <1>4

LEMMA StaleStep ==
  ASSUME Base, Reading, StaleHasCause, [Next]_vars
  PROVE  (Reading /\ StaleHasCause)'
<1>0. \A a \in Adapters : epoch[a] \in Nat /\ silent[a] \in BOOLEAN
  BY DEF Base, TypeOK
<1>1. CASE UNCHANGED vars
  BY <1>1 DEF Reading, StaleFor, StaleHasCause, Owed, vars
\* Every step of a call: the entry stays, or gets what the call has built.
<1>2. ASSUME NEW r \in Readers, Others(r), UNCHANGED <<table, epoch>>,
             StaleFor(res'[r], store, silent, epoch),
             UNCHANGED <<cache, raced>>
               \/ \E a \in Adapters, rp \in Resolved :
                    /\ cache' = [cache EXCEPT ![a] = rp]
                    /\ \A b \in Adapters \ {a} : raced'[b] = raced[b]
                    /\ rp.ver < store.ver => Owed(a) \/ silent[a] \/ raced'[a]
      PROVE  (Reading /\ StaleHasCause)'
  <2>1. \A a : Owed(a)' <=> Owed(a)
    BY <1>2 DEF Owed, table
  <2>2. Reading'
    BY <1>2, <2>1 DEF Reading, StaleFor, Others, table
  <2>3. StaleHasCause'
    <3>1. CASE UNCHANGED <<cache, raced>>
      BY <1>2, <2>1, <3>1 DEF StaleHasCause, table
    <3>2. ASSUME NEW a \in Adapters, NEW rp \in Resolved,
                 cache' = [cache EXCEPT ![a] = rp],
                 \A b \in Adapters \ {a} : raced'[b] = raced[b],
                 rp.ver < store.ver => Owed(a) \/ silent[a] \/ raced'[a]
          PROVE  StaleHasCause'
      <4>1. cache'[a] = rp /\ \A b \in Adapters \ {a} : cache'[b] = cache[b]
        BY <3>2 DEF Base, TypeOK
      <4>2. store' = store /\ silent' = silent
        BY <1>2 DEF table
      <4>3. QED
        BY <2>1, <3>2, <4>1, <4>2 DEF StaleHasCause
    <3>3. QED
      BY <1>2, <3>1, <3>2
  <2>4. QED
    BY <2>2, <2>3
<1>3. ASSUME NEW r \in Readers, NEW a \in Adapters, Load(r, a)
      PROVE  (Reading /\ StaleHasCause)'
  <2>1. Others(r) /\ res'[r].pc # "build"
    BY <1>3, LoadMoves DEF Base
  <2>2. UNCHANGED <<table, epoch, cache, raced>>
    BY <1>3 DEF Load
  <2>3. QED
    BY <1>2, <2>1, <2>2 DEF StaleFor
<1>4. ASSUME NEW r \in Readers, Get(r)
      PROVE  (Reading /\ StaleHasCause)'
  <2>1. res[r].adapter \in Adapters /\ UNCHANGED <<table, epoch, cache, raced>>
    BY <1>4 DEF Get, Base, Places, CallPlace
  <2>2. [ver |-> store.ver, build |-> 0] \in Resolved
    BY CallTypes DEF Base, Resolved
  <2>3. Others(r) /\ StaleFor(res'[r], store, silent, epoch)
    <3>1. CASE Return(r, [ver |-> store.ver, build |-> 0], FALSE)
      BY <2>1, <2>2, <3>1, ReturnMoves DEF StaleFor, Base
    <3>2. CASE ReturnError(r)
      BY <2>1, <3>2, ErrorMoves DEF StaleFor, Base
    <3>3. CASE res' = [res EXCEPT ![r].pc = "build", ![r].cfg = store,
                                  ![r].epoch = epoch[res[r].adapter]]
      <4>1. Others(r) /\ res'[r].adapter = res[r].adapter /\ res'[r].cfg = store
            /\ res'[r].epoch = epoch[res[r].adapter]
        BY <2>1, <3>3, ReadMoves DEF Base
      <4>2. epoch[res[r].adapter] \in Nat /\ store.ver \in Nat
        BY <1>0, <2>1, CallTypes DEF Base
      <4>3. QED
        BY <4>1, <4>2 DEF StaleFor
    <3>4. QED
      BY <1>4, <3>1, <3>2, <3>3 DEF Get
  <2>4. QED
    BY <1>2, <2>1, <2>3
<1>5. ASSUME NEW r \in Readers, BuildAndStore(r)
      PROVE  (Reading /\ StaleHasCause)'
  <2>1. /\ res[r].pc = "build" /\ res[r].adapter \in Adapters
        /\ UNCHANGED <<table, epoch>>
    BY <1>5, BuildMoves
  <2>2. CASE ReturnError(r) /\ UNCHANGED <<cache, raced>>
    BY <1>2, <2>1, <2>2, ErrorMoves DEF StaleFor, Base
  <2>3. CASE Shared(r, res[r].adapter)
    <3>1. cache[res[r].adapter] \in Resolved
      BY <2>1, <2>3 DEF Shared, Base, TypeOK
    <3>2. QED
      BY <1>2, <2>1, <2>3, <3>1, ReturnMoves DEF Shared, StaleFor, Base
  <2>4. ASSUME NEW rp \in Resolved, rp.ver = res[r].cfg.ver,
               Stored(r, res[r].adapter, rp)
        PROVE  (Reading /\ StaleHasCause)'
    <3>1. Others(r) /\ res'[r].pc # "build"
      BY <2>1, <2>4, ReturnMoves DEF Stored, Base
    <3>2. /\ raced'[res[r].adapter] <=> res[r].epoch # epoch[res[r].adapter]
          /\ \A b \in Adapters \ {res[r].adapter} : raced'[b] = raced[b]
      <4> DEFINE a == res[r].adapter
                 late == res[r].epoch # epoch[a]
      <4>1. raced' = [raced EXCEPT ![a] = late]
        BY <2>4 DEF Stored
      <4>2. late \in BOOLEAN /\ a \in Adapters /\ DOMAIN raced = Adapters
        BY <2>1 DEF Base, TypeOK
      <4> HIDE DEF a, late
      <4>3. raced'[a] = late /\ \A b \in Adapters \ {a} : raced'[b] = raced[b]
        BY <4>1, <4>2
      <4>4. QED
        BY <4>3 DEF a, late
    <3>3. rp.ver < store.ver =>
            Owed(res[r].adapter) \/ silent[res[r].adapter] \/ raced'[res[r].adapter]
      BY <2>1, <2>4, <3>2 DEF Reading, StaleFor
    <3>4. cache' = [cache EXCEPT ![res[r].adapter] = rp]
      BY <2>4 DEF Stored
    <3>5. QED
      BY <1>2, <2>1, <3>1, <3>2, <3>3, <3>4 DEF StaleFor
  <2>5. QED
    BY <1>5, <2>2, <2>3, <2>4, BuildMoves
\* The steps of an admin request that leave the table alone.
<1>6. ASSUME UNCHANGED <<store, caches, silent>>,
             \A a \in Adapters : Owed(a) => Owed(a)'
      PROVE  (Reading /\ StaleHasCause)'
  <2>1. \A r \in Readers : res[r].pc = "build" => res[r].adapter \in Adapters
    BY DEF Base, Places, CallPlace
  <2>2. QED
    BY <1>6, <2>1 DEF Reading, StaleFor, StaleHasCause, caches
<1>7. ASSUME NEW m \in Admins, NEW op \in Ops, AdminGet(m, op)
      PROVE  (Reading /\ StaleHasCause)'
  <2>1. adm[m].pc # "invalidate" /\ UNCHANGED <<store, caches, silent>>
    BY <1>7 DEF AdminGet
  <2>2. QED
    BY <1>6, <1>7, <2>1, AdminGetMoves, OwedStays DEF Base
<1>8. ASSUME NEW m \in Admins, AdminReply(m)
      PROVE  (Reading /\ StaleHasCause)'
  <2>1. adm[m].next > Len(Local) /\ UNCHANGED <<store, caches, silent>>
    BY <1>8 DEF AdminReply
  <2>2. OtherAdmins(m)
    BY <1>8, AnsweredMoves DEF Base
  <2>3. ASSUME NEW a \in Adapters, Owed(a)
        PROVE  Owed(a)'
    <3>1. PICK n \in Admins : /\ adm[n].pc = "invalidate"
                              /\ \E i \in adm[n].next..Len(Local) : Local[i] = a
      BY <2>3 DEF Owed
    <3>2. n # m
      BY <2>1, <3>1, CallTypes, ResolverCacheAssumption DEF Base
    <3>3. QED
      BY <2>2, <3>1, <3>2 DEF Owed, OtherAdmins
  <2>4. QED
    BY <1>6, <2>1, <2>3
<1>9. ASSUME NEW m \in Admins, AdminWrite(m)
      PROVE  (Reading /\ StaleHasCause)'
  <2>1. UNCHANGED caches /\ OtherAdmins(m) /\ adm[m].pc # "invalidate"
    BY <1>9, AdminWriteCases DEF AdminWrite
  <2>2. CASE UNCHANGED <<store, silent>>
    BY <1>6, <2>1, <2>2, OwedStays
  <2>3. ASSUME \A a \in Adapters : Owed(a)' \/ silent'[a]
        PROVE  (Reading /\ StaleHasCause)'
    <3>1. \A r \in Readers : res[r].pc = "build" => res[r].adapter \in Adapters
      BY DEF Base, Places, CallPlace
    <3>2. QED
      BY <2>1, <2>3, <3>1 DEF Reading, StaleFor, StaleHasCause, caches
  <2>4. CASE Silence(Adapters)
    BY <2>3, <2>4 DEF Silence
  <2>5. CASE adm'[m].pc = "invalidate" /\ adm'[m].next = 1 /\ Silence(Remote)
    <3>1. ASSUME NEW a \in Adapters
          PROVE  Owed(a)' \/ silent'[a]
      <4>1. CASE a \in Remote
        BY <2>5, <4>1 DEF Silence
      <4>2. ASSUME NEW i \in 1..Len(Local), Local[i] = a
            PROVE  Owed(a)'
        BY <2>5, <4>2 DEF Owed
      <4>3. QED
        BY <4>1, <4>2 DEF Adapters
    <3>2. QED
      BY <2>3, <3>1
  <2>6. QED
    BY <1>9, <2>2, <2>4, <2>5, AdminWriteCases
<1>10. ASSUME NEW m \in Admins, Invalidate(m)
       PROVE  (Reading /\ StaleHasCause)'
  <2> DEFINE a == Local[adm[m].next]
             n == epoch[a] + 1
  <2>1. /\ cache' = [cache EXCEPT ![a] = None] /\ epoch' = [epoch EXCEPT ![a] = n]
        /\ raced' = [raced EXCEPT ![a] = FALSE] /\ silent' = [silent EXCEPT ![a] = FALSE]
        /\ UNCHANGED <<store, res>>
    BY <1>10 DEF Invalidate
  <2>2. a \in Adapters /\ epoch[a] \in Nat /\ n = epoch[a] + 1
    BY <1>0, <1>10, InvalidateMoves DEF Base
  <2>3. \A b \in Adapters : b # a /\ Owed(b) => Owed(b)'
    BY <1>10, OwedElsewhere
  <2> HIDE DEF a, n
  <2>4. /\ cache'[a] = None /\ epoch'[a] = epoch[a] + 1
        /\ \A b \in Adapters \ {a} :
             /\ cache'[b] = cache[b] /\ epoch'[b] = epoch[b]
             /\ raced'[b] = raced[b] /\ silent'[b] = silent[b]
    BY <2>1, <2>2 DEF Base, TypeOK
  <2>5. ASSUME NEW r \in Readers
        PROVE  StaleFor(res[r], store, silent, epoch)'
    <3>1. StaleFor(res[r], store, silent, epoch)
      BY DEF Reading
    <3>2. res[r].pc = "build" => res[r].adapter \in Adapters
      BY DEF Base, Places, CallPlace
    <3>3. res[r].epoch \in Nat
      BY CallTypes DEF Base
    <3>4. QED
      BY <2>1, <2>2, <2>3, <2>4, <3>1, <3>2, <3>3 DEF StaleFor
  <2>6. StaleHasCause'
    BY <2>1, <2>3, <2>4 DEF StaleHasCause
  <2>7. QED
    BY <2>5, <2>6 DEF Reading
<1>11. QED
  BY <1>1, <1>3, <1>4, <1>5, <1>7, <1>8, <1>9, <1>10 DEF Next, Reader, Admin

-----------------------------------------------------------------------------
(* The theorems.                                                           *)

ResolverInv == Base /\ Memo /\ OneResolvedPerEpoch /\ Reading /\ StaleHasCause

\* A call that has begun knows its adapter, what it was given of the current
\* epoch is in the entry, and what it has read is current or accounted for.
THEOREM ResolverInvariance == Spec => []ResolverInv
<1>1. Init => ResolverInv
  <2> SUFFICES ASSUME Init
               PROVE  ResolverInv
    OBVIOUS
  <2>1. Base
    BY InitBase
  <2>2. Memo /\ OneResolvedPerEpoch
    BY DEF Init, Memo, MemoFor, OneResolvedPerEpoch
  <2>3. Reading /\ StaleHasCause
    BY DEF Init, Reading, StaleFor, StaleHasCause
  <2>4. QED
    BY <2>1, <2>2, <2>3 DEF ResolverInv
<1>2. ResolverInv /\ [Next]_vars => ResolverInv'
  BY BaseStep, MemoStep, StaleStep DEF ResolverInv
<1>3. QED
  BY <1>1, <1>2, PTL DEF Spec

\* TypeOK: types of the table, the caches, the calls and the requests.
THEOREM ResolverTypeCorrect == Spec => []TypeOK
<1>1. ResolverInv => TypeOK
  BY DEF ResolverInv, Base
<1>2. QED
  BY <1>1, ResolverInvariance, PTL

\* OnlyCreatedCached: the global pipelines that Resolve answers an unknown key
\* with are not put into the cache.
THEOREM UnknownUncached == Spec => []OnlyCreatedCached
<1>1. ResolverInv => OnlyCreatedCached
  BY DEF ResolverInv, Base
<1>2. QED
  BY <1>1, ResolverInvariance, PTL

\* OneResolvedPerEpoch: LoadOrStore gives all callers between two invalidations
\* the same Resolved, however many build one at once.
THEOREM OneResolved == Spec => []OneResolvedPerEpoch
<1>1. ResolverInv => OneResolvedPerEpoch
  BY DEF ResolverInv
<1>2. QED
  BY <1>1, ResolverInvariance, PTL

\* StaleHasCause: apart from the three causes it names, an entry is as new as
\* the projects table, for any number of adapters, replicas and admin requests.
THEOREM StaleExplained == Spec => []StaleHasCause
<1>1. ResolverInv => StaleHasCause
  BY DEF ResolverInv
<1>2. QED
  BY <1>1, ResolverInvariance, PTL
==============================================================================
