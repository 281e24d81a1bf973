----------------------------- MODULE ChainProofs -----------------------------
(***************************************************************************)
(* No middleware of a chain is skipped, and the deny list is asked before  *)
(* all of them, for every chain, override and list of recorded middlewares *)
(* that a configuration can have.                                          *)
(***************************************************************************)
EXTENDS ValidationChain, TLAPS

Kinds == Scanners \union {DenyList, MinAge}

\* A request in validation.
Context == [pc : {"idle", "run", "record", "done"}, scope : Scopes,
            art : Artifacts, chain : Seq(Entry), step : Nat, by : Outcomes,
            outage : BOOLEAN, known : BOOLEAN, blind : BOOLEAN, scans : Nat]

Typed ==
  /\ override \in [Projects -> Seq(Entry)]
  /\ denied \subseteq Scopes \X Artifacts /\ young \subseteq Artifacts
  /\ req \in [Requests -> Context]
  /\ faults \in 0..MaxFaults /\ writes \in 0..MaxWrites

\* A run never goes past the end of its chain.
WithinFor(q) == q.step \in 1..(Len(q.chain) + 1) /\ q.scans < q.step

-----------------------------------------------------------------------------
(* What the steps do to the request that takes them.                       *)

Others(r) == \A o \in Requests \ {r} : req'[o] = req[o]

\* All that stays as it was when a request walks on or is answered.
SameRun(r) ==
  /\ req' \in [Requests -> Context] /\ Others(r)
  /\ req'[r].scope = req[r].scope /\ req'[r].art = req[r].art
  /\ req'[r].chain = req[r].chain /\ (req'[r].known <=> req[r].known)

\* The request goes on with its next middleware.
WalksOn(r) ==
  /\ SameRun(r)
  /\ req'[r].step = req[r].step + 1 /\ req'[r].pc = req[r].pc
  /\ req'[r].by = req[r].by /\ (req'[r].outage <=> req[r].outage)

\* The run is over.
Stops(r) ==
  /\ SameRun(r)
  /\ req'[r].step = req[r].step /\ req'[r].scans = req[r].scans
  /\ (req'[r].blind <=> req[r].blind)

LEMMA Replaced ==
  ASSUME req \in [Requests -> Context], NEW r \in Requests, NEW s \in Context,
         s.scope = req[r].scope, s.art = req[r].art, s.chain = req[r].chain,
         s.known <=> req[r].known, req' = [req EXCEPT ![r] = s]
  PROVE  SameRun(r) /\ req'[r] = s
BY DEF SameRun, Others

LEMMA ContinueMoves ==
  ASSUME req \in [Requests -> Context], NEW r \in Requests,
         Continue(r)
  PROVE  WalksOn(r) /\ req'[r].scans = req[r].scans
         /\ (req'[r].blind <=> req[r].blind)
<1> DEFINE n == req[r].step + 1
           k == req[r].scans + 1
           s == [req[r] EXCEPT !.step = n]
<1>1. req[r] \in Context /\ n \in Nat /\ k \in Nat
  BY DEF Context
<1> HIDE DEF n, k
<1>2. /\ s \in Context /\ s.scope = req[r].scope /\ s.art = req[r].art
      /\ s.chain = req[r].chain /\ (s.known <=> req[r].known)
      /\ s.step = n /\ s.pc = req[r].pc /\ s.by = req[r].by
      /\ s.scans = req[r].scans
      /\ (s.outage <=> req[r].outage) /\ (s.blind <=> req[r].blind)
  BY <1>1 DEF Context
<1>3. req' = [req EXCEPT ![r] = s]
  BY DEF Continue, n
<1> HIDE DEF s
<1>4. SameRun(r) /\ req'[r] = s
  BY <1>2, <1>3, Replaced
<1>5. QED
  BY <1>2, <1>4 DEF WalksOn, n, k

LEMMA BlindMoves ==
  ASSUME req \in [Requests -> Context], NEW r \in Requests,
         req' = [req EXCEPT ![r].step = @ + 1, ![r].blind = TRUE]
  PROVE  WalksOn(r) /\ req'[r].scans = req[r].scans /\ req'[r].blind
<1> DEFINE n == req[r].step + 1
           k == req[r].scans + 1
           s == [req[r] EXCEPT !.step = n, !.blind = TRUE]
<1>1. req[r] \in Context /\ n \in Nat /\ k \in Nat
  BY DEF Context
<1> HIDE DEF n, k
<1>2. /\ s \in Context /\ s.scope = req[r].scope /\ s.art = req[r].art
      /\ s.chain = req[r].chain /\ (s.known <=> req[r].known)
      /\ s.step = n /\ s.pc = req[r].pc /\ s.by = req[r].by
      /\ s.scans = req[r].scans
      /\ (s.outage <=> req[r].outage) /\ s.blind
  BY <1>1 DEF Context
<1>3. req' = [req EXCEPT ![r] = s]
  BY DEF n, k
<1> HIDE DEF s
<1>4. SameRun(r) /\ req'[r] = s
  BY <1>2, <1>3, Replaced
<1>5. QED
  BY <1>2, <1>4 DEF WalksOn, n, k

LEMMA ScannedMoves ==
  ASSUME req \in [Requests -> Context], NEW r \in Requests,
         Scanned(r, 1)
  PROVE  WalksOn(r) /\ req'[r].scans = req[r].scans + 1
         /\ (req'[r].blind <=> req[r].blind)
<1> DEFINE n == req[r].step + 1
           k == req[r].scans + 1
           s == [req[r] EXCEPT !.step = n, !.scans = k]
<1>1. req[r] \in Context /\ n \in Nat /\ k \in Nat
  BY DEF Context
<1> HIDE DEF n, k
<1>2. /\ s \in Context /\ s.scope = req[r].scope /\ s.art = req[r].art
      /\ s.chain = req[r].chain /\ (s.known <=> req[r].known)
      /\ s.step = n /\ s.pc = req[r].pc /\ s.by = req[r].by
      /\ s.scans = k
      /\ (s.outage <=> req[r].outage) /\ (s.blind <=> req[r].blind)
  BY <1>1 DEF Context
<1>3. req' = [req EXCEPT ![r] = s]
  BY DEF Scanned, n, k
<1> HIDE DEF s
<1>4. SameRun(r) /\ req'[r] = s
  BY <1>2, <1>3, Replaced
<1>5. QED
  BY <1>2, <1>4 DEF WalksOn, n, k

LEMMA FailMoves ==
  ASSUME req \in [Requests -> Context], NEW r \in Requests,
         NEW outage \in BOOLEAN, Fail(r, outage), Current(r).type \in Kinds
  PROVE  /\ Stops(r) /\ req'[r].pc \in {"record", "done"}
         /\ req'[r].by = Current(r).type /\ (req'[r].outage <=> outage)
<1> DEFINE s == [req[r] EXCEPT !.by = Current(r).type, !.outage = outage,
                           !.pc = IF Recording THEN "record" ELSE "done"]
<1>1. req[r] \in Context
  OBVIOUS
<1>2. /\ s \in Context /\ s.scope = req[r].scope /\ s.art = req[r].art
      /\ s.chain = req[r].chain /\ (s.known <=> req[r].known)
      /\ s.step = req[r].step /\ s.pc \in {"record", "done"}
      /\ s.by = Current(r).type /\ s.scans = req[r].scans
      /\ (s.outage <=> outage) /\ (s.blind <=> req[r].blind)
  BY <1>1 DEF Context, Outcomes, Kinds
<1>3. req' = [req EXCEPT ![r] = s]
  BY DEF Fail
<1> HIDE DEF s
<1>4. SameRun(r) /\ req'[r] = s
  BY <1>2, <1>3, Replaced
<1>5. QED
  BY <1>2, <1>4 DEF Stops

LEMMA PassMoves ==
  ASSUME req \in [Requests -> Context], NEW r \in Requests,
         Pass(r)
  PROVE  /\ Stops(r) /\ req'[r].pc = "done" /\ req'[r].by = "passed"
         /\ (req'[r].outage <=> req[r].outage)
<1> DEFINE s == [req[r] EXCEPT !.pc = "done", !.by = "passed"]
<1>1. req[r] \in Context
  OBVIOUS
<1>2. /\ s \in Context /\ s.scope = req[r].scope /\ s.art = req[r].art
      /\ s.chain = req[r].chain /\ (s.known <=> req[r].known)
      /\ s.step = req[r].step /\ s.pc = "done" /\ s.by = "passed"
      /\ s.scans = req[r].scans
      /\ (s.outage <=> req[r].outage) /\ (s.blind <=> req[r].blind)
  BY <1>1 DEF Context, Outcomes
<1>3. req' = [req EXCEPT ![r] = s]
  BY DEF Pass
<1> HIDE DEF s
<1>4. SameRun(r) /\ req'[r] = s
  BY <1>2, <1>3, Replaced
<1>5. QED
  BY <1>2, <1>4 DEF Stops

LEMMA RecordMoves ==
  ASSUME req \in [Requests -> Context], NEW r \in Requests,
         Record(r)
  PROVE  /\ Stops(r) /\ req'[r].pc = "done" /\ req'[r].by = req[r].by
         /\ (req'[r].outage <=> req[r].outage)
<1> DEFINE s == [req[r] EXCEPT !.pc = "done"]
<1>1. req[r] \in Context
  OBVIOUS
<1>2. /\ s \in Context /\ s.scope = req[r].scope /\ s.art = req[r].art
      /\ s.chain = req[r].chain /\ (s.known <=> req[r].known)
      /\ s.step = req[r].step /\ s.pc = "done" /\ s.by = req[r].by
      /\ s.scans = req[r].scans
      /\ (s.outage <=> req[r].outage) /\ (s.blind <=> req[r].blind)
  BY <1>1 DEF Context
<1>3. req' = [req EXCEPT ![r] = s]
  BY DEF Record
<1> HIDE DEF s
<1>4. SameRun(r) /\ req'[r] = s
  BY <1>2, <1>3, Replaced
<1>5. QED
  BY <1>2, <1>4 DEF Stops

\* The fields of the contexts.
LEMMA ContextTypes ==
  ASSUME req \in [Requests -> Context]
  PROVE  \A q \in Requests :
           /\ req[q].pc \in {"idle", "run", "record", "done"}
           /\ req[q].scope \in Scopes /\ req[q].art \in Artifacts
           /\ req[q].chain \in Seq(Entry) /\ Len(req[q].chain) \in Nat
           /\ req[q].step \in Nat /\ req[q].scans \in Nat
           /\ req[q].by \in Outcomes
BY DEF Context

-----------------------------------------------------------------------------
(* Chains.                                                                 *)

\* What ChainOf makes of a configured chain starts with the deny-list check.
LEMMA HookLeads ==
  ASSUME NEW chain \in Seq(Entry)
  PROVE  /\ Hooked(chain) \in Seq(Entry) /\ Len(Hooked(chain)) >= 1
         /\ Hooked(chain)[1].type = DenyList
         /\ Hooked(chain)[1] = Hook \/ (chain # <<>> /\ Hooked(chain) = chain)
<1>1. Hook \in Entry
  BY DEF Hook, Entry
<1> DEFINE h == Hook
<1>2. h \in Entry /\ h.type = DenyList
  BY <1>1 DEF Hook
<1> HIDE DEF h
<1>3. CASE chain = <<>> \/ Head(chain).type # DenyList
  <2>1. Hooked(chain) = <<h>> \o chain
    BY <1>3 DEF Hooked, h
  <2>2. <<h>> \o chain \in Seq(Entry) /\ Len(<<h>> \o chain) >= 1
        /\ (<<h>> \o chain)[1] = h
    BY <1>2
  <2>3. QED
    BY <1>2, <2>1, <2>2 DEF h
<1>4. CASE ~(chain = <<>> \/ Head(chain).type # DenyList)
  <2>1. Hooked(chain) = chain
    BY <1>4 DEF Hooked
  <2>2. Len(chain) >= 1 /\ chain[1] = Head(chain)
    BY <1>4
  <2>3. QED
    BY <1>4, <2>1, <2>2
<1>5. QED
  BY <1>3, <1>4

LEMMA ChainTypes ==
  ASSUME Typed, NEW s \in Scopes
  PROVE  /\ ChainOf(s) \in Seq(Entry) /\ Len(ChainOf(s)) >= 1
         /\ ChainOf(s)[1].type = DenyList
<1>1. (IF s = Default THEN Global
       ELSE IF override[s] = <<>> THEN Global ELSE override[s]) \in Seq(Entry)
  BY ValidationChainAssumption DEF Typed, Scopes
<1>2. QED
  BY <1>1, HookLeads DEF ChainOf

LEMMA CurrentTypes ==
  ASSUME req \in [Requests -> Context], NEW r \in Requests, WithinFor(req[r]),
         Running(r)
  PROVE  Current(r) \in Entry /\ Current(r).type \in Kinds
<1>1. req[r].step \in 1..Len(req[r].chain) /\ req[r].chain \in Seq(Entry)
  BY ContextTypes DEF WithinFor, Running
<1>2. Current(r) \in Entry
  BY <1>1 DEF Current
<1>3. QED
  BY <1>2 DEF Entry, Kinds

LEMMA BeginMoves ==
  ASSUME Typed, NEW r \in Requests, NEW s \in Scopes, NEW a \in Artifacts,
         Begin(r, s, a)
  PROVE  /\ req' \in [Requests -> Context] /\ Others(r)
         /\ req'[r].pc = "run" /\ req'[r].scope = s /\ req'[r].art = a
         /\ req'[r].chain = ChainOf(s) /\ req'[r].step = 1 /\ req'[r].scans = 0
         /\ req'[r].by = "none" /\ ~req'[r].outage /\ ~req'[r].blind
         /\ (req'[r].known <=> <<s, a>> \in denied)
<1> DEFINE c == ChainOf(s)
           k == <<s, a>> \in denied
           q == [Idle EXCEPT !.pc = "run", !.scope = s, !.art = a,
                             !.chain = c, !.known = k]
<1>1. c \in Seq(Entry) /\ k \in BOOLEAN
  BY ChainTypes
<1>2. req' = [req EXCEPT ![r] = q]
  BY DEF Begin
<1> HIDE DEF c, k
<1>3. /\ q \in Context /\ q.pc = "run" /\ q.scope = s /\ q.art = a
      /\ q.chain = c /\ q.step = 1 /\ q.scans = 0 /\ q.by = "none"
      /\ ~q.outage /\ ~q.blind /\ (q.known <=> k)
  BY <1>1 DEF Idle, Context, Outcomes
<1> HIDE DEF q
<1>4. req' \in [Requests -> Context] /\ Others(r) /\ req'[r] = q
  BY <1>2, <1>3 DEF Typed, Others
<1>5. QED
  BY <1>3, <1>4 DEF c, k

-----------------------------------------------------------------------------
(* Types, and the place of a run in its chain.                             *)

LEMMA FaultsGrow ==
  ASSUME faults \in 0..MaxFaults, Works \/ Fails
  PROVE  faults' \in 0..MaxFaults /\ faults' >= faults
BY ValidationChainAssumption DEF Works, Fails

Within == \A r \in Requests : WithinFor(req[r])

LEMMA TypeStep ==
  ASSUME Typed, Within, [Next]_vars
  PROVE  (Typed /\ Within)'
<1> DEFINE P == req' \in [Requests -> Context] /\ Within'
<1> USE DEF Within
<1>0. \A r \in Requests : WithinFor(req[r])
  OBVIOUS
<1>1. ASSUME NEW r \in Requests, WalksOn(r), Running(r),
             req'[r].scans \in {req[r].scans, req[r].scans + 1}
      PROVE  P
  <2>1. WithinFor(req'[r])
    BY <1>1, ContextTypes DEF Typed, WalksOn, SameRun, WithinFor, Running
  <2>2. QED
    BY <1>1, <2>1 DEF WalksOn, SameRun, Others
<1>2. ASSUME NEW r \in Requests, Stops(r)
      PROVE  P
  <2>1. WithinFor(req'[r])
    BY <1>2 DEF Stops, SameRun, WithinFor
  <2>2. QED
    BY <1>2, <2>1 DEF Stops, SameRun, Others
<1>3. ASSUME NEW r \in Requests, NEW s \in Scopes, NEW a \in Artifacts,
             Begin(r, s, a)
      PROVE  (Typed /\ Within)'
  <2>1. P
    <3>1. /\ req' \in [Requests -> Context] /\ Others(r)
          /\ req'[r].chain = ChainOf(s) /\ req'[r].step = 1 /\ req'[r].scans = 0
      BY <1>3, BeginMoves
    <3>2. Len(ChainOf(s)) \in Nat
      BY ChainTypes
    <3>3. WithinFor(req'[r])
      BY <3>1, <3>2 DEF WithinFor
    <3>4. QED
      BY <3>1, <3>3 DEF Others
  <2>2. QED
    BY <1>3, <2>1 DEF Begin, Typed, world
<1>4. ASSUME NEW r \in Requests, DenyCheck(r)
      PROVE  (Typed /\ Within)'
  <2>1. P
    BY <1>0, <1>1, <1>2, <1>4, ContinueMoves, FailMoves, BlindMoves, CurrentTypes
       DEF Typed, DenyCheck
  <2>2. faults' \in 0..MaxFaults
    BY <1>4, FaultsGrow DEF DenyCheck, Typed
  <2>3. QED
    BY <1>4, <2>1, <2>2 DEF DenyCheck, Typed, world
<1>5. ASSUME NEW r \in Requests, AgeCheck(r)
      PROVE  (Typed /\ Within)'
  <2>1. P
    BY <1>0, <1>1, <1>2, <1>5, ContinueMoves, FailMoves, CurrentTypes
       DEF Typed, AgeCheck
  <2>2. QED
    BY <1>5, <2>1 DEF AgeCheck, Typed, world
<1>6. ASSUME NEW r \in Requests, Scan(r)
      PROVE  (Typed /\ Within)'
  <2>1. P
    BY <1>0, <1>1, <1>2, <1>6, ScannedMoves, FailMoves, CurrentTypes
       DEF Typed, Scan
  <2>2. faults' \in 0..MaxFaults
    BY <1>6, FaultsGrow DEF Scan, Typed
  <2>3. QED
    BY <1>6, <2>1, <2>2 DEF Scan, Typed, world
<1>7. ASSUME NEW r \in Requests, Pass(r)
      PROVE  (Typed /\ Within)'
  <2>1. P
    BY <1>2, <1>7, PassMoves DEF Typed
  <2>2. QED
    BY <1>7, <2>1 DEF Pass, Typed, world
<1>8. ASSUME NEW r \in Requests, Record(r)
      PROVE  (Typed /\ Within)'
  <2>1. P
    BY <1>2, <1>8, RecordMoves DEF Typed
  <2>2. <<req[r].scope, req[r].art>> \in Scopes \X Artifacts
    BY ContextTypes DEF Typed
  <2>3. faults' \in 0..MaxFaults
    BY <1>8, FaultsGrow DEF Record, Typed
  <2>4. denied' \subseteq Scopes \X Artifacts
    BY <1>8, <2>2 DEF Record, Typed
  <2>5. QED
    BY <1>8, <2>1, <2>3, <2>4 DEF Record, Typed
<1>9. ASSUME NEW a \in Artifacts, Mature(a)
      PROVE  (Typed /\ Within)'
  BY <1>9 DEF Mature, Typed
<1>10. ASSUME NEW p \in Projects, NEW chain \in Overrides, Configure(p, chain)
       PROVE  (Typed /\ Within)'
  BY <1>10, ValidationChainAssumption DEF Configure, Typed
<1>11. CASE UNCHANGED vars
  BY <1>11 DEF vars, Typed
<1>12. QED
  BY <1>3, <1>4, <1>5, <1>6, <1>7, <1>8, <1>9, <1>10, <1>11 DEF Next

-----------------------------------------------------------------------------
(* What a run has found out so far.                                        *)

\* A rejection is a finding of the scanner that is named, or its outage, and
\* malware-scan has none.
VerdictFor(q) ==
  /\ q.pc \in {"idle", "run"} => q.by = "none" /\ ~q.outage
  /\ q.outage => q.by \in Scanners \ {"malware-scan"}
  /\ q.pc = "record" /\ q.by \in Scanners /\ ~q.outage => Condemns(q.by, q.art)

Verdicts == \A r \in Requests : VerdictFor(req[r])

LEMMA VerdictStep ==
  ASSUME Typed, Within, Verdicts, [Next]_vars
  PROVE  Verdicts'
<1> USE DEF Within, Verdicts
<1>0. \A r \in Requests : WithinFor(req[r])
  OBVIOUS
<1>1. ASSUME NEW r \in Requests, WalksOn(r), Running(r)
      PROVE  Verdicts'
  <2>1. VerdictFor(req'[r])
    BY <1>1 DEF WalksOn, VerdictFor, Running, At
  <2>2. QED
    BY <1>1, <2>1 DEF WalksOn, SameRun, Others
<1>2. ASSUME NEW r \in Requests, Stops(r), VerdictFor(req'[r])
      PROVE  Verdicts'
  BY <1>2 DEF Stops, SameRun, Others
<1>3. ASSUME NEW r \in Requests, NEW s \in Scopes, NEW a \in Artifacts,
             Begin(r, s, a)
      PROVE  Verdicts'
  <2>1. Others(r) /\ req'[r].pc = "run" /\ req'[r].by = "none" /\ ~req'[r].outage
    BY <1>3, BeginMoves
  <2>2. VerdictFor(req'[r])
    BY <2>1 DEF VerdictFor
  <2>3. QED
    BY <2>1, <2>2 DEF Others
<1>4. ASSUME NEW r \in Requests, DenyCheck(r)
      PROVE  Verdicts'
  <2>1. Running(r) /\ Current(r).type \in Kinds /\ Current(r).type = DenyList
    BY <1>0, <1>4, CurrentTypes DEF Typed, DenyCheck
  <2>2. CASE Fail(r, FALSE)
    <3>1. Stops(r) /\ req'[r].by = DenyList /\ ~req'[r].outage
          /\ req'[r].pc \in {"record", "done"}
      BY <2>1, <2>2, FailMoves DEF Typed
    <3>2. VerdictFor(req'[r])
      BY <3>1 DEF VerdictFor, Scanners, DenyList
    <3>3. QED
      BY <1>2, <3>1, <3>2
  <2>3. CASE ~Fail(r, FALSE)
    BY <1>1, <1>4, <2>1, <2>3, ContinueMoves, BlindMoves DEF DenyCheck, Typed
  <2>4. QED
    BY <2>2, <2>3
<1>5. ASSUME NEW r \in Requests, AgeCheck(r)
      PROVE  Verdicts'
  <2>1. Running(r) /\ Current(r).type \in Kinds /\ Current(r).type = MinAge
    BY <1>0, <1>5, CurrentTypes DEF Typed, AgeCheck
  <2>2. CASE Fail(r, FALSE)
    <3>1. Stops(r) /\ req'[r].by = MinAge /\ ~req'[r].outage
          /\ req'[r].pc \in {"record", "done"}
      BY <2>1, <2>2, FailMoves DEF Typed
    <3>2. VerdictFor(req'[r])
      BY <3>1 DEF VerdictFor, Scanners, MinAge
    <3>3. QED
      BY <1>2, <3>1, <3>2
  <2>3. CASE ~Fail(r, FALSE)
    BY <1>1, <1>5, <2>1, <2>3, ContinueMoves DEF AgeCheck, Typed
  <2>4. QED
    BY <2>2, <2>3
<1>6. ASSUME NEW r \in Requests, Scan(r)
      PROVE  Verdicts'
  <2>1. Running(r) /\ Current(r).type \in Kinds /\ Current(r).type \in Scanners
    BY <1>0, <1>6, CurrentTypes DEF Typed, Scan
  <2>2. CASE Blocks(Current(r), req[r].art) /\ Fail(r, FALSE)
    <3>1. Stops(r) /\ req'[r].by = Current(r).type /\ ~req'[r].outage
          /\ req'[r].pc \in {"record", "done"} /\ req'[r].art = req[r].art
      BY <2>1, <2>2, FailMoves DEF Typed, Stops, SameRun
    <3>2. VerdictFor(req'[r])
      BY <2>2, <3>1 DEF VerdictFor, Blocks
    <3>3. QED
      BY <1>2, <3>1, <3>2
  <2>3. CASE Current(r).type # "malware-scan" /\ Fail(r, TRUE)
    <3>1. Stops(r) /\ req'[r].by = Current(r).type /\ req'[r].outage
          /\ req'[r].pc \in {"record", "done"}
      BY <2>1, <2>3, FailMoves DEF Typed
    <3>2. VerdictFor(req'[r])
      BY <2>1, <2>3, <3>1 DEF VerdictFor
    <3>3. QED
      BY <1>2, <3>1, <3>2
  <2>4. CASE Scanned(r, 1)
    BY <1>1, <2>1, <2>4, ScannedMoves DEF Typed
  <2>5. QED
    BY <1>6, <2>2, <2>3, <2>4 DEF Scan
<1>7. ASSUME NEW r \in Requests, Pass(r)
      PROVE  Verdicts'
  <2>1. Stops(r) /\ req'[r].pc = "done" /\ (req'[r].outage <=> req[r].outage)
    BY <1>7, PassMoves DEF Typed
  <2>2. ~req[r].outage
    BY <1>7 DEF VerdictFor, Pass, At
  <2>3. VerdictFor(req'[r])
    BY <2>1, <2>2 DEF VerdictFor
  <2>4. QED
    BY <1>2, <2>1, <2>3
<1>8. ASSUME NEW r \in Requests, Record(r)
      PROVE  Verdicts'
  <2>1. Stops(r) /\ req'[r].pc = "done" /\ req'[r].by = req[r].by
        /\ (req'[r].outage <=> req[r].outage)
    BY <1>8, RecordMoves DEF Typed
  <2>2. VerdictFor(req'[r])
    BY <2>1 DEF VerdictFor
  <2>3. QED
    BY <1>2, <2>1, <2>2
<1>9. ASSUME UNCHANGED req
      PROVE  Verdicts'
  BY <1>9
<1>10. QED
  BY <1>3, <1>4, <1>5, <1>6, <1>7, <1>8, <1>9 DEF Next, Mature, Configure, vars

-----------------------------------------------------------------------------
(* The walk: every middleware behind the current one has let the artifact  *)
(* pass, and would do so again.                                            *)

Cleared(q, m, fresh, trouble) ==
  /\ m.type = MinAge => q.art \notin fresh
  /\ m.type \in Scanners /\ Blocks(m, q.art) =>
       m.type # "malware-scan" /\ m.onError = "fail_open" /\ trouble > 0

WalkedFor(q, fresh, trouble) ==
  /\ \A i \in 1..(q.step - 1) : Cleared(q, q.chain[i], fresh, trouble)
  /\ q.by = "passed" => q.step > Len(q.chain)

Walked == \A r \in Requests : WalkedFor(req[r], young, faults)

\* Versions only grow older, and outages are not forgotten.
LEMMA WalkedStays ==
  ASSUME NEW q, NEW f1, NEW f2 \in SUBSET f1, NEW t1 \in Nat, NEW t2 \in Nat,
         t2 >= t1, WalkedFor(q, f1, t1)
  PROVE  WalkedFor(q, f2, t2)
BY DEF WalkedFor, Cleared

\* A request that is passed on by its current middleware has walked over it.
LEMMA WalkedOver ==
  ASSUME NEW p \in Context, NEW q \in Context, NEW f, NEW t,
         WithinFor(p), p.step <= Len(p.chain), WalkedFor(p, f, t),
         q.chain = p.chain, q.art = p.art, q.step = p.step + 1,
         q.by # "passed", Cleared(p, p.chain[p.step], f, t)
  PROVE  WalkedFor(q, f, t)
<1>1. p.step \in Nat /\ p.step >= 1
  BY DEF Context, WithinFor
<1>2. ASSUME NEW i \in 1..(q.step - 1)
      PROVE  Cleared(q, q.chain[i], f, t)
  <2>1. i = p.step \/ i \in 1..(p.step - 1)
    BY <1>1, <1>2
  <2>2. Cleared(p, p.chain[i], f, t)
    BY <2>1 DEF WalkedFor
  <2>3. QED
    BY <2>2 DEF Cleared
<1>3. QED
  BY <1>2 DEF WalkedFor

LEMMA WalkStep ==
  ASSUME Typed, Within, Verdicts, Walked, [Next]_vars
  PROVE  Walked'
<1> USE DEF Within, Verdicts, Walked
<1>0. /\ \A r \in Requests : WithinFor(req[r]) /\ VerdictFor(req[r])
      /\ faults \in Nat /\ young \in SUBSET young
  BY ValidationChainAssumption DEF Typed
<1>1. young' \in SUBSET young /\ faults' \in Nat /\ faults' >= faults
  <2>1. young' \in SUBSET young
    BY <1>0 DEF Next, Begin, DenyCheck, AgeCheck, Scan, Pass, Record, Mature, Configure,
           vars, world
  <2>2. faults' = faults \/ Works \/ Fails
    BY DEF Next, Begin, DenyCheck, AgeCheck, Scan, Pass, Record, Mature, Configure,
           vars, Works
  <2>3. faults' >= faults /\ faults' \in Nat
    BY <1>0, <2>2, FaultsGrow DEF Typed
  <2>4. QED
    BY <2>1, <2>3
<1>2. \A r \in Requests : WalkedFor(req[r], young', faults')
  BY <1>0, <1>1, WalkedStays
<1>3. ASSUME NEW r \in Requests, WalksOn(r), Running(r),
             Cleared(req[r], Current(r), young', faults')
      PROVE  Walked'
  <2>1. req[r] \in Context /\ req'[r] \in Context /\ WithinFor(req[r])
    BY <1>0, <1>3 DEF Typed, WalksOn, SameRun
  <2>2. req'[r].by # "passed"
    BY <1>0, <1>3 DEF WalksOn, VerdictFor, Running, At
  <2>3. WalkedFor(req'[r], young', faults')
    BY <1>2, <1>3, <2>1, <2>2, WalkedOver DEF WalksOn, SameRun, Running, Current
  <2>4. QED
    BY <1>2, <1>3, <2>3 DEF WalksOn, SameRun, Others
<1>4. ASSUME NEW r \in Requests, Stops(r),
             req'[r].by = "passed" => req[r].step > Len(req[r].chain)
      PROVE  Walked'
  <2>1. WalkedFor(req'[r], young', faults')
    BY <1>2, <1>4 DEF Stops, SameRun, WalkedFor, Cleared
  <2>2. QED
    BY <1>2, <1>4, <2>1 DEF Stops, SameRun, Others
<1>5. ASSUME NEW r \in Requests, NEW s \in Scopes, NEW a \in Artifacts,
             Begin(r, s, a)
      PROVE  Walked'
  <2>1. Others(r) /\ req'[r].step = 1 /\ req'[r].by = "none"
    BY <1>5, BeginMoves
  <2>2. WalkedFor(req'[r], young', faults')
    BY <2>1 DEF WalkedFor
  <2>3. QED
    BY <1>2, <2>1, <2>2 DEF Others
<1>6. ASSUME NEW r \in Requests, NEW outage \in BOOLEAN, Running(r), Fail(r, outage)
      PROVE  Walked'
  <2>1. Current(r).type \in Kinds
    BY <1>0, <1>6, CurrentTypes DEF Typed
  <2>2. Stops(r) /\ req'[r].by = Current(r).type
    BY <1>6, <2>1, FailMoves DEF Typed
  <2>3. req'[r].by # "passed"
    BY <2>1, <2>2 DEF Kinds, Scanners, DenyList, MinAge
  <2>4. QED
    BY <1>4, <2>2, <2>3
<1>7. ASSUME NEW r \in Requests, DenyCheck(r)
      PROVE  Walked'
  <2>1. Running(r) /\ Current(r).type = DenyList
    BY <1>7 DEF DenyCheck
  <2>2. Cleared(req[r], Current(r), young', faults')
    BY <2>1 DEF Cleared, DenyList, MinAge, Scanners
  <2>3. CASE Fail(r, FALSE)
    BY <1>6, <2>1, <2>3
  <2>4. CASE ~Fail(r, FALSE)
    BY <1>3, <1>7, <2>1, <2>2, <2>4, ContinueMoves, BlindMoves DEF DenyCheck, Typed
  <2>5. QED
    BY <2>3, <2>4
<1>8. ASSUME NEW r \in Requests, AgeCheck(r)
      PROVE  Walked'
  <2>1. Running(r) /\ Current(r).type = MinAge
    BY <1>8 DEF AgeCheck
  <2>2. CASE Fail(r, FALSE)
    BY <1>6, <2>1, <2>2
  <2>3. CASE req[r].art \notin young /\ Continue(r)
    <3>1. Cleared(req[r], Current(r), young', faults')
      BY <1>1, <2>1, <2>3 DEF Cleared, MinAge, Scanners
    <3>2. QED
      BY <1>3, <2>1, <2>3, <3>1, ContinueMoves DEF Typed
  <2>4. QED
    BY <1>8, <2>2, <2>3 DEF AgeCheck
<1>9. ASSUME NEW r \in Requests, Scan(r)
      PROVE  Walked'
  <2>1. Running(r) /\ Current(r).type \in Scanners
    BY <1>9 DEF Scan
  <2>2. CASE Fail(r, FALSE) \/ Fail(r, TRUE)
    BY <1>6, <2>1, <2>2
  <2>3. CASE Scanned(r, 1) /\ ~Blocks(Current(r), req[r].art)
    <3>1. Cleared(req[r], Current(r), young', faults')
      BY <2>1, <2>3 DEF Cleared, MinAge, Scanners
    <3>2. QED
      BY <1>3, <2>1, <2>3, <3>1, ScannedMoves DEF Typed
  <2>4. CASE /\ Scanned(r, 1) /\ Current(r).type # "malware-scan" /\ Fails
             /\ Current(r).onError # "fail_closed"
    <3>1. Current(r) \in Entry
      BY <1>0, <2>1, CurrentTypes DEF Typed
    <3>2. Current(r).onError = "fail_open"
      BY <2>4, <3>1 DEF Entry
    <3>3. faults' > 0
      BY <1>0, <2>4 DEF Fails
    <3>4. Cleared(req[r], Current(r), young', faults')
      BY <2>1, <2>4, <3>2, <3>3 DEF Cleared, MinAge, Scanners
    <3>5. QED
      BY <1>3, <2>1, <2>4, <3>4, ScannedMoves DEF Typed
  <2>5. QED
    BY <1>9, <2>2, <2>3, <2>4 DEF Scan
<1>10. ASSUME NEW r \in Requests, Pass(r)
       PROVE  Walked'
  <2>1. Stops(r) /\ req[r].step > Len(req[r].chain)
    BY <1>10, PassMoves DEF Typed, Pass
  <2>2. QED
    BY <1>4, <2>1
<1>11. ASSUME NEW r \in Requests, Record(r)
       PROVE  Walked'
  <2>1. Stops(r) /\ req'[r].by = req[r].by
    BY <1>11, RecordMoves DEF Typed
  <2>2. QED
    BY <1>4, <2>1 DEF WalkedFor
<1>12. ASSUME UNCHANGED req
       PROVE  Walked'
  BY <1>2, <1>12
<1>13. QED
  BY <1>5, <1>7, <1>8, <1>9, <1>10, <1>11, <1>12 DEF Next, Mature, Configure, vars

-----------------------------------------------------------------------------
(* The deny list is asked first.                                           *)

\* No configured chain starts with a deny-list check that is switched off.
HooksEnabled ==
  \A chain \in Overrides \union {Global} :
    chain # <<>> /\ Head(chain).type = DenyList => Head(chain).enabled

Configured == \A p \in Projects : override[p] \in Overrides \union {<<>>}

DenialFor(q, list) ==
  /\ q.known => <<q.scope, q.art>> \in list
  /\ q.pc # "idle" => /\ Len(q.chain) >= 1
                      /\ q.chain[1].type = DenyList /\ q.chain[1].enabled
  /\ q.known /\ ~q.blind /\ q.pc = "run" => q.step = 1
  /\ q.known /\ ~q.blind /\ q.pc \in {"record", "done"}
       => q.by = DenyList /\ q.scans = 0

DenialsAsked == Configured /\ \A r \in Requests : DenialFor(req[r], denied)

LEMMA HookEnabled ==
  ASSUME Typed, Configured, HooksEnabled, NEW s \in Scopes
  PROVE  ChainOf(s)[1].type = DenyList /\ ChainOf(s)[1].enabled
<1> DEFINE c == IF s = Default THEN Global
                ELSE IF override[s] = <<>> THEN Global ELSE override[s]
<1>1. c \in Seq(Entry) /\ (c = <<>> \/ c \in Overrides \union {Global})
  BY ValidationChainAssumption DEF Typed, Configured, Scopes
<1>2. ChainOf(s) = Hooked(c)
  BY DEF ChainOf
<1> HIDE DEF c
<1>3. Hooked(c)[1].type = DenyList
  BY <1>1, HookLeads
<1>4. CASE Hooked(c)[1] = Hook
  BY <1>2, <1>3, <1>4 DEF Hook
<1>5. CASE c # <<>> /\ Hooked(c) = c
  <2>1. Head(c) = c[1]
    BY <1>1, <1>5
  <2>2. c[1].enabled
    BY <1>1, <1>3, <1>5, <2>1 DEF HooksEnabled
  <2>3. QED
    BY <1>2, <1>3, <1>5, <2>2
<1>6. QED
  BY <1>1, <1>4, <1>5, HookLeads

LEMMA DenialStep ==
  ASSUME Typed, Within, DenialsAsked, HooksEnabled, [Next]_vars
  PROVE  DenialsAsked'
<1> USE DEF Within, DenialsAsked
<1>0. \A r \in Requests : WithinFor(req[r])
  OBVIOUS
<1>1. denied \subseteq denied'
  BY DEF Next, Begin, DenyCheck, AgeCheck, Scan, Pass, Record, Mature, Configure,
         vars, world
<1>2. Configured'
  <2>1. CASE UNCHANGED override
    BY <2>1 DEF Configured
  <2>2. ASSUME NEW p \in Projects, NEW chain \in Overrides, Configure(p, chain)
        PROVE  Configured'
    BY <2>2 DEF Configure, Configured, Typed
  <2>3. QED
    BY <2>1, <2>2 DEF Next, Begin, DenyCheck, AgeCheck, Scan, Pass, Record, Mature,
           vars, world
<1>3. \A r \in Requests : DenialFor(req[r], denied')
  BY <1>1 DEF DenialFor
\* Past the first middleware, or at one that is not the check, nothing is
\* known, or the lookup has failed.
<1>4. ASSUME NEW r \in Requests, WalksOn(r), Running(r),
             req[r].known /\ ~req[r].blind => req'[r].blind,
             req[r].blind => req'[r].blind
      PROVE  DenialsAsked'
  <2>1. DenialFor(req'[r], denied')
    BY <1>3, <1>4 DEF WalksOn, SameRun, DenialFor, Running, At
  <2>2. QED
    BY <1>2, <1>3, <1>4, <2>1 DEF WalksOn, SameRun, Others
<1>5. ASSUME NEW r \in Requests, Stops(r), req[r].pc # "idle",
             req'[r].pc \in {"record", "done"},
             req[r].known /\ ~req[r].blind => req'[r].by = DenyList /\ req[r].scans = 0
      PROVE  DenialsAsked'
  <2>1. DenialFor(req'[r], denied')
    BY <1>3, <1>5 DEF Stops, SameRun, DenialFor
  <2>2. QED
    BY <1>2, <1>3, <1>5, <2>1 DEF Stops, SameRun, Others
<1>6. ASSUME NEW r \in Requests, Running(r), Current(r).type # DenyList
      PROVE  ~(req[r].known /\ ~req[r].blind)
  BY <1>6 DEF DenialFor, Running, At, Current
<1>7. ASSUME NEW r \in Requests, NEW outage \in BOOLEAN, Running(r), Fail(r, outage)
      PROVE  DenialsAsked'
  <2>1. Current(r).type \in Kinds
    BY <1>0, <1>7, CurrentTypes DEF Typed
  <2>2. Stops(r) /\ req'[r].by = Current(r).type /\ req'[r].pc \in {"record", "done"}
    BY <1>7, <2>1, FailMoves DEF Typed
  <2>3. req[r].known /\ ~req[r].blind => req[r].step = 1 /\ req[r].scans < req[r].step
        /\ req[r].scans \in Nat
    BY <1>0, <1>7, ContextTypes DEF DenialFor, Running, At, WithinFor, Typed
  <2>4. req[r].known /\ ~req[r].blind => req'[r].by = DenyList /\ req[r].scans = 0
    BY <1>6, <1>7, <2>2, <2>3
  <2>5. QED
    BY <1>5, <1>7, <2>2, <2>4 DEF Running, At
<1>8. ASSUME NEW r \in Requests, NEW s \in Scopes, NEW a \in Artifacts,
             Begin(r, s, a)
      PROVE  DenialsAsked'
  <2>1. /\ Others(r) /\ req'[r].pc = "run" /\ req'[r].scope = s /\ req'[r].art = a
        /\ req'[r].chain = ChainOf(s) /\ req'[r].step = 1
        /\ (req'[r].known <=> <<s, a>> \in denied)
    BY <1>8, BeginMoves
  <2>2. DenialFor(req'[r], denied')
    BY <1>1, <2>1, HookEnabled, ChainTypes DEF DenialFor
  <2>3. QED
    BY <1>2, <1>3, <2>1, <2>2 DEF Others
<1>9. ASSUME NEW r \in Requests, DenyCheck(r)
      PROVE  DenialsAsked'
  <2>1. Running(r) /\ Current(r).type = DenyList
    BY <1>9 DEF DenyCheck
  <2>2. CASE Fail(r, FALSE)
    BY <1>7, <2>1, <2>2
  <2>3. CASE Continue(r)
    <3>1. WalksOn(r) /\ (req'[r].blind <=> req[r].blind)
      BY <2>3, ContinueMoves DEF Typed
    <3>2. ~Fail(r, FALSE) => ~(req[r].known /\ ~req[r].blind)
      <4> SUFFICES ASSUME ~Fail(r, FALSE), req[r].known, ~req[r].blind
                   PROVE  FALSE
        OBVIOUS
      <4>1. Current(r).enabled /\ <<req[r].scope, req[r].art>> \in denied
        BY <2>1 DEF DenialFor, Running, At, Current
      <4>2. req'[r].blind
        BY <1>9, <4>1, BlindMoves DEF DenyCheck, Typed
      <4>3. QED
        BY <3>1, <4>2
    <3>3. CASE Fail(r, FALSE)
      BY <1>7, <2>1, <3>3
    <3>4. CASE ~Fail(r, FALSE)
      BY <1>4, <2>1, <3>1, <3>2, <3>4
    <3>5. QED
      BY <3>3, <3>4
  <2>4. CASE req' = [req EXCEPT ![r].step = @ + 1, ![r].blind = TRUE]
    BY <1>4, <2>1, <2>4, BlindMoves DEF Typed
  <2>5. QED
    BY <1>9, <2>2, <2>3, <2>4 DEF DenyCheck
<1>10. ASSUME NEW r \in Requests, AgeCheck(r)
       PROVE  DenialsAsked'
  <2>1. Running(r) /\ Current(r).type # DenyList
    BY <1>10 DEF AgeCheck, MinAge, DenyList
  <2>2. CASE Fail(r, FALSE)
    BY <1>7, <2>1, <2>2
  <2>3. CASE Continue(r)
    BY <1>4, <1>6, <2>1, <2>3, ContinueMoves DEF Typed
  <2>4. QED
    BY <1>10, <2>2, <2>3 DEF AgeCheck
<1>11. ASSUME NEW r \in Requests, Scan(r)
       PROVE  DenialsAsked'
  <2>1. Running(r) /\ Current(r).type # DenyList
    BY <1>11 DEF Scan, Scanners, DenyList
  <2>2. CASE Fail(r, FALSE) \/ Fail(r, TRUE)
    BY <1>7, <2>1, <2>2
  <2>3. CASE Scanned(r, 1)
    BY <1>4, <1>6, <2>1, <2>3, ScannedMoves DEF Typed
  <2>4. QED
    BY <1>11, <2>2, <2>3 DEF Scan
<1>12. ASSUME NEW r \in Requests, Pass(r)
       PROVE  DenialsAsked'
  <2>1. Stops(r) /\ req'[r].pc = "done"
    BY <1>12, PassMoves DEF Typed
  <2>2. req[r].pc = "run" /\ req[r].step > Len(req[r].chain)
    BY <1>12 DEF Pass, At
  <2>3. ~(req[r].known /\ ~req[r].blind)
    <3>1. Len(req[r].chain) \in Nat /\ Len(req[r].chain) >= 1
      BY <2>2, ContextTypes DEF DenialFor, Typed
    <3>2. req[r].step # 1
      BY <2>2, <3>1
    <3>3. QED
      BY <2>2, <3>2 DEF DenialFor
  <2>4. QED
    BY <1>5, <2>1, <2>2, <2>3
<1>13. ASSUME NEW r \in Requests, Record(r)
       PROVE  DenialsAsked'
  <2>1. Stops(r) /\ req'[r].pc = "done" /\ req'[r].by = req[r].by
    BY <1>13, RecordMoves DEF Typed
  <2>2. req[r].pc = "record"
    BY <1>13 DEF Record, At
  <2>3. QED
    BY <1>5, <2>1, <2>2 DEF DenialFor
<1>14. ASSUME UNCHANGED req
       PROVE  DenialsAsked'
  BY <1>2, <1>3, <1>14
<1>15. QED
  BY <1>8, <1>9, <1>10, <1>11, <1>12, <1>13, <1>14 DEF Next, Mature, Configure, vars

-----------------------------------------------------------------------------
(* The theorems.                                                           *)

LEMMA InitInv == Init => Typed /\ Within /\ Verdicts /\ Walked /\ DenialsAsked
<1> SUFFICES ASSUME Init
             PROVE  Typed /\ Within /\ Verdicts /\ Walked /\ DenialsAsked
  OBVIOUS
<1>1. Idle \in Context
  BY ValidationChainAssumption DEF Idle, Context, Scopes, Outcomes
<1>2. /\ Idle.pc = "idle" /\ Idle.step = 1 /\ Idle.scans = 0 /\ Len(Idle.chain) = 0
      /\ Idle.by = "none" /\ ~Idle.outage /\ ~Idle.known /\ ~Idle.blind
  BY DEF Idle
<1> HIDE DEF Idle
<1>3. \A r \in Requests : req[r] = Idle
  BY DEF Init
<1>4. Typed
  BY <1>1, ValidationChainAssumption DEF Init, Typed
<1>5. WithinFor(Idle) /\ VerdictFor(Idle) /\ WalkedFor(Idle, young, faults)
      /\ DenialFor(Idle, denied)
  BY <1>2 DEF WithinFor, VerdictFor, WalkedFor, DenialFor
<1>6. Configured
  BY DEF Init, Configured
<1>7. QED
  BY <1>3, <1>4, <1>5, <1>6 DEF Within, Verdicts, Walked, DenialsAsked

ChainInv == Typed /\ Within /\ Verdicts /\ Walked

\* Every run stays in its chain, knows what it has found out, and has walked
\* over every middleware behind it.
THEOREM ChainInvariance == Spec => []ChainInv
<1>1. Init => ChainInv
  BY InitInv DEF ChainInv
<1>2. ChainInv /\ [Next]_vars => ChainInv'
  BY TypeStep, VerdictStep, WalkStep DEF ChainInv
<1>3. QED
  BY <1>1, <1>2, PTL DEF Spec

\* TypeOK: types, and no run past the end of its chain
\* (pipeline.go:139-150).
THEOREM ChainTypeCorrect == Spec => []TypeOK
<1>1. ChainInv => TypeOK
  <2> SUFFICES ASSUME ChainInv
               PROVE  TypeOK
    OBVIOUS
  <2>1. ASSUME NEW r \in Requests
        PROVE  req[r].step \in 1..(Len(req[r].chain) + 1)
               /\ req[r].scans \in 0..Len(req[r].chain)
    BY ContextTypes DEF ChainInv, Typed, Within, WithinFor
  <2>2. ASSUME NEW r \in Requests
        PROVE  {req[r].outage, req[r].known, req[r].blind} \subseteq BOOLEAN
    BY DEF ChainInv, Typed, Context
  <2>3. QED
    BY <2>1, <2>2, ContextTypes DEF ChainInv, Typed, TypeOK
<1>2. QED
  BY <1>1, ChainInvariance, PTL

\* PassedWasVetted: ValidationPipeline.Run returns nil only behind the last
\* middleware, whatever the chain is and however it is overridden meanwhile.
THEOREM NothingSkipped == Spec => []PassedWasVetted
<1>1. ChainInv => PassedWasVetted
  <2> SUFFICES ASSUME ChainInv, NEW r \in Requests, req[r].by = "passed",
                      NEW i \in 1..Len(req[r].chain)
               PROVE  Cleared(req[r], req[r].chain[i], young, faults)
    BY DEF PassedWasVetted, Cleared
  <2>1. req[r].step > Len(req[r].chain) /\ WalkedFor(req[r], young, faults)
    BY DEF ChainInv, Walked, WalkedFor
  <2>2. i \in 1..(req[r].step - 1)
    BY <2>1, ContextTypes DEF ChainInv, Typed
  <2>3. QED
    BY <2>1, <2>2 DEF WalkedFor
<1>2. QED
  BY <1>1, ChainInvariance, PTL

\* DeniedFast: applyHooks puts deny-list-check in front of every chain, so a
\* denial of the scope is found before any scanner runs, provided that no
\* configured chain brings a deny-list-check of its own that is switched off.
THEOREM DeniedFirst ==
  ASSUME HooksEnabled
  PROVE  Spec => []DeniedFast
<1>1. Init => ChainInv /\ DenialsAsked
  BY InitInv DEF ChainInv
<1>2. ChainInv /\ DenialsAsked /\ [Next]_vars => (ChainInv /\ DenialsAsked)'
  BY TypeStep, VerdictStep, WalkStep, DenialStep, HooksEnabled DEF ChainInv
<1>3. ChainInv /\ DenialsAsked => DeniedFast
  BY DEF DenialsAsked, DenialFor, DeniedFast
<1>4. QED
  BY <1>1, <1>2, <1>3, PTL DEF Spec

\* The recorded middlewares whose temporary failures the recorder can tell
\* from a verdict, the default ones (config.go) among them.
VerdictsRecorded == Allowlist \subseteq {"guarddog-scan", "malware-scan", "cve-check"}

LEMMA CondemnedStep ==
  ASSUME ChainInv, OnlyCondemnedDenied, VerdictsRecorded, [Next]_vars
  PROVE  OnlyCondemnedDenied'
<1>1. CASE UNCHANGED denied
  BY <1>1 DEF OnlyCondemnedDenied
<1>2. ASSUME NEW r \in Requests, Record(r), Recordable(r)
      PROVE  Condemns(req[r].by, req[r].art) /\ req[r].by \in Allowlist \ {MinAge}
  <2>1. req[r].by \in {"guarddog-scan", "malware-scan", "cve-check"}
    BY <1>2 DEF Recordable, VerdictsRecorded
  <2>2. VerdictFor(req[r]) /\ req[r].pc = "record"
    BY <1>2 DEF ChainInv, Verdicts, Record, At
  <2>3. ~req[r].outage
    BY <1>2, <2>1, <2>2 DEF Recordable, Transient, VerdictFor
  <2>4. QED
    BY <1>2, <2>1, <2>2, <2>3 DEF VerdictFor, Scanners, Recordable, MinAge
<1>3. ASSUME NEW r \in Requests, Record(r)
      PROVE  OnlyCondemnedDenied'
  <2>1. CASE UNCHANGED denied
    BY <2>1 DEF OnlyCondemnedDenied
  <2>2. CASE /\ Recordable(r)
             /\ denied' = denied \union {<<req[r].scope, req[r].art>>}
    BY <1>2, <1>3, <2>2 DEF OnlyCondemnedDenied
  <2>3. QED
    BY <1>3, <2>1, <2>2 DEF Record
<1>4. QED
  BY <1>1, <1>3 DEF Next, Begin, DenyCheck, AgeCheck, Scan, Pass, Mature, Configure,
                    vars, world

\* OnlyCondemnedDenied: RecordDenied leaves outages and young versions off the
\* deny list, as long as record_middlewares names only scanners whose outages
\* carry a sentinel error, or that have none.
THEOREM OnlyVerdictsDenied ==
  ASSUME VerdictsRecorded
  PROVE  Spec => []OnlyCondemnedDenied
<1>1. Init => OnlyCondemnedDenied
  BY DEF Init, OnlyCondemnedDenied
<1>2. ChainInv /\ OnlyCondemnedDenied /\ [Next]_vars => OnlyCondemnedDenied'
  BY CondemnedStep, VerdictsRecorded
<1>3. QED
  BY <1>1, <1>2, ChainInvariance, PTL DEF Spec
==============================================================================
