--------------------------- MODULE TrustFlowProofs ---------------------------
(***************************************************************************)
(* Theorems about TrustFlow, for every set of requests, projects, cache    *)
(* instances and contents and for every bound.  First what each action     *)
(* does, as plain facts about the fields of the request that takes it and  *)
(* about the shared variables: the EXCEPTs of the actions are expanded     *)
(* there and nowhere else.  Then IInv, which is inductive: each of the     *)
(* lemmas carries some of its parts through one step, from those facts.    *)
(***************************************************************************)
EXTENDS TrustFlow, TLAPS

\* A step of r leaves the other requests alone, and the scope and the known
\* denials of r.
Keeps(r) ==
  /\ req' \in [Requests -> Request]
  /\ \A q \in Requests : q # r => req'[q] = req[q]
  /\ req'[r].proj = req[r].proj
  /\ req'[r].known = req[r].known

\* The effects of Goto and of Answer on the context of r.
Moves(r, l) ==
  /\ Keeps(r)
  /\ req'[r].pc = l /\ req'[r].code = req[r].code
  /\ req'[r].body = req[r].body /\ req'[r].rec = req[r].rec
  /\ req'[r].blind = req[r].blind /\ (req'[r].retry <=> req[r].retry)

Ends(r, c) ==
  /\ Keeps(r)
  /\ req'[r].pc = "done" /\ req'[r].code = c
  /\ req'[r].body = req[r].body /\ req'[r].rec = req[r].rec
  /\ req'[r].blind = req[r].blind /\ (req'[r].retry <=> req[r].retry)

\* The fields of the contexts.
LEMMA ContextTypes ==
  ASSUME req \in [Requests -> Request]
  PROVE  \A q \in Requests :
           /\ req[q].pc \in Labels /\ req[q].proj \in Projects
           /\ req[q].body \in Bytes \union {None}
           /\ req[q].rec \in Bytes \union {None}
           /\ req[q].retry \in BOOLEAN /\ req[q].known \subseteq Bytes
BY DEF Request

\* One request's context is replaced.
LEMMA Replaced ==
  ASSUME req \in [Requests -> Request], NEW r \in Requests, NEW s \in Request,
         s.proj = req[r].proj, s.known = req[r].known,
         req' = [req EXCEPT ![r] = s]
  PROVE  Keeps(r) /\ req'[r] = s
BY DEF Keeps

LEMMA GotoMoves ==
  ASSUME req \in [Requests -> Request], NEW r \in Requests, NEW l \in Labels,
         Goto(r, l)
  PROVE  Moves(r, l)
<1> DEFINE s == [req[r] EXCEPT !.pc = l]
<1>1. req[r] \in Request
  OBVIOUS
<1>2. /\ s \in Request /\ s.proj = req[r].proj /\ s.known = req[r].known
      /\ s.pc = l /\ s.code = req[r].code /\ s.body = req[r].body
      /\ s.rec = req[r].rec /\ s.blind = req[r].blind /\ (s.retry <=> req[r].retry)
  BY <1>1 DEF Request
<1>3. req' = [req EXCEPT ![r] = s]
  BY DEF Goto
<1> HIDE DEF s
<1>4. Keeps(r) /\ req'[r] = s
  BY <1>2, <1>3, Replaced
<1>5. QED
  BY <1>2, <1>4 DEF Moves

LEMMA AnswerEnds ==
  ASSUME req \in [Requests -> Request], NEW r \in Requests, NEW c \in Codes,
         Answer(r, c)
  PROVE  Ends(r, c)
<1> DEFINE s == [req[r] EXCEPT !.pc = "done", !.code = c]
<1>1. req[r] \in Request
  OBVIOUS
<1>2. /\ s \in Request /\ s.proj = req[r].proj /\ s.known = req[r].known
      /\ s.pc = "done" /\ s.code = c /\ s.body = req[r].body
      /\ s.rec = req[r].rec /\ s.blind = req[r].blind /\ (s.retry <=> req[r].retry)
  BY <1>1 DEF Request, Labels
<1>3. req' = [req EXCEPT ![r] = s]
  BY DEF Answer
<1> HIDE DEF s
<1>4. Keeps(r) /\ req'[r] = s
  BY <1>2, <1>3, Replaced
<1>5. QED
  BY <1>2, <1>4 DEF Ends

\* The steps that set a field besides pc and code.
LEMMA LookupMoves ==
  ASSUME req \in [Requests -> Request], NEW r \in Requests,
         NEW v \in Bytes \union {None},
         req' = [req EXCEPT ![r].pc = "enter", ![r].rec = v]
  PROVE  /\ Keeps(r) /\ req'[r].pc = "enter" /\ req'[r].rec = v
         /\ req'[r].code = req[r].code /\ req'[r].body = req[r].body
         /\ req'[r].blind = req[r].blind /\ (req'[r].retry <=> req[r].retry)
<1> DEFINE s == [req[r] EXCEPT !.pc = "enter", !.rec = v]
<1>1. req[r] \in Request
  OBVIOUS
<1>2. /\ s \in Request /\ s.proj = req[r].proj /\ s.known = req[r].known
      /\ s.pc = "enter" /\ s.rec = v /\ s.code = req[r].code
      /\ s.body = req[r].body /\ s.blind = req[r].blind /\ (s.retry <=> req[r].retry)
  BY <1>1 DEF Request, Labels
<1>3. req' = [req EXCEPT ![r] = s]
  OBVIOUS
<1> HIDE DEF s
<1>4. Keeps(r) /\ req'[r] = s
  BY <1>2, <1>3, Replaced
<1>5. QED
  BY <1>2, <1>4

LEMMA HitMoves ==
  ASSUME req \in [Requests -> Request], NEW r \in Requests,
         NEW b \in Bytes \union {None},
         req' = [req EXCEPT ![r].pc = "recheck", ![r].body = b]
  PROVE  /\ Keeps(r) /\ req'[r].pc = "recheck" /\ req'[r].body = b
         /\ req'[r].code = req[r].code /\ req'[r].rec = req[r].rec
         /\ req'[r].blind = req[r].blind /\ (req'[r].retry <=> req[r].retry)
<1> DEFINE s == [req[r] EXCEPT !.pc = "recheck", !.body = b]
<1>1. req[r] \in Request
  OBVIOUS
<1>2. /\ s \in Request /\ s.proj = req[r].proj /\ s.known = req[r].known
      /\ s.pc = "recheck" /\ s.body = b /\ s.code = req[r].code
      /\ s.rec = req[r].rec /\ s.blind = req[r].blind /\ (s.retry <=> req[r].retry)
  BY <1>1 DEF Request, Labels
<1>3. req' = [req EXCEPT ![r] = s]
  OBVIOUS
<1> HIDE DEF s
<1>4. Keeps(r) /\ req'[r] = s
  BY <1>2, <1>3, Replaced
<1>5. QED
  BY <1>2, <1>4

LEMMA DeliveryMoves ==
  ASSUME req \in [Requests -> Request], NEW r \in Requests, NEW l \in Labels,
         NEW b \in Bytes,
         req' = [req EXCEPT ![r].index = TRUE, ![r].body = b, ![r].pc = l]
  PROVE  /\ Keeps(r) /\ req'[r].pc = l /\ req'[r].body = b
         /\ req'[r].code = req[r].code /\ req'[r].rec = req[r].rec
         /\ req'[r].blind = req[r].blind /\ (req'[r].retry <=> req[r].retry)
<1> DEFINE s == [req[r] EXCEPT !.index = TRUE, !.body = b, !.pc = l]
<1>1. req[r] \in Request
  OBVIOUS
<1>2. /\ s \in Request /\ s.proj = req[r].proj /\ s.known = req[r].known
      /\ s.pc = l /\ s.body = b /\ s.code = req[r].code
      /\ s.rec = req[r].rec /\ s.blind = req[r].blind /\ (s.retry <=> req[r].retry)
  BY <1>1 DEF Request
<1>3. req' = [req EXCEPT ![r] = s]
  OBVIOUS
<1> HIDE DEF s
<1>4. Keeps(r) /\ req'[r] = s
  BY <1>2, <1>3, Replaced
<1>5. QED
  BY <1>2, <1>4

LEMMA RetryMoves ==
  ASSUME req \in [Requests -> Request], NEW r \in Requests,
         req' = [req EXCEPT ![r].pc = "enter", ![r].body = None,
                            ![r].retry = TRUE]
  PROVE  /\ Keeps(r) /\ req'[r].pc = "enter" /\ req'[r].body = None
         /\ req'[r].code = req[r].code /\ req'[r].rec = req[r].rec
         /\ req'[r].blind = req[r].blind /\ req'[r].retry
<1> DEFINE s == [req[r] EXCEPT !.pc = "enter", !.body = None, !.retry = TRUE]
<1>1. req[r] \in Request
  OBVIOUS
<1>2. /\ s \in Request /\ s.proj = req[r].proj /\ s.known = req[r].known
      /\ s.pc = "enter" /\ s.body = None /\ s.code = req[r].code
      /\ s.rec = req[r].rec /\ s.blind = req[r].blind /\ s.retry
  BY <1>1 DEF Request, Labels
<1>3. req' = [req EXCEPT ![r] = s]
  OBVIOUS
<1> HIDE DEF s
<1>4. Keeps(r) /\ req'[r] = s
  BY <1>2, <1>3, Replaced
<1>5. QED
  BY <1>2, <1>4

LEMMA BlindMoves ==
  ASSUME req \in [Requests -> Request], NEW r \in Requests, NEW l \in Labels,
         req' = [req EXCEPT ![r].pc = l, ![r].blind = TRUE]
  PROVE  /\ Keeps(r) /\ req'[r].pc = l /\ req'[r].blind = TRUE
         /\ req'[r].code = req[r].code /\ req'[r].rec = req[r].rec
         /\ req'[r].body = req[r].body /\ (req'[r].retry <=> req[r].retry)
<1> DEFINE s == [req[r] EXCEPT !.pc = l, !.blind = TRUE]
<1>1. req[r] \in Request
  OBVIOUS
<1>2. /\ s \in Request /\ s.proj = req[r].proj /\ s.known = req[r].known
      /\ s.pc = l /\ s.blind = TRUE /\ s.code = req[r].code
      /\ s.rec = req[r].rec /\ s.body = req[r].body /\ (s.retry <=> req[r].retry)
  BY <1>1 DEF Request
<1>3. req' = [req EXCEPT ![r] = s]
  OBVIOUS
<1> HIDE DEF s
<1>4. Keeps(r) /\ req'[r] = s
  BY <1>2, <1>3, Replaced
<1>5. QED
  BY <1>2, <1>4

-----------------------------------------------------------------------------
(* One lemma per action.                                                   *)

BeginDoes(r, p) ==
  /\ UNCHANGED <<upstream, young, republished, crashes, trust, denied,
                 tracked, verdicts, cache, lock, fetches, faults>>
  /\ req[r].pc = "idle"
  /\ req' \in [Requests -> Request]
  /\ \A q \in Requests : q # r => req'[q] = req[q]
  /\ req'[r].pc = "lookup" /\ req'[r].proj = p /\ req'[r].code = "none"
  /\ req'[r].body = None /\ req'[r].rec = None /\ ~req'[r].retry
  /\ req'[r].known = {b \in Bytes : <<p, b>> \in denied}

LEMMA BeginEffect ==
  ASSUME TypeOK, NEW r \in Requests, NEW p \in Projects, Begin(r, p)
  PROVE  BeginDoes(r, p)
<1> USE DEF BeginDoes
<1> DEFINE s == [Idle EXCEPT !.pc = "lookup", !.proj = p, !.bornYoung = young,
                          !.known = {b \in Bytes : <<p, b>> \in denied}]
<1>0. req \in [Requests -> Request] /\ young \in BOOLEAN
  BY DEF TypeOK
<1>1. {b \in Bytes : <<p, b>> \in denied} \subseteq Bytes
  OBVIOUS
<1>2. /\ s \in Request /\ s.pc = "lookup" /\ s.proj = p /\ s.code = "none"
      /\ s.body = None /\ s.rec = None /\ ~s.retry
      /\ s.known = {b \in Bytes : <<p, b>> \in denied}
  BY <1>0, <1>1, TrustFlowAssumption DEF Idle, Request, Labels, Codes
<1>3. req' = [req EXCEPT ![r] = s] /\ req[r].pc = "idle"
  BY DEF Begin, At
<1>4. UNCHANGED <<upstream, young, republished, crashes, trust, denied,
                  tracked, verdicts, cache, lock, fetches, faults>>
  BY DEF Begin, environment, stores
<1> HIDE DEF s
<1>5. /\ req' \in [Requests -> Request] /\ req'[r] = s
      /\ \A q \in Requests : q # r => req'[q] = req[q]
  BY <1>0, <1>2, <1>3
<1>6. QED
  BY <1>2, <1>3, <1>4, <1>5


LookupDoes(r) ==
  /\ UNCHANGED <<upstream, young, republished, crashes, trust, denied,
                 tracked, verdicts, cache, lock, fetches>>
  /\ req[r].pc = "lookup"
  /\ \/ /\ Keeps(r) /\ req'[r].pc = "enter"
        /\ req'[r].rec = trust[req[r].proj]
        /\ req'[r].code = req[r].code /\ req'[r].body = req[r].body
        /\ req'[r].blind = req[r].blind /\ (req'[r].retry <=> req[r].retry)
     \/ Ends(r, "error")
  /\ faults' \in {faults, faults + 1}

LEMMA LookupEffect ==
  ASSUME TypeOK, NEW r \in Requests, Lookup(r)
  PROVE  LookupDoes(r)
<1> USE DEF LookupDoes
<1>0. req \in [Requests -> Request] /\ faults \in Nat
  BY DEF TypeOK
<1>1. req[r] \in Request
  BY <1>0
<1>2. faults' \in {faults, faults + 1}
  BY <1>0 DEF Lookup, Works, Fails
<1>3. trust[req[r].proj] \in Bytes \union {None}
  BY <1>1 DEF TypeOK, Request
<1>4. "error" \in Codes
  BY DEF Codes
<1>5. CASE req' = [req EXCEPT ![r].pc = "enter", ![r].rec = trust[req[r].proj]]
  BY <1>0, <1>3, <1>5, LookupMoves, <1>2 DEF Lookup, At, environment, stores
<1>6. CASE Answer(r, "error")
  BY <1>0, <1>4, <1>6, AnswerEnds, <1>2 DEF Lookup, At, environment, stores
<1>7. QED
  BY <1>5, <1>6 DEF Lookup


EnterDoes(r) ==
  /\ UNCHANGED <<upstream, young, republished, crashes, trust, denied,
                 tracked, verdicts, cache, fetches, faults>>
  /\ req[r].pc = "enter"
  /\ \/ /\ ~Cached(r) /\ Moves(r, "upstream") /\ UNCHANGED lock
     \/ /\ Cached(r) /\ lock[Inst(r)] = None /\ Moves(r, "probe")
        /\ lock' = [lock EXCEPT ![Inst(r)] = r]

LEMMA EnterEffect ==
  ASSUME TypeOK, NEW r \in Requests, Enter(r)
  PROVE  EnterDoes(r)
<1> USE DEF EnterDoes
<1>0. req \in [Requests -> Request] /\ faults \in Nat
  BY DEF TypeOK
<1>1. req[r] \in Request
  BY <1>0
<1>2. "upstream" \in Labels /\ "probe" \in Labels
  BY DEF Labels
<1>3. CASE ~Cached(r) /\ Goto(r, "upstream") /\ UNCHANGED lock
  BY <1>0, <1>2, <1>3, GotoMoves DEF Enter, At, environment, stores
<1>4. CASE /\ Cached(r) /\ lock[Inst(r)] = None /\ Goto(r, "probe")
           /\ lock' = [lock EXCEPT ![Inst(r)] = r]
  BY <1>0, <1>2, <1>4, GotoMoves DEF Enter, At, environment, stores
<1>5. QED
  BY <1>3, <1>4 DEF Enter


ProbeDoes(r) ==
  /\ UNCHANGED <<upstream, young, republished, crashes, trust, denied,
                 tracked, verdicts, fetches>>
  /\ req[r].pc = "probe"
  /\ \/ /\ cache # None /\ UNCHANGED <<cache, faults>> /\ Release(r)
        /\ Keeps(r) /\ req'[r].pc = "recheck" /\ req'[r].body = cache
        /\ req'[r].code = req[r].code /\ req'[r].rec = req[r].rec
        /\ req'[r].blind = req[r].blind /\ (req'[r].retry <=> req[r].retry)
     \/ /\ cache = None /\ Moves(r, "upstream") /\ UNCHANGED <<cache, lock, faults>>
     \/ /\ Moves(r, "upstream") /\ cache' = None /\ UNCHANGED lock
        /\ faults' = faults + 1
  /\ faults' \in {faults, faults + 1}

LEMMA ProbeEffect ==
  ASSUME TypeOK, NEW r \in Requests, Probe(r)
  PROVE  ProbeDoes(r)
<1> USE DEF ProbeDoes
<1>0. req \in [Requests -> Request] /\ faults \in Nat
  BY DEF TypeOK
<1>1. req[r] \in Request
  BY <1>0
<1>2. faults' \in {faults, faults + 1}
  BY <1>0 DEF Probe, Works, Fails
<1>3. "upstream" \in Labels /\ cache \in Bytes \union {None}
  BY DEF Labels, TypeOK
<1>4. CASE /\ cache # None /\ Release(r) /\ UNCHANGED cache /\ Works
           /\ req' = [req EXCEPT ![r].pc = "recheck", ![r].body = cache]
  BY <1>0, <1>2, <1>3, <1>4, HitMoves DEF Probe, At, environment, stores, Works
<1>5. CASE cache = None /\ Goto(r, "upstream") /\ UNCHANGED <<cache, lock>> /\ Works
  BY <1>0, <1>2, <1>3, <1>5, GotoMoves DEF Probe, At, environment, stores, Works
<1>6. CASE Goto(r, "upstream") /\ cache' = None /\ UNCHANGED lock /\ Fails
  BY <1>0, <1>2, <1>3, <1>6, GotoMoves DEF Probe, At, environment, stores, Fails
<1>7. QED
  BY <1>4, <1>5, <1>6 DEF Probe


FetchUpstreamDoes(r) ==
  /\ UNCHANGED <<upstream, young, republished, crashes, trust, denied,
                 tracked, verdicts, cache>>
  /\ req[r].pc = "upstream"
  /\ \/ /\ Keeps(r) /\ req'[r].body = upstream /\ UNCHANGED <<lock, faults>>
        /\ req'[r].pc \in {"fill", "recheck"}
        /\ req'[r].pc = "fill" <=> Cached(r)
        /\ req'[r].code = req[r].code /\ req'[r].rec = req[r].rec
        /\ req'[r].blind = req[r].blind /\ (req'[r].retry <=> req[r].retry)
        /\ fetches' = IF Cached(r) THEN [fetches EXCEPT ![Inst(r)] = @ + 1]
                                   ELSE fetches
     \/ /\ Ends(r, "error") /\ Release(r) /\ UNCHANGED fetches
        /\ faults' = faults + 1
  /\ faults' \in {faults, faults + 1}

LEMMA FetchUpstreamEffect ==
  ASSUME TypeOK, NEW r \in Requests, FetchUpstream(r)
  PROVE  FetchUpstreamDoes(r)
<1> USE DEF FetchUpstreamDoes
<1>0. req \in [Requests -> Request] /\ faults \in Nat
  BY DEF TypeOK
<1>1. req[r] \in Request
  BY <1>0
<1>2. faults' \in {faults, faults + 1}
  BY <1>0 DEF FetchUpstream, Works, Fails
<1> DEFINE l == IF Cached(r) THEN "fill" ELSE "recheck"
<1>3. l \in Labels /\ "error" \in Codes /\ upstream \in Bytes
  BY DEF Labels, Codes, TypeOK
<1>4. CASE /\ req' = [req EXCEPT ![r].index = TRUE, ![r].body = upstream,
                                 ![r].pc = l]
           /\ fetches' = IF Cached(r) THEN [fetches EXCEPT ![Inst(r)] = @ + 1]
                                      ELSE fetches
           /\ UNCHANGED lock /\ Works
  <2>1. /\ Keeps(r) /\ req'[r].pc = l /\ req'[r].body = upstream
        /\ req'[r].code = req[r].code /\ req'[r].rec = req[r].rec
        /\ req'[r].blind = req[r].blind /\ (req'[r].retry <=> req[r].retry)
    <3> HIDE DEF l
    <3>1. req' = [req EXCEPT ![r].index = TRUE, ![r].body = upstream,
                             ![r].pc = l]
      BY <1>4
    <3>2. QED
      BY <1>0, <1>3, <3>1, DeliveryMoves
  <2>2. QED
    BY <1>2, <1>4, <2>1 DEF FetchUpstream, At, environment, stores, Works
<1>5. CASE Answer(r, "error") /\ Release(r) /\ UNCHANGED fetches /\ Fails
  <2>1. Ends(r, "error")
    BY <1>0, <1>3, <1>5, AnswerEnds
  <2>2. QED
    BY <1>2, <1>5, <2>1 DEF FetchUpstream, At, environment, stores, Fails
<1>6. QED
  BY <1>4, <1>5 DEF FetchUpstream


FillDoes(r) ==
  /\ UNCHANGED <<upstream, young, republished, crashes, trust, denied,
                 tracked, verdicts, fetches>>
  /\ req[r].pc = "fill"
  /\ Moves(r, "recheck") /\ Release(r)
  /\ \/ cache' = req[r].body /\ UNCHANGED faults
     \/ UNCHANGED cache /\ faults' = faults + 1
  /\ faults' \in {faults, faults + 1}

LEMMA FillEffect ==
  ASSUME TypeOK, NEW r \in Requests, Fill(r)
  PROVE  FillDoes(r)
<1> USE DEF FillDoes
<1>0. req \in [Requests -> Request] /\ faults \in Nat
  BY DEF TypeOK
<1>1. req[r] \in Request
  BY <1>0
<1>2. faults' \in {faults, faults + 1}
  BY <1>0 DEF Fill, Works, Fails
<1>3. Moves(r, "recheck")
  BY <1>0, GotoMoves DEF Fill, Labels
<1>4. QED
  BY <1>2, <1>3 DEF Fill, At, environment, stores, Works, Fails


RecheckDoes(r) ==
  /\ UNCHANGED <<upstream, young, republished, crashes, trust, denied,
                 tracked, verdicts, cache, lock, fetches, faults>>
  /\ req[r].pc = "recheck"
  /\ \/ Moves(r, IF req[r].rec # None THEN "verify" ELSE "denyCheck")
     \/ Ends(r, "rechecked")

LEMMA RecheckEffect ==
  ASSUME TypeOK, NEW r \in Requests, Recheck(r)
  PROVE  RecheckDoes(r)
<1> USE DEF RecheckDoes
<1>0. req \in [Requests -> Request] /\ faults \in Nat
  BY DEF TypeOK
<1>1. req[r] \in Request
  BY <1>0
<1>2. /\ "verify" \in Labels /\ "denyCheck" \in Labels
      /\ "rechecked" \in Codes
  BY DEF Labels, Codes
<1>3. CASE Goto(r, IF req[r].rec # None THEN "verify" ELSE "denyCheck")
  BY <1>0, <1>2, <1>3, GotoMoves DEF Recheck, At, environment, stores
<1>4. CASE Answer(r, "rechecked")
  BY <1>0, <1>2, <1>4, AnswerEnds DEF Recheck, At, environment, stores
<1>5. QED
  BY <1>3, <1>4 DEF Recheck


VerifyDoes(r) ==
  /\ UNCHANGED <<upstream, young, republished, crashes, trust, denied,
                 tracked, verdicts, cache, lock, fetches, faults>>
  /\ req[r].pc = "verify"
  /\ \/ req[r].body = req[r].rec /\ Moves(r, "denyCheck")
     \/ req[r].body # req[r].rec /\ Moves(r, "evict")
     \/ req[r].body # req[r].rec /\ req[r].retry /\ Ends(r, "mismatch")

LEMMA VerifyEffect ==
  ASSUME TypeOK, NEW r \in Requests, Verify(r)
  PROVE  VerifyDoes(r)
<1> USE DEF VerifyDoes
<1>0. req \in [Requests -> Request] /\ faults \in Nat
  BY DEF TypeOK
<1>1. req[r] \in Request
  BY <1>0
<1>2. /\ "evict" \in Labels /\ "denyCheck" \in Labels
      /\ "mismatch" \in Codes
  BY DEF Labels, Codes
<1>3. CASE req[r].body = req[r].rec /\ Goto(r, "denyCheck")
  BY <1>0, <1>2, <1>3, GotoMoves DEF Verify, At, environment, stores
<1>4. CASE req[r].body # req[r].rec /\ Goto(r, "evict")
  BY <1>0, <1>2, <1>4, GotoMoves DEF Verify, At, environment, stores
<1>5. CASE req[r].body # req[r].rec /\ req[r].retry /\ Answer(r, "mismatch")
  BY <1>0, <1>2, <1>5, AnswerEnds DEF Verify, At, environment, stores
<1>6. QED
  BY <1>3, <1>4, <1>5 DEF Verify


EvictDoes(r) ==
  /\ UNCHANGED <<upstream, young, republished, crashes, trust, denied,
                 tracked, verdicts, lock, fetches>>
  /\ req[r].pc = "evict"
  /\ Keeps(r) /\ req'[r].pc = "enter" /\ req'[r].body = None
  /\ req'[r].code = req[r].code /\ req'[r].rec = req[r].rec
  /\ req'[r].blind = req[r].blind /\ req'[r].retry
  /\ cache' \in {None, cache}
  /\ Cached(r) => cache' = None \/ faults' = faults + 1
  /\ faults' \in {faults, faults + 1}

LEMMA EvictEffect ==
  ASSUME TypeOK, NEW r \in Requests, Evict(r)
  PROVE  EvictDoes(r)
<1> USE DEF EvictDoes
<1>0. req \in [Requests -> Request] /\ faults \in Nat
  BY DEF TypeOK
<1>1. req[r] \in Request
  BY <1>0
<1>2. faults' \in {faults, faults + 1}
  BY <1>0 DEF Evict, Works, Fails
<1>3. /\ Keeps(r) /\ req'[r].pc = "enter" /\ req'[r].body = None
      /\ req'[r].code = req[r].code /\ req'[r].rec = req[r].rec
      /\ req'[r].blind = req[r].blind /\ req'[r].retry
  BY <1>0, RetryMoves DEF Evict
<1>4. \/ cache' = (IF Cached(r) THEN None ELSE cache) /\ UNCHANGED faults
      \/ Cached(r) /\ UNCHANGED cache /\ faults' = faults + 1
  BY DEF Evict, Works, Fails
<1>5. QED
  BY <1>2, <1>3, <1>4 DEF Evict, At, environment, stores


DenyCheckDoes(r) ==
  /\ UNCHANGED <<upstream, young, republished, crashes, trust, denied,
                 tracked, verdicts, cache, lock, fetches>>
  /\ req[r].pc = "denyCheck"
  /\ \/ Denied(r) /\ Ends(r, "denied")
     \/ ~Denied(r) /\ Moves(r, AfterDenyCheck(r))
     \/ /\ Keeps(r) /\ req'[r].pc = AfterDenyCheck(r) /\ req'[r].blind = TRUE
        /\ req'[r].code = req[r].code /\ req'[r].rec = req[r].rec
        /\ req'[r].body = req[r].body /\ (req'[r].retry <=> req[r].retry)
  /\ faults' \in {faults, faults + 1}

LEMMA DenyCheckEffect ==
  ASSUME TypeOK, NEW r \in Requests, DenyCheck(r)
  PROVE  DenyCheckDoes(r)
<1> USE DEF DenyCheckDoes
<1>0. req \in [Requests -> Request] /\ faults \in Nat
  BY DEF TypeOK
<1>1. req[r] \in Request
  BY <1>0
<1>2. faults' \in {faults, faults + 1}
  BY <1>0 DEF DenyCheck, Works, Fails
<1>3. AfterDenyCheck(r) \in Labels /\ "denied" \in Codes
  BY DEF Labels, Codes, AfterDenyCheck
<1>4. CASE Denied(r) /\ Answer(r, "denied")
  BY <1>0, <1>2, <1>3, <1>4, AnswerEnds DEF DenyCheck, At, environment, stores
<1>5. CASE ~Denied(r) /\ Goto(r, AfterDenyCheck(r))
  BY <1>0, <1>2, <1>3, <1>5, GotoMoves DEF DenyCheck, At, environment, stores
<1>6. CASE req' = [req EXCEPT ![r].pc = AfterDenyCheck(r), ![r].blind = TRUE]
  BY <1>0, <1>2, <1>3, <1>6, BlindMoves DEF DenyCheck, At, environment, stores
<1>7. QED
  BY <1>4, <1>5, <1>6 DEF DenyCheck


AgeCheckDoes(r) ==
  /\ UNCHANGED <<upstream, young, republished, crashes, trust, denied,
                 tracked, verdicts, cache, lock, fetches, faults>>
  /\ req[r].pc = "ageCheck"
  /\ Ends(r, "age") \/ Moves(r, "scan")

LEMMA AgeCheckEffect ==
  ASSUME TypeOK, NEW r \in Requests, AgeCheck(r)
  PROVE  AgeCheckDoes(r)
<1> USE DEF AgeCheckDoes
<1>0. req \in [Requests -> Request] /\ faults \in Nat
  BY DEF TypeOK
<1>1. req[r] \in Request
  BY <1>0
<1>2. "scan" \in Labels /\ "age" \in Codes
  BY DEF Labels, Codes
<1>3. CASE Answer(r, "age")
  BY <1>0, <1>2, <1>3, AnswerEnds DEF AgeCheck, At, environment, stores
<1>4. CASE Goto(r, "scan")
  BY <1>0, <1>2, <1>4, GotoMoves DEF AgeCheck, At, environment, stores
<1>5. QED
  BY <1>3, <1>4 DEF AgeCheck


ScanDoes(r) ==
  /\ UNCHANGED <<upstream, young, republished, crashes, trust, denied,
                 tracked, cache, lock, fetches>>
  /\ req[r].pc = "scan"
  /\ \/ /\ verdicts' = verdicts \union {<<req[r].proj, req[r].body, "pass">>}
        /\ Moves(r, "anchor")
     \/ /\ verdicts' = verdicts \union {<<req[r].proj, req[r].body, "deny">>}
        /\ Moves(r, "record")
     \/ Ends(r, "scanner") /\ UNCHANGED verdicts
  /\ faults' \in {faults, faults + 1}

LEMMA ScanEffect ==
  ASSUME TypeOK, NEW r \in Requests, Scan(r)
  PROVE  ScanDoes(r)
<1> USE DEF ScanDoes
<1>0. req \in [Requests -> Request] /\ faults \in Nat
  BY DEF TypeOK
<1>1. req[r] \in Request
  BY <1>0
<1>2. faults' \in {faults, faults + 1}
  BY <1>0 DEF Scan, Works, Fails
<1>3. "anchor" \in Labels /\ "record" \in Labels /\ "scanner" \in Codes
  BY DEF Labels, Codes
<1>4. CASE /\ verdicts' = verdicts \union {<<req[r].proj, req[r].body, "pass">>}
           /\ Goto(r, "anchor")
  BY <1>0, <1>2, <1>3, <1>4, GotoMoves DEF Scan, At, environment
<1>5. CASE /\ verdicts' = verdicts \union {<<req[r].proj, req[r].body, "deny">>}
           /\ Goto(r, "record")
  BY <1>0, <1>2, <1>3, <1>5, GotoMoves DEF Scan, At, environment
<1>6. CASE Answer(r, "scanner") /\ UNCHANGED verdicts
  BY <1>0, <1>2, <1>3, <1>6, AnswerEnds DEF Scan, At, environment
<1>7. QED
  BY <1>4, <1>5, <1>6 DEF Scan


RecordDoes(r) ==
  /\ UNCHANGED <<upstream, young, republished, crashes, trust, tracked,
                 verdicts, cache, lock, fetches>>
  /\ req[r].pc = "record" /\ Ends(r, "flagged")
  /\ \/ denied' = denied \union {<<req[r].proj, req[r].body>>}
     \/ UNCHANGED denied
  /\ faults' \in {faults, faults + 1}

LEMMA RecordEffect ==
  ASSUME TypeOK, NEW r \in Requests, Record(r)
  PROVE  RecordDoes(r)
<1> USE DEF RecordDoes
<1>0. req \in [Requests -> Request] /\ faults \in Nat
  BY DEF TypeOK
<1>1. req[r] \in Request
  BY <1>0
<1>2. faults' \in {faults, faults + 1}
  BY <1>0 DEF Record, Works, Fails
<1>3. Ends(r, "flagged")
  BY <1>0, AnswerEnds DEF Record, Codes
<1>4. QED
  BY <1>2, <1>3 DEF Record, At, environment


AnchorDoes(r) ==
  /\ UNCHANGED <<upstream, young, republished, crashes, denied, tracked,
                 verdicts, cache, lock, fetches>>
  /\ req[r].pc = "anchor"
  /\ Moves(r, "respond") \/ Ends(r, "error")
  /\ \/ trust' = [trust EXCEPT ![req[r].proj] = req[r].body]
     \/ UNCHANGED trust
  /\ faults' \in {faults, faults + 1}

LEMMA AnchorEffect ==
  ASSUME TypeOK, NEW r \in Requests, Anchor(r)
  PROVE  AnchorDoes(r)
<1> USE DEF AnchorDoes
<1>0. req \in [Requests -> Request] /\ faults \in Nat
  BY DEF TypeOK
<1>1. req[r] \in Request
  BY <1>0
<1>2. faults' \in {faults, faults + 1}
  BY <1>0 DEF Anchor, Works, Fails
<1>3. "respond" \in Labels /\ "error" \in Codes
  BY DEF Labels, Codes
<1>4. CASE Goto(r, "respond")
  BY <1>0, <1>2, <1>3, <1>4, GotoMoves DEF Anchor, At, environment
<1>5. CASE Answer(r, "error")
  BY <1>0, <1>2, <1>3, <1>5, AnswerEnds DEF Anchor, At, environment
<1>6. QED
  BY <1>4, <1>5 DEF Anchor


RespondDoes(r) ==
  /\ UNCHANGED <<upstream, young, republished, crashes, trust, denied,
                 verdicts, cache, lock, fetches>>
  /\ req[r].pc = "respond"
  /\ \/ /\ Ends(r, "ok")
        /\ tracked' = IF req[r].proj = Default THEN tracked
                      ELSE tracked \union {<<req[r].proj, req[r].body>>}
     \/ Ends(r, "error") /\ UNCHANGED tracked
  /\ faults' \in {faults, faults + 1}

LEMMA RespondEffect ==
  ASSUME TypeOK, NEW r \in Requests, Respond(r)
  PROVE  RespondDoes(r)
<1> USE DEF RespondDoes
<1>0. req \in [Requests -> Request] /\ faults \in Nat
  BY DEF TypeOK
<1>1. req[r] \in Request
  BY <1>0
<1>2. faults' \in {faults, faults + 1}
  BY <1>0 DEF Respond, Works, Fails
<1>3. "ok" \in Codes /\ "error" \in Codes
  BY DEF Codes
<1>4. CASE /\ Answer(r, "ok")
           /\ tracked' = IF req[r].proj = Default THEN tracked
                         ELSE tracked \union {<<req[r].proj, req[r].body>>}
  <2>1. Ends(r, "ok")
    BY <1>0, <1>3, <1>4, AnswerEnds
  <2>2. QED
    BY <1>2, <1>4, <2>1 DEF Respond, At, environment
<1>5. CASE Answer(r, "error") /\ UNCHANGED tracked
  BY <1>0, <1>2, <1>3, <1>5, AnswerEnds DEF Respond, At, environment
<1>6. QED
  BY <1>4, <1>5 DEF Respond


\* A crash ends the requests under way and frees the mutexes.
CrashDoes ==
  /\ UNCHANGED <<upstream, young, republished, trust, denied, tracked,
                   verdicts, cache, fetches, faults>>
    /\ crashes' = crashes + 1
    /\ lock' = [i \in Instances |-> None]
    /\ req' \in [Requests -> Request]
    /\ \A q \in Requests :
         /\ req'[q].proj = req[q].proj /\ req'[q].body = req[q].body
         /\ req'[q].rec = req[q].rec /\ req'[q].known = req[q].known
         /\ req'[q].blind = req[q].blind /\ (req'[q].retry <=> req[q].retry)
         /\ \/ /\ req[q].pc \in {"idle", "done"}
               /\ req'[q].pc = req[q].pc /\ req'[q].code = req[q].code
            \/ /\ req[q].pc \notin {"idle", "done"}
               /\ req'[q].pc = "done" /\ req'[q].code = "lost"

LEMMA CrashEffect ==
  ASSUME TypeOK, Crash
  PROVE  CrashDoes
<1> USE DEF CrashDoes
<1> DEFINE s(q) == [req[q] EXCEPT !.pc = "done", !.code = "lost"]
<1>0. req \in [Requests -> Request]
  BY DEF TypeOK
<1>1. req' = [q \in Requests |->
                IF req[q].pc \in {"idle", "done"} THEN req[q] ELSE s(q)]
  BY DEF Crash
<1>2. ASSUME NEW q \in Requests
      PROVE  /\ s(q) \in Request
             /\ s(q).proj = req[q].proj /\ s(q).body = req[q].body
             /\ s(q).rec = req[q].rec /\ s(q).known = req[q].known
             /\ s(q).blind = req[q].blind /\ (s(q).retry <=> req[q].retry)
             /\ s(q).pc = "done" /\ s(q).code = "lost"
  <2>1. req[q] \in Request
    BY <1>0
  <2>2. QED
    BY <2>1 DEF Request, Labels, Codes
<1>3. /\ UNCHANGED <<upstream, young, republished, trust, denied, tracked,
                     verdicts, cache, fetches, faults>>
      /\ crashes' = crashes + 1
      /\ lock' = [i \in Instances |-> None]
  BY DEF Crash, stores
<1> HIDE DEF s
<1>4. req' \in [Requests -> Request]
  BY <1>0, <1>1, <1>2
<1>5. ASSUME NEW q \in Requests
      PROVE  /\ req'[q].proj = req[q].proj /\ req'[q].body = req[q].body
             /\ req'[q].rec = req[q].rec /\ req'[q].known = req[q].known
             /\ req'[q].blind = req[q].blind /\ (req'[q].retry <=> req[q].retry)
             /\ \/ /\ req[q].pc \in {"idle", "done"}
                   /\ req'[q].pc = req[q].pc /\ req'[q].code = req[q].code
                \/ /\ req[q].pc \notin {"idle", "done"}
                   /\ req'[q].pc = "done" /\ req'[q].code = "lost"
  <2>1. CASE req[q].pc \in {"idle", "done"}
    <3>1. req'[q] = req[q]
      BY <1>1, <2>1
    <3>2. QED
      BY <2>1, <3>1
  <2>2. CASE req[q].pc \notin {"idle", "done"}
    <3>1. req'[q] = s(q)
      BY <1>1, <2>2
    <3>2. QED
      BY <1>2, <2>2, <3>1
  <2>3. QED
    BY <2>1, <2>2
<1>6. QED
  BY <1>3, <1>4, <1>5

\* Every step is one of these, a step of the surroundings, or a stutter.
LEMMA Effects ==
  ASSUME TypeOK, [Next]_vars
  PROVE  \/ \E r \in Requests, p \in Projects : BeginDoes(r, p)
         \/ \E r \in Requests :
              \/ LookupDoes(r) \/ EnterDoes(r) \/ ProbeDoes(r)
              \/ FetchUpstreamDoes(r) \/ FillDoes(r) \/ RecheckDoes(r)
              \/ VerifyDoes(r) \/ EvictDoes(r) \/ DenyCheckDoes(r)
              \/ AgeCheckDoes(r) \/ ScanDoes(r) \/ RecordDoes(r)
              \/ AnchorDoes(r) \/ RespondDoes(r)
         \/ Mature \/ Republish \/ Corrupt \/ CrashDoes \/ UNCHANGED vars
<1>1. ASSUME NEW r \in Requests, Step(r)
      PROVE  \/ LookupDoes(r) \/ EnterDoes(r) \/ ProbeDoes(r)
             \/ FetchUpstreamDoes(r) \/ FillDoes(r) \/ RecheckDoes(r)
             \/ VerifyDoes(r) \/ EvictDoes(r) \/ DenyCheckDoes(r)
             \/ AgeCheckDoes(r) \/ ScanDoes(r) \/ RecordDoes(r)
             \/ AnchorDoes(r) \/ RespondDoes(r)
  BY <1>1, LookupEffect, EnterEffect, ProbeEffect, FetchUpstreamEffect,
     FillEffect, RecheckEffect, VerifyEffect, EvictEffect, DenyCheckEffect,
     AgeCheckEffect, ScanEffect, RecordEffect, AnchorEffect, RespondEffect
  DEF Step
<1>2. QED
  BY <1>1, BeginEffect, CrashEffect DEF Next, Terminated

-----------------------------------------------------------------------------
(* The inductive invariant.                                                *)

LEMMA InitIInv == Init => IInv
<1> SUFFICES ASSUME Init PROVE IInv
  OBVIOUS
<1> USE TrustFlowAssumption DEF Init
<1>1. Idle \in Request
  BY DEF Idle, Request, Labels, Codes
<1>2. TypeOK
  BY <1>1 DEF TypeOK
<1>3. \A r \in Requests :
        /\ req[r].pc = "idle" /\ req[r].code = "none" /\ req[r].body = None
        /\ req[r].rec = None /\ req[r].known = {}
  BY DEF Idle
<1>4. BodyPresent /\ AnchorsVetted /\ FlowVetted /\ ServedWasValidated
  BY <1>3 DEF BodyPresent, AnchorsVetted, FlowVetted, ServedWasValidated, FlowVettedFor, At
<1>5. DenialsRespected /\ DenialSticks /\ DenialsFounded /\ DeniedByOwnScope
  BY <1>3 DEF DenialsRespected, DenialSticks, DenialsFounded,
              DeniedByOwnScope, At
<1>6. AuditExact
  BY <1>3 DEF AuditExact
<1>7. LockHeldInside
  BY <1>3 DEF LockHeldInside, Inst
<1>8. HealsOnce /\ SingleFaultHeals
  <2>1. \A r \in Requests : req[r].retry = FALSE
    BY DEF Idle
  <2>2. QED
    BY <1>3, <2>1 DEF HealsOnce, HealsFor, SingleFaultHeals, Genuine, At
<1>9. FetchBudget /\ OneFetchPerInstance
  BY <1>3 DEF FetchBudget, PristineFor, OneFetchPerInstance, Genuine, At
<1>10. QED
  BY <1>2, <1>4, <1>5, <1>6, <1>7, <1>8, <1>9 DEF IInv

\* Shapes, and a tarball wherever the handlers use one.
LEMMA TypeStep ==
  ASSUME TypeOK, BodyPresent,
         [Next]_vars
  PROVE  (TypeOK /\ BodyPresent)'
<1> USE TrustFlowAssumption DEF TypeOK, BodyPresent, Keeps, Moves, Ends
<1> req \in [Requests -> Request]
  BY DEF TypeOK
<1> \A o \in Requests :
      /\ req[o].proj \in Projects /\ req[o].body \in Bytes \union {None}
      /\ req[o].rec \in Bytes \union {None} /\ req[o].retry \in BOOLEAN
  BY ContextTypes
<1>1. ASSUME NEW r \in Requests, NEW p \in Projects, BeginDoes(r, p)
      PROVE  (TypeOK /\ BodyPresent)'
  BY <1>1 DEF BeginDoes
<1>2. ASSUME NEW r \in Requests, LookupDoes(r)
      PROVE  (TypeOK /\ BodyPresent)'
  BY <1>2 DEF LookupDoes
<1>3. ASSUME NEW r \in Requests, EnterDoes(r)
      PROVE  (TypeOK /\ BodyPresent)'
  BY <1>3 DEF EnterDoes, Cached, Inst
<1>4. ASSUME NEW r \in Requests, ProbeDoes(r)
      PROVE  (TypeOK /\ BodyPresent)'
  BY <1>4 DEF ProbeDoes, Release, Cached, Inst
<1>5. ASSUME NEW r \in Requests, FetchUpstreamDoes(r)
      PROVE  (TypeOK /\ BodyPresent)'
  BY <1>5 DEF FetchUpstreamDoes, Release, Cached, Inst
<1>6. ASSUME NEW r \in Requests, FillDoes(r)
      PROVE  (TypeOK /\ BodyPresent)'
  BY <1>6 DEF FillDoes, Release, Cached, Inst
<1>7. ASSUME NEW r \in Requests, RecheckDoes(r)
      PROVE  (TypeOK /\ BodyPresent)'
  BY <1>7 DEF RecheckDoes
<1>8. ASSUME NEW r \in Requests, VerifyDoes(r)
      PROVE  (TypeOK /\ BodyPresent)'
  BY <1>8 DEF VerifyDoes
<1>9. ASSUME NEW r \in Requests, EvictDoes(r)
      PROVE  (TypeOK /\ BodyPresent)'
  BY <1>9 DEF EvictDoes, Cached, Inst
<1>10. ASSUME NEW r \in Requests, DenyCheckDoes(r)
      PROVE  (TypeOK /\ BodyPresent)'
  BY <1>10 DEF DenyCheckDoes, Denied, AfterDenyCheck
<1>11. ASSUME NEW r \in Requests, AgeCheckDoes(r)
      PROVE  (TypeOK /\ BodyPresent)'
  BY <1>11 DEF AgeCheckDoes
<1>12. ASSUME NEW r \in Requests, ScanDoes(r)
      PROVE  (TypeOK /\ BodyPresent)'
  BY <1>12 DEF ScanDoes
<1>13. ASSUME NEW r \in Requests, RecordDoes(r)
      PROVE  (TypeOK /\ BodyPresent)'
  BY <1>13 DEF RecordDoes
<1>14. ASSUME NEW r \in Requests, AnchorDoes(r)
      PROVE  (TypeOK /\ BodyPresent)'
  BY <1>14 DEF AnchorDoes
<1>15. ASSUME NEW r \in Requests, RespondDoes(r)
      PROVE  (TypeOK /\ BodyPresent)'
  BY <1>15 DEF RespondDoes
<1>16. CASE Mature
  BY <1>16 DEF Mature, stores, environment, Works, Fails
<1>17. CASE Republish
  BY <1>17 DEF Republish, stores, environment, Works, Fails
<1>18. CASE Corrupt
  BY <1>18 DEF Corrupt, stores, environment, Works, Fails
<1>19. CASE CrashDoes
  BY <1>19 DEF CrashDoes
<1>20. CASE UNCHANGED vars
  BY <1>20 DEF vars
<1>21. QED
  BY Effects, <1>1, <1>2, <1>3, <1>4, <1>5, <1>6, <1>7, <1>8, <1>9,
     <1>10, <1>11, <1>12, <1>13, <1>14, <1>15, <1>16, <1>17, <1>18,
     <1>19, <1>20

\* The key mutex of each instance.
LEMMA LockStep ==
  ASSUME TypeOK, LockHeldInside,
         [Next]_vars
  PROVE  LockHeldInside'
<1> USE TrustFlowAssumption DEF LockHeldInside, Inst, Keeps, Moves, Ends
<1> req \in [Requests -> Request]
  BY DEF TypeOK
<1> \A o \in Requests :
      /\ req[o].proj \in Projects /\ req[o].body \in Bytes \union {None}
      /\ req[o].rec \in Bytes \union {None} /\ req[o].retry \in BOOLEAN
  BY ContextTypes
<1> faults \in Nat /\ crashes \in Nat /\ republished \in Nat
  BY DEF TypeOK
<1> /\ upstream \in Bytes /\ lock \in [Instances -> Requests \union {None}]
    /\ fetches \in [Instances -> Nat] /\ trust \in [Projects -> Bytes \union {None}]
  BY DEF TypeOK
<1>1. ASSUME NEW r \in Requests, NEW p \in Projects, BeginDoes(r, p)
      PROVE  LockHeldInside'
  BY <1>1 DEF BeginDoes
<1>2. ASSUME NEW r \in Requests, LookupDoes(r)
      PROVE  LockHeldInside'
  BY <1>2 DEF LookupDoes
<1>3. ASSUME NEW r \in Requests, EnterDoes(r)
      PROVE  LockHeldInside'
  BY <1>3 DEF EnterDoes, Cached, Inst
<1>4. ASSUME NEW r \in Requests, ProbeDoes(r)
      PROVE  LockHeldInside'
  BY <1>4 DEF ProbeDoes, Release, Cached, Inst
<1>5. ASSUME NEW r \in Requests, FetchUpstreamDoes(r)
      PROVE  LockHeldInside'
  BY <1>5 DEF FetchUpstreamDoes, Release, Cached, Inst
<1>6. ASSUME NEW r \in Requests, FillDoes(r)
      PROVE  LockHeldInside'
  BY <1>6 DEF FillDoes, Release, Cached, Inst
<1>7. ASSUME NEW r \in Requests, RecheckDoes(r)
      PROVE  LockHeldInside'
  BY <1>7 DEF RecheckDoes
<1>8. ASSUME NEW r \in Requests, VerifyDoes(r)
      PROVE  LockHeldInside'
  BY <1>8 DEF VerifyDoes
<1>9. ASSUME NEW r \in Requests, EvictDoes(r)
      PROVE  LockHeldInside'
  BY <1>9 DEF EvictDoes, Cached, Inst
<1>10. ASSUME NEW r \in Requests, DenyCheckDoes(r)
      PROVE  LockHeldInside'
  BY <1>10 DEF DenyCheckDoes, AfterDenyCheck
<1>11. ASSUME NEW r \in Requests, AgeCheckDoes(r)
      PROVE  LockHeldInside'
  BY <1>11 DEF AgeCheckDoes
<1>12. ASSUME NEW r \in Requests, ScanDoes(r)
      PROVE  LockHeldInside'
  BY <1>12 DEF ScanDoes
<1>13. ASSUME NEW r \in Requests, RecordDoes(r)
      PROVE  LockHeldInside'
  BY <1>13 DEF RecordDoes
<1>14. ASSUME NEW r \in Requests, AnchorDoes(r)
      PROVE  LockHeldInside'
  BY <1>14 DEF AnchorDoes
<1>15. ASSUME NEW r \in Requests, RespondDoes(r)
      PROVE  LockHeldInside'
  BY <1>15 DEF RespondDoes
<1>16. CASE Mature
  BY <1>16 DEF Mature, stores, environment, Works, Fails
<1>17. CASE Republish
  BY <1>17 DEF Republish, stores, environment, Works, Fails
<1>18. CASE Corrupt
  BY <1>18 DEF Corrupt, stores, environment, Works, Fails
<1>19. CASE CrashDoes
  BY <1>19 DEF CrashDoes
<1>20. CASE UNCHANGED vars
  BY <1>20 DEF vars
<1>21. QED
  BY Effects, <1>1, <1>2, <1>3, <1>4, <1>5, <1>6, <1>7, <1>8, <1>9,
     <1>10, <1>11, <1>12, <1>13, <1>14, <1>15, <1>16, <1>17, <1>18,
     <1>19, <1>20

\* What is anchored, or held as the anchor, is vetted.
LEMMA AnchorsStep ==
  ASSUME TypeOK, BodyPresent, AnchorsVetted, FlowVetted,
         [Next]_vars
  PROVE  AnchorsVetted'
<1> USE TrustFlowAssumption
    DEF BodyPresent, AnchorsVetted, FlowVetted, FlowVettedFor, Vetted, At,
        Keeps, Moves, Ends
<1> req \in [Requests -> Request]
  BY DEF TypeOK
<1> \A o \in Requests :
      /\ req[o].proj \in Projects /\ req[o].body \in Bytes \union {None}
      /\ req[o].rec \in Bytes \union {None} /\ req[o].retry \in BOOLEAN
  BY ContextTypes
<1> faults \in Nat /\ crashes \in Nat /\ republished \in Nat
  BY DEF TypeOK
<1> /\ upstream \in Bytes /\ lock \in [Instances -> Requests \union {None}]
    /\ fetches \in [Instances -> Nat] /\ trust \in [Projects -> Bytes \union {None}]
  BY DEF TypeOK
<1>1. ASSUME NEW r \in Requests, NEW p \in Projects, BeginDoes(r, p)
      PROVE  AnchorsVetted'
  BY <1>1 DEF BeginDoes
<1>2. ASSUME NEW r \in Requests, LookupDoes(r)
      PROVE  AnchorsVetted'
  BY <1>2 DEF LookupDoes
<1>3. ASSUME NEW r \in Requests, EnterDoes(r)
      PROVE  AnchorsVetted'
  BY <1>3 DEF EnterDoes
<1>4. ASSUME NEW r \in Requests, ProbeDoes(r)
      PROVE  AnchorsVetted'
  BY <1>4 DEF ProbeDoes
<1>5. ASSUME NEW r \in Requests, FetchUpstreamDoes(r)
      PROVE  AnchorsVetted'
  BY <1>5 DEF FetchUpstreamDoes
<1>6. ASSUME NEW r \in Requests, FillDoes(r)
      PROVE  AnchorsVetted'
  BY <1>6 DEF FillDoes
<1>7. ASSUME NEW r \in Requests, RecheckDoes(r)
      PROVE  AnchorsVetted'
  BY <1>7 DEF RecheckDoes
<1>8. ASSUME NEW r \in Requests, VerifyDoes(r)
      PROVE  AnchorsVetted'
  BY <1>8 DEF VerifyDoes
<1>9. ASSUME NEW r \in Requests, EvictDoes(r)
      PROVE  AnchorsVetted'
  BY <1>9 DEF EvictDoes
<1>10. ASSUME NEW r \in Requests, DenyCheckDoes(r)
      PROVE  AnchorsVetted'
  BY <1>10 DEF DenyCheckDoes, AfterDenyCheck
<1>11. ASSUME NEW r \in Requests, AgeCheckDoes(r)
      PROVE  AnchorsVetted'
  BY <1>11 DEF AgeCheckDoes
<1>12. ASSUME NEW r \in Requests, ScanDoes(r)
      PROVE  AnchorsVetted'
  BY <1>12 DEF ScanDoes
<1>13. ASSUME NEW r \in Requests, RecordDoes(r)
      PROVE  AnchorsVetted'
  BY <1>13 DEF RecordDoes
<1>14. ASSUME NEW r \in Requests, AnchorDoes(r)
      PROVE  AnchorsVetted'
  BY <1>14 DEF AnchorDoes
<1>15. ASSUME NEW r \in Requests, RespondDoes(r)
      PROVE  AnchorsVetted'
  BY <1>15 DEF RespondDoes
<1>16. CASE Mature
  BY <1>16 DEF Mature, stores, environment, Works, Fails
<1>17. CASE Republish
  BY <1>17 DEF Republish, stores, environment, Works, Fails
<1>18. CASE Corrupt
  BY <1>18 DEF Corrupt, stores, environment, Works, Fails
<1>19. CASE CrashDoes
  BY <1>19 DEF CrashDoes
<1>20. CASE UNCHANGED vars
  BY <1>20 DEF vars
<1>21. QED
  BY Effects, <1>1, <1>2, <1>3, <1>4, <1>5, <1>6, <1>7, <1>8, <1>9,
     <1>10, <1>11, <1>12, <1>13, <1>14, <1>15, <1>16, <1>17, <1>18,
     <1>19, <1>20

\* What a request is about to anchor or to serve, or has served, is vetted.
LEMMA FlowStep ==
  ASSUME TypeOK, AnchorsVetted, FlowVetted, ServedWasValidated,
         NEW q \in Requests,
         [Next]_vars
  PROVE  (FlowVettedFor(q) /\ (req[q].code = "ok" => Vetted(q)))'
<1> USE DEF AnchorsVetted, FlowVetted, FlowVettedFor, ServedWasValidated,
        Vetted, At, Keeps, Moves, Ends
<1> req \in [Requests -> Request]
  BY DEF TypeOK
<1> \A o \in Requests :
      /\ req[o].proj \in Projects /\ req[o].body \in Bytes \union {None}
      /\ req[o].rec \in Bytes \union {None} /\ req[o].retry \in BOOLEAN
  BY ContextTypes
<1>1. ASSUME NEW r \in Requests, NEW p \in Projects, BeginDoes(r, p)
      PROVE  (FlowVettedFor(q) /\ (req[q].code = "ok" => Vetted(q)))'
  BY <1>1 DEF BeginDoes
<1>2. ASSUME NEW r \in Requests, LookupDoes(r)
      PROVE  (FlowVettedFor(q) /\ (req[q].code = "ok" => Vetted(q)))'
  BY <1>2 DEF LookupDoes
<1>3. ASSUME NEW r \in Requests, EnterDoes(r)
      PROVE  (FlowVettedFor(q) /\ (req[q].code = "ok" => Vetted(q)))'
  BY <1>3 DEF EnterDoes
<1>4. ASSUME NEW r \in Requests, ProbeDoes(r)
      PROVE  (FlowVettedFor(q) /\ (req[q].code = "ok" => Vetted(q)))'
  <2>1. CASE q = r
    BY <1>4, <2>1 DEF ProbeDoes
  <2>2. CASE q # r
    BY <1>4, <2>2 DEF ProbeDoes
  <2>3. QED
    BY <2>1, <2>2
<1>5. ASSUME NEW r \in Requests, FetchUpstreamDoes(r)
      PROVE  (FlowVettedFor(q) /\ (req[q].code = "ok" => Vetted(q)))'
  <2>1. CASE q = r
    BY <1>5, <2>1 DEF FetchUpstreamDoes
  <2>2. CASE q # r
    BY <1>5, <2>2 DEF FetchUpstreamDoes
  <2>3. QED
    BY <2>1, <2>2
<1>6. ASSUME NEW r \in Requests, FillDoes(r)
      PROVE  (FlowVettedFor(q) /\ (req[q].code = "ok" => Vetted(q)))'
  BY <1>6 DEF FillDoes
<1>7. ASSUME NEW r \in Requests, RecheckDoes(r)
      PROVE  (FlowVettedFor(q) /\ (req[q].code = "ok" => Vetted(q)))'
  BY <1>7 DEF RecheckDoes
<1>8. ASSUME NEW r \in Requests, VerifyDoes(r)
      PROVE  (FlowVettedFor(q) /\ (req[q].code = "ok" => Vetted(q)))'
  BY <1>8 DEF VerifyDoes
<1>9. ASSUME NEW r \in Requests, EvictDoes(r)
      PROVE  (FlowVettedFor(q) /\ (req[q].code = "ok" => Vetted(q)))'
  <2>1. CASE q = r
    BY <1>9, <2>1 DEF EvictDoes
  <2>2. CASE q # r
    BY <1>9, <2>2 DEF EvictDoes
  <2>3. QED
    BY <2>1, <2>2
<1>10. ASSUME NEW r \in Requests, DenyCheckDoes(r)
      PROVE  (FlowVettedFor(q) /\ (req[q].code = "ok" => Vetted(q)))'
  BY <1>10 DEF DenyCheckDoes, AfterDenyCheck
<1>11. ASSUME NEW r \in Requests, AgeCheckDoes(r)
      PROVE  (FlowVettedFor(q) /\ (req[q].code = "ok" => Vetted(q)))'
  BY <1>11 DEF AgeCheckDoes
<1>12. ASSUME NEW r \in Requests, ScanDoes(r)
      PROVE  (FlowVettedFor(q) /\ (req[q].code = "ok" => Vetted(q)))'
  BY <1>12 DEF ScanDoes
<1>13. ASSUME NEW r \in Requests, RecordDoes(r)
      PROVE  (FlowVettedFor(q) /\ (req[q].code = "ok" => Vetted(q)))'
  BY <1>13 DEF RecordDoes
<1>14. ASSUME NEW r \in Requests, AnchorDoes(r)
      PROVE  (FlowVettedFor(q) /\ (req[q].code = "ok" => Vetted(q)))'
  BY <1>14 DEF AnchorDoes
<1>15. ASSUME NEW r \in Requests, RespondDoes(r)
      PROVE  (FlowVettedFor(q) /\ (req[q].code = "ok" => Vetted(q)))'
  BY <1>15 DEF RespondDoes
<1>16. CASE Mature
  BY <1>16 DEF Mature, stores, environment, Works, Fails
<1>17. CASE Republish
  BY <1>17 DEF Republish, stores, environment, Works, Fails
<1>18. CASE Corrupt
  BY <1>18 DEF Corrupt, stores, environment, Works, Fails
<1>19. CASE CrashDoes
  BY <1>19 DEF CrashDoes
<1>20. CASE UNCHANGED vars
  BY <1>20 DEF vars
<1>21. QED
  BY Effects, <1>1, <1>2, <1>3, <1>4, <1>5, <1>6, <1>7, <1>8, <1>9,
     <1>10, <1>11, <1>12, <1>13, <1>14, <1>15, <1>16, <1>17, <1>18,
     <1>19, <1>20

\* Denials that precede a request bind it.
LEMMA DenialStep ==
  ASSUME TypeOK, FlowVetted, DenialsRespected, DenialSticks,
         [Next]_vars
  PROVE  (DenialsRespected /\ DenialSticks)'
<1> USE DEF FlowVetted, FlowVettedFor, DenialsRespected, DenialSticks, At, Keeps, Moves, Ends
<1> req \in [Requests -> Request]
  BY DEF TypeOK
<1> \A o \in Requests :
      /\ req[o].proj \in Projects /\ req[o].body \in Bytes \union {None}
      /\ req[o].rec \in Bytes \union {None} /\ req[o].retry \in BOOLEAN
  BY ContextTypes
<1>1. ASSUME NEW r \in Requests, NEW p \in Projects, BeginDoes(r, p)
      PROVE  (DenialsRespected /\ DenialSticks)'
  BY <1>1 DEF BeginDoes
<1>2. ASSUME NEW r \in Requests, LookupDoes(r)
      PROVE  (DenialsRespected /\ DenialSticks)'
  BY <1>2 DEF LookupDoes
<1>3. ASSUME NEW r \in Requests, EnterDoes(r)
      PROVE  (DenialsRespected /\ DenialSticks)'
  BY <1>3 DEF EnterDoes, Cached, Inst
<1>4. ASSUME NEW r \in Requests, ProbeDoes(r)
      PROVE  (DenialsRespected /\ DenialSticks)'
  BY <1>4 DEF ProbeDoes, Release, Cached, Inst
<1>5. ASSUME NEW r \in Requests, FetchUpstreamDoes(r)
      PROVE  (DenialsRespected /\ DenialSticks)'
  BY <1>5 DEF FetchUpstreamDoes, Release, Cached, Inst
<1>6. ASSUME NEW r \in Requests, FillDoes(r)
      PROVE  (DenialsRespected /\ DenialSticks)'
  BY <1>6 DEF FillDoes, Release, Cached, Inst
<1>7. ASSUME NEW r \in Requests, RecheckDoes(r)
      PROVE  (DenialsRespected /\ DenialSticks)'
  BY <1>7 DEF RecheckDoes
<1>8. ASSUME NEW r \in Requests, VerifyDoes(r)
      PROVE  (DenialsRespected /\ DenialSticks)'
  BY <1>8 DEF VerifyDoes
<1>9. ASSUME NEW r \in Requests, EvictDoes(r)
      PROVE  (DenialsRespected /\ DenialSticks)'
  BY <1>9 DEF EvictDoes, Cached, Inst
<1>10. ASSUME NEW r \in Requests, DenyCheckDoes(r)
      PROVE  (DenialsRespected /\ DenialSticks)'
  BY <1>10 DEF DenyCheckDoes, Denied, AfterDenyCheck
<1>11. ASSUME NEW r \in Requests, AgeCheckDoes(r)
      PROVE  (DenialsRespected /\ DenialSticks)'
  BY <1>11 DEF AgeCheckDoes
<1>12. ASSUME NEW r \in Requests, ScanDoes(r)
      PROVE  (DenialsRespected /\ DenialSticks)'
  BY <1>12 DEF ScanDoes
<1>13. ASSUME NEW r \in Requests, RecordDoes(r)
      PROVE  (DenialsRespected /\ DenialSticks)'
  BY <1>13 DEF RecordDoes
<1>14. ASSUME NEW r \in Requests, AnchorDoes(r)
      PROVE  (DenialsRespected /\ DenialSticks)'
  BY <1>14 DEF AnchorDoes
<1>15. ASSUME NEW r \in Requests, RespondDoes(r)
      PROVE  (DenialsRespected /\ DenialSticks)'
  BY <1>15 DEF RespondDoes
<1>16. CASE Mature
  BY <1>16 DEF Mature, stores, environment, Works, Fails
<1>17. CASE Republish
  BY <1>17 DEF Republish, stores, environment, Works, Fails
<1>18. CASE Corrupt
  BY <1>18 DEF Corrupt, stores, environment, Works, Fails
<1>19. CASE CrashDoes
  BY <1>19 DEF CrashDoes
<1>20. CASE UNCHANGED vars
  BY <1>20 DEF vars
<1>21. QED
  BY Effects, <1>1, <1>2, <1>3, <1>4, <1>5, <1>6, <1>7, <1>8, <1>9,
     <1>10, <1>11, <1>12, <1>13, <1>14, <1>15, <1>16, <1>17, <1>18,
     <1>19, <1>20

\* Every denial goes back to a verdict of its scope.
LEMMA FoundedStep ==
  ASSUME TypeOK, FlowVetted, DenialsFounded, DeniedByOwnScope,
         [Next]_vars
  PROVE  (DenialsFounded /\ DeniedByOwnScope)'
<1> USE DEF FlowVetted, FlowVettedFor, DenialsFounded, DeniedByOwnScope,
        At, Keeps, Moves, Ends
<1> req \in [Requests -> Request]
  BY DEF TypeOK
<1> \A o \in Requests :
      /\ req[o].proj \in Projects /\ req[o].body \in Bytes \union {None}
      /\ req[o].rec \in Bytes \union {None} /\ req[o].retry \in BOOLEAN
  BY ContextTypes
<1>1. ASSUME NEW r \in Requests, NEW p \in Projects, BeginDoes(r, p)
      PROVE  (DenialsFounded /\ DeniedByOwnScope)'
  BY <1>1 DEF BeginDoes
<1>2. ASSUME NEW r \in Requests, LookupDoes(r)
      PROVE  (DenialsFounded /\ DeniedByOwnScope)'
  BY <1>2 DEF LookupDoes
<1>3. ASSUME NEW r \in Requests, EnterDoes(r)
      PROVE  (DenialsFounded /\ DeniedByOwnScope)'
  BY <1>3 DEF EnterDoes
<1>4. ASSUME NEW r \in Requests, ProbeDoes(r)
      PROVE  (DenialsFounded /\ DeniedByOwnScope)'
  BY <1>4 DEF ProbeDoes
<1>5. ASSUME NEW r \in Requests, FetchUpstreamDoes(r)
      PROVE  (DenialsFounded /\ DeniedByOwnScope)'
  BY <1>5 DEF FetchUpstreamDoes
<1>6. ASSUME NEW r \in Requests, FillDoes(r)
      PROVE  (DenialsFounded /\ DeniedByOwnScope)'
  BY <1>6 DEF FillDoes
<1>7. ASSUME NEW r \in Requests, RecheckDoes(r)
      PROVE  (DenialsFounded /\ DeniedByOwnScope)'
  BY <1>7 DEF RecheckDoes
<1>8. ASSUME NEW r \in Requests, VerifyDoes(r)
      PROVE  (DenialsFounded /\ DeniedByOwnScope)'
  BY <1>8 DEF VerifyDoes
<1>9. ASSUME NEW r \in Requests, EvictDoes(r)
      PROVE  (DenialsFounded /\ DeniedByOwnScope)'
  BY <1>9 DEF EvictDoes
<1>10. ASSUME NEW r \in Requests, DenyCheckDoes(r)
      PROVE  (DenialsFounded /\ DeniedByOwnScope)'
  BY <1>10 DEF DenyCheckDoes, Denied, AfterDenyCheck
<1>11. ASSUME NEW r \in Requests, AgeCheckDoes(r)
      PROVE  (DenialsFounded /\ DeniedByOwnScope)'
  BY <1>11 DEF AgeCheckDoes
<1>12. ASSUME NEW r \in Requests, ScanDoes(r)
      PROVE  (DenialsFounded /\ DeniedByOwnScope)'
  BY <1>12 DEF ScanDoes
<1>13. ASSUME NEW r \in Requests, RecordDoes(r)
      PROVE  (DenialsFounded /\ DeniedByOwnScope)'
  BY <1>13 DEF RecordDoes
<1>14. ASSUME NEW r \in Requests, AnchorDoes(r)
      PROVE  (DenialsFounded /\ DeniedByOwnScope)'
  BY <1>14 DEF AnchorDoes
<1>15. ASSUME NEW r \in Requests, RespondDoes(r)
      PROVE  (DenialsFounded /\ DeniedByOwnScope)'
  BY <1>15 DEF RespondDoes
<1>16. CASE Mature
  BY <1>16 DEF Mature, stores, environment, Works, Fails
<1>17. CASE Republish
  BY <1>17 DEF Republish, stores, environment, Works, Fails
<1>18. CASE Corrupt
  BY <1>18 DEF Corrupt, stores, environment, Works, Fails
<1>19. CASE CrashDoes
  BY <1>19 DEF CrashDoes
<1>20. CASE UNCHANGED vars
  BY <1>20 DEF vars
<1>21. QED
  BY Effects, <1>1, <1>2, <1>3, <1>4, <1>5, <1>6, <1>7, <1>8, <1>9,
     <1>10, <1>11, <1>12, <1>13, <1>14, <1>15, <1>16, <1>17, <1>18,
     <1>19, <1>20

\* The records follow the answers.
LEMMA AuditStep ==
  ASSUME TypeOK, FlowVetted, AuditExact,
         [Next]_vars
  PROVE  AuditExact'
<1> USE DEF AuditExact, FlowVetted, FlowVettedFor, At, Keeps, Moves, Ends
<1> req \in [Requests -> Request]
  BY DEF TypeOK
<1> \A o \in Requests :
      /\ req[o].proj \in Projects /\ req[o].body \in Bytes \union {None}
      /\ req[o].rec \in Bytes \union {None} /\ req[o].retry \in BOOLEAN
  BY ContextTypes
<1>1. ASSUME NEW r \in Requests, NEW p \in Projects, BeginDoes(r, p)
      PROVE  AuditExact'
  BY <1>1 DEF BeginDoes
<1>2. ASSUME NEW r \in Requests, LookupDoes(r)
      PROVE  AuditExact'
  BY <1>2 DEF LookupDoes
<1>3. ASSUME NEW r \in Requests, EnterDoes(r)
      PROVE  AuditExact'
  BY <1>3 DEF EnterDoes
<1>4. ASSUME NEW r \in Requests, ProbeDoes(r)
      PROVE  AuditExact'
  BY <1>4 DEF ProbeDoes
<1>5. ASSUME NEW r \in Requests, FetchUpstreamDoes(r)
      PROVE  AuditExact'
  BY <1>5 DEF FetchUpstreamDoes
<1>6. ASSUME NEW r \in Requests, FillDoes(r)
      PROVE  AuditExact'
  BY <1>6 DEF FillDoes
<1>7. ASSUME NEW r \in Requests, RecheckDoes(r)
      PROVE  AuditExact'
  BY <1>7 DEF RecheckDoes
<1>8. ASSUME NEW r \in Requests, VerifyDoes(r)
      PROVE  AuditExact'
  BY <1>8 DEF VerifyDoes
<1>9. ASSUME NEW r \in Requests, EvictDoes(r)
      PROVE  AuditExact'
  BY <1>9 DEF EvictDoes
<1>10. ASSUME NEW r \in Requests, DenyCheckDoes(r)
      PROVE  AuditExact'
  BY <1>10 DEF DenyCheckDoes, AfterDenyCheck
<1>11. ASSUME NEW r \in Requests, AgeCheckDoes(r)
      PROVE  AuditExact'
  BY <1>11 DEF AgeCheckDoes
<1>12. ASSUME NEW r \in Requests, ScanDoes(r)
      PROVE  AuditExact'
  BY <1>12 DEF ScanDoes
<1>13. ASSUME NEW r \in Requests, RecordDoes(r)
      PROVE  AuditExact'
  BY <1>13 DEF RecordDoes
<1>14. ASSUME NEW r \in Requests, AnchorDoes(r)
      PROVE  AuditExact'
  BY <1>14 DEF AnchorDoes
<1>15. ASSUME NEW r \in Requests, RespondDoes(r)
      PROVE  AuditExact'
  BY <1>15 DEF RespondDoes
<1>16. CASE Mature
  BY <1>16 DEF Mature, stores, environment, Works, Fails
<1>17. CASE Republish
  BY <1>17 DEF Republish, stores, environment, Works, Fails
<1>18. CASE Corrupt
  BY <1>18 DEF Corrupt, stores, environment, Works, Fails
<1>19. CASE CrashDoes
  BY <1>19 DEF CrashDoes
<1>20. CASE UNCHANGED vars
  BY <1>20 DEF vars
<1>21. QED
  BY Effects, <1>1, <1>2, <1>3, <1>4, <1>5, <1>6, <1>7, <1>8, <1>9,
     <1>10, <1>11, <1>12, <1>13, <1>14, <1>15, <1>16, <1>17, <1>18,
     <1>19, <1>20

\* While the upstream is unchanged, a second mismatch takes a second fault:
\* the context of one request,
LEMMA HealsForStep ==
  ASSUME TypeOK, BodyPresent, HealsOnce, NEW q \in Requests,
         republished' = 0,
         [Next]_vars
  PROVE  HealsFor(q)'
<1> USE TrustFlowAssumption
    DEF BodyPresent, HealsOnce, HealsFor, Genuine, At, Cached, Inst,
        Keeps, Moves, Ends
<1> req \in [Requests -> Request]
  BY DEF TypeOK
<1> \A o \in Requests :
      /\ req[o].proj \in Projects /\ req[o].body \in Bytes \union {None}
      /\ req[o].rec \in Bytes \union {None} /\ req[o].retry \in BOOLEAN
  BY ContextTypes
<1> faults \in Nat /\ crashes \in Nat /\ republished \in Nat
  BY DEF TypeOK
<1> /\ upstream \in Bytes /\ lock \in [Instances -> Requests \union {None}]
    /\ fetches \in [Instances -> Nat] /\ trust \in [Projects -> Bytes \union {None}]
  BY DEF TypeOK
<1>1. ASSUME NEW r \in Requests, NEW p \in Projects, BeginDoes(r, p)
      PROVE  HealsFor(q)'
  BY <1>1 DEF BeginDoes
<1>2. ASSUME NEW r \in Requests, LookupDoes(r)
      PROVE  HealsFor(q)'
  BY <1>2 DEF LookupDoes
<1>3. ASSUME NEW r \in Requests, EnterDoes(r)
      PROVE  HealsFor(q)'
  BY <1>3 DEF EnterDoes
<1>4. ASSUME NEW r \in Requests, ProbeDoes(r)
      PROVE  HealsFor(q)'
  <2>1. CASE q = r
    BY <1>4, <2>1 DEF ProbeDoes
  <2>2. CASE q # r
    BY <1>4, <2>2 DEF ProbeDoes
  <2>3. QED
    BY <2>1, <2>2
<1>5. ASSUME NEW r \in Requests, FetchUpstreamDoes(r)
      PROVE  HealsFor(q)'
  BY <1>5 DEF FetchUpstreamDoes
<1>6. ASSUME NEW r \in Requests, FillDoes(r)
      PROVE  HealsFor(q)'
  BY <1>6 DEF FillDoes
<1>7. ASSUME NEW r \in Requests, RecheckDoes(r)
      PROVE  HealsFor(q)'
  BY <1>7 DEF RecheckDoes
<1>8. ASSUME NEW r \in Requests, VerifyDoes(r)
      PROVE  HealsFor(q)'
  BY <1>8 DEF VerifyDoes
<1>9. ASSUME NEW r \in Requests, EvictDoes(r)
      PROVE  HealsFor(q)'
  BY <1>9 DEF EvictDoes
<1>10. ASSUME NEW r \in Requests, DenyCheckDoes(r)
      PROVE  HealsFor(q)'
  BY <1>10 DEF DenyCheckDoes, AfterDenyCheck
<1>11. ASSUME NEW r \in Requests, AgeCheckDoes(r)
      PROVE  HealsFor(q)'
  BY <1>11 DEF AgeCheckDoes
<1>12. ASSUME NEW r \in Requests, ScanDoes(r)
      PROVE  HealsFor(q)'
  BY <1>12 DEF ScanDoes
<1>13. ASSUME NEW r \in Requests, RecordDoes(r)
      PROVE  HealsFor(q)'
  BY <1>13 DEF RecordDoes
<1>14. ASSUME NEW r \in Requests, AnchorDoes(r)
      PROVE  HealsFor(q)'
  BY <1>14 DEF AnchorDoes
<1>15. ASSUME NEW r \in Requests, RespondDoes(r)
      PROVE  HealsFor(q)'
  BY <1>15 DEF RespondDoes
<1>16. CASE Mature
  BY <1>16 DEF Mature, stores, environment, Works, Fails
<1>17. CASE Republish
  BY <1>17 DEF Republish, stores, environment, Works, Fails
<1>18. CASE Corrupt
  BY <1>18 DEF Corrupt, stores, environment, Works, Fails
<1>19. CASE CrashDoes
  BY <1>19 DEF CrashDoes
<1>20. CASE UNCHANGED vars
  BY <1>20 DEF vars
<1>21. QED
  BY Effects, <1>1, <1>2, <1>3, <1>4, <1>5, <1>6, <1>7, <1>8, <1>9,
     <1>10, <1>11, <1>12, <1>13, <1>14, <1>15, <1>16, <1>17, <1>18,
     <1>19, <1>20

\* the cache,
LEMMA TamperStep ==
  ASSUME TypeOK, BodyPresent, HealsOnce, republished' = 0,
         cache' \notin {None, upstream'},
         [Next]_vars
  PROVE  faults' >= 1
<1> USE TrustFlowAssumption
    DEF HealsOnce, HealsFor, Genuine, At, Keeps, Moves, Ends
<1> req \in [Requests -> Request]
  BY DEF TypeOK
<1> \A o \in Requests :
      /\ req[o].proj \in Projects /\ req[o].body \in Bytes \union {None}
      /\ req[o].rec \in Bytes \union {None} /\ req[o].retry \in BOOLEAN
  BY ContextTypes
<1> faults \in Nat /\ crashes \in Nat /\ republished \in Nat
  BY DEF TypeOK
<1> /\ upstream \in Bytes /\ lock \in [Instances -> Requests \union {None}]
    /\ fetches \in [Instances -> Nat] /\ trust \in [Projects -> Bytes \union {None}]
  BY DEF TypeOK
<1>1. ASSUME NEW r \in Requests, NEW p \in Projects, BeginDoes(r, p)
      PROVE  faults' >= 1
  BY <1>1 DEF BeginDoes
<1>2. ASSUME NEW r \in Requests, LookupDoes(r)
      PROVE  faults' >= 1
  BY <1>2 DEF LookupDoes
<1>3. ASSUME NEW r \in Requests, EnterDoes(r)
      PROVE  faults' >= 1
  BY <1>3 DEF EnterDoes
<1>4. ASSUME NEW r \in Requests, ProbeDoes(r)
      PROVE  faults' >= 1
  BY <1>4 DEF ProbeDoes
<1>5. ASSUME NEW r \in Requests, FetchUpstreamDoes(r)
      PROVE  faults' >= 1
  BY <1>5 DEF FetchUpstreamDoes
<1>6. ASSUME NEW r \in Requests, FillDoes(r)
      PROVE  faults' >= 1
  BY <1>6 DEF FillDoes
<1>7. ASSUME NEW r \in Requests, RecheckDoes(r)
      PROVE  faults' >= 1
  BY <1>7 DEF RecheckDoes
<1>8. ASSUME NEW r \in Requests, VerifyDoes(r)
      PROVE  faults' >= 1
  BY <1>8 DEF VerifyDoes
<1>9. ASSUME NEW r \in Requests, EvictDoes(r)
      PROVE  faults' >= 1
  BY <1>9 DEF EvictDoes
<1>10. ASSUME NEW r \in Requests, DenyCheckDoes(r)
      PROVE  faults' >= 1
  BY <1>10 DEF DenyCheckDoes, AfterDenyCheck
<1>11. ASSUME NEW r \in Requests, AgeCheckDoes(r)
      PROVE  faults' >= 1
  BY <1>11 DEF AgeCheckDoes
<1>12. ASSUME NEW r \in Requests, ScanDoes(r)
      PROVE  faults' >= 1
  BY <1>12 DEF ScanDoes
<1>13. ASSUME NEW r \in Requests, RecordDoes(r)
      PROVE  faults' >= 1
  BY <1>13 DEF RecordDoes
<1>14. ASSUME NEW r \in Requests, AnchorDoes(r)
      PROVE  faults' >= 1
  BY <1>14 DEF AnchorDoes
<1>15. ASSUME NEW r \in Requests, RespondDoes(r)
      PROVE  faults' >= 1
  BY <1>15 DEF RespondDoes
<1>16. CASE Mature
  BY <1>16 DEF Mature, stores, environment, Works, Fails
<1>17. CASE Republish
  BY <1>17 DEF Republish, stores, environment, Works, Fails
<1>18. CASE Corrupt
  BY <1>18 DEF Corrupt, stores, environment, Works, Fails
<1>19. CASE CrashDoes
  BY <1>19 DEF CrashDoes
<1>20. CASE UNCHANGED vars
  BY <1>20 DEF vars
<1>21. QED
  BY Effects, <1>1, <1>2, <1>3, <1>4, <1>5, <1>6, <1>7, <1>8, <1>9,
     <1>10, <1>11, <1>12, <1>13, <1>14, <1>15, <1>16, <1>17, <1>18,
     <1>19, <1>20

\* and the answers.
LEMMA MismatchStep ==
  ASSUME TypeOK, BodyPresent, FlowVetted, HealsOnce, SingleFaultHeals,
         NEW q \in Requests, republished' = 0, req'[q].code = "mismatch",
         req'[q].rec = upstream',
         [Next]_vars
  PROVE  faults' >= 2
<1> USE TrustFlowAssumption
    DEF BodyPresent, FlowVetted, FlowVettedFor, SingleFaultHeals, HealsOnce,
        HealsFor, Genuine, At,
        Keeps, Moves, Ends
<1> req \in [Requests -> Request]
  BY DEF TypeOK
<1> \A o \in Requests :
      /\ req[o].proj \in Projects /\ req[o].body \in Bytes \union {None}
      /\ req[o].rec \in Bytes \union {None} /\ req[o].retry \in BOOLEAN
  BY ContextTypes
<1> faults \in Nat /\ crashes \in Nat /\ republished \in Nat
  BY DEF TypeOK
<1> /\ upstream \in Bytes /\ lock \in [Instances -> Requests \union {None}]
    /\ fetches \in [Instances -> Nat] /\ trust \in [Projects -> Bytes \union {None}]
  BY DEF TypeOK
<1>1. ASSUME NEW r \in Requests, NEW p \in Projects, BeginDoes(r, p)
      PROVE  faults' >= 2
  BY <1>1 DEF BeginDoes
<1>2. ASSUME NEW r \in Requests, LookupDoes(r)
      PROVE  faults' >= 2
  <2>1. CASE q = r
    BY <1>2, <2>1 DEF LookupDoes
  <2>2. CASE q # r
    BY <1>2, <2>2 DEF LookupDoes
  <2>3. QED
    BY <2>1, <2>2
<1>3. ASSUME NEW r \in Requests, EnterDoes(r)
      PROVE  faults' >= 2
  BY <1>3 DEF EnterDoes
<1>4. ASSUME NEW r \in Requests, ProbeDoes(r)
      PROVE  faults' >= 2
  BY <1>4 DEF ProbeDoes
<1>5. ASSUME NEW r \in Requests, FetchUpstreamDoes(r)
      PROVE  faults' >= 2
  BY <1>5 DEF FetchUpstreamDoes
<1>6. ASSUME NEW r \in Requests, FillDoes(r)
      PROVE  faults' >= 2
  BY <1>6 DEF FillDoes
<1>7. ASSUME NEW r \in Requests, RecheckDoes(r)
      PROVE  faults' >= 2
  BY <1>7 DEF RecheckDoes
<1>8. ASSUME NEW r \in Requests, VerifyDoes(r)
      PROVE  faults' >= 2
  BY <1>8 DEF VerifyDoes
<1>9. ASSUME NEW r \in Requests, EvictDoes(r)
      PROVE  faults' >= 2
  BY <1>9 DEF EvictDoes
<1>10. ASSUME NEW r \in Requests, DenyCheckDoes(r)
      PROVE  faults' >= 2
  BY <1>10 DEF DenyCheckDoes, AfterDenyCheck
<1>11. ASSUME NEW r \in Requests, AgeCheckDoes(r)
      PROVE  faults' >= 2
  BY <1>11 DEF AgeCheckDoes
<1>12. ASSUME NEW r \in Requests, ScanDoes(r)
      PROVE  faults' >= 2
  BY <1>12 DEF ScanDoes
<1>13. ASSUME NEW r \in Requests, RecordDoes(r)
      PROVE  faults' >= 2
  BY <1>13 DEF RecordDoes
<1>14. ASSUME NEW r \in Requests, AnchorDoes(r)
      PROVE  faults' >= 2
  BY <1>14 DEF AnchorDoes
<1>15. ASSUME NEW r \in Requests, RespondDoes(r)
      PROVE  faults' >= 2
  BY <1>15 DEF RespondDoes
<1>16. CASE Mature
  BY <1>16 DEF Mature, stores, environment, Works, Fails
<1>17. CASE Republish
  BY <1>17 DEF Republish, stores, environment, Works, Fails
<1>18. CASE Corrupt
  BY <1>18 DEF Corrupt, stores, environment, Works, Fails
<1>19. CASE CrashDoes
  BY <1>19 DEF CrashDoes
<1>20. CASE UNCHANGED vars
  BY <1>20 DEF vars
<1>21. QED
  BY Effects, <1>1, <1>2, <1>3, <1>4, <1>5, <1>6, <1>7, <1>8, <1>9,
     <1>10, <1>11, <1>12, <1>13, <1>14, <1>15, <1>16, <1>17, <1>18,
     <1>19, <1>20

\* Without failures the upstream is asked once for the key: the anchors and
\* the context of one request,
LEMMA PristineStep ==
  ASSUME TypeOK, BodyPresent, LockHeldInside, HealsOnce,
         FetchBudget, OneFetchPerInstance, NEW q \in Requests,
         faults' = 0, republished' = 0,
         [Next]_vars
  PROVE  PristineFor(q)'
<1> USE TrustFlowAssumption
    DEF BodyPresent, FetchBudget, PristineFor, LockHeldInside, HealsOnce, HealsFor,
        Genuine, At,
        Cached, Inst, Keeps, Moves, Ends
<1> req \in [Requests -> Request]
  BY DEF TypeOK
<1> \A o \in Requests :
      /\ req[o].proj \in Projects /\ req[o].body \in Bytes \union {None}
      /\ req[o].rec \in Bytes \union {None} /\ req[o].retry \in BOOLEAN
  BY ContextTypes
<1> faults \in Nat /\ crashes \in Nat /\ republished \in Nat
  BY DEF TypeOK
<1> /\ upstream \in Bytes /\ lock \in [Instances -> Requests \union {None}]
    /\ fetches \in [Instances -> Nat] /\ trust \in [Projects -> Bytes \union {None}]
  BY DEF TypeOK
<1>1. ASSUME NEW r \in Requests, NEW p \in Projects, BeginDoes(r, p)
      PROVE  PristineFor(q)'
  BY <1>1 DEF BeginDoes
<1>2. ASSUME NEW r \in Requests, LookupDoes(r)
      PROVE  PristineFor(q)'
  BY <1>2 DEF LookupDoes
<1>3. ASSUME NEW r \in Requests, EnterDoes(r)
      PROVE  PristineFor(q)'
  BY <1>3 DEF EnterDoes, Cached, Inst
<1>4. ASSUME NEW r \in Requests, ProbeDoes(r)
      PROVE  PristineFor(q)'
  BY <1>4 DEF ProbeDoes, Release, Cached, Inst
<1>5. ASSUME NEW r \in Requests, FetchUpstreamDoes(r)
      PROVE  PristineFor(q)'
  BY <1>5 DEF FetchUpstreamDoes, Release, Cached, Inst
<1>6. ASSUME NEW r \in Requests, FillDoes(r)
      PROVE  PristineFor(q)'
  BY <1>6 DEF FillDoes, Release, Cached, Inst
<1>7. ASSUME NEW r \in Requests, RecheckDoes(r)
      PROVE  PristineFor(q)'
  BY <1>7 DEF RecheckDoes
<1>8. ASSUME NEW r \in Requests, VerifyDoes(r)
      PROVE  PristineFor(q)'
  <2>1. CASE q = r
    BY <1>8, <2>1 DEF VerifyDoes
  <2>2. CASE q # r
    BY <1>8, <2>2 DEF VerifyDoes
  <2>3. QED
    BY <2>1, <2>2
<1>9. ASSUME NEW r \in Requests, EvictDoes(r)
      PROVE  PristineFor(q)'
  BY <1>9 DEF EvictDoes, Cached, Inst
<1>10. ASSUME NEW r \in Requests, DenyCheckDoes(r)
      PROVE  PristineFor(q)'
  BY <1>10 DEF DenyCheckDoes, AfterDenyCheck
<1>11. ASSUME NEW r \in Requests, AgeCheckDoes(r)
      PROVE  PristineFor(q)'
  BY <1>11 DEF AgeCheckDoes
<1>12. ASSUME NEW r \in Requests, ScanDoes(r)
      PROVE  PristineFor(q)'
  BY <1>12 DEF ScanDoes
<1>13. ASSUME NEW r \in Requests, RecordDoes(r)
      PROVE  PristineFor(q)'
  BY <1>13 DEF RecordDoes
<1>14. ASSUME NEW r \in Requests, AnchorDoes(r)
      PROVE  PristineFor(q)'
  BY <1>14 DEF AnchorDoes
<1>15. ASSUME NEW r \in Requests, RespondDoes(r)
      PROVE  PristineFor(q)'
  BY <1>15 DEF RespondDoes
<1>16. CASE Mature
  BY <1>16 DEF Mature, stores, environment, Works, Fails
<1>17. CASE Republish
  BY <1>17 DEF Republish, stores, environment, Works, Fails
<1>18. CASE Corrupt
  BY <1>18 DEF Corrupt, stores, environment, Works, Fails
<1>19. CASE CrashDoes
  BY <1>19 DEF CrashDoes
<1>20. CASE UNCHANGED vars
  BY <1>20 DEF vars
<1>21. QED
  BY Effects, <1>1, <1>2, <1>3, <1>4, <1>5, <1>6, <1>7, <1>8, <1>9,
     <1>10, <1>11, <1>12, <1>13, <1>14, <1>15, <1>16, <1>17, <1>18,
     <1>19, <1>20

\* the anchors,
LEMMA CleanStep ==
  ASSUME TypeOK, FetchBudget, faults' = 0, republished' = 0,
         NEW s \in Projects,
         [Next]_vars
  PROVE  trust'[s] \in {None, upstream'}
<1> USE TrustFlowAssumption
    DEF FetchBudget, PristineFor, Genuine, Keeps, Moves, Ends
<1> req \in [Requests -> Request]
  BY DEF TypeOK
<1> \A o \in Requests :
      /\ req[o].proj \in Projects /\ req[o].body \in Bytes \union {None}
      /\ req[o].rec \in Bytes \union {None} /\ req[o].retry \in BOOLEAN
  BY ContextTypes
<1> faults \in Nat /\ crashes \in Nat /\ republished \in Nat
  BY DEF TypeOK
<1> /\ upstream \in Bytes /\ lock \in [Instances -> Requests \union {None}]
    /\ fetches \in [Instances -> Nat] /\ trust \in [Projects -> Bytes \union {None}]
  BY DEF TypeOK
<1>1. ASSUME NEW r \in Requests, NEW p \in Projects, BeginDoes(r, p)
      PROVE  trust'[s] \in {None, upstream'}
  BY <1>1 DEF BeginDoes
<1>2. ASSUME NEW r \in Requests, LookupDoes(r)
      PROVE  trust'[s] \in {None, upstream'}
  BY <1>2 DEF LookupDoes
<1>3. ASSUME NEW r \in Requests, EnterDoes(r)
      PROVE  trust'[s] \in {None, upstream'}
  BY <1>3 DEF EnterDoes
<1>4. ASSUME NEW r \in Requests, ProbeDoes(r)
      PROVE  trust'[s] \in {None, upstream'}
  BY <1>4 DEF ProbeDoes
<1>5. ASSUME NEW r \in Requests, FetchUpstreamDoes(r)
      PROVE  trust'[s] \in {None, upstream'}
  BY <1>5 DEF FetchUpstreamDoes
<1>6. ASSUME NEW r \in Requests, FillDoes(r)
      PROVE  trust'[s] \in {None, upstream'}
  BY <1>6 DEF FillDoes
<1>7. ASSUME NEW r \in Requests, RecheckDoes(r)
      PROVE  trust'[s] \in {None, upstream'}
  BY <1>7 DEF RecheckDoes
<1>8. ASSUME NEW r \in Requests, VerifyDoes(r)
      PROVE  trust'[s] \in {None, upstream'}
  BY <1>8 DEF VerifyDoes
<1>9. ASSUME NEW r \in Requests, EvictDoes(r)
      PROVE  trust'[s] \in {None, upstream'}
  BY <1>9 DEF EvictDoes
<1>10. ASSUME NEW r \in Requests, DenyCheckDoes(r)
      PROVE  trust'[s] \in {None, upstream'}
  BY <1>10 DEF DenyCheckDoes, AfterDenyCheck
<1>11. ASSUME NEW r \in Requests, AgeCheckDoes(r)
      PROVE  trust'[s] \in {None, upstream'}
  BY <1>11 DEF AgeCheckDoes
<1>12. ASSUME NEW r \in Requests, ScanDoes(r)
      PROVE  trust'[s] \in {None, upstream'}
  BY <1>12 DEF ScanDoes
<1>13. ASSUME NEW r \in Requests, RecordDoes(r)
      PROVE  trust'[s] \in {None, upstream'}
  BY <1>13 DEF RecordDoes
<1>14. ASSUME NEW r \in Requests, AnchorDoes(r)
      PROVE  trust'[s] \in {None, upstream'}
  BY <1>14 DEF AnchorDoes
<1>15. ASSUME NEW r \in Requests, RespondDoes(r)
      PROVE  trust'[s] \in {None, upstream'}
  BY <1>15 DEF RespondDoes
<1>16. CASE Mature
  BY <1>16 DEF Mature, stores, environment, Works, Fails
<1>17. CASE Republish
  BY <1>17 DEF Republish, stores, environment, Works, Fails
<1>18. CASE Corrupt
  BY <1>18 DEF Corrupt, stores, environment, Works, Fails
<1>19. CASE CrashDoes
  BY <1>19 DEF CrashDoes
<1>20. CASE UNCHANGED vars
  BY <1>20 DEF vars
<1>21. QED
  BY Effects, <1>1, <1>2, <1>3, <1>4, <1>5, <1>6, <1>7, <1>8, <1>9,
     <1>10, <1>11, <1>12, <1>13, <1>14, <1>15, <1>16, <1>17, <1>18,
     <1>19, <1>20

\* and the budget of an instance.
LEMMA FetchStep ==
  ASSUME TypeOK, BodyPresent, LockHeldInside, FetchBudget,
         OneFetchPerInstance, HealsOnce, faults' = 0, republished' = 0,
         NEW i \in Instances,
         [Next]_vars
  PROVE  /\ fetches'[i] <= 1 + crashes'
         /\ \/ fetches'[i] <= crashes'
            \/ cache' # None
            \/ \E q \in Requests : req'[q].pc = "fill" /\ Inst(q)' = i
<1> USE TrustFlowAssumption
    DEF BodyPresent, LockHeldInside, FetchBudget, PristineFor, OneFetchPerInstance,
        HealsOnce, HealsFor, Genuine, At, Cached, Inst, Keeps, Moves, Ends
<1> req \in [Requests -> Request]
  BY DEF TypeOK
<1> \A o \in Requests :
      /\ req[o].proj \in Projects /\ req[o].body \in Bytes \union {None}
      /\ req[o].rec \in Bytes \union {None} /\ req[o].retry \in BOOLEAN
  BY ContextTypes
<1> faults \in Nat /\ crashes \in Nat /\ republished \in Nat
  BY DEF TypeOK
<1> /\ upstream \in Bytes /\ lock \in [Instances -> Requests \union {None}]
    /\ fetches \in [Instances -> Nat] /\ trust \in [Projects -> Bytes \union {None}]
  BY DEF TypeOK
<1>1. ASSUME NEW r \in Requests, NEW p \in Projects, BeginDoes(r, p)
      PROVE  /\ fetches'[i] <= 1 + crashes'
         /\ \/ fetches'[i] <= crashes'
            \/ cache' # None
            \/ \E q \in Requests : req'[q].pc = "fill" /\ Inst(q)' = i
  BY <1>1 DEF BeginDoes
<1>2. ASSUME NEW r \in Requests, LookupDoes(r)
      PROVE  /\ fetches'[i] <= 1 + crashes'
         /\ \/ fetches'[i] <= crashes'
            \/ cache' # None
            \/ \E q \in Requests : req'[q].pc = "fill" /\ Inst(q)' = i
  BY <1>2 DEF LookupDoes
<1>3. ASSUME NEW r \in Requests, EnterDoes(r)
      PROVE  /\ fetches'[i] <= 1 + crashes'
         /\ \/ fetches'[i] <= crashes'
            \/ cache' # None
            \/ \E q \in Requests : req'[q].pc = "fill" /\ Inst(q)' = i
  BY <1>3 DEF EnterDoes, Cached, Inst
<1>4. ASSUME NEW r \in Requests, ProbeDoes(r)
      PROVE  /\ fetches'[i] <= 1 + crashes'
         /\ \/ fetches'[i] <= crashes'
            \/ cache' # None
            \/ \E q \in Requests : req'[q].pc = "fill" /\ Inst(q)' = i
  BY <1>4 DEF ProbeDoes, Release, Cached, Inst
<1>5. ASSUME NEW r \in Requests, FetchUpstreamDoes(r)
      PROVE  /\ fetches'[i] <= 1 + crashes'
         /\ \/ fetches'[i] <= crashes'
            \/ cache' # None
            \/ \E q \in Requests : req'[q].pc = "fill" /\ Inst(q)' = i
  BY <1>5 DEF FetchUpstreamDoes, Release, Cached, Inst
<1>6. ASSUME NEW r \in Requests, FillDoes(r)
      PROVE  /\ fetches'[i] <= 1 + crashes'
         /\ \/ fetches'[i] <= crashes'
            \/ cache' # None
            \/ \E q \in Requests : req'[q].pc = "fill" /\ Inst(q)' = i
  BY <1>6 DEF FillDoes, Release, Cached, Inst
<1>7. ASSUME NEW r \in Requests, RecheckDoes(r)
      PROVE  /\ fetches'[i] <= 1 + crashes'
         /\ \/ fetches'[i] <= crashes'
            \/ cache' # None
            \/ \E q \in Requests : req'[q].pc = "fill" /\ Inst(q)' = i
  BY <1>7 DEF RecheckDoes
<1>8. ASSUME NEW r \in Requests, VerifyDoes(r)
      PROVE  /\ fetches'[i] <= 1 + crashes'
         /\ \/ fetches'[i] <= crashes'
            \/ cache' # None
            \/ \E q \in Requests : req'[q].pc = "fill" /\ Inst(q)' = i
  BY <1>8 DEF VerifyDoes
<1>9. ASSUME NEW r \in Requests, EvictDoes(r)
      PROVE  /\ fetches'[i] <= 1 + crashes'
         /\ \/ fetches'[i] <= crashes'
            \/ cache' # None
            \/ \E q \in Requests : req'[q].pc = "fill" /\ Inst(q)' = i
  BY <1>9 DEF EvictDoes, Cached, Inst
<1>10. ASSUME NEW r \in Requests, DenyCheckDoes(r)
      PROVE  /\ fetches'[i] <= 1 + crashes'
         /\ \/ fetches'[i] <= crashes'
            \/ cache' # None
            \/ \E q \in Requests : req'[q].pc = "fill" /\ Inst(q)' = i
  BY <1>10 DEF DenyCheckDoes, AfterDenyCheck
<1>11. ASSUME NEW r \in Requests, AgeCheckDoes(r)
      PROVE  /\ fetches'[i] <= 1 + crashes'
         /\ \/ fetches'[i] <= crashes'
            \/ cache' # None
            \/ \E q \in Requests : req'[q].pc = "fill" /\ Inst(q)' = i
  BY <1>11 DEF AgeCheckDoes
<1>12. ASSUME NEW r \in Requests, ScanDoes(r)
      PROVE  /\ fetches'[i] <= 1 + crashes'
         /\ \/ fetches'[i] <= crashes'
            \/ cache' # None
            \/ \E q \in Requests : req'[q].pc = "fill" /\ Inst(q)' = i
  BY <1>12 DEF ScanDoes
<1>13. ASSUME NEW r \in Requests, RecordDoes(r)
      PROVE  /\ fetches'[i] <= 1 + crashes'
         /\ \/ fetches'[i] <= crashes'
            \/ cache' # None
            \/ \E q \in Requests : req'[q].pc = "fill" /\ Inst(q)' = i
  BY <1>13 DEF RecordDoes
<1>14. ASSUME NEW r \in Requests, AnchorDoes(r)
      PROVE  /\ fetches'[i] <= 1 + crashes'
         /\ \/ fetches'[i] <= crashes'
            \/ cache' # None
            \/ \E q \in Requests : req'[q].pc = "fill" /\ Inst(q)' = i
  BY <1>14 DEF AnchorDoes
<1>15. ASSUME NEW r \in Requests, RespondDoes(r)
      PROVE  /\ fetches'[i] <= 1 + crashes'
         /\ \/ fetches'[i] <= crashes'
            \/ cache' # None
            \/ \E q \in Requests : req'[q].pc = "fill" /\ Inst(q)' = i
  BY <1>15 DEF RespondDoes
<1>16. CASE Mature
  BY <1>16 DEF Mature, stores, environment, Works, Fails
<1>17. CASE Republish
  BY <1>17 DEF Republish, stores, environment, Works, Fails
<1>18. CASE Corrupt
  BY <1>18 DEF Corrupt, stores, environment, Works, Fails
<1>19. CASE CrashDoes
  BY <1>19 DEF CrashDoes
<1>20. CASE UNCHANGED vars
  BY <1>20 DEF vars
<1>21. QED
  BY Effects, <1>1, <1>2, <1>3, <1>4, <1>5, <1>6, <1>7, <1>8, <1>9,
     <1>10, <1>11, <1>12, <1>13, <1>14, <1>15, <1>16, <1>17, <1>18,
     <1>19, <1>20

\* Every step of the flow is a step of the gate, or none.
LEMMA GateStep ==
  ASSUME TypeOK, BodyPresent, FlowVetted,
         [Next]_vars
  PROVE  [Gate!Next]_(Gate!vars)
<1> USE DEF FlowVetted, FlowVettedFor, At, Keeps, Moves, Ends
<1> req \in [Requests -> Request]
  BY DEF TypeOK
<1> \A o \in Requests :
      /\ req[o].proj \in Projects /\ req[o].body \in Bytes \union {None}
      /\ req[o].rec \in Bytes \union {None} /\ req[o].retry \in BOOLEAN
  BY ContextTypes
<1>1. ASSUME NEW r \in Requests, NEW p \in Projects, BeginDoes(r, p)
      PROVE  [Gate!Next]_(Gate!vars)
  BY <1>1 DEF BeginDoes, Served, Passed, Gate!vars
<1>2. ASSUME NEW r \in Requests, LookupDoes(r)
      PROVE  [Gate!Next]_(Gate!vars)
  BY <1>2 DEF LookupDoes, Served, Passed, Gate!vars
<1>3. ASSUME NEW r \in Requests, EnterDoes(r)
      PROVE  [Gate!Next]_(Gate!vars)
  BY <1>3 DEF EnterDoes, Served, Passed, Gate!vars
<1>4. ASSUME NEW r \in Requests, ProbeDoes(r)
      PROVE  [Gate!Next]_(Gate!vars)
  BY <1>4 DEF ProbeDoes, Served, Passed, Gate!vars
<1>5. ASSUME NEW r \in Requests, FetchUpstreamDoes(r)
      PROVE  [Gate!Next]_(Gate!vars)
  BY <1>5 DEF FetchUpstreamDoes, Served, Passed, Gate!vars
<1>6. ASSUME NEW r \in Requests, FillDoes(r)
      PROVE  [Gate!Next]_(Gate!vars)
  BY <1>6 DEF FillDoes, Served, Passed, Gate!vars
<1>7. ASSUME NEW r \in Requests, RecheckDoes(r)
      PROVE  [Gate!Next]_(Gate!vars)
  BY <1>7 DEF RecheckDoes, Served, Passed, Gate!vars
<1>8. ASSUME NEW r \in Requests, VerifyDoes(r)
      PROVE  [Gate!Next]_(Gate!vars)
  BY <1>8 DEF VerifyDoes, Served, Passed, Gate!vars
<1>9. ASSUME NEW r \in Requests, EvictDoes(r)
      PROVE  [Gate!Next]_(Gate!vars)
  BY <1>9 DEF EvictDoes, Served, Passed, Gate!vars
<1>10. ASSUME NEW r \in Requests, DenyCheckDoes(r)
      PROVE  [Gate!Next]_(Gate!vars)
  BY <1>10 DEF DenyCheckDoes, Served, Passed, Gate!vars
<1>11. ASSUME NEW r \in Requests, AgeCheckDoes(r)
      PROVE  [Gate!Next]_(Gate!vars)
  BY <1>11 DEF AgeCheckDoes, Served, Passed, Gate!vars
<1>12. ASSUME NEW r \in Requests, ScanDoes(r)
      PROVE  [Gate!Next]_(Gate!vars)
  <2>1. Served' = Served /\ UNCHANGED <<trust, tracked>>
    BY <1>12 DEF ScanDoes, Served
  <2>2. req[r].body \in Bytes
    BY <1>12 DEF ScanDoes, BodyPresent
  <2>3. CASE verdicts' = verdicts \union {<<req[r].proj, req[r].body, "pass">>}
    <3>1. Passed' = Passed \union {<<req[r].proj, req[r].body>>}
      BY <2>2, <2>3 DEF Passed
    <3>2. QED
      BY <2>1, <2>2, <3>1 DEF Gate!Next, Gate!Pass
  <2>4. CASE verdicts' = verdicts \union {<<req[r].proj, req[r].body, "deny">>}
    <3>1. Passed' = Passed
      BY <2>4 DEF Passed
    <3>2. QED
      BY <2>1, <3>1 DEF Gate!vars
  <2>5. CASE UNCHANGED verdicts
    BY <2>1, <2>5 DEF Gate!vars, Passed
  <2>6. QED
    BY <1>12, <2>3, <2>4, <2>5 DEF ScanDoes
<1>13. ASSUME NEW r \in Requests, RecordDoes(r)
      PROVE  [Gate!Next]_(Gate!vars)
  BY <1>13 DEF RecordDoes, Served, Passed, Gate!vars
<1>14. ASSUME NEW r \in Requests, AnchorDoes(r)
      PROVE  [Gate!Next]_(Gate!vars)
  <2>1. Served' = Served
    BY <1>14 DEF AnchorDoes, Served
  <2>2. Passed' = Passed /\ UNCHANGED tracked
    BY <1>14 DEF AnchorDoes, Passed
  <2>3. req[r].body \in Bytes /\ Vetted(r)
    BY <1>14 DEF AnchorDoes, BodyPresent, FlowVetted, FlowVettedFor
  <2>4. <<req[r].proj, req[r].body>> \in Passed
    BY <2>3 DEF Vetted, Passed
  <2>5. CASE trust' = [trust EXCEPT ![req[r].proj] = req[r].body]
    BY <2>1, <2>2, <2>3, <2>4, <2>5 DEF Gate!Next, Gate!Anchor
  <2>6. CASE UNCHANGED trust
    BY <2>1, <2>2, <2>6 DEF Gate!vars
  <2>7. QED
    BY <1>14, <2>5, <2>6 DEF AnchorDoes
<1>15. ASSUME NEW r \in Requests, RespondDoes(r)
      PROVE  [Gate!Next]_(Gate!vars)
  <2>1. Passed' = Passed /\ UNCHANGED trust
    BY <1>15 DEF RespondDoes, Passed
  <2>2. req[r].body \in Bytes /\ Vetted(r)
    BY <1>15 DEF RespondDoes, BodyPresent, FlowVetted, FlowVettedFor
  <2>3. <<req[r].proj, req[r].body>> \in Passed
    BY <2>2 DEF Vetted, Passed
  <2>4. CASE /\ Ends(r, "ok")
             /\ tracked' = IF req[r].proj = Default THEN tracked
                           ELSE tracked \union {<<req[r].proj, req[r].body>>}
    <3>1. req[r].code = "none"
      BY <1>15 DEF RespondDoes, FlowVetted, FlowVettedFor
    <3>2. Served' = Served \union {<<req[r].proj, req[r].body>>}
      BY <2>4, <3>1 DEF Served
    <3>3. QED
      BY <2>1, <2>2, <2>3, <2>4, <3>2 DEF Gate!Next, Gate!Serve
  <2>5. CASE Ends(r, "error") /\ UNCHANGED tracked
    <3>1. Served' = Served
      BY <1>15, <2>5 DEF RespondDoes, Served
    <3>2. QED
      BY <2>1, <2>5, <3>1 DEF Gate!vars
  <2>6. QED
    BY <1>15, <2>4, <2>5 DEF RespondDoes
<1>16. CASE Mature
  <2>1. UNCHANGED <<req, trust, tracked, verdicts>>
    BY <1>16 DEF Mature, stores
  <2>2. QED
    BY <2>1 DEF Gate!vars, Served, Passed
<1>17. CASE Republish
  <2>1. UNCHANGED <<req, trust, tracked, verdicts>>
    BY <1>17 DEF Republish, stores
  <2>2. QED
    BY <2>1 DEF Gate!vars, Served, Passed
<1>18. CASE Corrupt
  <2>1. UNCHANGED <<req, trust, tracked, verdicts>>
    BY <1>18 DEF Corrupt, stores
  <2>2. QED
    BY <2>1 DEF Gate!vars, Served, Passed
<1>19. CASE CrashDoes
  BY <1>19 DEF CrashDoes, Served, Passed, Gate!vars
<1>20. CASE UNCHANGED vars
  <2>1. UNCHANGED <<req, trust, tracked, verdicts>>
    BY <1>20 DEF vars
  <2>2. QED
    BY <2>1 DEF Gate!vars, Served, Passed
<1>21. QED
  BY Effects, <1>1, <1>2, <1>3, <1>4, <1>5, <1>6, <1>7, <1>8, <1>9,
     <1>10, <1>11, <1>12, <1>13, <1>14, <1>15, <1>16, <1>17, <1>18,
     <1>19, <1>20

\* The inductive invariant of handleTarball and what it calls: what each local
\* copy of shared state still means at each place of the handler.
THEOREM Invariance == Spec => []IInv
<1>1. ASSUME IInv, [Next]_vars
      PROVE  IInv'
  <2> USE DEF IInv
  <2>1. (TypeOK /\ BodyPresent /\ LockHeldInside /\ AnchorsVetted /\ AuditExact)'
    BY <1>1, TypeStep, LockStep, AnchorsStep, AuditStep
  <2>2. (FlowVetted /\ ServedWasValidated)'
    BY <1>1, FlowStep DEF FlowVetted, ServedWasValidated, Vetted
  <2>3. (DenialsRespected /\ DenialSticks /\ DenialsFounded /\ DeniedByOwnScope)'
    BY <1>1, DenialStep, FoundedStep
  <2>4. (HealsOnce /\ SingleFaultHeals)'
    BY <1>1, HealsForStep, TamperStep, MismatchStep
    DEF HealsOnce, SingleFaultHeals, Genuine
  <2>5. (FetchBudget /\ OneFetchPerInstance)'
    <3>1. ASSUME faults' = 0, republished' = 0
          PROVE  /\ \A p \in Projects : trust'[p] \in Genuine'
                 /\ \A r \in Requests : PristineFor(r)'
                 /\ \A i \in Instances :
                      /\ fetches'[i] <= 1 + crashes'
                      /\ \/ fetches'[i] <= crashes'
                         \/ cache' # None
                         \/ \E q \in Requests :
                              req'[q].pc = "fill" /\ Inst(q)' = i
      BY <1>1, <3>1, CleanStep, PristineStep, FetchStep DEF Genuine
    <3>2. QED
      BY <3>1 DEF FetchBudget, OneFetchPerInstance, At
  <2>6. QED
    BY <2>1, <2>2, <2>3, <2>4, <2>5
<1>2. QED
  BY InitIInv, <1>1, PTL DEF Spec

\* Type correctness: the state of handlers, cache, tables and mutexes keeps
\* its shape through every action of the trust flow.
THEOREM TypeCorrect == Spec => []TypeOK
BY Invariance, PTL DEF IInv

\* Only content that the chain of the request's own scope validated is served,
\* whatever the shared cache and the upstream hold.
THEOREM OnlyValidatedServed == Spec => []ServedWasValidated
BY Invariance, PTL DEF IInv

\* A recorded denial binds every later request of its scope, trusted or not,
\* whose deny-list lookup does not fail open.
THEOREM DenialsBind == Spec => []DenialSticks
BY Invariance, PTL DEF IInv

\* A denial binds nobody else: deny-list-check rejects for verdicts of the
\* request's own scope only.
THEOREM DenialsStayHome == Spec => []DeniedByOwnScope
BY Invariance, PTL DEF IInv

\* The audit trail is exact: a record for every served download of a project,
\* and for nothing else.
THEOREM RecordsMatchAnswers == Spec => []AuditExact
BY Invariance, PTL DEF IInv

\* Mutual exclusion in localcache.Fetch: the key mutex of an instance is held
\* by exactly the request between its Lock and its Unlock.
THEOREM KeyMutex == Spec => []LockHeldInside
BY Invariance, PTL DEF IInv

\* Self-healing: one fault alone never makes a trusted request fail its
\* integrity check while the upstream still serves the anchored content.
THEOREM OneFaultHeals == Spec => []SingleFaultHeals
BY Invariance, PTL DEF IInv

\* Without faults an instance fetches the key once in each run of the proxy.
THEOREM FetchedOnce == Spec => []OneFetchPerInstance
BY Invariance, PTL DEF IInv

\* The trust flow implements the gate: it passes, anchors, serves and records
\* as TrustGate allows, for any number of requests, scopes and instances.
THEOREM FlowIsGate == Spec => ImplementsGate
<1>1. Init => Gate!Init
  <2> SUFFICES ASSUME Init PROVE Gate!Init
    OBVIOUS
  <2>1. \A r \in Requests : req[r].code = "none"
    BY DEF Init, Idle
  <2>2. Served = {} /\ Passed = {}
    BY <2>1 DEF Init, Served, Passed
  <2>3. /\ trust \in [Projects -> Bytes \union {None}]
        /\ \A p \in Projects : trust[p] = None
        /\ tracked = {}
    BY DEF Init
  <2>4. QED
    BY <2>2, <2>3 DEF Gate!Init
<1>2. IInv /\ [Next]_vars => [Gate!Next]_(Gate!vars)
  BY GateStep DEF IInv
<1>3. QED
  BY <1>1, <1>2, Invariance, PTL DEF Spec, Gate!Spec, ImplementsGate
==============================================================================
