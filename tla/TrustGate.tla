------------------------------ MODULE TrustGate ------------------------------
(***************************************************************************)
(* What the proxy promises about trust, whatever registry the artifact is  *)
(* of and whatever lies between the client and the upstream.  A slot is a  *)
(* project scope together with an artifact's name in it.  Content passes   *)
(* the validation chain of a slot; only content that passed there is ever  *)
(* anchored or served there; and a download that is served in a slot with  *)
(* an audit trail is recorded in the same step.                            *)
(***************************************************************************)
CONSTANTS
  Slots,      \* scopes, each with the name of an artifact
  Audited,    \* the slots whose downloads are recorded
  Contents,
  NoAnchor

VARIABLES
  passed,     \* {<<slot, content>>}: what the validation chain let through
  anchor,     \* the trust store: slot -> content
  served,     \* {<<slot, content>>}: what clients were given
  recorded    \* {<<slot, content>>}: the audit trail

vars == <<passed, anchor, served, recorded>>

\* It may begin with the anchors of an earlier run.
Init ==
  /\ passed \subseteq Slots \X Contents
  /\ anchor \in [Slots -> Contents \union {NoAnchor}]
  /\ \A s \in Slots : anchor[s] # NoAnchor => <<s, anchor[s]>> \in passed
  /\ served = {} /\ recorded = {}

Pass(s, b) ==
  /\ passed' = passed \union {<<s, b>>}
  /\ UNCHANGED <<anchor, served, recorded>>

Anchor(s, b) ==
  /\ <<s, b>> \in passed
  /\ anchor' = [anchor EXCEPT ![s] = b]
  /\ UNCHANGED <<passed, served, recorded>>

Serve(s, b) ==
  /\ <<s, b>> \in passed
  /\ served' = served \union {<<s, b>>}
  /\ recorded' = IF s \in Audited THEN recorded \union {<<s, b>>} ELSE recorded
  /\ UNCHANGED <<passed, anchor>>

Next == \E s \in Slots, b \in Contents :
          Pass(s, b) \/ Anchor(s, b) \/ Serve(s, b)

Spec == Init /\ [][Next]_vars
=============================================================================
