-------------------------------- MODULE Ledger --------------------------------
(***************************************************************************)
(* What project.Tracker promises for the download records handed to it: a  *)
(* record that it takes is either written to the dependency store or added *)
(* to the number of dropped records, and once it has drained nothing is    *)
(* pending any more.                                                       *)
(***************************************************************************)
EXTENDS Naturals

CONSTANTS
  Room,        \* records that can be pending at a time
  BatchMax     \* records settled by one write

VARIABLES
  phase,       \* "open", "closed", "drained"
  pending,     \* records taken and not settled
  stored,      \* records written
  dropped      \* what Dropped() returns

vars == <<phase, pending, stored, dropped>>

Init == phase = "open" /\ pending = 0 /\ stored = 0 /\ dropped = 0

Take ==
  /\ phase = "open" /\ pending < Room
  /\ pending' = pending + 1
  /\ UNCHANGED <<phase, stored, dropped>>

TurnAway ==
  /\ dropped' = dropped + 1
  /\ UNCHANGED <<phase, pending, stored>>

\* A write that fails may have stored some of its records; all are counted.
\* The last write and the end of the flusher may be one step.
Settle ==
  /\ phase # "drained"
  /\ \E n \in 1..BatchMax, k \in 0..BatchMax :
       /\ k <= n /\ n <= pending
       /\ pending' = pending - n
       /\ stored' = stored + k
       /\ \/ k = n /\ UNCHANGED dropped
          \/ dropped' = dropped + n
       /\ \/ UNCHANGED phase
          \/ phase = "closed" /\ pending' = 0 /\ phase' = "drained"

Close ==
  /\ phase = "open" /\ phase' = "closed"
  /\ UNCHANGED <<pending, stored, dropped>>

Drain ==
  /\ phase = "closed" /\ pending = 0
  /\ phase' = "drained"
  /\ UNCHANGED <<pending, stored, dropped>>

Next == Take \/ TurnAway \/ Settle \/ Close \/ Drain

Spec == Init /\ [][Next]_vars
===============================================================================
