-------------------------- MODULE MCValidationChain --------------------------
EXTENDS ValidationChain, TLC

RequestSymmetry == Permutations(Requests)

Mw(type, mode, onError) ==
  [type |-> type, mode |-> mode, onError |-> onError, enabled |-> TRUE]

\* The chain of the registry: an age limit, OSV, the two malware scanners.
GlobalChain ==
  << Mw(MinAge, "deny", "fail_open"), Mw("cve-check", "deny", "fail_closed"),
     Mw("malware-scan", "warn", "fail_open"), Mw("guarddog-scan", "deny", "fail_open") >>

\* What a project may be given: the inherited chain, a lax one, one that lists
\* deny-list-check last, and one that ends in a warning.
Lawful ==
  { <<>>, << Mw("cve-check", "warn", "fail_open") >>,
    << Mw("guarddog-scan", "deny", "fail_closed"), Hook >>,
    << Hook, Mw("malware-scan", "warn", "fail_open") >> }

\* The same, and one whose deny-list-check is switched off by its params.
WithDisabled ==
  Lawful \union {<< [Hook EXCEPT !.enabled = FALSE], Mw("cve-check", "warn", "fail_open") >>}

CONSTANTS bad, vulnerable, clean

Findings ==
  [type \in Scanners |->
     CASE type = "cve-check" -> {vulnerable}
       [] type \in {"malware-scan", "guarddog-scan"} -> {bad}
       [] OTHER -> {}]

DefaultAllowlist == {"guarddog-scan", "malware-scan", "cve-check"}
==============================================================================
