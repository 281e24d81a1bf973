----------------------------- MODULE MCCveRecheck -----------------------------
EXTENDS Advisories, TLC

RequestSymmetry == Permutations(Requests)

Setting(serve, validate) == [serve |-> serve, validate |-> validate]

\* The strictest settings of both checks.
Strict ==
  {[mode |-> Setting("deny", "deny"), onError |-> Setting("fail_closed", "fail_closed")]}

\* The serve check has the strictest settings, the validate check warns and
\* fails open.
Split ==
  {[mode |-> Setting("deny", "warn"), onError |-> Setting("fail_closed", "fail_open")]}

-----------------------------------------------------------------------------
Full(vector) == IF "BS" \in DOMAIN vector THEN vector
                ELSE [m \in Metrics |-> IF m \in DOMAIN vector THEN vector[m] ELSE Absent]
V3(vector) == [type |-> "CVSS_V3", score |-> Full(vector)]
V4(vector) == [type |-> "CVSS_V4", score |-> Full(vector)]
V2(vector) == [type |-> "CVSS_V2", score |-> Full(vector)]

Harmless == [AV |-> "P", AC |-> "H", PR |-> "H", UI |-> "R", S |-> "U",
             C |-> "N", I |-> "N", A |-> "N"]
Partial == [AV |-> "N", AC |-> "L"]
V4Medium == [AV |-> "L", AC |-> "L", PR |-> "L", UI |-> "N",
             VC |-> "L", VI |-> "L", VA |-> "N"]

\* A scored record, alone or between scores that are illegible, lower or
\* higher, next to a record that at most its database knows.
Revisable ==
  {<<[severity |-> <<V3(Harmless)>>, database |-> "critical"],
     [severity |-> <<V2(Harmless)>>, database |-> "moderate"]>>,
   <<[severity |-> <<V3(Partial), V3(Harmless), V4(V4Medium)>>, database |-> ""],
     [severity |-> <<V4([BS |-> <<>>])>>, database |-> "severe"]>>,
   <<[severity |-> <<V4([BS |-> <<70>>]), V3(Harmless)>>, database |-> ""]>>}
===============================================================================
