------------------------------ MODULE Advisories ------------------------------
(***************************************************************************)
(* The OSV checks (CveRecheck) and the severity of the records that they   *)
(* hear of (Severity).  What a query makes of a record depends on nothing  *)
(* but the record, so records are revised and judged before any check has  *)
(* begun.                                                                  *)
(***************************************************************************)
EXTENDS CveRecheck, SequencesExt

CONSTANT Records   \* what OSV may have on the version at first: sequences of records

ASSUME AdvisoriesAssumption == Records \subseteq Seq(Record) /\ None \notin Seq(Record)

VARIABLES
  records,   \* what it has now, or None if checks are run
  decoded    \* what queryHTTP made of it last, before the threshold

Vulns == {[id |-> i, severity |-> computeSeverity(records[i])] : i \in DOMAIN records}
MinSeverities == {DefaultedMinSeverity(s) : s \in AllBands \union {"none"}}

AdvisoriesInit == Init /\ records = None /\ decoded = {}

\* Records are examined without a check, so the threshold in force is of no
\* account.
Appear ==
  /\ records = None /\ config.min = NoThreshold
  /\ now = 0 /\ restarts = 0 /\ known = {} /\ \A r \in Requests : At(r, "idle")
  /\ records' \in Records
  /\ UNCHANGED <<vars, decoded>>

\* queryHTTP decodes an answer.
Decode ==
  /\ records # None
  /\ decoded' = Vulns
  /\ UNCHANGED <<vars, records>>

\* From harmless to severe, as CVSS v3.1 has it.
Ascending(key) ==
  CASE key = "AV" -> <<"P", "L", "A", "N">> [] key = "AC" -> <<"H", "L">>
    [] key = "PR" -> <<"H", "L", "N">> [] key = "UI" -> <<"R", "N">>
    [] key = "S" -> <<"U", "C">> [] OTHER -> <<"N", "L", "H">>

\* OSV revises one metric of a v3 vector to the next severer value.
Revise ==
  /\ records # None
  /\ \E i \in DOMAIN records : \E j \in DOMAIN records[i].severity :
       /\ records[i].severity[j].type = "CVSS_V3"
       /\ \E key \in Metrics \intersect DOMAIN records[i].severity[j].score :
          \E n \in DOMAIN Ascending(key) \ {Len(Ascending(key))} :
            /\ records[i].severity[j].score[key] = Ascending(key)[n]
            /\ records' = [records EXCEPT ![i].severity[j].score[key] = Ascending(key)[n + 1]]
  /\ UNCHANGED <<vars, decoded>>

AdvisoriesNext ==
  \/ Appear
  \/ Decode
  \/ Revise
  \/ records = None /\ Next /\ UNCHANGED <<records, decoded>>

AdvisoriesSpec == AdvisoriesInit /\ [][AdvisoriesNext]_<<vars, records, decoded>>

-----------------------------------------------------------------------------
\* Section 7.1 of CVSS v3.1: the smallest tenth that is not below the score,
\* which is bounded first, and the rating scale (which has "None" for 0.0).
Standard(v) ==
  IF "BS" \in DOMAIN v
  THEN LET t == v["BS"][1] IN IF t \in 0..100 THEN t ELSE IF t < 0 THEN 0 ELSE 100
  ELSE IF ImpactOf(v) <= 0 THEN 0
  ELSE LET x == IF Unrounded(v) > Million THEN Million ELSE Unrounded(v)
       IN CHOOSE t \in 0..100 : 10000 * t >= x /\ 10000 * (t - 1) < x
Rating(t) == CHOOSE band \in {"critical", "high", "medium", "low"} :
               t \in CASE band = "critical" -> 90..100 [] band = "high" -> 70..89
                       [] band = "medium" -> 40..69 [] band = "low" -> 0..39
Legible(v) == IF "BS" \in DOMAIN v THEN v["BS"] # <<>> ELSE Complete(v)

\* computeSeverity: "the highest CVSS_V3/CVSS_V4 base score wins", wherever
\* it stands in the list and whatever the database says, and its band is that
\* of the standard; the database decides when no vector has a score.
BandIsStandard ==
  records # None => \A i \in DOMAIN records :
    LET raw == records[i]
        rated == {Rating(Standard(sev.score)) :
                    sev \in {s \in Range(raw.severity) :
                               s.type \in ScoredTypes /\ Legible(s.score)}}
        band == computeSeverity(raw)
    IN IF rated = {} THEN band = fromDatabase(raw)
       ELSE band \in rated /\ \A b \in rated : SeverityRank(b) <= SeverityRank(band)

\* The persistent cache stores counts, not vulnerabilities: filtering the
\* counts gives the counts of what filtering the vulnerabilities leaves, for
\* every threshold, so both checks act on the same (FilterByMinSeverity,
\* filterBySeverity).
CountsAgree ==
  \A min \in MinSeverities :
    FilterByMinSeverity(CountBySeverity(decoded), min)
      = CountBySeverity(filterBySeverity(decoded, min))

ActedOn(vulns, min) == {v.id : v \in filterBySeverity(vulns, min)}

\* A vulnerability that a check acts on does not get past it because OSV
\* revises the record to something worse, under any threshold (the tables and
\* the equation of parseCVSSBaseScore).
WorseStaysBlocked ==
  [][\A min \in MinSeverities : ActedOn(decoded, min) \subseteq ActedOn(decoded', min)]_decoded
===============================================================================
