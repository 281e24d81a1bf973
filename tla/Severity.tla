------------------------------- MODULE Severity -------------------------------
(***************************************************************************)
(* How severe an OSV record is, and which records a check acts on: the     *)
(* pure part of cveosv.  A CVSS vector is the map of its metrics that      *)
(* parseCVSSBaseScore makes of the text, or, if it brings its score along, *)
(* a record with that; scores are in tenths, and the equation is computed  *)
(* in millionths: for each of the 2592 base vectors of CVSS v3.1 the       *)
(* tenths are those of the float64 computation.                            *)
(***************************************************************************)
EXTENDS Integers, Sequences, FiniteSets, SequencesExt

AllBands == {"critical", "high", "medium", "low", "unknown"}
NoThreshold == ""

SeverityRank(s) ==
  CASE s = "critical" -> 4 [] s = "high" -> 3 [] s = "medium" -> 2
    [] s = "low" -> 1 [] OTHER -> 0

DefaultedMinSeverity(s) == IF SeverityRank(s) > 0 THEN s ELSE NoThreshold

-----------------------------------------------------------------------------
(* parseCVSSBaseScore.                                                     *)

\* The metrics that it looks up, and the values that the tables know of; "X" is
\* any other.
Metrics == {"AV", "AC", "PR", "UI", "S", "C", "I", "A", "VC", "VI", "VA"}
Absent == "absent"
Values == {"N", "A", "L", "P", "H", "R", "U", "C", "X", Absent}

\* "BS" holds the score that a vector brings along, and nothing if that is not
\* a number.
Vector == [Metrics -> Values] \union [BS : Seq(Int)]

\* Seeded defects.
PrWeightSwapped(scope) ==
  IF scope = "U" THEN [N |-> 85, L |-> 68, H |-> 50] ELSE [N |-> 85, L |-> 62, H |-> 27]
bandAbove(score) ==
  CASE score > 90 -> "critical" [] score \in 71..90 -> "high" [] score \in 41..70 -> "medium"
    [] OTHER -> "low"

\* Privileges weigh more when the scope changes.
PrWeight(scope) ==
  IF scope = "C" THEN [N |-> 85, L |-> 68, H |-> 50] ELSE [N |-> 85, L |-> 62, H |-> 27]

ciaTable == [H |-> 56, L |-> 22, N |-> 0]

\* The tables of the metrics, in hundredths.
Table(key, scope) ==
  CASE key = "AV" -> [N |-> 85, A |-> 62, L |-> 55, P |-> 20]
    [] key = "AC" -> [L |-> 77, H |-> 44]
    [] key = "UI" -> [N |-> 85, R |-> 62]
    [] key = "PR" -> PrWeight(scope)
    [] OTHER -> ciaTable

\* v4 has no scope, and its own names for the impacts.
ScopeOf(v) == IF v["S"] # Absent THEN v["S"] ELSE "U"
Impacted(v) == IF v["VC"] # Absent THEN <<"VC", "VI", "VA">> ELSE <<"C", "I", "A">>

HasMetric(v, key) == v[key] \in DOMAIN Table(key, ScopeOf(v))
MetricValue(v, key) == Table(key, ScopeOf(v))[v[key]]
Complete(v) == \A key \in {"AV", "AC", "UI", "PR", Impacted(v)[1], Impacted(v)[2],
                           Impacted(v)[3]} : HasMetric(v, key)

Million == 1000000
Scaled(a, b) == (((a \div 1000) * b) \div 1000) + (((a % 1000) * b) \div Million)
Pow15(x) == LET x3 == Scaled(Scaled(x, x), x)
                x5 == Scaled(Scaled(x3, x), x)
            IN Scaled(Scaled(x5, x5), x5)

ImpactOf(v) ==
  LET lost(i) == 100 - MetricValue(v, Impacted(v)[i])
      iss == Million - lost(1) * lost(2) * lost(3)
  IN IF ScopeOf(v) = "C"
     THEN ((752 * (iss - 29000)) \div 100) - ((325 * Pow15(iss - 20000)) \div 100)
     ELSE (642 * iss) \div 100

Exploitability(v) ==
  LET reach == (822 * MetricValue(v, "AV") * MetricValue(v, "AC") * MetricValue(v, "PR")) \div 100
  IN (reach * MetricValue(v, "UI")) \div 100

\* What roundup is given, in hundred-thousandths.
Unrounded(v) ==
  LET sum == ImpactOf(v) + Exploitability(v)
  IN ((IF ScopeOf(v) = "C" THEN (108 * sum) \div 100 ELSE sum) + 5) \div 10

roundup(x) == IF x % 10000 = 0 THEN x \div 10000 ELSE (x \div 10000) + 1
clampScore(score) == IF score < 0 THEN 0 ELSE IF score > 100 THEN 100 ELSE score

\* The score, or NoScore for a vector that does not parse.
NoScore == -1
parseCVSSBaseScore(v) ==
  IF "BS" \in DOMAIN v
  THEN IF v["BS"] = <<>> THEN NoScore ELSE clampScore(v["BS"][1])
  ELSE IF ~Complete(v) THEN NoScore
       ELSE IF ImpactOf(v) <= 0 THEN 0 ELSE clampScore(roundup(Unrounded(v)))

-----------------------------------------------------------------------------
(* computeSeverity: a record has a list of scores and the severity that    *)
(* its database gives it.                                                  *)

Record == [severity : Seq([type : STRING, score : Vector]), database : STRING]

bandFromScore(score) ==
  CASE score >= 90 -> "critical" [] score \in 70..89 -> "high" [] score \in 40..69 -> "medium"
    [] OTHER -> "low"

ScoredTypes == {"CVSS_V3", "CVSS_V4"}

\* The loop over raw.Severity.
BestScore(raw) ==
  LET better(best, sev) ==
        IF sev.type \in ScoredTypes /\ parseCVSSBaseScore(sev.score) > best
        THEN parseCVSSBaseScore(sev.score) ELSE best
  IN FoldLeft(better, NoScore, raw.severity)

fromDatabase(raw) ==
  IF raw.database = "moderate" THEN "medium"
  ELSE IF SeverityRank(raw.database) > 0 THEN raw.database ELSE "unknown"

computeSeverity(raw) ==
  IF BestScore(raw) # NoScore THEN bandFromScore(BestScore(raw)) ELSE fromDatabase(raw)

-----------------------------------------------------------------------------
(* The threshold, on the vulnerabilities of a query (each has its place in *)
(* the answer as id) and on the counts of the persistent cache.            *)

filterBySeverity(vulns, min) ==
  IF SeverityRank(min) <= 0 THEN vulns
  ELSE {v \in vulns : SeverityRank(v.severity) >= SeverityRank(min)}

CountBySeverity(vulns) ==
  [band \in AllBands |-> Cardinality({v \in vulns : v.severity = band})]

\* Seeded defect: counts of unknown severity are kept.
FilterKeepsUnknown(counts, min) ==
  [band \in AllBands |->
     IF band = "unknown" \/ SeverityRank(band) >= SeverityRank(min) THEN counts[band] ELSE 0]

FilterByMinSeverity(counts, min) ==
  IF SeverityRank(min) <= 0 THEN counts
  ELSE [band \in AllBands |->
          IF SeverityRank(band) >= SeverityRank(min) THEN counts[band] ELSE 0]

===============================================================================
