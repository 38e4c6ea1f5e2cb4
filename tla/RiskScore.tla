----------------------------- MODULE RiskScore ------------------------------
(***************************************************************************)
(* How an incident is scored: internal/risk/score.go, and the score of a   *)
(* blast radius (EstimateBlastRadius, internal/graph/graph.go).            *)
(*                                                                         *)
(* The code computes in floating point and rounds at the end.  Here a      *)
(* weight over one, two or three hops is counted in sixths and evidence in *)
(* ten-thousandths, both exact but for the repetition factor, which is     *)
(* given to a thousandth; an exponential that is rounded to a score is     *)
(* given by the least argument at which each score is reached.             *)
(***************************************************************************)
EXTENDS Integers, Sequences, FiniteSets, FiniteSetsExt

(* Criticality.Weight, by rank: low, medium, high, critical. *)
CriticalityWeight(rank) == <<1, 3, 8, 20>>[rank + 1]

SeverityWeight ==
  [informational |-> 1, low |-> 3, medium |-> 7, high |-> 13, critical |-> 20]

(* round(100 (1 - e^(-w/25))), w in sixths: where each score begins. *)
BlastSteps ==
  << 1, 3, 4, 6, 7, 9, 11, 12, 14, 15, 17, 19, 21, 22,
     24, 26, 28, 29, 31, 33, 35, 37, 39, 41, 43, 45, 47, 49,
     51, 53, 55, 57, 59, 62, 64, 66, 69, 71, 73, 76, 78, 81,
     84, 86, 89, 92, 94, 97, 100, 103, 106, 109, 112, 115, 119, 122,
     125, 129, 132, 136, 140, 144, 148, 152, 156, 160, 165, 169, 174, 179,
     184, 189, 194, 200, 205, 211, 218, 224, 231, 238, 246, 254, 262, 271,
     280, 290, 301, 312, 325, 339, 354, 370, 389, 411, 436, 466, 503, 554,
     630, 795 >>

BlastScore(sixths) == Cardinality({s \in DOMAIN BlastSteps : BlastSteps[s] <= sixths})

(* round(100 (1 - e^(-raw/55))), raw in ten-thousandths. *)
RiskSteps ==
  << 2757, 8313, 13925, 19595, 25325, 31114, 36965, 42879, 48858,
     54902, 61013, 67193, 73443, 79765, 86160, 92631, 99178, 105805,
     112512, 119303, 126178, 133140, 140191, 147334, 154571, 161905, 169337,
     176871, 184511, 192257, 200114, 208086, 216174, 224383, 232717, 241178,
     249772, 258502, 267374, 276390, 285557, 294879, 304362, 314012, 323833,
     333834, 344019, 354397, 364974, 375759, 386759, 397984, 409443, 421145,
     433102, 445325, 457826, 470617, 483713, 497128, 510879, 524982, 539457,
     554322, 569601, 585316, 601494, 618162, 635351, 653094, 671429, 690397,
     710042, 730414, 751571, 773574, 796494, 820411, 845415, 871610, 899116,
     928070, 958634, 990996, 1025382, 1062062, 1101365, 1143693, 1189553, 1239588,
     1294634, 1355808, 1424647, 1503353, 1595233, 1705602, 1843824, 2028884, 2309838,
     2914075 >>

RiskOf(raw) == Cardinality({s \in DOMAIN RiskSteps : RiskSteps[s] <= raw})

(* 1 + (1 - e^(-(n-1)/3)) / 2, in thousandths, for n findings of a category; *)
(* there are six rules.                                                      *)
RepetitionSteps == <<1000, 1142, 1243, 1316, 1368, 1406>>
RepetitionFactor(n) == RepetitionSteps[n]

(* Findings are [category, severity, confidence], confidence in hundredths.  *)
(* A category counts for its strongest finding and how often it repeats.     *)
CategoryEvidence(findings, c) ==
  LET own == {f \in findings : f.category = c}
  IN  (Max({SeverityWeight[f.severity] * f.confidence : f \in own})
         * RepetitionFactor(Cardinality(own))) \div 1000

Categories(findings) == {f.category : f \in findings}

(* Corroboration across categories, and a critical asset, raise the whole. *)
Factor(findings, critical) ==
  100 + 18 * (Cardinality(Categories(findings)) - 1) + (IF critical THEN 15 ELSE 0)

Assess(findings, blast, critical) ==
  IF findings = {} THEN 0
  ELSE LET evidence == SumFunction([c \in Categories(findings) |->
                                CategoryEvidence(findings, c)])
       IN  RiskOf(evidence * Factor(findings, critical) + 1200 * blast)

SeverityForScore(score) ==
  CASE score >= 70 -> "critical"
    [] score >= 45 -> "high"
    [] score >= 20 -> "medium"
    [] score > 0   -> "low"
    [] OTHER       -> "informational"
=============================================================================
