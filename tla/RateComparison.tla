--------------------------- MODULE RateComparison ---------------------------
(***************************************************************************)
(* The comparison of several places (app/analysis/comparison.py, called by  *)
(* compare_site_options): the place with the lowest rate is tested against  *)
(* each of the others, the p-values are corrected for their number, and one *)
(* place is recommended only if it is lower than all.                       *)
(*                                                                          *)
(* The places of a request have one radius and one date range, so that      *)
(* their rates compare as their counts.  What a test returns depends on     *)
(* when the incidents happened, not on their number alone: it is any        *)
(* p-value, and 1 when the counts are equal.                               *)
(***************************************************************************)
EXTENDS Correction, Sequences

CONSTANTS
    MaxOptions, MaxCount,
    PValue,         \* the p-values a test may return
    PlaceFloor,     \* MIN_PLACE_COUNT
    CombinedFloor,  \* MIN_COMBINED_COUNT
    MinDays,        \* MIN_ANALYSIS_DAYS
    MonthDays,      \* the days of a month
    MaxMonths

ASSUME ComparisonAssumption ==
    /\ PValue \subseteq 0 .. One
    /\ MaxOptions \in Nat /\ MaxCount \in Nat /\ PlaceFloor \in Nat /\ CombinedFloor \in Nat
    /\ MinDays \in Nat /\ MonthDays \in Nat \ {0} /\ MaxMonths \in Nat

VARIABLES
    counts,  \* counts[o]: incident_count of option o
    tests,   \* tests[o]: p-value of option o against the candidate
    window   \* analysis_start_date and analysis_end_date, as days

comparisonVars == <<counts, tests, window>>

Options == DOMAIN counts

(* min keeps the first of equals.                                            *)
Candidate == CHOOSE c \in Options : \A o \in Options :
                counts[c] < counts[o] \/ (counts[c] = counts[o] /\ c <= o)
Others == Options \ {Candidate}
TestFamily == [o \in Others |-> tests[o]]

-----------------------------------------------------------------------------
(* Period bins.                                                              *)

(* _month_range and trim_partial_edge_months: a month that is covered in     *)
(* part is dropped at either end, unless fewer than two are left.            *)
Bins(from, to) ==
    LET months == (to \div MonthDays) - (from \div MonthDays) + 1
        trimmed == months - (IF from % MonthDays # 0 THEN 1 ELSE 0)
                          - (IF (to + 1) % MonthDays # 0 THEN 1 ELSE 0)
    IN  IF trimmed >= 2 THEN trimmed ELSE months

-----------------------------------------------------------------------------
(* Decisions.                                                                *)

(* Fault: only the two counts together have a floor.                         *)
MetTogether(o) ==
    /\ window.to - window.from + 1 >= MinDays
    /\ counts[Candidate] + counts[o] >= CombinedFloor

(* _minimum_data_status is "met".                                            *)
Met(o) ==
    /\ window.to - window.from + 1 >= MinDays
    /\ counts[Candidate] >= PlaceFloor
    /\ counts[Candidate] + counts[o] >= CombinedFloor

(* rate_ratio <= 0.8, with a half added to both when one count is 0.         *)
FarLower(o) ==
    LET a == counts[Candidate] b == counts[o]
    IN  IF a = 0 \/ b = 0 THEN 5 * (2 * a + 1) <= 4 * (2 * b + 1) ELSE 5 * a <= 4 * b

(* classify_pairwise_result.                                                 *)
Classified(o) ==
    CASE ~Met(o) -> "insufficient_data"
      [] Met(o) /\ Bins(window.from, window.to) < 2 -> "model_warning"
      [] Met(o) /\ Bins(window.from, window.to) >= 2 ->
           IF Adjusted(TestFamily, o) < Alpha /\ FarLower(o) THEN "statistically_lower" ELSE "not_clear"

(* _overall_decision.                                                        *)
Overall ==
    LET classes == {Classified(o) : o \in Others}
    IN  CASE "model_warning" \in classes -> "model_warning"
          [] "model_warning" \notin classes /\ "insufficient_data" \in classes -> "insufficient_data"
          [] classes = {"statistically_lower"} -> "statistically_lower"
          [] OTHER -> "not_clear"

ComparisonInit ==
    \E n \in 2 .. MaxOptions :
      /\ counts \in [1 .. n -> 0 .. MaxCount]
      /\ tests \in [1 .. n -> PValue]
      /\ \A o \in 1 .. n : counts[o] = counts[Candidate] => tests[o] = One
      /\ window \in [from : 0 .. MonthDays - 1, to : 0 .. MaxMonths * MonthDays - 1]
      /\ window.from <= window.to

-----------------------------------------------------------------------------
(* Properties.                                                               *)

(* The loop of benjamini_hochberg computes the step-up adjustment: the least *)
(* of p times the number of tests over the number of tests that are at most  *)
(* p, taken over every p that is no smaller, and never more than 1.          *)
AdjustedAsDefined ==
    \A i \in Others :
      Adjusted(TestFamily, i) = Min({One} \cup
        {(tests[j] * Cardinality(Others))
            \div Cardinality({k \in Others : tests[k] <= tests[j]}) :
           j \in {l \in Others : tests[l] >= tests[i]}})

(* The argument of the comment in build_statistical_comparison: a place is   *)
(* recommended exactly when it has incidents enough and is clearly lower     *)
(* than every other on each uncorrected test, so that neither the choice of  *)
(* the candidate nor the correction can make a winner; and a window that is  *)
(* long enough always has the two months the tests need, or says so.         *)
RecommendationIsEarned ==
    Overall = "statistically_lower" <=>
      /\ window.to - window.from + 1 >= MinDays
      /\ window.from \div MonthDays < window.to \div MonthDays
      /\ counts[Candidate] >= PlaceFloor
      /\ \A o \in Others :
           /\ counts[Candidate] + counts[o] >= CombinedFloor
           /\ tests[o] < Alpha /\ FarLower(o)

(* Both of the above: the correction is the one its name says, and what is   *)
(* recommended has earned it.                                                *)
DecisionsHold == AdjustedAsDefined /\ RecommendationIsEarned
=============================================================================
