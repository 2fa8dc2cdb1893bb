----------------------------- MODULE Correction -----------------------------
(* benjamini_hochberg (app/analysis/rate_tests.py): the correction of the    *)
(* p-values of several tests.  P-values are integers, One standing for 1,    *)
(* and p maps each test to a multiple of every number of tests.              *)
EXTENDS Integers, FiniteSetsExt

CONSTANTS
    One,
    Alpha   \* ALPHA: what a test must fall below to be called clear

ASSUME CorrectionAssumption == One \in Nat /\ Alpha \in Nat

(* The loop visits the p-values from the largest down; sorted keeps the      *)
(* order of equals under reverse.                                            *)
VisitedBefore(p, i, j) == p[i] > p[j] \/ (p[i] = p[j] /\ i < j)

(* The rank of a test counts those that are still to be visited, and itself. *)
Scaled(p, i) ==
    (p[i] * Cardinality(DOMAIN p))
        \div Cardinality({j \in DOMAIN p : i = j \/ VisitedBefore(p, i, j)})

(* Fault: no running minimum.                                                *)
AdjustedAlone(p, i) == Min({One, Scaled(p, i)})

Adjusted(p, i) ==
    Min({One} \cup {Scaled(p, j) : j \in {k \in DOMAIN p : k = i \/ VisitedBefore(p, k, i)}})
=============================================================================
