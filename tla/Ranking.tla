------------------------------ MODULE Ranking ------------------------------
(***************************************************************************)
(* A finite set in the order of a relation, the way a query with ORDER BY   *)
(* returns its rows: the n-th of them is the one that has n - 1 others      *)
(* before it.                                                               *)
(***************************************************************************)
EXTENDS Integers, FiniteSets

(* R is a set of pairs that orders S.                                        *)
Orders(R, S) ==
    /\ \A x \in S : <<x, x>> \notin R
    /\ \A x, y \in S : x # y => <<x, y>> \in R \/ <<y, x>> \in R
    /\ \A x, y, z \in S : <<x, y>> \in R /\ <<y, z>> \in R => <<x, z>> \in R

AheadOf(S, R, x) == {y \in S : <<y, x>> \in R}

Ranked(S, R) ==
    [n \in 1 .. Cardinality(S) |->
        CHOOSE x \in S : Cardinality(AheadOf(S, R, x)) = n - 1]
=============================================================================
