------------------------------- MODULE Totals -------------------------------
(***************************************************************************)
(* Sums of counts: of a list, and of what a function counts for each member  *)
(* of a finite set, which is the number of its members and their units.      *)
(***************************************************************************)
EXTENDS Naturals, Sequences, FiniteSets

Total(counts) ==
    LET sum[n \in 0 .. Len(counts)] == IF n = 0 THEN 0 ELSE sum[n - 1] + counts[n]
    IN  sum[Len(counts)]

Units(f, S) == UNION {{x} \X (1 .. f[x]) : x \in S}
SumOver(f, S) == Cardinality(Units(f, S))
=============================================================================
