----------------------------- MODULE MCRetention -----------------------------
(* SessionRetention with a public and an internal identity of which one is   *)
(* at work: the public one through overlapping requests, a crash of the      *)
(* sweep and a comparison, the internal one, which never needs a cookie,     *)
(* through a longer chain of imports, normalisations and analyses.           *)
EXTENDS SessionRetention

CONSTANTS
    PublicWrites, InternalWrites,    \* bounds; a public comparison may come on top
    FirstSweep     \* no sweep starts earlier: its cutoff would precede every row

VARIABLE actor

ShapesInit == Init /\ actor \in Identity

ComparisonsMade == db'["statistical_comparisons"] \ db["statistical_comparisons"]

PublicShape ==
    /\ writes' <= PublicWrites + 1
    /\ writes' > writes => writes < PublicWrites \/ ComparisonsMade # {}
    /\ writes' > PublicWrites => crashes' = 0

InternalShape ==
    /\ writes' <= InternalWrites /\ crashes' = 0
    /\ Cardinality(since'[actor]) <= 1
    /\ db'["statistical_comparisons"] = {} /\ db'["analysis_report_snapshots"] = {}

ShapesNext ==
    /\ Next
    /\ \A i \in Identity \ {actor} : since'[i] = {} /\ issued'[i] = 0
    /\ sweep'.step = 1 => now >= FirstSweep
    /\ IF actor \in Public THEN PublicShape ELSE InternalShape
    /\ UNCHANGED actor

ShapesSpec == ShapesInit /\ [][ShapesNext]_<<vars, actor>> /\ WF_vars(Sweep)
=============================================================================
