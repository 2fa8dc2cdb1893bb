------------------------------ MODULE MCIngest ------------------------------
(* An instance of Ingest: two rows, of one call or of two reports, and a     *)
(* source that is quiet for some days, so that the watermark of a later row  *)
(* leaves the first days behind and the pulls become incremental.            *)
EXTENDS Ingest

CONSTANT Quiet     \* the days on which the source publishes and corrects nothing

OneCallOrTwoReports ==
    [calls \in BOOLEAN |-> IF calls THEN <<"a", "a">> ELSE <<"a", "b">>]

(* The sidecar's walk takes a page for each row; the other caller asks for   *)
(* both rows in one.                                                         *)
PageSizes == {[r \in Run |-> IF r = "nightly" THEN 1 ELSE 2]}

QuietNext == IngestNext /\ (today \in Quiet => source' = source)

QuietSpec == IngestInit /\ [][QuietNext]_ingestVars /\ IngestFairness
=============================================================================
