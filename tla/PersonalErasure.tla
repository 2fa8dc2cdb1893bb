--------------------------- MODULE PersonalErasure ---------------------------
(***************************************************************************)
(* One identity's saved places, the history computed from them, and the     *)
(* erasure of everything that came from its uploads                         *)
(* (app/services/public_upload_service.py).                                 *)
(*                                                                          *)
(* An analysis resolves its places, computes, and commits rows that name    *)
(* them; DELETE /uploads is one transaction of some fifteen statements.     *)
(* Each statement sees what is committed when it runs (PostgreSQL's READ    *)
(* COMMITTED), its deletes are seen by others at its commit only, and a row *)
(* it has deleted is locked until then.  Of the history tables only         *)
(* place_crime_summaries has a foreign key to a place; runs, comparisons    *)
(* and reports keep place ids as text.                                      *)
(*                                                                          *)
(* Every statement is scoped by user_id_hash, so one identity is modelled.  *)
(***************************************************************************)
EXTENDS Integers, FiniteSets

CONSTANTS
    Manual,        \* ids of places the user enters
    Imported,      \* ids of places derived from uploads
    Slot,          \* requests that may be in flight at once
    RawRetention,  \* MCA_RAW_UPLOAD_RETENTION
    MaxWrites      \* bound on the history-writing requests of a behaviour

Place == Manual \cup Imported

ASSUME PlacesDisjoint == Manual \cap Imported = {}
ASSUME BoundAssumption == MaxWrites \in Nat /\ RawRetention \in BOOLEAN

VARIABLES
    places,       \* place_clusters
    raw,          \* places whose batch, staging rows and stops are kept
    runs,         \* analysis_runs
    summaries,    \* place_crime_summaries
    comparisons,  \* statistical_comparisons with their options and pairwise rows
    reports,      \* analysis_report_snapshots
    request,      \* request[q]: the analysis slot q is computing
    writes,       \* history-writing requests so far; names their rows
    erase,        \* the erasure in progress
    retired       \* ids of places deleted so far

tables == <<places, raw, runs, summaries, comparisons, reports>>
vars == <<tables, request, writes, erase, retired>>

-----------------------------------------------------------------------------
(* Rows.  A run made before the place_ids_json column was added is unnamed:  *)
(* only its summaries tell which places it covered.                          *)

Run == [id : Nat, places : SUBSET Place, named : BOOLEAN]
Summary == [run : Nat, place : Place]
Record == [id : Nat, places : SUBSET Place]

SummariesOf(r) == {[run |-> r.id, place |-> p] : p \in r.places}

Kind == {"idle", "analyze", "summarize", "compare", "report"}
Idle == [kind |-> "idle", places |-> {}]

(* The erasure: the statement it is at, the ids it has collected, the rows   *)
(* it has deleted and not committed, and the newest row when it began.       *)
Step == {"none", "reports", "comparisons", "run_ids", "run_json", "summaries",
         "raw", "clusters", "commit"}
Erasure == [at : Step, upload_cluster_ids : SUBSET Place,
            report_ids : SUBSET Nat, comparison_ids : SUBSET Nat,
            run_ids : SUBSET Nat, summaries : SUBSET Summary,
            raw : SUBSET Place, places : SUBSET Place, from : Nat]
NoErase == [at |-> "none", upload_cluster_ids |-> {}, report_ids |-> {},
            comparison_ids |-> {}, run_ids |-> {}, summaries |-> {},
            raw |-> {}, places |-> {}, from |-> 0]

Erasing == erase.at # "none"

(* Fault: a row is taken for belonging to the user.                          *)
Belongs(row) == row.places \subseteq Place

(* _run_mentions_any_place, and the option and pairwise columns.             *)
Mentions(row) == row.places \cap erase.upload_cluster_ids # {}
Ids(rows) == {row.id : row \in rows}

-----------------------------------------------------------------------------
(* Places.                                                                   *)

CreatePlace(p) ==
    /\ p \in Manual \ (places \cup retired)
    /\ places' = places \cup {p}
    /\ UNCHANGED <<raw, runs, summaries, comparisons, reports, request, writes,
                   erase, retired>>

(* Fault: the import commits and its normalisation fails.                    *)
UploadHalf(p) ==
    /\ p \in Imported \ (places \cup retired)
    /\ raw' = raw \cup {p}
    /\ UNCHANGED <<places, runs, summaries, comparisons, reports, request, writes,
                   erase, retired>>

(* Import, normalisation and the disposal of the raw rows in one transaction.*)
Upload(p) ==
    /\ p \in Imported \ (places \cup retired)
    /\ places' = places \cup {p}
    /\ raw' = IF RawRetention THEN raw \cup {p} ELSE raw
    /\ UNCHANGED <<runs, summaries, comparisons, reports, request, writes,
                   erase, retired>>

(* DELETE /places/{id} and DELETE /places: the summaries go with the places, *)
(* runs, comparisons and reports stay.  A summary the erasure has deleted    *)
(* and not committed is waited for.                                          *)
DeletePlaces(gone) ==
    /\ gone # {} /\ gone \subseteq places \cap Manual
    /\ \A s \in erase.summaries : s.place \notin gone
    /\ places' = places \ gone
    /\ summaries' = {s \in summaries : s.place \notin gone}
    /\ retired' = retired \cup gone
    /\ UNCHANGED <<raw, runs, comparisons, reports, request, writes, erase>>

-----------------------------------------------------------------------------
(* Analyses: the places are read at the start and the rows committed at the  *)
(* end, and whatever happens in between is not looked at again.              *)

Resolve(q) ==
    /\ request[q] = Idle /\ writes < MaxWrites
    /\ \E kind \in Kind \ {"idle"}, chosen \in SUBSET places :
         /\ kind = "summarize" => chosen = places
         /\ kind = "compare" => Cardinality(chosen) >= 2
         /\ kind \in {"analyze", "report"} => chosen # {}
         /\ request' = [request EXCEPT ![q] = [kind |-> kind, places |-> chosen]]
    /\ UNCHANGED <<tables, writes, erase, retired>>

Finish(q) ==
    /\ request' = [request EXCEPT ![q] = Idle]
    /\ writes' = writes + 1
    /\ UNCHANGED <<places, raw, erase, retired>>

(* An analysis or a summarize: the run and a summary per place.  The foreign *)
(* key admits them while the places exist, and waits on one that the erasure *)
(* has deleted and not committed.                                            *)
CommitRun(q) ==
    /\ request[q].kind \in {"analyze", "summarize"} /\ writes < MaxWrites
    /\ request[q].places \subseteq places \ erase.places
    /\ LET r == [id |-> writes + 1, places |-> request[q].places, named |-> TRUE]
       IN  runs' = runs \cup {r} /\ summaries' = summaries \cup SummariesOf(r)
    /\ Finish(q)
    /\ UNCHANGED <<comparisons, reports>>

CommitComparison(q) ==
    /\ request[q].kind = "compare" /\ writes < MaxWrites
    /\ comparisons' =
         comparisons \cup {[id |-> writes + 1, places |-> request[q].places]}
    /\ Finish(q)
    /\ UNCHANGED <<runs, summaries, reports>>

CommitReport(q) ==
    /\ request[q].kind = "report" /\ writes < MaxWrites
    /\ reports' = reports \cup {[id |-> writes + 1, places |-> request[q].places]}
    /\ Finish(q)
    /\ UNCHANGED <<runs, summaries, comparisons>>

(* A foreign-key error, a validation error, a disconnect.                    *)
Fail(q) ==
    /\ request[q] # Idle
    /\ request' = [request EXCEPT ![q] = Idle]
    /\ UNCHANGED <<tables, writes, erase, retired>>

(* DELETE /dashboard/reports and /dashboard/reports/{id}.                    *)
DeleteReports(gone) ==
    /\ gone # {} /\ gone \subseteq reports
    /\ Ids(gone) \cap erase.report_ids = {}
    /\ reports' = reports \ gone
    /\ UNCHANGED <<places, raw, runs, summaries, comparisons, request, writes,
                   erase, retired>>

-----------------------------------------------------------------------------
(* delete_personal_data, statement by statement.  Reports, comparisons and   *)
(* runs are deleted by the ids read before, so the reads decide.             *)

Statement(from, result) ==
    /\ erase.at = from
    /\ erase' = result
    /\ UNCHANGED <<tables, request, writes, retired>>

EraseStart ==
    Statement("none", [NoErase EXCEPT !.at = "reports", !.from = writes,
                         !.upload_cluster_ids = places \cap Imported])

EraseReports ==
    Statement("reports", [erase EXCEPT !.at = "comparisons",
                            !.report_ids = Ids({r \in reports : Mentions(r)})])

EraseComparisons ==
    Statement("comparisons", [erase EXCEPT !.at = "run_ids",
                    !.comparison_ids = Ids({c \in comparisons : Mentions(c)})])

(* Fault: the runs are looked for by their place_ids_json alone.             *)
RunIdsSkipped == Statement("run_ids", [erase EXCEPT !.at = "run_json"])

(* The runs behind the summaries of an uploaded place.                       *)
EraseRunIds ==
    Statement("run_ids", [erase EXCEPT !.at = "run_json",
        !.run_ids = {s.run : s \in
            {s \in summaries : s.place \in erase.upload_cluster_ids}}])

(* The runs whose place_ids_json mentions one.                               *)
EraseRunJson ==
    Statement("run_json", [erase EXCEPT !.at = "summaries",
        !.run_ids = @ \cup Ids({r \in runs : r.named /\ Mentions(r)})])

(* Fault: the summaries of the manual places of a mixed run are kept.        *)
SummariesOfUploads ==
    Statement("summaries", [erase EXCEPT !.at = "raw",
        !.summaries = {s \in summaries : s.place \in erase.upload_cluster_ids}])

EraseSummaries ==
    Statement("summaries", [erase EXCEPT !.at = "raw",
        !.summaries = {s \in summaries : \/ s.place \in erase.upload_cluster_ids
                                         \/ s.run \in erase.run_ids}])

EraseRaw == Statement("raw", [erase EXCEPT !.at = "clusters", !.raw = raw])

(* The places are not deleted by the ids read first but by their method, so  *)
(* a place uploaded meanwhile goes too, unless a foreign key forbids it.     *)
EraseClusters ==
    /\ \A p \in places \cap Imported :
         /\ p \notin raw \ erase.raw
         /\ \A s \in summaries \ erase.summaries : s.place # p
    /\ Statement("clusters", [erase EXCEPT !.at = "commit",
                                           !.places = places \cap Imported])

(* The batches and the commit.  The stops of an import that committed        *)
(* meanwhile hold on to their batch.                                         *)
EraseCommit ==
    /\ erase.at = "commit" /\ raw \subseteq erase.raw
    /\ places' = places \ erase.places
    /\ raw' = {}
    /\ runs' = {r \in runs : r.id \notin erase.run_ids}
    /\ summaries' = summaries \ erase.summaries
    /\ comparisons' = {c \in comparisons : c.id \notin erase.comparison_ids}
    /\ reports' = {r \in reports : r.id \notin erase.report_ids}
    /\ retired' = retired \cup erase.places
    /\ erase' = NoErase
    /\ UNCHANGED <<request, writes>>

(* A foreign-key error of the last two statements, a disconnect or a restart *)
(* rolls everything back.                                                    *)
EraseFail ==
    /\ Erasing
    /\ erase' = NoErase
    /\ UNCHANGED <<tables, request, writes, retired>>

-----------------------------------------------------------------------------
(* A database may hold a run from before place_ids_json.                     *)
Init ==
    /\ places \in SUBSET Place
    /\ raw = {}
    /\ runs \in {{}, {[id |-> 0, places |-> places, named |-> FALSE]}}
    /\ summaries = UNION {SummariesOf(r) : r \in runs}
    /\ comparisons = {} /\ reports = {}
    /\ request = [q \in Slot |-> Idle]
    /\ writes = 0
    /\ erase = NoErase
    /\ retired = {}

Places ==
    \/ \E p \in Manual : CreatePlace(p)
    \/ \E p \in Imported : Upload(p)
    \/ \E gone \in SUBSET Manual : DeletePlaces(gone)

Analysis(q) ==
    Resolve(q) \/ CommitRun(q) \/ CommitComparison(q) \/ CommitReport(q) \/ Fail(q)

Erase ==
    \/ EraseStart \/ EraseReports \/ EraseComparisons \/ EraseRunIds \/ EraseRunJson
    \/ EraseSummaries \/ EraseRaw \/ EraseClusters \/ EraseCommit \/ EraseFail

Next ==
    \/ Places
    \/ \E q \in Slot : Analysis(q)
    \/ \E gone \in SUBSET reports : DeleteReports(gone)
    \/ Erase

Spec == Init /\ [][Next]_vars

-----------------------------------------------------------------------------
(* Properties.                                                               *)

(* Every variable has its type, the raw rows of an upload never outlive its  *)
(* places or precede them, and the ids of deleted places are not used again. *)
TypeOK ==
    /\ places \subseteq Place /\ retired \subseteq Place
    /\ raw \subseteq places \cap Imported /\ places \cap retired = {}
    /\ runs \subseteq Run /\ summaries \subseteq Summary
    /\ comparisons \subseteq Record /\ reports \subseteq Record
    /\ request \in [Slot -> [kind : Kind, places : SUBSET Place]]
    /\ writes \in Nat
    /\ erase \in Erasure

(* Of every run, exactly the summaries of the places that still exist are    *)
(* there: no deletion, in whatever order with analyses and uploads, leaves a *)
(* run with part of its results or a summary without its run or its place.   *)
SummariesMatchRuns ==
    summaries = {s \in UNION {SummariesOf(r) : r \in runs} : s.place \in places}

(* A completed erasure takes every imported place and every history row that *)
(* was there when it began and mentions one of them.                         *)
EraseCovers ==
    [][EraseCommit =>
         /\ places' \cap erase.upload_cluster_ids = {}
         /\ \A row \in runs' \cup comparisons' \cup reports' :
              row.id <= erase.from =>
                row.places \cap erase.upload_cluster_ids = {}]_vars

(* An erasure touches nothing that depends on manual places alone.           *)
ManualHistoryKept ==
    [][Erase =>
         /\ places \cap Manual \subseteq places'
         /\ \A r \in runs : r.places \subseteq Manual =>
              r \in runs' /\ SummariesOf(r) \cap summaries \subseteq summaries'
         /\ {c \in comparisons : c.places \subseteq Manual} \subseteq comparisons'
         /\ {r \in reports : r.places \subseteq Manual} \subseteq reports']_vars

(* What an erasure has promised (README.md: it "erases every uploaded        *)
(* artifact for the user"): nothing kept still names an erased place.        *)
NothingSurvives ==
    \A row \in runs \cup comparisons \cup reports :
        row.places \cap retired \cap Imported = {}
=============================================================================
