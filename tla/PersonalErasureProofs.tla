------------------------ MODULE PersonalErasureProofs ------------------------
(***************************************************************************)
(* Proofs about PersonalErasure, for any places, slots and bounds.          *)
(*                                                                          *)
(* The matching of summaries and runs is not inductive: an erasure reads    *)
(* run ids, deletes summaries and commits in different steps, with other    *)
(* transactions in between.  ErasureInv adds what the erasure has collected *)
(* so far and what no later commit can add to it: rows are numbered in      *)
(* commit order, so a row committed after a read is not among the ids read. *)
(***************************************************************************)
EXTENDS PersonalErasure, TLAPS

Collected == {"raw", "clusters", "commit"}

(* Element by element, SummariesMatchRuns.                                   *)
Matched ==
    \A s \in Summary : s \in summaries <=>
        \E r \in runs : r.id = s.run /\ s.place \in r.places /\ s.place \in places

(* Rows are numbered in commit order and no two of a table share a number.   *)
Numbered(table) ==
    /\ \A a \in table : a.id <= writes
    /\ \A a, b \in table : a.id = b.id => a = b

NumberInv ==
    /\ Numbered(runs) /\ Numbered(comparisons) /\ Numbered(reports)
    /\ erase.from <= writes
    /\ \A k \in erase.run_ids \cup erase.comparison_ids \cup erase.report_ids :
          k <= writes

(* The places the erasure has read or deleted are still there for others, and *)
(* no run names a place that is yet to be created.                           *)
PlaceInv ==
    /\ erase.upload_cluster_ids \subseteq places \cap Imported
    /\ erase.places \subseteq places \cap Imported
    /\ erase.at # "commit" => erase.places = {}
    /\ erase.at = "commit" => erase.upload_cluster_ids \subseteq erase.places
    /\ \A r \in runs : r.places \subseteq places \cup retired

(* The summaries the erasure has deleted are those of the runs and places it *)
(* has collected, and no summary of those is left.                           *)
SummaryInv ==
    /\ erase.at \notin Collected => erase.summaries = {}
    /\ \A s \in erase.summaries :
          s.run \in erase.run_ids \/ s.place \in erase.upload_cluster_ids
    /\ erase.at \in Collected =>
          \A s \in summaries : s.run \in erase.run_ids => s \in erase.summaries
    /\ \A s \in summaries : s.place \in erase.places => s \in erase.summaries

(* Everything old that mentions an upload is collected, as soon as its       *)
(* statement has run ...                                                     *)
Covered(table, ids) ==
    \A r \in table : r.id <= erase.from /\ Mentions(r) => r.id \in ids

CoverInv ==
    /\ erase.at \notin {"none", "reports"} => Covered(reports, erase.report_ids)
    /\ erase.at \notin {"none", "reports", "comparisons"} =>
          Covered(comparisons, erase.comparison_ids)
    /\ erase.at = "run_json" => Covered({r \in runs : ~r.named}, erase.run_ids)
    /\ erase.at \in {"summaries"} \cup Collected => Covered(runs, erase.run_ids)

(* ... and nothing else is.                                                  *)
Only(table, ids) == \A r \in table : r.id \in ids => Mentions(r)

OnlyInv ==
    /\ Only(reports, erase.report_ids)
    /\ Only(comparisons, erase.comparison_ids)
    /\ Only(runs, erase.run_ids)

ErasureInv ==
    /\ TypeOK /\ Matched /\ NumberInv /\ PlaceInv /\ SummaryInv /\ CoverInv /\ OnlyInv

-----------------------------------------------------------------------------
(* The summaries of a run, element by element.                               *)
LEMMA SummariesOfElement ==
  ASSUME NEW r \in Run, NEW s \in Summary
  PROVE  s \in SummariesOf(r) <=> s.run = r.id /\ s.place \in r.places
BY DEF SummariesOf, Summary, Run

LEMMA SummariesOfType == \A r \in Run : SummariesOf(r) \subseteq Summary
BY DEF SummariesOf, Summary, Run

LEMMA MatchedIs == TypeOK => (Matched <=> SummariesMatchRuns)
<1> SUFFICES ASSUME TypeOK PROVE Matched <=> SummariesMatchRuns
  OBVIOUS
<1> DEFINE all == {s \in UNION {SummariesOf(r) : r \in runs} : s.place \in places}
<1>1. runs \subseteq Run /\ summaries \subseteq Summary
  BY DEF TypeOK
<1>2. all \subseteq Summary
  BY <1>1, SummariesOfType
<1>3. \A s \in Summary : s \in all <=>
         \E r \in runs : r.id = s.run /\ s.place \in r.places /\ s.place \in places
  BY <1>1, SummariesOfElement
<1>4. SummariesMatchRuns <=> summaries = all
  BY DEF SummariesMatchRuns
<1> QED
  BY <1>1, <1>2, <1>3, <1>4 DEF Matched

-----------------------------------------------------------------------------
(* Type correctness.                                                         *)

LEMMA EraseType ==
  TypeOK => /\ erase.upload_cluster_ids \subseteq Place
            /\ erase.report_ids \subseteq Nat /\ erase.comparison_ids \subseteq Nat
            /\ erase.run_ids \subseteq Nat /\ erase.summaries \subseteq Summary
            /\ erase.raw \subseteq Place /\ erase.places \subseteq Place
            /\ erase.from \in Nat /\ erase.at \in Step
BY DEF TypeOK, Erasure

(* What each statement of the erasure does to its record, field by field.    *)
LEMMA EraseReportsFields ==
  ASSUME TypeOK, EraseReports
  PROVE  /\ UNCHANGED <<tables, request, writes, retired>>
         /\ erase.at = "reports" /\ erase'.at = "comparisons"
         /\ erase'.report_ids = Ids({r \in reports : Mentions(r)})
         /\ UNCHANGED <<erase.upload_cluster_ids, erase.comparison_ids, erase.run_ids,
                        erase.summaries, erase.raw, erase.places, erase.from>>
         /\ erase' \in Erasure
<1> DEFINE new == Ids({r \in reports : Mentions(r)})
<1>1. erase' = [erase EXCEPT !.at = "comparisons", !.report_ids = new]
  BY DEF EraseReports, Statement
<1>2. new \subseteq Nat
  BY EraseType DEF TypeOK, Ids, Record
<1>3. UNCHANGED <<tables, request, writes, retired>> /\ erase.at = "reports"
  BY DEF EraseReports, Statement
<1> HIDE DEF new
<1>4. /\ erase'.at = "comparisons" /\ erase'.report_ids = new
      /\ UNCHANGED <<erase.upload_cluster_ids, erase.comparison_ids, erase.run_ids,
                     erase.summaries, erase.raw, erase.places, erase.from>>
      /\ erase' \in Erasure
  BY <1>1, <1>2 DEF TypeOK, Erasure, Step
<1> QED
  BY <1>3, <1>4 DEF new

LEMMA EraseComparisonsFields ==
  ASSUME TypeOK, EraseComparisons
  PROVE  /\ UNCHANGED <<tables, request, writes, retired>>
         /\ erase.at = "comparisons" /\ erase'.at = "run_ids"
         /\ erase'.comparison_ids = Ids({c \in comparisons : Mentions(c)})
         /\ UNCHANGED <<erase.upload_cluster_ids, erase.report_ids, erase.run_ids,
                        erase.summaries, erase.raw, erase.places, erase.from>>
         /\ erase' \in Erasure
<1> DEFINE new == Ids({c \in comparisons : Mentions(c)})
<1>1. erase' = [erase EXCEPT !.at = "run_ids", !.comparison_ids = new]
  BY DEF EraseComparisons, Statement
<1>2. new \subseteq Nat
  BY EraseType DEF TypeOK, Ids, Record
<1>3. UNCHANGED <<tables, request, writes, retired>> /\ erase.at = "comparisons"
  BY DEF EraseComparisons, Statement
<1> HIDE DEF new
<1>4. /\ erase'.at = "run_ids" /\ erase'.comparison_ids = new
      /\ UNCHANGED <<erase.upload_cluster_ids, erase.report_ids, erase.run_ids,
                     erase.summaries, erase.raw, erase.places, erase.from>>
      /\ erase' \in Erasure
  BY <1>1, <1>2 DEF TypeOK, Erasure, Step
<1> QED
  BY <1>3, <1>4 DEF new

LEMMA EraseRunIdsFields ==
  ASSUME TypeOK, EraseRunIds
  PROVE  /\ UNCHANGED <<tables, request, writes, retired>>
         /\ erase.at = "run_ids" /\ erase'.at = "run_json"
         /\ erase'.run_ids = {s.run : s \in
            {s \in summaries : s.place \in erase.upload_cluster_ids}}
         /\ UNCHANGED <<erase.upload_cluster_ids, erase.report_ids, erase.comparison_ids,
                        erase.summaries, erase.raw, erase.places, erase.from>>
         /\ erase' \in Erasure
<1> DEFINE new == {s.run : s \in
            {s \in summaries : s.place \in erase.upload_cluster_ids}}
<1>1. erase' = [erase EXCEPT !.at = "run_json", !.run_ids = new]
  BY DEF EraseRunIds, Statement
<1>2. new \subseteq Nat
  BY EraseType DEF TypeOK, Summary
<1>3. UNCHANGED <<tables, request, writes, retired>> /\ erase.at = "run_ids"
  BY DEF EraseRunIds, Statement
<1> HIDE DEF new
<1>4. /\ erase'.at = "run_json" /\ erase'.run_ids = new
      /\ UNCHANGED <<erase.upload_cluster_ids, erase.report_ids, erase.comparison_ids,
                     erase.summaries, erase.raw, erase.places, erase.from>>
      /\ erase' \in Erasure
  BY <1>1, <1>2 DEF TypeOK, Erasure, Step
<1> QED
  BY <1>3, <1>4 DEF new

LEMMA EraseRunJsonFields ==
  ASSUME TypeOK, EraseRunJson
  PROVE  /\ UNCHANGED <<tables, request, writes, retired>>
         /\ erase.at = "run_json" /\ erase'.at = "summaries"
         /\ erase'.run_ids = erase.run_ids \cup Ids({r \in runs : r.named /\ Mentions(r)})
         /\ UNCHANGED <<erase.upload_cluster_ids, erase.report_ids, erase.comparison_ids,
                        erase.summaries, erase.raw, erase.places, erase.from>>
         /\ erase' \in Erasure
<1> DEFINE new == erase.run_ids \cup Ids({r \in runs : r.named /\ Mentions(r)})
<1>1. erase' = [erase EXCEPT !.at = "summaries", !.run_ids = new]
  BY DEF EraseRunJson, Statement
<1>2. new \subseteq Nat
  BY EraseType DEF TypeOK, Ids, Run
<1>3. UNCHANGED <<tables, request, writes, retired>> /\ erase.at = "run_json"
  BY DEF EraseRunJson, Statement
<1> HIDE DEF new
<1>4. /\ erase'.at = "summaries" /\ erase'.run_ids = new
      /\ UNCHANGED <<erase.upload_cluster_ids, erase.report_ids, erase.comparison_ids,
                     erase.summaries, erase.raw, erase.places, erase.from>>
      /\ erase' \in Erasure
  BY <1>1, <1>2 DEF TypeOK, Erasure, Step
<1> QED
  BY <1>3, <1>4 DEF new

LEMMA EraseSummariesFields ==
  ASSUME TypeOK, EraseSummaries
  PROVE  /\ UNCHANGED <<tables, request, writes, retired>>
         /\ erase.at = "summaries" /\ erase'.at = "raw"
         /\ erase'.summaries = {s \in summaries : \/ s.place \in erase.upload_cluster_ids
                              \/ s.run \in erase.run_ids}
         /\ UNCHANGED <<erase.upload_cluster_ids, erase.report_ids, erase.comparison_ids,
                        erase.run_ids, erase.raw, erase.places, erase.from>>
         /\ erase' \in Erasure
<1> DEFINE new == {s \in summaries : \/ s.place \in erase.upload_cluster_ids
                              \/ s.run \in erase.run_ids}
<1>1. erase' = [erase EXCEPT !.at = "raw", !.summaries = new]
  BY DEF EraseSummaries, Statement
<1>2. new \subseteq Summary
  BY EraseType DEF TypeOK
<1>3. UNCHANGED <<tables, request, writes, retired>> /\ erase.at = "summaries"
  BY DEF EraseSummaries, Statement
<1> HIDE DEF new
<1>4. /\ erase'.at = "raw" /\ erase'.summaries = new
      /\ UNCHANGED <<erase.upload_cluster_ids, erase.report_ids, erase.comparison_ids,
                     erase.run_ids, erase.raw, erase.places, erase.from>>
      /\ erase' \in Erasure
  BY <1>1, <1>2 DEF TypeOK, Erasure, Step
<1> QED
  BY <1>3, <1>4 DEF new

LEMMA EraseRawFields ==
  ASSUME TypeOK, EraseRaw
  PROVE  /\ UNCHANGED <<tables, request, writes, retired>>
         /\ erase.at = "raw" /\ erase'.at = "clusters"
         /\ erase'.raw = raw
         /\ UNCHANGED <<erase.upload_cluster_ids, erase.report_ids, erase.comparison_ids,
                        erase.run_ids, erase.summaries, erase.places, erase.from>>
         /\ erase' \in Erasure
<1> DEFINE new == raw
<1>1. erase' = [erase EXCEPT !.at = "clusters", !.raw = new]
  BY DEF EraseRaw, Statement
<1>2. new \subseteq Place
  BY EraseType DEF TypeOK, Place
<1>3. UNCHANGED <<tables, request, writes, retired>> /\ erase.at = "raw"
  BY DEF EraseRaw, Statement
<1> HIDE DEF new
<1>4. /\ erase'.at = "clusters" /\ erase'.raw = new
      /\ UNCHANGED <<erase.upload_cluster_ids, erase.report_ids, erase.comparison_ids,
                     erase.run_ids, erase.summaries, erase.places, erase.from>>
      /\ erase' \in Erasure
  BY <1>1, <1>2 DEF TypeOK, Erasure, Step
<1> QED
  BY <1>3, <1>4 DEF new

LEMMA EraseClustersFields ==
  ASSUME TypeOK, EraseClusters
  PROVE  /\ UNCHANGED <<tables, request, writes, retired>>
         /\ erase.at = "clusters" /\ erase'.at = "commit"
         /\ erase'.places = places \cap Imported
         /\ UNCHANGED <<erase.upload_cluster_ids, erase.report_ids, erase.comparison_ids,
                        erase.run_ids, erase.summaries, erase.raw, erase.from>>
         /\ erase' \in Erasure
<1> DEFINE new == places \cap Imported
<1>1. erase' = [erase EXCEPT !.at = "commit", !.places = new]
  BY DEF EraseClusters, Statement
<1>2. new \subseteq Place
  BY EraseType DEF TypeOK, Place
<1>3. UNCHANGED <<tables, request, writes, retired>> /\ erase.at = "clusters"
  BY DEF EraseClusters, Statement
<1> HIDE DEF new
<1>4. /\ erase'.at = "commit" /\ erase'.places = new
      /\ UNCHANGED <<erase.upload_cluster_ids, erase.report_ids, erase.comparison_ids,
                     erase.run_ids, erase.summaries, erase.raw, erase.from>>
      /\ erase' \in Erasure
  BY <1>1, <1>2 DEF TypeOK, Erasure, Step
<1> QED
  BY <1>3, <1>4 DEF new

(* What the commit of a run writes.                                          *)
RunRows(q, r) ==
    /\ r.id = writes + 1 /\ r.named /\ r.places \subseteq places \ erase.places
    /\ runs' = runs \cup {r} /\ summaries' = summaries \cup SummariesOf(r)
    /\ writes' = writes + 1 /\ request' = [request EXCEPT ![q] = Idle]
    /\ UNCHANGED <<places, raw, comparisons, reports, erase, retired>>

LEMMA CommitRunRows ==
  ASSUME TypeOK, NEW q \in Slot, CommitRun(q)
  PROVE  \E r \in Run : RunRows(q, r)
<1> DEFINE r == [id |-> writes + 1, places |-> request[q].places, named |-> TRUE]
<1>1. r \in Run
  BY DEF TypeOK, Run
<1>2. r.id = writes + 1 /\ r.named /\ r.places = request[q].places
  OBVIOUS
<1>3. /\ request[q].places \subseteq places \ erase.places
      /\ runs' = runs \cup {r} /\ summaries' = summaries \cup SummariesOf(r)
      /\ writes' = writes + 1 /\ request' = [request EXCEPT ![q] = Idle]
      /\ UNCHANGED <<places, raw, comparisons, reports, erase, retired>>
  BY DEF CommitRun, Finish
<1> HIDE DEF r
<1> QED
  BY <1>1, <1>2, <1>3 DEF RunRows

LEMMA InitType == Init => TypeOK
<1> SUFFICES ASSUME Init PROVE TypeOK
  OBVIOUS
<1>1. runs \subseteq Run /\ summaries \subseteq Summary
  <2>1. places \subseteq Place
           => [id |-> 0, places |-> places, named |-> FALSE] \in Run
    BY DEF Run
  <2>2. runs \subseteq Run
    BY <2>1 DEF Init
  <2> QED
    BY <2>2, SummariesOfType DEF Init
<1>2. request \in [Slot -> [kind : Kind, places : SUBSET Place]]
  BY DEF Init, Idle, Kind
<1>3. NoErase \in Erasure
  BY DEF NoErase, Step, Erasure
<1> QED
  BY <1>1, <1>2, <1>3 DEF Init, TypeOK

LEMMA NextType == TypeOK /\ [Next]_vars => TypeOK'
<1> SUFFICES ASSUME TypeOK, [Next]_vars PROVE TypeOK'
  OBVIOUS
<1> USE DEF TypeOK
<1>1. ASSUME NEW p \in Manual, CreatePlace(p) PROVE TypeOK'
  BY <1>1, PlacesDisjoint DEF CreatePlace, Place
<1>2. ASSUME NEW p \in Imported, Upload(p) PROVE TypeOK'
  BY <1>2 DEF Upload, Place
<1>3. ASSUME NEW gone \in SUBSET Manual, DeletePlaces(gone) PROVE TypeOK'
  BY <1>3, PlacesDisjoint DEF DeletePlaces, Place
<1>4. ASSUME NEW q \in Slot, Resolve(q) PROVE TypeOK'
  BY <1>4 DEF Resolve, tables, Kind
<1>5. ASSUME NEW q \in Slot, CommitRun(q) PROVE TypeOK'
  <2>1. PICK r \in Run : RunRows(q, r)
    BY <1>5, CommitRunRows
  <2> QED
    BY <2>1, SummariesOfType DEF RunRows, Idle, Kind
<1>6. ASSUME NEW q \in Slot, CommitComparison(q) PROVE TypeOK'
  BY <1>6 DEF CommitComparison, Finish, Idle, Kind, Record
<1>7. ASSUME NEW q \in Slot, CommitReport(q) PROVE TypeOK'
  BY <1>7 DEF CommitReport, Finish, Idle, Kind, Record
<1>8. ASSUME NEW q \in Slot, Fail(q) PROVE TypeOK'
  BY <1>8 DEF Fail, tables, Idle, Kind
<1>9. ASSUME NEW gone \in SUBSET reports, DeleteReports(gone) PROVE TypeOK'
  BY <1>9 DEF DeleteReports
<1>10. CASE EraseStart
  BY <1>10, EraseType DEF EraseStart, Statement, NoErase, Erasure, Place, Step, tables
<1>11. CASE EraseReports
  BY <1>11, EraseReportsFields DEF tables
<1>12. CASE EraseComparisons
  BY <1>12, EraseComparisonsFields DEF tables
<1>13. CASE EraseRunIds
  BY <1>13, EraseRunIdsFields DEF tables
<1>14. CASE EraseRunJson
  BY <1>14, EraseRunJsonFields DEF tables
<1>15. CASE EraseSummaries
  BY <1>15, EraseSummariesFields DEF tables
<1>16. CASE EraseRaw
  BY <1>16, EraseRawFields DEF tables
<1>17. CASE EraseClusters
  BY <1>17, EraseClustersFields DEF tables
<1>18. CASE EraseCommit
  <2>1. places' \cap retired' = {}
    BY <1>18 DEF EraseCommit
  <2>2. erase' \in Erasure
    BY <1>18 DEF EraseCommit, NoErase, Step, Erasure
  <2> QED
    BY <1>18, <2>1, <2>2, EraseType DEF EraseCommit
<1>19. CASE EraseFail
  BY <1>19 DEF EraseFail, NoErase, Erasure, Step, tables
<1>20. CASE UNCHANGED vars
  BY <1>20 DEF vars, tables
<1> QED
  BY <1>1, <1>2, <1>3, <1>4, <1>5, <1>6, <1>7, <1>8, <1>9, <1>10, <1>11, <1>12,
     <1>13, <1>14, <1>15, <1>16, <1>17, <1>18, <1>19, <1>20
  DEF Next, Places, Analysis, Erase

(* TypeOK is an invariant.                                                   *)
THEOREM TypeCorrect == Spec => []TypeOK
BY InitType, NextType, PTL DEF Spec

-----------------------------------------------------------------------------
(* ErasureInv is inductive.  TypeOK' is NextType's; each lemma shows the other *)
(* six parts, in the order of ErasureInv, for one action.                    *)

Parts == Matched /\ NumberInv /\ PlaceInv /\ SummaryInv /\ CoverInv /\ OnlyInv

LEMMA InvIs == ErasureInv <=> TypeOK /\ Parts
BY DEF ErasureInv, Parts

(* Creating a place or uploading one.                                        *)
LEMMA NewPlaceInv ==
  ASSUME TypeOK, Parts, NEW p \in Place \ (places \cup retired),
         places' = places \cup {p},
         UNCHANGED <<runs, summaries, comparisons, reports, writes, erase, retired>>
  PROVE  Parts'
<1> USE DEF Parts
<1>1. Matched'
  BY TypeOK, PlaceInv DEF Matched, PlaceInv, Summary
<1>2. NumberInv'
  BY TypeOK DEF NumberInv, Numbered
<1>3. PlaceInv'
  BY TypeOK DEF PlaceInv
<1>4. SummaryInv'
  BY TypeOK DEF SummaryInv, Collected
<1>5. CoverInv'
  BY TypeOK DEF CoverInv, Covered, Mentions, Collected
<1>6. OnlyInv'
  BY TypeOK DEF OnlyInv, Only, Mentions
<1> QED
  BY <1>1, <1>2, <1>3, <1>4, <1>5, <1>6

LEMMA DeletePlacesInv ==
  ASSUME TypeOK, Parts, NEW gone \in SUBSET Manual, DeletePlaces(gone)
  PROVE  Parts'
<1> USE DEF Parts
<1>1. Matched'
  BY DeletePlaces(gone), PlacesDisjoint, TypeOK DEF Matched, DeletePlaces, TypeOK
<1>2. NumberInv'
  BY DeletePlaces(gone), PlacesDisjoint, TypeOK DEF NumberInv, Numbered, DeletePlaces, TypeOK
<1>3. PlaceInv'
  BY DeletePlaces(gone), PlacesDisjoint, TypeOK DEF PlaceInv, DeletePlaces, TypeOK
<1>4. SummaryInv'
  BY DeletePlaces(gone), PlacesDisjoint, TypeOK DEF SummaryInv, Collected, DeletePlaces, TypeOK
<1>5. CoverInv'
  BY DeletePlaces(gone), PlacesDisjoint, TypeOK DEF CoverInv, Covered, Mentions, Collected, DeletePlaces, TypeOK
<1>6. OnlyInv'
  BY DeletePlaces(gone), PlacesDisjoint, TypeOK DEF OnlyInv, Only, Mentions, DeletePlaces, TypeOK
<1> QED
  BY <1>1, <1>2, <1>3, <1>4, <1>5, <1>6

(* A step that changes no row.                                               *)
LEMMA QuietInv ==
  ASSUME TypeOK, Parts, UNCHANGED <<places, runs, summaries, comparisons, reports, writes,
                   erase, retired>>
  PROVE  Parts'
<1> USE DEF Parts
<1>1. Matched'
  BY TypeOK DEF Matched
<1>2. NumberInv'
  BY TypeOK DEF NumberInv, Numbered
<1>3. PlaceInv'
  BY TypeOK DEF PlaceInv
<1>4. SummaryInv'
  BY TypeOK DEF SummaryInv, Collected
<1>5. CoverInv'
  BY TypeOK DEF CoverInv, Covered, Mentions, Collected
<1>6. OnlyInv'
  BY TypeOK DEF OnlyInv, Only, Mentions
<1> QED
  BY <1>1, <1>2, <1>3, <1>4, <1>5, <1>6

LEMMA CommitRunInv ==
  ASSUME TypeOK, Parts, NEW q \in Slot, CommitRun(q)
  PROVE  Parts'
<1> USE DEF Parts
<1>a. PICK r \in Run : RunRows(q, r)
  BY CommitRunRows
<1>b. /\ r.id = writes + 1 /\ r.named /\ r.places \subseteq places \ erase.places
      /\ runs' = runs \cup {r} /\ summaries' = summaries \cup SummariesOf(r)
      /\ writes' = writes + 1
      /\ UNCHANGED <<places, raw, comparisons, reports, erase, retired>>
  BY <1>a DEF RunRows
<1>c. \A s \in Summary : s \in SummariesOf(r) <=> s.run = r.id /\ s.place \in r.places
  BY SummariesOfElement
<1>d. SummariesOf(r) \subseteq Summary /\ writes \in Nat
  BY SummariesOfType DEF TypeOK
<1>e. /\ erase.from \in Nat /\ erase.run_ids \cup erase.comparison_ids
                                \cup erase.report_ids \subseteq Nat
      /\ \A a \in runs \cup comparisons \cup reports : a.id \in Nat
  BY EraseType DEF TypeOK, Run, Record
<1>1. Matched'
  BY <1>b, <1>c, <1>d, <1>e DEF Matched
<1>2. NumberInv'
  BY <1>b, <1>c, <1>d, <1>e DEF NumberInv, Numbered
<1>3. PlaceInv'
  BY <1>b, <1>c, <1>d, <1>e DEF PlaceInv
<1>4. SummaryInv'
  BY <1>b, <1>c, <1>d, <1>e DEF SummaryInv, Collected, NumberInv
<1>5. CoverInv'
  BY <1>b, <1>c, <1>d, <1>e DEF CoverInv, Covered, Mentions, Collected, NumberInv
<1>6. OnlyInv'
  BY <1>b, <1>c, <1>d, <1>e DEF OnlyInv, Only, Mentions, NumberInv
<1> QED
  BY <1>1, <1>2, <1>3, <1>4, <1>5, <1>6

LEMMA CommitComparisonInv ==
  ASSUME TypeOK, Parts, NEW q \in Slot, CommitComparison(q)
  PROVE  Parts'
<1> USE DEF Parts
<1> DEFINE r == [id |-> writes + 1, places |-> request[q].places]
<1>a. /\ comparisons' = comparisons \cup {r} /\ writes' = writes + 1
      /\ UNCHANGED <<places, runs, summaries, reports, erase, retired>>
  BY DEF CommitComparison, Finish
<1>b. r.id = writes + 1 /\ writes \in Nat
  BY DEF TypeOK
<1>c. /\ erase.from \in Nat /\ erase.run_ids \cup erase.comparison_ids
                                \cup erase.report_ids \subseteq Nat
      /\ \A a \in runs \cup comparisons \cup reports : a.id \in Nat
  BY EraseType DEF TypeOK, Run, Record
<1> HIDE DEF r
<1>1. Matched'
  BY <1>a, <1>b, <1>c DEF Matched
<1>2. NumberInv'
  BY <1>a, <1>b, <1>c DEF NumberInv, Numbered
<1>3. PlaceInv'
  BY <1>a, <1>b, <1>c DEF PlaceInv
<1>4. SummaryInv'
  BY <1>a, <1>b, <1>c DEF SummaryInv, Collected
<1>5. CoverInv'
  BY <1>a, <1>b, <1>c DEF CoverInv, Covered, Mentions, Collected, NumberInv
<1>6. OnlyInv'
  BY <1>a, <1>b, <1>c DEF OnlyInv, Only, Mentions, NumberInv
<1> QED
  BY <1>1, <1>2, <1>3, <1>4, <1>5, <1>6

LEMMA CommitReportInv ==
  ASSUME TypeOK, Parts, NEW q \in Slot, CommitReport(q)
  PROVE  Parts'
<1> USE DEF Parts
<1> DEFINE r == [id |-> writes + 1, places |-> request[q].places]
<1>a. /\ reports' = reports \cup {r} /\ writes' = writes + 1
      /\ UNCHANGED <<places, runs, summaries, comparisons, erase, retired>>
  BY DEF CommitReport, Finish
<1>b. r.id = writes + 1 /\ writes \in Nat
  BY DEF TypeOK
<1>c. /\ erase.from \in Nat /\ erase.run_ids \cup erase.comparison_ids
                                \cup erase.report_ids \subseteq Nat
      /\ \A a \in runs \cup comparisons \cup reports : a.id \in Nat
  BY EraseType DEF TypeOK, Run, Record
<1> HIDE DEF r
<1>1. Matched'
  BY <1>a, <1>b, <1>c DEF Matched
<1>2. NumberInv'
  BY <1>a, <1>b, <1>c DEF NumberInv, Numbered
<1>3. PlaceInv'
  BY <1>a, <1>b, <1>c DEF PlaceInv
<1>4. SummaryInv'
  BY <1>a, <1>b, <1>c DEF SummaryInv, Collected
<1>5. CoverInv'
  BY <1>a, <1>b, <1>c DEF CoverInv, Covered, Mentions, Collected, NumberInv
<1>6. OnlyInv'
  BY <1>a, <1>b, <1>c DEF OnlyInv, Only, Mentions, NumberInv
<1> QED
  BY <1>1, <1>2, <1>3, <1>4, <1>5, <1>6

LEMMA DeleteReportsInv ==
  ASSUME TypeOK, Parts, NEW gone \in SUBSET reports, DeleteReports(gone)
  PROVE  Parts'
<1> USE DEF Parts
<1>1. Matched'
  BY TypeOK DEF Matched, DeleteReports
<1>2. NumberInv'
  BY TypeOK DEF NumberInv, Numbered, DeleteReports
<1>3. PlaceInv'
  BY TypeOK DEF PlaceInv, DeleteReports
<1>4. SummaryInv'
  BY TypeOK DEF SummaryInv, Collected, DeleteReports
<1>5. CoverInv'
  BY TypeOK DEF CoverInv, Covered, Mentions, Collected, DeleteReports
<1>6. OnlyInv'
  BY TypeOK DEF OnlyInv, Only, Mentions, DeleteReports
<1> QED
  BY <1>1, <1>2, <1>3, <1>4, <1>5, <1>6

LEMMA EraseStartInv ==
  ASSUME TypeOK, Parts, EraseStart
  PROVE  Parts'
<1> USE DEF Parts
<1>a. UNCHANGED <<places, raw, runs, summaries, comparisons, reports, writes,
                    retired>>
  BY DEF EraseStart, Statement, tables
<1>b. /\ erase'.at = "reports" /\ erase'.from = writes
      /\ erase'.upload_cluster_ids = places \cap Imported
      /\ erase'.report_ids = {} /\ erase'.comparison_ids = {}
      /\ erase'.run_ids = {} /\ erase'.summaries = {} /\ erase'.places = {}
  BY DEF EraseStart, Statement, NoErase
<1>c. writes \in Nat
  BY DEF TypeOK
<1>1. Matched'
  BY <1>a, <1>b, <1>c DEF Matched
<1>2. NumberInv'
  BY <1>a, <1>b, <1>c DEF NumberInv, Numbered
<1>3. PlaceInv'
  BY <1>a, <1>b, <1>c DEF PlaceInv
<1>4. SummaryInv'
  BY <1>a, <1>b, <1>c DEF SummaryInv, Collected
<1>5. CoverInv'
  BY <1>a, <1>b, <1>c DEF CoverInv, Covered, Mentions, Collected
<1>6. OnlyInv'
  BY <1>a, <1>b, <1>c DEF OnlyInv, Only, Mentions
<1> QED
  BY <1>1, <1>2, <1>3, <1>4, <1>5, <1>6

LEMMA EraseReportsInv ==
  ASSUME TypeOK, Parts, EraseReports
  PROVE  Parts'
<1> USE DEF Parts
<1>a. UNCHANGED <<places, raw, runs, summaries, comparisons, reports, writes,
                    retired>>
  BY EraseReportsFields DEF tables
<1>1. Matched'
  BY <1>a, EraseReportsFields, EraseType DEF Matched
<1>2. NumberInv'
  BY <1>a, EraseReportsFields, EraseType DEF NumberInv, Numbered, Ids
<1>3. PlaceInv'
  BY <1>a, EraseReportsFields, EraseType DEF PlaceInv
<1>4. SummaryInv'
  BY <1>a, EraseReportsFields, EraseType DEF SummaryInv, Collected
<1>5. CoverInv'
  BY <1>a, EraseReportsFields, EraseType DEF CoverInv, Covered, Mentions, Collected, Ids
<1>6. OnlyInv'
  BY <1>a, EraseReportsFields, EraseType DEF OnlyInv, Only, Mentions, Ids, NumberInv, Numbered
<1> QED
  BY <1>1, <1>2, <1>3, <1>4, <1>5, <1>6

LEMMA EraseComparisonsInv ==
  ASSUME TypeOK, Parts, EraseComparisons
  PROVE  Parts'
<1> USE DEF Parts
<1>a. UNCHANGED <<places, raw, runs, summaries, comparisons, reports, writes,
                    retired>>
  BY EraseComparisonsFields DEF tables
<1>1. Matched'
  BY <1>a, EraseComparisonsFields, EraseType DEF Matched
<1>2. NumberInv'
  BY <1>a, EraseComparisonsFields, EraseType DEF NumberInv, Numbered, Ids
<1>3. PlaceInv'
  BY <1>a, EraseComparisonsFields, EraseType DEF PlaceInv
<1>4. SummaryInv'
  BY <1>a, EraseComparisonsFields, EraseType DEF SummaryInv, Collected
<1>5. CoverInv'
  BY <1>a, EraseComparisonsFields, EraseType DEF CoverInv, Covered, Mentions, Collected, Ids
<1>6. OnlyInv'
  BY <1>a, EraseComparisonsFields, EraseType DEF OnlyInv, Only, Mentions, Ids, NumberInv, Numbered
<1> QED
  BY <1>1, <1>2, <1>3, <1>4, <1>5, <1>6

LEMMA EraseRunIdsInv ==
  ASSUME TypeOK, Parts, EraseRunIds
  PROVE  Parts'
<1> USE DEF Parts
<1>a. UNCHANGED <<places, raw, runs, summaries, comparisons, reports, writes,
                    retired>>
  BY EraseRunIdsFields DEF tables
<1>b. \A s \in summaries : \E r \in runs : r.id = s.run /\ s.place \in r.places
  BY DEF Matched, TypeOK
<1>c. \A r \in runs : Mentions(r) => r.id \in erase'.run_ids
  <2> SUFFICES ASSUME NEW r \in runs, Mentions(r) PROVE r.id \in erase'.run_ids
    OBVIOUS
  <2>1. PICK p \in r.places : p \in erase.upload_cluster_ids
    BY DEF Mentions
  <2>2. p \in places /\ p \in Place
    BY <2>1 DEF PlaceInv, TypeOK
  <2>3. [run |-> r.id, place |-> p] \in Summary
    BY <2>2 DEF TypeOK, Run, Summary
  <2>4. [run |-> r.id, place |-> p] \in summaries
    BY <2>1, <2>2, <2>3 DEF Matched
  <2> QED
    BY <2>1, <2>4, EraseRunIdsFields
<1>1. Matched'
  BY <1>a, EraseRunIdsFields, EraseType DEF Matched
<1>2. NumberInv'
  BY <1>a, EraseRunIdsFields, EraseType, <1>b DEF NumberInv, Numbered
<1>3. PlaceInv'
  BY <1>a, EraseRunIdsFields, EraseType DEF PlaceInv
<1>4. SummaryInv'
  BY <1>a, EraseRunIdsFields, EraseType DEF SummaryInv, Collected
<1>5. CoverInv'
  BY <1>a, EraseRunIdsFields, EraseType, <1>c DEF CoverInv, Covered, Mentions, Collected
<1>6. OnlyInv'
  BY <1>a, EraseRunIdsFields, EraseType, <1>b DEF OnlyInv, Only, Mentions, NumberInv, Numbered
<1> QED
  BY <1>1, <1>2, <1>3, <1>4, <1>5, <1>6

LEMMA EraseRunJsonInv ==
  ASSUME TypeOK, Parts, EraseRunJson
  PROVE  Parts'
<1> USE DEF Parts
<1>a. UNCHANGED <<places, raw, runs, summaries, comparisons, reports, writes,
                    retired>>
  BY EraseRunJsonFields DEF tables
<1>1. Matched'
  BY <1>a, EraseRunJsonFields, EraseType DEF Matched
<1>2. NumberInv'
  BY <1>a, EraseRunJsonFields, EraseType DEF NumberInv, Numbered, Ids
<1>3. PlaceInv'
  BY <1>a, EraseRunJsonFields, EraseType DEF PlaceInv
<1>4. SummaryInv'
  BY <1>a, EraseRunJsonFields, EraseType DEF SummaryInv, Collected
<1>5. CoverInv'
  BY <1>a, EraseRunJsonFields, EraseType DEF CoverInv, Covered, Mentions, Collected, Ids
<1>6. OnlyInv'
  BY <1>a, EraseRunJsonFields, EraseType DEF OnlyInv, Only, Mentions, Ids, NumberInv, Numbered
<1> QED
  BY <1>1, <1>2, <1>3, <1>4, <1>5, <1>6

LEMMA EraseSummariesInv ==
  ASSUME TypeOK, Parts, EraseSummaries
  PROVE  Parts'
<1> USE DEF Parts
<1>a. UNCHANGED <<places, raw, runs, summaries, comparisons, reports, writes,
                    retired>>
  BY EraseSummariesFields DEF tables
<1>1. Matched'
  BY <1>a, EraseSummariesFields, EraseType DEF Matched
<1>2. NumberInv'
  BY <1>a, EraseSummariesFields, EraseType DEF NumberInv, Numbered
<1>3. PlaceInv'
  BY <1>a, EraseSummariesFields, EraseType DEF PlaceInv
<1>4. SummaryInv'
  BY <1>a, EraseSummariesFields, EraseType DEF SummaryInv, Collected
<1>5. CoverInv'
  BY <1>a, EraseSummariesFields, EraseType DEF CoverInv, Covered, Mentions, Collected
<1>6. OnlyInv'
  BY <1>a, EraseSummariesFields, EraseType DEF OnlyInv, Only, Mentions
<1> QED
  BY <1>1, <1>2, <1>3, <1>4, <1>5, <1>6

LEMMA EraseRawInv ==
  ASSUME TypeOK, Parts, EraseRaw
  PROVE  Parts'
<1> USE DEF Parts
<1>a. UNCHANGED <<places, raw, runs, summaries, comparisons, reports, writes,
                    retired>>
  BY EraseRawFields DEF tables
<1>1. Matched'
  BY <1>a, EraseRawFields, EraseType DEF Matched
<1>2. NumberInv'
  BY <1>a, EraseRawFields, EraseType DEF NumberInv, Numbered
<1>3. PlaceInv'
  BY <1>a, EraseRawFields, EraseType DEF PlaceInv
<1>4. SummaryInv'
  BY <1>a, EraseRawFields, EraseType DEF SummaryInv, Collected
<1>5. CoverInv'
  BY <1>a, EraseRawFields, EraseType DEF CoverInv, Covered, Mentions, Collected
<1>6. OnlyInv'
  BY <1>a, EraseRawFields, EraseType DEF OnlyInv, Only, Mentions
<1> QED
  BY <1>1, <1>2, <1>3, <1>4, <1>5, <1>6

LEMMA EraseClustersInv ==
  ASSUME TypeOK, Parts, EraseClusters
  PROVE  Parts'
<1> USE DEF Parts
<1>a. UNCHANGED <<places, raw, runs, summaries, comparisons, reports, writes,
                    retired>>
  BY EraseClustersFields DEF tables
<1>b. \A p \in places \cap Imported :
         \A s \in summaries \ erase.summaries : s.place # p
  BY DEF EraseClusters
<1>1. Matched'
  BY <1>a, EraseClustersFields, EraseType DEF Matched
<1>2. NumberInv'
  BY <1>a, EraseClustersFields, EraseType DEF NumberInv, Numbered
<1>3. PlaceInv'
  BY <1>a, EraseClustersFields, EraseType, <1>b DEF PlaceInv
<1>4. SummaryInv'
  BY <1>a, EraseClustersFields, EraseType, <1>b DEF SummaryInv, Collected
<1>5. CoverInv'
  BY <1>a, EraseClustersFields, EraseType DEF CoverInv, Covered, Mentions, Collected
<1>6. OnlyInv'
  BY <1>a, EraseClustersFields, EraseType DEF OnlyInv, Only, Mentions
<1> QED
  BY <1>1, <1>2, <1>3, <1>4, <1>5, <1>6

LEMMA EraseCommitInv ==
  ASSUME TypeOK, Parts, EraseCommit
  PROVE  Parts'
<1> USE DEF Parts
<1>a. /\ places' = places \ erase.places
      /\ runs' = {r \in runs : r.id \notin erase.run_ids}
      /\ summaries' = summaries \ erase.summaries
      /\ comparisons' \subseteq comparisons /\ reports' \subseteq reports
      /\ retired' = retired \cup erase.places /\ writes' = writes
      /\ erase'.at = "none" /\ erase'.from = 0
      /\ erase'.upload_cluster_ids = {} /\ erase'.report_ids = {}
      /\ erase'.comparison_ids = {} /\ erase'.run_ids = {}
      /\ erase'.summaries = {} /\ erase'.places = {}
  BY DEF EraseCommit, NoErase
<1>b. erase.at = "commit" /\ writes \in Nat
  BY DEF EraseCommit, TypeOK
<1>c. ASSUME NEW s \in Summary
      PROVE  s \in summaries' <=>
               \E r \in runs' : r.id = s.run /\ s.place \in r.places
                                            /\ s.place \in places'
  <2>1. s \in summaries <=>
           \E r \in runs : r.id = s.run /\ s.place \in r.places /\ s.place \in places
    BY DEF Matched
  <2>2. s \in summaries /\ s \notin erase.summaries =>
           s.run \notin erase.run_ids /\ s.place \notin erase.places
    BY <1>b DEF SummaryInv, Collected
  <2>3. s \in erase.summaries => s.run \in erase.run_ids \/ s.place \in erase.places
    BY <1>b DEF SummaryInv, PlaceInv
  <2> QED
    BY <1>a, <2>1, <2>2, <2>3
<1>1. Matched'
  BY <1>a, <1>b, <1>c DEF Matched
<1>2. NumberInv'
  BY <1>a, <1>b DEF NumberInv, Numbered
<1>3. PlaceInv'
  BY <1>a, <1>b DEF PlaceInv
<1>4. SummaryInv'
  BY <1>a, <1>b DEF SummaryInv, Collected
<1>5. CoverInv'
  BY <1>a, <1>b DEF CoverInv, Covered, Mentions, Collected
<1>6. OnlyInv'
  BY <1>a, <1>b DEF OnlyInv, Only, Mentions
<1> QED
  BY <1>1, <1>2, <1>3, <1>4, <1>5, <1>6

LEMMA EraseFailInv ==
  ASSUME TypeOK, Parts, EraseFail
  PROVE  Parts'
<1> USE DEF Parts
<1>a. /\ UNCHANGED <<places, runs, summaries, comparisons, reports, writes, retired>>
      /\ erase'.at = "none" /\ erase'.from = 0
      /\ erase'.upload_cluster_ids = {} /\ erase'.report_ids = {}
      /\ erase'.comparison_ids = {} /\ erase'.run_ids = {}
      /\ erase'.summaries = {} /\ erase'.places = {}
  BY DEF EraseFail, NoErase, tables
<1>b. writes \in Nat
  BY DEF TypeOK
<1>1. Matched'
  BY <1>a, <1>b DEF Matched
<1>2. NumberInv'
  BY <1>a, <1>b DEF NumberInv, Numbered
<1>3. PlaceInv'
  BY <1>a, <1>b DEF PlaceInv
<1>4. SummaryInv'
  BY <1>a, <1>b DEF SummaryInv, Collected
<1>5. CoverInv'
  BY <1>a, <1>b DEF CoverInv, Covered, Mentions, Collected
<1>6. OnlyInv'
  BY <1>a, <1>b DEF OnlyInv, Only, Mentions
<1> QED
  BY <1>1, <1>2, <1>3, <1>4, <1>5, <1>6


LEMMA InitInv == Init => ErasureInv
<1> SUFFICES ASSUME Init PROVE ErasureInv
  OBVIOUS
<1>a. TypeOK
  BY InitType
<1>b. summaries = UNION {SummariesOf(r) : r \in runs} /\ runs \subseteq Run
  BY <1>a DEF Init, TypeOK
<1>c. /\ \A r \in runs : r.id = 0 /\ r.places = places
      /\ \A a, b \in runs : a = b
      /\ comparisons = {} /\ reports = {} /\ writes = 0 /\ retired = {}
  <2> DEFINE old == [id |-> 0, places |-> places, named |-> FALSE]
  <2>1. old.id = 0 /\ old.places = places
    OBVIOUS
  <2>2. /\ runs \in {{}, {old}} /\ comparisons = {} /\ reports = {} /\ writes = 0
        /\ retired = {}
    BY DEF Init
  <2> HIDE DEF old
  <2> QED
    BY <2>1, <2>2
<1>d. /\ erase.at = "none" /\ erase.from = 0
      /\ erase.upload_cluster_ids = {} /\ erase.report_ids = {}
      /\ erase.comparison_ids = {} /\ erase.run_ids = {}
      /\ erase.summaries = {} /\ erase.places = {}
  BY DEF Init, NoErase
<1>1. Matched
  BY <1>b, <1>c, SummariesOfElement DEF Matched
<1>2. NumberInv
  BY <1>c, <1>d DEF NumberInv, Numbered
<1>3. PlaceInv
  BY <1>c, <1>d DEF PlaceInv
<1>4. SummaryInv
  BY <1>d DEF SummaryInv, Collected
<1>5. CoverInv
  BY <1>d DEF CoverInv, Collected
<1>6. OnlyInv
  BY <1>d DEF OnlyInv, Only
<1> QED
  BY <1>a, <1>1, <1>2, <1>3, <1>4, <1>5, <1>6 DEF ErasureInv

LEMMA NextInv == ErasureInv /\ [Next]_vars => ErasureInv'
<1> SUFFICES ASSUME TypeOK, Parts, [Next]_vars PROVE TypeOK' /\ Parts'
  BY InvIs DEF ErasureInv, Parts
<1>a. TypeOK'
  BY NextType
<1>1. ASSUME NEW p \in Manual, CreatePlace(p) PROVE Parts'
  <2>1. p \in Place \ (places \cup retired)
    BY <1>1 DEF CreatePlace, Place
  <2> QED
    BY <1>1, <2>1, NewPlaceInv DEF CreatePlace
<1>2. ASSUME NEW p \in Imported, Upload(p) PROVE Parts'
  <2>1. p \in Place \ (places \cup retired)
    BY <1>2 DEF Upload, Place
  <2> QED
    BY <1>2, <2>1, NewPlaceInv DEF Upload
<1>3. ASSUME NEW gone \in SUBSET Manual, DeletePlaces(gone) PROVE Parts'
  BY <1>3, DeletePlacesInv
<1>4. ASSUME NEW q \in Slot, Analysis(q) PROVE Parts'
  <2>1. CASE Resolve(q)
    BY <2>1, QuietInv DEF Resolve, tables
  <2>2. CASE CommitRun(q)
    BY <2>2, CommitRunInv
  <2>3. CASE CommitComparison(q)
    BY <2>3, CommitComparisonInv
  <2>4. CASE CommitReport(q)
    BY <2>4, CommitReportInv
  <2>5. CASE Fail(q)
    BY <2>5, QuietInv DEF Fail, tables
  <2> QED
    BY <1>4, <2>1, <2>2, <2>3, <2>4, <2>5 DEF Analysis
<1>5. ASSUME NEW gone \in SUBSET reports, DeleteReports(gone) PROVE Parts'
  BY <1>5, DeleteReportsInv
<1>6. CASE Erase
  BY <1>a, <1>6, EraseStartInv, EraseReportsInv, EraseComparisonsInv, EraseRunIdsInv,
     EraseRunJsonInv, EraseSummariesInv, EraseRawInv, EraseClustersInv,
     EraseCommitInv, EraseFailInv DEF Erase
<1>7. CASE UNCHANGED vars
  BY <1>a, <1>7, QuietInv DEF vars, tables
<1> QED
  BY <1>a, <1>1, <1>2, <1>3, <1>4, <1>5, <1>6, <1>7 DEF Next, Places

LEMMA ErasureInvariant == Spec => []ErasureInv
BY InitInv, NextInv, PTL DEF Spec

-----------------------------------------------------------------------------
(* Whatever the order of deletions, analyses, uploads and the statements of  *)
(* an erasure, a run keeps exactly the summaries of the places that exist.   *)
THEOREM SummariesMatch == Spec => []SummariesMatchRuns
<1>1. ErasureInv => SummariesMatchRuns
  BY MatchedIs, InvIs DEF Parts
<1> QED
  BY <1>1, ErasureInvariant, PTL

(* A completed erasure has removed every place and every row that was there  *)
(* when it began and came from an upload.                                    *)
THEOREM ErasureCovers == Spec => EraseCovers
<1> DEFINE Covers ==
      /\ places' \cap erase.upload_cluster_ids = {}
      /\ \A row \in runs' \cup comparisons' \cup reports' :
            row.id <= erase.from => row.places \cap erase.upload_cluster_ids = {}
<1>1. ErasureInv /\ EraseCommit => Covers
  <2> SUFFICES ASSUME ErasureInv, EraseCommit PROVE Covers
    OBVIOUS
  <2>1. /\ places' = places \ erase.places
        /\ runs' = {r \in runs : r.id \notin erase.run_ids}
        /\ comparisons' = {c \in comparisons : c.id \notin erase.comparison_ids}
        /\ reports' = {r \in reports : r.id \notin erase.report_ids}
        /\ erase.at = "commit"
    BY DEF EraseCommit
  <2>2. /\ erase.upload_cluster_ids \subseteq erase.places
        /\ Covered(runs, erase.run_ids)
        /\ Covered(comparisons, erase.comparison_ids)
        /\ Covered(reports, erase.report_ids)
    BY <2>1 DEF ErasureInv, PlaceInv, CoverInv, Collected
  <2> QED
    BY <2>1, <2>2 DEF Covered, Mentions
<1>2. ErasureInv /\ [Next]_vars => [EraseCommit => Covers]_vars
  BY <1>1
<1> QED
  BY <1>2, ErasureInvariant, PTL DEF Spec, EraseCovers

(* No step of an erasure takes a manual place, or a row that depends on      *)
(* manual places alone.                                                      *)
THEOREM ManualKept == Spec => ManualHistoryKept
<1> DEFINE Kept ==
      /\ places \cap Manual \subseteq places'
      /\ \A r \in runs : r.places \subseteq Manual =>
           r \in runs' /\ SummariesOf(r) \cap summaries \subseteq summaries'
      /\ {c \in comparisons : c.places \subseteq Manual} \subseteq comparisons'
      /\ {r \in reports : r.places \subseteq Manual} \subseteq reports'
<1>1. ErasureInv /\ EraseCommit => Kept
  <2> SUFFICES ASSUME ErasureInv, EraseCommit PROVE Kept
    OBVIOUS
  <2>1. /\ places' = places \ erase.places
        /\ runs' = {r \in runs : r.id \notin erase.run_ids}
        /\ summaries' = summaries \ erase.summaries
        /\ comparisons' = {c \in comparisons : c.id \notin erase.comparison_ids}
        /\ reports' = {r \in reports : r.id \notin erase.report_ids}
    BY DEF EraseCommit
  <2>2. /\ erase.upload_cluster_ids \cap Manual = {}
        /\ erase.places \cap Manual = {}
    BY PlacesDisjoint DEF ErasureInv, PlaceInv
  <2>3. /\ \A r \in runs : r.places \subseteq Manual => r.id \notin erase.run_ids
        /\ \A c \in comparisons :
              c.places \subseteq Manual => c.id \notin erase.comparison_ids
        /\ \A r \in reports : r.places \subseteq Manual => r.id \notin erase.report_ids
    BY <2>2 DEF ErasureInv, OnlyInv, Only, Mentions
  <2>4. ASSUME NEW r \in runs, r.places \subseteq Manual, NEW s \in SummariesOf(r)
        PROVE  s \notin erase.summaries
    <3>1. s \in Summary /\ s.run = r.id /\ s.place \in r.places
      BY SummariesOfType, SummariesOfElement DEF ErasureInv, TypeOK
    <3> QED
      BY <3>1, <2>2, <2>3, <2>4 DEF ErasureInv, SummaryInv
  <2> QED
    BY <2>1, <2>2, <2>3, <2>4
<1>2. Erase => EraseCommit \/ UNCHANGED tables
  BY DEF Erase, EraseStart, EraseReports, EraseComparisons, EraseRunIds, EraseRunJson,
     EraseSummaries, EraseRaw, EraseClusters, EraseFail, Statement
<1>3. UNCHANGED tables => Kept
  BY DEF tables
<1>4. ErasureInv /\ [Next]_vars => [Erase => Kept]_vars
  BY <1>1, <1>2, <1>3
<1> QED
  BY <1>4, ErasureInvariant, PTL DEF Spec, ManualHistoryKept
=============================================================================
