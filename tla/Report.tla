------------------------------- MODULE Report -------------------------------
(***************************************************************************)
(* The analysis report (app/reports/service.py, schemas.py, routes_reports  *)
(* and services/dashboard_analysis_service.py).  A report is put together   *)
(* from several queries, each on the committed tables of its own moment:    *)
(* the selected places, the memberships of incidents in their circles, the  *)
(* reference context, the comparison and the freshness of the source.       *)
(* Ingestion, and the visitor who moves, reclassifies or deletes a place,   *)
(* commit in between.                                                       *)
(*                                                                          *)
(* The map is a line of cells, and the table holds the rows of the layer    *)
(* and of the filters of the request.  Left out: what the reference context *)
(* and the comparison compute (ReferenceCircles, RateComparison), labels,   *)
(* disclosures and counting units.                                          *)
(***************************************************************************)
EXTENDS Ranking, Totals, FiniteSetsExt, Sequences, SequencesExt

CONSTANTS
    Pin,          \* the visitor's saved places: positive integers
    Position,     \* cells
    SourceRecord, \* identities of incidents: positive integers
    Recording,    \* what may be recorded of one: [at, type, day, timed]
    ReportAsked,  \* the requests: [pins, points, layer, from, to, adjust, limit]
    Reach,        \* radius_m, in cells
    FirstDay,     \* data_floor of the layer
    TopN,         \* top_n
    MaxEdits      \* bound on the changes of the tables

NotYet == [at |-> 0, type |-> "none", day |-> 0, timed |-> FALSE]

(* What AnalysisReportRequest lets pass: saved places or points, one of the  *)
(* two, each saved place once.                                               *)
ASSUME ReportAssumption ==
    /\ IsFiniteSet(SourceRecord) /\ SourceRecord \subseteq Nat /\ Pin \subseteq Nat
    /\ Position \subseteq Int /\ Reach \in Nat /\ FirstDay \in Nat /\ MaxEdits \in Nat /\ TopN \in Nat
    /\ NotYet \notin Recording
    /\ \A r \in Recording :
         r.at \in Int /\ r.type \in Nat /\ r.day \in Nat /\ r.timed \in BOOLEAN
    /\ \A asked \in ReportAsked :
         /\ asked.pins \in Seq(Pin) /\ asked.points \in Seq(Int)
         /\ (asked.pins = <<>>) # (asked.points = <<>>)
         /\ \A m, n \in DOMAIN asked.pins : asked.pins[m] = asked.pins[n] => m = n
         /\ asked.limit \in Nat \ {0}

VARIABLES
    pin,      \* pin[p]: [at, normal, gone]
    recorded, \* recorded[i]: a recording, or NotYet
    draft,    \* the report in the making
    snapshot, \* analysis_report_snapshots: a set of [pins, report]
    edits     \* changes so far

reportVars == <<pin, recorded, draft, snapshot, edits>>

Filed == {i \in SourceRecord : recorded[i] # NotYet}
Gap(a, b) == IF a >= b THEN a - b ELSE b - a

NoDraft ==
    [step |-> "none", asked |-> <<>>, from |-> 0, chosen |-> <<>>, rows |-> <<>>,
     reference |-> {}, options |-> {}, touched |-> {}, report |-> <<>>]

ReportInit ==
    /\ pin \in [Pin -> [at : Position, normal : BOOLEAN, gone : {FALSE}]]
    /\ recorded \in [SourceRecord -> Recording \cup {NotYet}]
    /\ draft = NoDraft
    /\ snapshot = {}
    /\ edits = 0

-----------------------------------------------------------------------------
(* What the sections are computed from.                                      *)

(* point_clusters, or the saved places in the order of the request.          *)
Clusters(asked) ==
    IF asked.points # <<>>
    THEN [n \in DOMAIN asked.points |-> [id |-> n, at |-> asked.points[n]]]
    ELSE [n \in DOMAIN asked.pins |-> [id |-> asked.pins[n], at |-> pin[asked.pins[n]].at]]

(* Whether _report_clusters and _selected_clusters find every place.         *)
AllFound(asked) == \A p \in ToSet(asked.pins) : ~pin[p].gone

(* _effective_dates: the first day, when there is one.                       *)
Unavailable(asked) == asked.to < FirstDay
NeedsConsent(asked) == asked.from < FirstDay /\ ~asked.adjust
EffectiveStart(asked) == IF asked.from < FirstDay THEN FirstDay ELSE asked.from

(* _filtered_incidents.                                                      *)
Within(from, to) == {i \in Filed : recorded[i].day \in from .. to}

(* incident_memberships_for_places: a row for every record in the circle of  *)
(* a place, the nearest first, and whether another place has the record too. *)
Nearer(a, b) ==
    \/ a.away < b.away
    \/ a.away = b.away /\ a.pin < b.pin
    \/ a.away = b.away /\ a.pin = b.pin /\ a.id < b.id

Memberships(clusters, from, to) ==
    LET around(n) == {i \in Within(from, to) : Gap(clusters[n].at, recorded[i].at) <= Reach}
        row(n, i) == [pin |-> clusters[n].id, id |-> i, type |-> recorded[i].type,
                      day |-> recorded[i].day, timed |-> recorded[i].timed,
                      away |-> Gap(clusters[n].at, recorded[i].at),
                      duplicate |-> \E m \in DOMAIN clusters \ {n} : i \in around(m)]
        held == UNION {{row(n, i) : i \in around(n)} : n \in DOMAIN clusters}
    IN  Ranked(held, {p \in held \X held : Nearer(p[1], p[2])})

(* occurrences.                                                              *)
Holders(rows, id) == {n \in DOMAIN rows : rows[n].id = id}

(* _type_mix of the rows own: the most frequent types, and the others        *)
(* together (type 0).                                                        *)
OfType(rows, own, t) == Cardinality({n \in own : rows[n].type = t})

Commoner(rows, own, t, u) ==
    \/ OfType(rows, own, t) > OfType(rows, own, u)
    \/ OfType(rows, own, t) = OfType(rows, own, u) /\ t < u

PlaceTypes(rows, own) ==
    LET types == {rows[n].type : n \in own}
        ordered == Ranked(types, {p \in types \X types : Commoner(rows, own, p[1], p[2])})
        counts == [n \in DOMAIN ordered |-> OfType(rows, own, ordered[n])]
        shown == [n \in 1 .. Min({TopN, Len(counts)}) |->
                    [type |-> ordered[n], count |-> counts[n]]]
        remainder == Total(SubSeq(counts, Len(shown) + 1, Len(counts)))
    IN  IF remainder > 0 THEN Append(shown, [type |-> 0, count |-> remainder]) ELSE shown

(* _place_context and _temporal.                                             *)
PlaceContext(clusters, rows) ==
    [n \in DOMAIN clusters |->
       LET own == {m \in DOMAIN rows : rows[m].pin = clusters[n].id}
       IN  [count |-> Cardinality(own), mix |-> PlaceTypes(rows, own),
            timed |-> Cardinality({m \in own : rows[m].timed}),
            untimed |-> Cardinality({m \in own : ~rows[m].timed})]]

(* The overview: source records, memberships and how they overlap.           *)
Overview(rows) ==
    LET ids == {rows[n].id : n \in DOMAIN rows}
        held == {Cardinality(Holders(rows, i)) : i \in ids}
    IN  [unique |-> Cardinality(ids), memberships |-> Len(rows),
         shared |-> Cardinality({i \in ids : Cardinality(Holders(rows, i)) > 1}),
         additional |-> Len(rows) - Cardinality(ids),
         most |-> IF held = {} THEN 0 ELSE Max(held)]

(* The rows a report shows: rows[: record_limit].  A fault: they are flagged *)
(* as duplicates among themselves only.                                      *)
ShownFlaggedLate(rows, limit) ==
    LET shown == SubSeq(rows, 1, Min({limit, Len(rows)}))
    IN  [n \in DOMAIN shown |->
           [shown[n] EXCEPT !.duplicate = Cardinality(Holders(shown, shown[n].id)) > 1]]
Shown(rows, limit) == SubSeq(rows, 1, Min({limit, Len(rows)}))

-----------------------------------------------------------------------------
(* create_analysis_report.                                                   *)

Stop(why) ==
    /\ draft' = [draft EXCEPT !.step = why]
    /\ UNCHANGED <<pin, recorded, snapshot, edits>>

(* The request, its dates and the first read of its places.                  *)
Ask ==
    /\ draft.step = "none"
    /\ \E asked \in ReportAsked :
         draft' = [draft EXCEPT !.asked = asked, !.from = EffectiveStart(asked),
           !.step = CASE Unavailable(asked) -> "date_range_unavailable"
                      [] ~Unavailable(asked) /\ NeedsConsent(asked) -> "adjustment_required"
                      [] OTHER -> "select"]
    /\ UNCHANGED <<pin, recorded, snapshot, edits>>

SelectPlaces ==
    /\ draft.step = "select" /\ AllFound(draft.asked)
    /\ \A p \in ToSet(draft.asked.pins) : pin[p].normal
    /\ draft' = [draft EXCEPT !.step = "memberships", !.chosen = Clusters(draft.asked),
                              !.touched = {}]
    /\ UNCHANGED <<pin, recorded, snapshot, edits>>

(* _assert_exportable_saved_places.                                          *)
PrivacyBlocks ==
    /\ draft.step = "select" /\ AllFound(draft.asked)
    /\ \E p \in ToSet(draft.asked.pins) : ~pin[p].normal
    /\ Stop("blocked")

(* A place is gone by the time it is read, first or again.                   *)
PlaceNotFound ==
    /\ draft.step \in {"select", "memberships", "reference", "comparison"}
    /\ ~AllFound(draft.asked)
    /\ Stop("not_found")

After(step) ==
    CASE step = "memberships" /\ draft.asked.layer = "reported" -> "reference"
      [] step = "reference" /\ Len(draft.chosen) > 1 -> "comparison"
      [] OTHER -> "freshness"

ReadMemberships ==
    /\ draft.step = "memberships" /\ AllFound(draft.asked)
    /\ draft' = [draft EXCEPT !.step = After("memberships"), !.touched = @ \ {"record"},
                   !.rows = Memberships(Clusters(draft.asked), draft.from, draft.asked.to)]
    /\ UNCHANGED <<pin, recorded, snapshot, edits>>

(* _reported_reference_context and _reported_comparison resolve the places   *)
(* again, and their results come by place.                                   *)
ReadReference ==
    /\ draft.step = "reference" /\ AllFound(draft.asked)
    /\ draft' = [draft EXCEPT !.step = After("reference"),
                              !.reference = {c.id : c \in ToSet(Clusters(draft.asked))}]
    /\ UNCHANGED <<pin, recorded, snapshot, edits>>

ReadComparison ==
    /\ draft.step = "comparison" /\ AllFound(draft.asked)
    /\ draft' = [draft EXCEPT !.step = After("comparison"),
                   !.options = {c.id : c \in ToSet(Clusters(draft.asked))}]
    /\ UNCHANGED <<pin, recorded, snapshot, edits>>

(* analysis_report_freshness, the rest of the report and, for saved places,  *)
(* its snapshot (persist_snapshot is left at its default).                   *)
Assemble ==
    LET rows == draft.rows
        report == [overview |-> Overview(rows), places |-> PlaceContext(draft.chosen, rows),
                   records |-> Shown(rows, draft.asked.limit),
                   truncated |-> Len(rows) > draft.asked.limit,
                   complete |-> Overview(rows).unique > 0,
                   newest |-> Max({0} \cup {recorded[i].day : i \in Filed})]
    IN  /\ draft.step = "freshness"
        /\ draft' = [draft EXCEPT !.step = "done", !.report = report]
        /\ snapshot' = IF draft.asked.pins # <<>>
                       THEN snapshot \cup {ToSet(draft.asked.pins)} ELSE snapshot
        /\ UNCHANGED <<pin, recorded, edits>>

(* _revalidate_saved_places: whether get_analysis_report still returns it.   *)
Retrievable(pins) == \A p \in pins : ~pin[p].gone /\ pin[p].normal

-----------------------------------------------------------------------------
(* The tables in the meantime.                                               *)

Edit == edits < MaxEdits /\ edits' = edits + 1 /\ UNCHANGED snapshot

(* Ingestion adds a row, or corrects one by its external id.                 *)
IngestReport(i) ==
    /\ Edit
    /\ \E r \in Recording \ {recorded[i]} : recorded' = [recorded EXCEPT ![i] = r]
    /\ draft' = [draft EXCEPT !.touched =
                    IF recorded[i] = NotYet THEN @ ELSE @ \cup {"record"}]
    /\ UNCHANGED pin

(* The visitor moves or deletes a place, or normalisation reclassifies it.   *)
ChangePin(p) ==
    /\ Edit
    /\ ~pin[p].gone
    /\ \/ \E at \in Position \ {pin[p].at} : pin' = [pin EXCEPT ![p].at = at]
       \/ pin' = [pin EXCEPT ![p].normal = ~@]
       \/ pin' = [pin EXCEPT ![p].gone = TRUE]
    /\ draft' = [draft EXCEPT !.touched = @ \cup {"place"}]
    /\ UNCHANGED recorded

(* DELETE /dashboard/reports.                                                *)
DeleteReports ==
    /\ snapshot # {} /\ snapshot' = {}
    /\ UNCHANGED <<pin, recorded, draft, edits>>

ReportNext ==
    \/ Ask \/ SelectPlaces \/ PrivacyBlocks \/ PlaceNotFound
    \/ ReadMemberships \/ ReadReference \/ ReadComparison \/ Assemble
    \/ \E i \in SourceRecord : IngestReport(i)
    \/ \E p \in Pin : ChangePin(p)
    \/ DeleteReports

ReportSpec == ReportInit /\ [][ReportNext]_reportVars

-----------------------------------------------------------------------------
(* The places hold the memberships of the overview, and the types of a place *)
(* add up to its count.                                                      *)
Counted(rows) == Total([n \in DOMAIN rows |-> rows[n].count])

PlacesAddUp ==
    LET places == draft.report.places
    IN  /\ Counted(places) = draft.report.overview.memberships
        /\ \A n \in DOMAIN places : Counted(places[n].mix) = places[n].count

(* The numbers of a report agree with each other, whatever was committed     *)
(* while it was made.  A place's records with and without a time are its     *)
(* count, the overlap counts the records the table flags, and a record       *)
(* flagged on its only shown row is one whose other row was cut off.         *)
OverlapReconciles ==
    LET report == draft.report
        overview == report.overview
        flagged == {r.id : r \in {s \in ToSet(report.records) : s.duplicate}}
        single == {r.id : r \in {s \in ToSet(report.records) : ~s.duplicate}}
    IN  /\ \A n \in DOMAIN report.places :
             report.places[n].count = report.places[n].timed + report.places[n].untimed
        /\ flagged \cap single = {}
        /\ Cardinality(flagged) <= overview.shared
        /\ Cardinality(single) <= overview.unique - overview.shared
        /\ ~report.truncated =>
             /\ Cardinality(flagged) = overview.shared
             /\ Len(report.records) = overview.memberships
        /\ overview.shared = 0 <=> overview.additional = 0
        /\ overview.most <= Len(report.places)

(* Every section is about the places the report was asked for, and a place   *)
(* that a section finds is found by all.                                     *)
SectionsAgree ==
    LET ids == {c.id : c \in ToSet(draft.chosen)}
        reported == draft.asked.layer = "reported"
    IN  /\ {r.pin : r \in ToSet(draft.report.records)} \subseteq ids
        /\ draft.reference = IF reported THEN ids ELSE {}
        /\ draft.options = IF reported /\ Len(draft.chosen) > 1 THEN ids ELSE {}

(* The freshness is read last: no record of the report is newer than the     *)
(* newest the report names, unless a row was corrected in between.           *)
NewestIsNewest ==
    \A r \in ToSet(draft.report.records) :
        r.day <= draft.report.newest \/ "record" \in draft.touched

(* What a report's making let pass, its retrieval lets pass too, as long as  *)
(* the places stay as they were.                                             *)
KeptCanBeOpened ==
    draft.asked.pins # <<>> /\ "place" \notin draft.touched =>
        Retrievable(ToSet(draft.asked.pins))

(* A finished report holds together.                                         *)
ReportHolds ==
    draft.step = "done" =>
        OverlapReconciles /\ SectionsAgree /\ NewestIsNewest /\ KeptCanBeOpened
ReportReconciles == ReportHolds /\ (draft.step = "done" => PlacesAddUp)
=============================================================================
