--------------------------- MODULE AreaSelection ---------------------------
(***************************************************************************)
(* The records of a drawn area (app/services/area_selection_service.py): a  *)
(* summary, and a list read page by page behind a keyset cursor, each by a  *)
(* request of its own, while ingestion changes the table.                   *)
(*                                                                          *)
(* An incident inside the area, of the layer, dates and offense of the      *)
(* request, is a record of the table here; any other is absent.             *)
(***************************************************************************)
EXTENDS Ranking, Totals, Sequences, FiniteSetsExt, SequencesExt

CONSTANTS
    Incident,    \* ids, which are ordered: a set of numbers
    Time,        \* of offense_start_utc, or of report_utc where that is null
    Label,       \* offense_subcategory, offense_category or "Uncategorized"
    PageSize,
    TypeLimit,   \* AREA_TYPE_LIMIT
    MaxChanges   \* bound on the incidents ingestion changes meanwhile

ASSUME AreaAssumption ==
    /\ IsFiniteSet(Incident) /\ Incident \subseteq Nat /\ Time \subseteq Nat /\ Label \subseteq Nat
    /\ PageSize \in Nat \ {0} /\ TypeLimit \in Nat \ {0} /\ MaxChanges \in Nat

VARIABLES
    table,      \* table[i]: [at, started, label], or Outside
    filter,     \* selected_types, and selected_hours; an empty set selects all
    cursor,     \* of the next page, or Start, or End
    listed,     \* the records of the pages so far
    summary,    \* of area_selection_summary, or Unread
    changes,    \* incidents ingestion has changed so far
    touched     \* those it has changed since the first read

areaVars == <<table, filter, cursor, listed, summary, changes, touched>>

Record == [at : Time, started : BOOLEAN, label : Label]
Outside == [at |-> 0, started |-> FALSE, label |-> -1]
Unread == [count |-> -1, mix |-> <<>>, withTime |-> 0, withoutTime |-> 0]
Start == [at |-> -1, id |-> 0]
End == [at |-> -2, id |-> 0]

(* A record without an offense time has no hour.                             *)
Matches(r) ==
    /\ r # Outside
    /\ filter.types = {} \/ r.label \in filter.types
    /\ filter.hours = {} \/ (r.started /\ r.at \in filter.hours)

Matching == {i \in Incident : Matches(table[i])}

(* ORDER BY observed_at DESC, id DESC.                                       *)
Newer(i, j) ==
    table[i].at > table[j].at \/ (table[i].at = table[j].at /\ i > j)

NewerPairs == {p \in Matching \X Matching : Newer(p[1], p[2])}

(* Fault: the cursor compares the time alone.                                *)
BehindByTime(i) == cursor = Start \/ table[i].at < cursor.at

(* The keyset condition.                                                     *)
Behind(i) ==
    \/ cursor = Start
    \/ table[i].at < cursor.at
    \/ table[i].at = cursor.at /\ i < cursor.id

(* area_selection_records: one row more than the page is read, to tell       *)
(* whether there is a next one.                                              *)
Page ==
    /\ cursor # End
    /\ LET behind == Ranked({i \in Matching : Behind(i)}, NewerPairs)
           page == SubSeq(behind, 1, Min({Len(behind), PageSize}))
       IN  /\ listed' = listed \o page
           /\ cursor' = IF Len(behind) > PageSize
                        THEN [at |-> table[Last(page)].at, id |-> Last(page)] ELSE End
    /\ UNCHANGED <<table, filter, summary, changes, touched>>

Count(l, records) == Cardinality({i \in records : table[i].label = l})

MoreFrequent(k, l, records) ==
    \/ Count(k, records) > Count(l, records)
    \/ Count(k, records) = Count(l, records) /\ k < l

(* _type_mix: the most frequent types, the others folded into one.           *)
TypeMix(records) ==
    LET labels == {table[i].label : i \in records}
        ordered == Ranked(labels, {p \in labels \X labels : MoreFrequent(p[1], p[2], records)})
        counts == [n \in DOMAIN ordered |-> Count(ordered[n], records)]
    IN  IF Len(counts) > TypeLimit
        THEN Append(SubSeq(counts, 1, TypeLimit - 1),
                    Total(SubSeq(counts, TypeLimit, Len(counts))))
        ELSE counts

Summarise ==
    /\ summary = Unread
    /\ summary' = [count |-> Cardinality(Matching),
                   mix |-> TypeMix(Matching),
                   withTime |-> Cardinality({i \in Matching : table[i].started}),
                   withoutTime |-> Cardinality({i \in Matching : ~table[i].started})]
    /\ UNCHANGED <<table, filter, cursor, listed, changes, touched>>

(* Ingestion inserts an incident, changes or removes it.                     *)
Change(i) ==
    /\ changes < MaxChanges
    /\ \E r \in Record \cup {Outside} : r # table[i] /\ table' = [table EXCEPT ![i] = r]
    /\ changes' = changes + 1
    /\ touched' = IF cursor = Start /\ summary = Unread THEN touched ELSE touched \cup {i}
    /\ UNCHANGED <<filter, cursor, listed, summary>>

AreaInit ==
    /\ table \in [Incident -> Record \cup {Outside}]
    /\ filter \in [types : {{}} \cup {{l} : l \in Label}, hours : {{}} \cup {{t} : t \in Time}]
    /\ cursor = Start /\ listed = <<>> /\ summary = Unread
    /\ changes = 0 /\ touched = {}

AreaNext ==
    \/ Page
    \/ Summarise
    \/ \E i \in Incident : Change(i)

AreaSpec == AreaInit /\ [][AreaNext]_areaVars

-----------------------------------------------------------------------------
(* Properties.                                                               *)

Times(i) == Cardinality({n \in DOMAIN listed : listed[n] = i})

(* Pages that are read while ingestion writes neither repeat nor skip an     *)
(* incident it leaves alone, and keep it in order with the others.           *)
ListedOnce ==
    /\ \A i \in Incident \ touched :
         /\ Times(i) <= 1
         /\ cursor = End => Times(i) = (IF Matches(table[i]) THEN 1 ELSE 0)
    /\ \A m, n \in DOMAIN listed :
         m < n /\ {listed[m], listed[n]} \cap touched = {} => Newer(listed[m], listed[n])

(* What the summary counts, by time and by type, adds up to what the list    *)
(* shows, when nothing changed between them.                                 *)
SummaryMatchesList ==
    summary # Unread =>
      /\ summary.withTime + summary.withoutTime = summary.count
      /\ touched = {} /\ cursor = End => summary.count = Len(listed)

MixAddsUp ==
    summary # Unread =>
      /\ Len(summary.mix) <= TypeLimit
      /\ Total(summary.mix) = summary.count

(* The pages and the summary of an area tell the same story.                 *)
PagesAgree == ListedOnce /\ SummaryMatchesList
AreaAnswersAgree == PagesAgree /\ MixAddsUp
=============================================================================
