----------------------------- MODULE AreaPaging -----------------------------
(***************************************************************************)
(* useAreaSelection (frontend/src/lib/useAreaSelection.ts): a summary and   *)
(* one page of records of the drawn area, asked for by two effects of their *)
(* own, behind filters that start again with every new area.                *)
(***************************************************************************)
EXTENDS Naturals, Sequences, SequencesExt

CONSTANTS
    Area,         \* a geometry with its window and layer
    NoArea,       \* nothing drawn, or the selection is not enabled
    Filters, NoFilters,
    Size,         \* rows per page
    NoAnswer,
    MaxChanges    \* bound on what the user changes

ASSUME PagingAssumption ==
    NoArea \notin Area /\ NoFilters \in Filters /\ MaxChanges \in Nat

VARIABLES
    base, filters, pageSize, cursors,   \* basePayload, filters, pageSize, cursorStack
    effects,        \* effects whose dependencies were changed by a render
    summary, baseSummary, summaryRequest,
    records, recordsRequest,
    changes

pagingVars == <<base, filters, pageSize, cursors, effects, summary, baseSummary,
                summaryRequest, records, recordsRequest, changes>>

Start == <<>>   \* the null cursor
Payload == <<base, filters>>
Page == [payload |-> Payload, size |-> pageSize, cursor |-> Last(cursors)]

(* summaryLoading and recordsLoading.                                        *)
Loading(request) == request # NoAnswer

(* A click, once the effects of the last change have run.                    *)
Click == effects = {} /\ changes < MaxChanges /\ changes' = changes + 1
Answers == <<summary, baseSummary, summaryRequest, records, recordsRequest>>

Draw(a) ==
    /\ a # base /\ base' = a
    /\ changes < MaxChanges /\ changes' = changes + 1
    /\ effects' = {"base", "payload", "records"}
    /\ UNCHANGED <<filters, pageSize, cursors, Answers>>

Narrow(f) ==
    /\ Click
    /\ f # filters /\ filters' = f
    /\ effects' = {"payload", "records"}
    /\ UNCHANGED <<base, pageSize, cursors, Answers>>

SetPageSize(n) ==
    /\ Click
    /\ n # pageSize /\ pageSize' = n /\ cursors' = <<Start>>
    /\ effects' = {"records"}
    /\ UNCHANGED <<base, filters, Answers>>

(* Both buttons are disabled while records load.                             *)
NextPage ==
    /\ Click
    /\ ~Loading(recordsRequest) /\ records # NoAnswer
    /\ cursors' = Append(cursors, <<records.payload, records.cursor>>)
    /\ effects' = {"records"}
    /\ UNCHANGED <<base, filters, pageSize, Answers>>

PreviousPage ==
    /\ Click
    /\ ~Loading(recordsRequest) /\ Len(cursors) > 1
    /\ cursors' = Front(cursors)
    /\ effects' = {"records"}
    /\ UNCHANGED <<base, filters, pageSize, Answers>>

(* Fault: a new payload stays on the page of the old one.                    *)
CursorsKept == cursors

FirstPage == <<Start>>

(* The effects of one commit, in their order, after the cleanups that abort  *)
(* what they had asked for; what they set may bring about another render.    *)
RunEffects ==
    /\ effects # {}
    /\ filters' = IF "base" \in effects THEN NoFilters ELSE filters
    /\ cursors' = IF "payload" \in effects THEN FirstPage ELSE cursors
    /\ IF "payload" \in effects
       THEN /\ summary' = NoAnswer
            /\ summaryRequest' = IF base = NoArea THEN NoAnswer ELSE Payload
       ELSE UNCHANGED <<summary, summaryRequest>>
    /\ baseSummary' = IF "base" \in effects THEN NoAnswer ELSE baseSummary
    /\ records' = IF base = NoArea \/ "payload" \in effects THEN NoAnswer ELSE records
    /\ recordsRequest' = IF "records" \notin effects THEN recordsRequest
                         ELSE IF base = NoArea THEN NoAnswer ELSE Page
    /\ effects' = (IF filters' # filters THEN {"payload", "records"} ELSE {})
                  \cup (IF Last(cursors') # Last(cursors) THEN {"records"} ELSE {})
    /\ UNCHANGED <<base, pageSize, changes>>

(* hasActiveFilters is that of the render which asked.                       *)
SummaryAnswers(ok) ==
    /\ Loading(summaryRequest) /\ summaryRequest' = NoAnswer
    /\ summary' = IF ok THEN summaryRequest ELSE NoAnswer
    /\ baseSummary' = IF ok /\ summaryRequest[2] = NoFilters THEN summaryRequest[1]
                      ELSE baseSummary
    /\ UNCHANGED <<base, filters, pageSize, cursors, effects, records, recordsRequest, changes>>

RecordsAnswer(ok) ==
    /\ Loading(recordsRequest) /\ recordsRequest' = NoAnswer
    /\ records' = IF ok THEN recordsRequest ELSE NoAnswer
    /\ UNCHANGED <<base, filters, pageSize, cursors, effects, summary, baseSummary,
                   summaryRequest, changes>>

PagingInit ==
    /\ base = NoArea /\ filters = NoFilters /\ pageSize \in Size /\ cursors = <<Start>>
    /\ effects = {"base", "payload", "records"}
    /\ summary = NoAnswer /\ baseSummary = NoAnswer /\ summaryRequest = NoAnswer
    /\ records = NoAnswer /\ recordsRequest = NoAnswer /\ changes = 0

PagingNext ==
    \/ \E a \in Area \cup {NoArea} : Draw(a)
    \/ \E f \in Filters : Narrow(f)
    \/ \E n \in Size : SetPageSize(n)
    \/ NextPage \/ PreviousPage \/ RunEffects
    \/ \E ok \in BOOLEAN : SummaryAnswers(ok) \/ RecordsAnswer(ok)

PagingSpec == PagingInit /\ [][PagingNext]_pagingVars

-----------------------------------------------------------------------------
(* When nothing is under way the panel is of one piece: the summary and the  *)
(* page are those of the area, the filters and the page size in view, each   *)
(* cursor continues the page before it, and the unfiltered summary beside    *)
(* them is the area's, whatever was changed while answers were on their way. *)
PageIsItsOwn ==
    effects = {} =>
      /\ summary # NoAnswer => summary = Payload
      /\ baseSummary # NoAnswer => baseSummary = base
      /\ records # NoAnswer /\ ~Loading(recordsRequest) => records = Page
      /\ \A i \in 2 .. Len(cursors) : cursors[i] = <<Payload, cursors[i - 1]>>
=============================================================================
