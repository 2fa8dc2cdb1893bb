----------------------------- MODULE Workspace -----------------------------
(***************************************************************************)
(* The address list of the workspace, the run over it and the card that     *)
(* keeps its report (useAddressList.ts, useCompare.ts and the handlers of   *)
(* components/MapWorkspace.tsx).  A handler that awaits the server goes on   *)
(* with the list and the places of the render that started it.              *)
(***************************************************************************)
EXTENDS Naturals, Sequences, SequencesExt

CONSTANTS
    Spot,          \* coordinates; a saved place has the name of its own
    AtFirstSaved,  \* the places saved, known and listed at first
    Does,          \* what the user and the panel do here
    NoReport,
    MaxEntries,    \* MAX_ADDRESSES
    MaxRuns,       \* bound on the version of the run
    MaxAnswers     \* bound on summary answers under way

ASSUME WorkspaceAssumption ==
    /\ AtFirstSaved \in Seq(Spot) /\ MaxEntries \in Nat \ {0}
    /\ MaxRuns \in Nat /\ MaxAnswers \in Nat

VARIABLES
    stored,       \* stored[s]: "no", "yes" or "gone" on the server
    known,        \* data.places
    summaries,    \* answers of getDashboardSummary under way, oldest first
    list,         \* list.entries: where, and whether saved
    pending,      \* pendingIdsRef
    creating,     \* creations awaited, with the render they began in
    deleting,     \* deletions awaited, with the render they began in
    version, running,
    runs,         \* runs awaited: their version and their snapshot
    report,       \* the run the report is of and its spots, or NoReport
    runPoints,    \* whether the panes show a run of this hook
    armed, card,  \* pendingCardRef; the spots the current local card names, and its report
    turnKnown     \* data.places of the render in which the panel's turn began

workspaceVars == <<stored, known, summaries, list, pending, creating, deleting, version,
                   running, runs, report, runPoints, armed, card,
                   turnKnown>>
runVars == <<version, running, runs, report, runPoints, armed, card>>
placeVars == <<stored, known, summaries, creating, deleting, turnKnown>>

Stored == {s \in Spot : stored[s] = "yes"}
Spots(entries) == [i \in DOMAIN entries |-> entries[i].at]
IndexOf(entries, s) == SelectInSeq(entries, LAMBDA e : e.at = s)
IndexOfSaved(entries, s) == SelectInSeq(entries, LAMBDA e : e.saved /\ e.at = s)

(* list.add: dedupeCap([...cur, entry]).                                     *)
Added(entries, new) ==
    IF IndexOf(entries, new.at) # 0 \/ Len(entries) >= MaxEntries THEN entries
    ELSE Append(entries, new)

(* One saved place after the other.                                          *)
AddAll(entries, spots) ==
    LET after[n \in 0 .. Len(spots)] ==
          IF n = 0 THEN entries ELSE Added(after[n - 1], [at |-> spots[n], saved |-> TRUE])
    IN  after[Len(spots)]

(* entriesForIds: those of a queue that are among some places, in its order. *)
Among(queue, places) ==
    LET kept[n \in 0 .. Len(queue)] ==
          IF n = 0 THEN <<>>
          ELSE IF queue[n] \in places THEN Append(kept[n - 1], queue[n]) ELSE kept[n - 1]
    IN  kept[Len(queue)]

Cut(entries, i) == IF i = 0 THEN entries ELSE RemoveAt(entries, i)
MarkSaved(entries, s) ==
    [i \in DOMAIN entries |-> IF entries[i].at = s THEN [entries[i] EXCEPT !.saved = TRUE]
                              ELSE entries[i]]

(* refreshWithFallback: the answer is what the server has stored by now.     *)
Refreshed(now) == summaries' = Append(summaries, {s \in Spot : now[s] = "yes"})
MayRefresh == Len(summaries) < MaxAnswers

(* Fault: what is in flight keeps its version.                               *)
VersionKept == version

NextVersion == version + 1

(* invalidateAnalysisContext.                                                *)
Invalidate ==
    /\ version < MaxRuns
    /\ version' = NextVersion
    /\ running' = FALSE /\ report' = NoReport /\ runPoints' = FALSE
    /\ armed' = FALSE /\ card' = NoReport
    /\ UNCHANGED runs

(* handleDirectReportRun; its button is there without a card, and disabled   *)
(* while a run is awaited.                                                   *)
Run ==
    /\ "run" \in Does
    /\ list # <<>> /\ card = NoReport /\ ~running /\ version < MaxRuns
    /\ version' = version + 1 /\ running' = TRUE /\ armed' = TRUE
    /\ runs' = runs \cup {[version |-> version', snapshot |-> list]}
    /\ UNCHANGED <<report, runPoints, card, placeVars, list, pending>>

Newest(r) == r.version = version

(* The effect on compare.report: the card names the list of that render.     *)
FreezeCard ==
    IF armed /\ report' # NoReport
    THEN armed' = FALSE /\ card' = [names |-> Spots(list), report |-> report']
    ELSE UNCHANGED <<armed, card>>

(* All five calls have settled; the primary one may have failed.             *)
RunSettles(r, ok) ==
    /\ MayRefresh
    /\ runs' = runs \ {r}
    /\ IF Newest(r)
       THEN /\ report' = IF ok THEN [run |-> r.version, spots |-> Spots(r.snapshot)] ELSE NoReport
            /\ runPoints' = TRUE /\ running' = FALSE
            /\ FreezeCard
            /\ IF \E i \in DOMAIN r.snapshot : r.snapshot[i].saved THEN Refreshed(stored)
               ELSE UNCHANGED summaries
       ELSE UNCHANGED <<report, runPoints, running, armed, card, summaries>>
    /\ UNCHANGED <<version, stored, known, list, pending, creating, deleting, turnKnown>>

(* handleLookup, handleToggleSelect and handleRemoveEntry.                   *)
Lookup(s) ==
    /\ "edit" \in Does
    /\ Invalidate
    /\ list' = <<[at |-> s, saved |-> FALSE]>>
    /\ UNCHANGED <<placeVars, pending>>

Toggle(s) ==
    /\ "edit" \in Does
    /\ s \in known
    /\ Invalidate
    /\ list' = IF IndexOfSaved(list, s) # 0 THEN Cut(list, IndexOfSaved(list, s))
               ELSE IF IndexOf(list, s) # 0 THEN MarkSaved(list, s)
               ELSE Added(list, [at |-> s, saved |-> TRUE])
    /\ UNCHANGED <<placeVars, pending>>

RemoveEntry(i) ==
    /\ "edit" \in Does
    /\ Invalidate /\ list' = RemoveAt(list, i)
    /\ UNCHANGED <<placeVars, pending>>

(* handleAnalysisChange: the window, the layer or the radius.                *)
ChangeAnalysis ==
    /\ "edit" \in Does
    /\ Invalidate
    /\ UNCHANGED <<placeVars, list, pending>>

(* handleManualSubmit and saveDraft, or handleSaveEntry for an entry.        *)
BeginSave(s, entry) ==
    /\ "save" \in Does
    /\ stored[s] = "no" /\ \A c \in creating : c.at # s
    /\ entry => \E i \in DOMAIN list : list[i] = [at |-> s, saved |-> FALSE]
    /\ creating' = creating \cup {[at |-> s, entry |-> entry, list |-> list]}
    /\ UNCHANGED <<stored, known, summaries, deleting, list, pending, runVars, turnKnown>>

(* selectPlaceIds links an entry the handler's list had there, or queues the *)
(* new place, which the handler's places cannot have; handleSaveEntry only   *)
(* stamps the entry.                                                         *)
SaveAnswers(c) ==
    /\ MayRefresh
    /\ creating' = creating \ {c}
    /\ stored' = [stored EXCEPT ![c.at] = "yes"] /\ Refreshed(stored')
    /\ IF c.entry THEN UNCHANGED runVars ELSE Invalidate
    /\ IF c.entry \/ \E i \in DOMAIN c.list : c.list[i] = [at |-> c.at, saved |-> FALSE]
       THEN list' = MarkSaved(list, c.at) /\ UNCHANGED pending
       ELSE pending' = Append(pending, c.at) /\ UNCHANGED list
    /\ UNCHANGED <<known, deleting, turnKnown>>

SaveFails(c) ==
    /\ creating' = creating \ {c}
    /\ UNCHANGED <<stored, known, summaries, deleting, list, pending, runVars, turnKnown>>

(* handleDelete.                                                             *)
BeginDelete(s) ==
    /\ "delete" \in Does
    /\ s \in known
    /\ Invalidate
    /\ deleting' = deleting \cup {[at |-> s, list |-> list]}
    /\ UNCHANGED <<stored, known, summaries, creating, list, pending, turnKnown>>

DeleteAnswers(d) ==
    /\ MayRefresh
    /\ deleting' = deleting \ {d}
    /\ IF stored[d.at] = "yes"
       THEN /\ stored' = [stored EXCEPT ![d.at] = "gone"] /\ Refreshed(stored')
            /\ LET i == IndexOfSaved(d.list, d.at)
               IN  list' = IF i \in DOMAIN list THEN RemoveAt(list, i) ELSE list
       ELSE UNCHANGED <<stored, summaries, list>>
    /\ UNCHANGED <<known, creating, pending, runVars, turnKnown>>

DeleteFails(d) ==
    /\ deleting' = deleting \ {d}
    /\ UNCHANGED <<stored, known, summaries, creating, list, pending, runVars, turnKnown>>

(* A summary arrives, in any order, and the effect on data.places appends    *)
(* the queued places it knows.                                               *)
SummaryArrives(i) ==
    LET resolved == Among(pending, summaries[i])
    IN  /\ known' = summaries[i] /\ summaries' = RemoveAt(summaries, i)
        /\ pending' = Among(pending, Spot \ summaries[i])
        /\ list' = AddAll(list, resolved)
        /\ IF resolved # <<>> /\ runPoints THEN Invalidate ELSE UNCHANGED runVars
        /\ UNCHANGED <<stored, creating, deleting, turnKnown>>

SummaryFails(i) ==
    /\ summaries' = RemoveAt(summaries, i)
    /\ UNCHANGED <<stored, known, list, pending, creating, deleting, runVars, turnKnown>>

(* A turn of the panel keeps the handlers of the render it began in.         *)
BeginTurn ==
    /\ "assistant" \in Does
    /\ turnKnown' = known
    /\ UNCHANGED <<stored, known, summaries, creating, deleting, list, pending, runVars>>

(* applyAssistantToolResult: a selection invalidates and changes the list,   *)
(* a payload takes over the panes (applyAssistant) and brings its own card.  *)
Selected(mode, ids) ==
    LET now == Among(ids, turnKnown)
    IN  /\ list' = CASE mode = "clear" -> <<>>
                     [] mode = "replace" -> AddAll(<<>>, now)
                     [] mode = "add" -> AddAll(list, now)
                     [] mode = "none" -> list
        /\ pending' = IF mode \in {"add", "replace"}
                      THEN pending \o Among(ids, Spot \ turnKnown) ELSE pending

(* applyAssistant, and the card that comes with it.                          *)
TakenOver ==
    /\ version' = NextVersion /\ running' = FALSE
    /\ report' = NoReport /\ runPoints' = FALSE /\ card' = NoReport

AssistantResult(mode, ids, payload) ==
    /\ "assistant" \in Does
    /\ MayRefresh /\ version < MaxRuns
    /\ Selected(mode, ids)
    /\ armed' = FALSE
    /\ IF mode # "none" \/ payload THEN TakenOver
       ELSE UNCHANGED <<version, running, report, runPoints, card>>
    /\ Refreshed(stored)
    /\ UNCHANGED <<runs, stored, known, creating, deleting, turnKnown>>

WorkspaceInit ==
    /\ stored = [s \in Spot |-> IF Contains(AtFirstSaved, s) THEN "yes" ELSE "no"]
    /\ known = Stored /\ summaries = <<>>
    /\ list = AddAll(<<>>, AtFirstSaved) /\ pending = <<>>
    /\ creating = {} /\ deleting = {}
    /\ version = 0 /\ running = FALSE /\ runs = {}
    /\ report = NoReport /\ runPoints = FALSE /\ armed = FALSE /\ card = NoReport
    /\ turnKnown = known

WorkspaceNext ==
    \/ Run \/ ChangeAnalysis \/ BeginTurn
    \/ \E r \in runs, ok \in BOOLEAN : RunSettles(r, ok)
    \/ \E s \in Spot : Lookup(s) \/ Toggle(s) \/ BeginDelete(s)
    \/ \E i \in DOMAIN list : RemoveEntry(i)
    \/ \E s \in Spot, entry \in BOOLEAN : BeginSave(s, entry)
    \/ \E c \in creating : SaveAnswers(c) \/ SaveFails(c)
    \/ \E d \in deleting : DeleteAnswers(d) \/ DeleteFails(d)
    \/ \E i \in DOMAIN summaries : SummaryArrives(i) \/ SummaryFails(i)
    \/ \E mode \in {"clear", "none"}, payload \in BOOLEAN : AssistantResult(mode, <<>>, payload)
    \/ \E mode \in {"add", "replace"}, s \in Spot, payload \in BOOLEAN :
         stored[s] = "yes" /\ AssistantResult(mode, <<s>>, payload)

WorkspaceSpec == WorkspaceInit /\ [][WorkspaceNext]_workspaceVars

-----------------------------------------------------------------------------
(* However runs, edits, assistant results and late answers interleave, the   *)
(* button says "running" exactly while the newest run is awaited, a report   *)
(* is shown only while it is the newest run's or its successor is awaited,   *)
(* and a card stays the current one only with its report.                    *)
RunsAreNewest ==
    /\ running <=> \E r \in runs : Newest(r)
    /\ report # NoReport => runPoints /\ (report.run = version \/ running)
    /\ card # NoReport => card.report = report

(* That, and the list names no spot twice.                                   *)
NewestRunOnly == RunsAreNewest /\ IsInjective(Spots(list))

(* "Run results are keyed to the list, so a late append makes them stale"    *)
(* (the effect on data.places in MapWorkspace.tsx): the report shown is for  *)
(* the list shown.                                                           *)
ReportMatchesList == report # NoReport => ToSet(report.spots) = ToSet(Spots(list))
=============================================================================
