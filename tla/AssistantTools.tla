--------------------------- MODULE AssistantTools ---------------------------
(***************************************************************************)
(* The assistant's tools (app/assistant/tools.py, place_resolution.py,      *)
(* app/services/analysis_runs.py and dashboard_analysis_service.py).  A     *)
(* tool first turns the names it was asked about into saved places, saving  *)
(* those it does not know, and then computes the sections of its result one *)
(* after the other, each from a query and sometimes a commit of its own.    *)
(* The routes run tools in a thread pool: two calls of one visitor overlap  *)
(* with each other and with the deletion of a place in the sidebar.         *)
(*                                                                          *)
(* Left out: the tools that only read (get_dashboard_summary) or only       *)
(* answer (update_filters, suggest_followups), renaming a place, and what a *)
(* section computes (Neighborhood, RateComparison, Report).                 *)
(***************************************************************************)
EXTENDS Integers, FiniteSets, Sequences, SequencesExt

CONSTANTS
    Caller,       \* overlapping calls of one visitor
    Name,         \* labels, as _normalize leaves them
    ToolCall,     \* ToolCall[c]: the calls c may make, see below
    SavedPlaces,  \* the places there may be at first: [name, by, sensitive, gone]
    MaxGone       \* bound on the places deleted

(* A call: the tool, the names it asks about, the place ids and the number   *)
(* of inline points it is given, and whether its window is complete.  Clear  *)
(* is select_places with that mode, explain_ with its kind.                  *)

VARIABLES
    saved,  \* every place row so far, the deleted ones marked gone
    kept,   \* the rows of analysis runs, comparisons and reports: [kind, by, of]
    work   \* work[c]: how far caller c's call is

toolVars == <<saved, kept, work>>

SomeoneBefore == "nobody"
NoPlace == 0
NoRun == 0

RunTools == {"analyze", "compare", "run_place_analysis"}
Tool ==
    RunTools \cup {"explain_analyze", "explain_compare", "get_neighborhood_analysis",
                  "get_incident_details", "add_place", "select_places", "clear_places"}

ASSUME ToolsAssumption ==
    /\ SomeoneBefore \notin Caller
    /\ \A c \in Caller : \A asked \in ToolCall[c] :
         asked.tool \in Tool /\ asked.queries \in Seq(Name)
    /\ SavedPlaces \subseteq Seq([name : Name, by : {SomeoneBefore},
                                sensitive : BOOLEAN, gone : BOOLEAN])

Analysis(tool) == tool \in {"analyze", "compare"}

(* What is left to do once the places are known.                             *)
Sections(tool) ==
    CASE tool = "analyze" ->
            <<"analyze", "commit", "neighborhood", "incidents", "report">>
      [] tool = "compare" ->
            <<"analyze", "commit", "comparison", "neighborhood", "incidents", "report">>
      [] tool = "explain_analyze" -> <<"neighborhood", "report">>
      [] tool = "explain_compare" -> <<"neighborhood", "comparison", "report">>
      [] tool = "run_place_analysis" -> <<"analyze", "commit">>
      [] tool = "get_neighborhood_analysis" -> <<"neighborhood">>
      [] tool = "get_incident_details" -> <<"incidents">>
      [] tool = "add_place" -> <<"show">>
      [] tool \in {"select_places", "clear_places"} -> <<>>

Idle ==
    [state |-> "idle", asked |-> <<>>, known |-> [n \in Name |-> NoPlace], reading |-> 0,
     next |-> 1, ids |-> <<>>, created |-> {}, left |-> <<>>, run |-> NoRun, named |-> NoRun,
     report |-> FALSE]

ToolInit ==
    /\ saved \in SavedPlaces
    /\ kept = <<>>
    /\ work = [c \in Caller |-> Idle]

Live(p) == p \in DOMAIN saved /\ ~saved[p].gone
AllLive(c) == \A p \in ToSet(work[c].ids) : Live(p)
Inline(c) == work[c].asked.points > 0 /\ work[c].asked.queries = <<>>

(* How many places or points the call is about.                              *)
Chosen(asked, ids) ==
    IF asked.points > 0 /\ asked.queries = <<>> THEN asked.points ELSE Len(ids)

(* AssistantClarification instead of the sections.                           *)
Unclear(asked, ids) ==
    CASE asked.tool = "analyze" -> Chosen(asked, ids) = 0 \/ ~asked.window
      [] asked.tool = "compare" -> Chosen(asked, ids) < 2 \/ ~asked.window
      [] asked.tool = "explain_analyze" -> ~asked.window
      [] asked.tool = "explain_compare" -> Chosen(asked, ids) < 2 \/ ~asked.window
      [] asked.tool = "add_place" -> ids = <<>>
      [] OTHER -> FALSE

(* The call once its places are known.                                       *)
Resolved(call, ids) ==
    LET asked == call.asked
        known == [call EXCEPT !.ids = ids, !.left = Sections(asked.tool),
                              !.known = Idle.known]
    IN  IF Unclear(asked, ids) THEN [known EXCEPT !.state = "clarified", !.left = <<>>]
        ELSE [known EXCEPT !.state = "working"]

-----------------------------------------------------------------------------
(* The names.                                                                *)

(* dict.fromkeys.                                                            *)
Once(ids) ==
    FoldLeft(LAMBDA seen, p : IF Contains(seen, p) THEN seen ELSE Append(seen, p), <<>>, ids)

(* execute_tool.  A call without names is about the places it is given, and  *)
(* explain_result drops repeated ones.                                       *)
BeginTool(c) ==
    /\ work[c].state = "idle"
    /\ \E asked \in ToolCall[c] :
         LET call == [Idle EXCEPT !.asked = asked]
             ids == IF asked.tool \in {"explain_analyze", "explain_compare"}
                    THEN Once(asked.ids) ELSE asked.ids
         IN  work' = [work EXCEPT ![c] =
               CASE asked.queries # <<>> -> [call EXCEPT !.state = "reading"]
                 [] asked.queries = <<>> /\ asked.tool = "select_places" ->
                        [call EXCEPT !.state = "clarified"]
                 [] OTHER -> Resolved(call, ids)]
    /\ UNCHANGED <<saved, kept>>

(* _existing_by_label: the rows come in no order, so that any of the places  *)
(* with a label may stand for it.                                            *)
ReadLabels(c) ==
    /\ work[c].state = "reading"
    /\ \E known \in [Name -> {NoPlace} \cup {p \in DOMAIN saved : Live(p)}] :
         /\ \A n \in Name :
              LET named == {p \in DOMAIN saved : Live(p) /\ saved[p].name = n}
              IN  IF named = {} THEN known[n] = NoPlace ELSE known[n] \in named
         /\ work' = [work EXCEPT ![c].state = "resolving", ![c].known = known,
                                   ![c].reading = Len(saved)]
    /\ UNCHANGED <<saved, kept>>

Resolving(c) == work[c].state = "resolving" /\ work[c].next <= Len(work[c].asked.queries)
Wanted(c) == work[c].asked.queries[work[c].next]

(* A name in the index.  A commit of this call expires the row, and reading  *)
(* it again fails when the place was deleted in the meantime.                *)
Match(c) ==
    LET p == work[c].known[Wanted(c)]
    IN  /\ Resolving(c) /\ p # NoPlace
        /\ work' = [work EXCEPT ![c].next = @ + 1, ![c].ids = Append(@, p)]
        /\ UNCHANGED <<saved, kept>>
LostMatch(c) ==
    /\ Resolving(c) /\ work[c].known[Wanted(c)] # NoPlace
    /\ ~Live(work[c].known[Wanted(c)]) /\ work[c].created # {}
    /\ work' = [work EXCEPT ![c].state = "error"]
    /\ UNCHANGED <<saved, kept>>

NewPlace(c) == [name |-> Wanted(c), by |-> c, sensitive |-> FALSE, gone |-> FALSE]

(* A name the geocoder knows becomes a place (create_manual_place), and the  *)
(* index holds it from then on.  A fault: the index is left as it was read.  *)
SavePlaceForgetting(c) ==
    /\ Resolving(c) /\ work[c].known[Wanted(c)] = NoPlace
    /\ saved' = Append(saved, NewPlace(c))
    /\ work' = [work EXCEPT ![c].next = @ + 1, ![c].ids = Append(@, Len(saved')),
                              ![c].created = @ \cup {Len(saved')}]
    /\ UNCHANGED kept
SavePlace(c) ==
    /\ Resolving(c) /\ work[c].known[Wanted(c)] = NoPlace
    /\ saved' = Append(saved, NewPlace(c))
    /\ work' = [work EXCEPT ![c].next = @ + 1, ![c].known[Wanted(c)] = Len(saved'),
                              ![c].ids = Append(@, Len(saved')),
                              ![c].created = @ \cup {Len(saved')}]
    /\ UNCHANGED kept

(* One that it does not know, or that it fails on.                           *)
Unresolved(c) ==
    /\ Resolving(c) /\ work[c].known[Wanted(c)] = NoPlace
    /\ work' = [work EXCEPT ![c].next = @ + 1]
    /\ UNCHANGED <<saved, kept>>

AllResolved(c) ==
    /\ work[c].state = "resolving" /\ work[c].next > Len(work[c].asked.queries)
    /\ work' = [work EXCEPT ![c] = Resolved(@, @.ids)]
    /\ UNCHANGED <<saved, kept>>

-----------------------------------------------------------------------------
(* The sections.                                                             *)

Working(c, section) ==
    work[c].state = "working" /\ work[c].left # <<>> /\ Head(work[c].left) = section

(* The section is done.                                                      *)
Further(call) == [call EXCEPT !.left = Tail(@)]

(* Whether _selected_clusters and _report_clusters find the selection, and   *)
(* what else the sections require of it.                                     *)
Accepted(c, section) ==
    LET ids == work[c].ids
    IN  IF Inline(c) THEN section = "comparison" => work[c].asked.points >= 2
        ELSE /\ ids # <<>> /\ AllLive(c)
             /\ section = "comparison" => Cardinality(ToSet(ids)) >= 2
             /\ section = "report" =>
                  IsInjective(ids) /\ \A p \in ToSet(ids) : ~saved[p].sensitive

Row(c, kind) == [kind |-> kind, by |-> c, of |-> ToSet(work[c].ids)]

(* analyze_selected_places, up to its commit, compare_selected_places and    *)
(* create_analysis_report: what a section keeps for saved places; what       *)
(* explain_result computes is not kept.                                      *)
Keeps(c, section) ==
    /\ section \in {"comparison", "report"}
    /\ Analysis(work[c].asked.tool) /\ ~Inline(c)

Computed == {"analyze", "neighborhood", "comparison", "incidents", "report", "show"}
Section(c) ==
    \E section \in Computed :
        /\ Working(c, section) /\ Accepted(c, section)
        /\ \/ /\ work' = [work EXCEPT ![c] = Further([@ EXCEPT !.report = section = "report"])]
              /\ kept' = IF Keeps(c, section) THEN Append(kept, Row(c, section)) ELSE kept
           \/ \* ReportCoverageUnavailableError
              /\ section = "report"
              /\ work' = [work EXCEPT ![c] = Further(@)]
              /\ UNCHANGED kept
        /\ UNCHANGED saved

SectionFails(c) ==
    /\ \E section \in Computed : Working(c, section) /\ ~Accepted(c, section)
    /\ work' = [work EXCEPT ![c].state = "error"]
    /\ UNCHANGED <<saved, kept>>

(* The run and its summaries.  Those of a place deleted since it was read    *)
(* break the foreign key, if there are any.                                  *)
CommitRun(c) ==
    /\ Working(c, "commit")
    /\ kept' = IF Inline(c) THEN kept ELSE Append(kept, Row(c, "run"))
    /\ work' = [work EXCEPT ![c] =
         Further([@ EXCEPT !.run = IF Inline(c) THEN NoRun ELSE Len(kept')])]
    /\ UNCHANGED saved
CommitFails(c) ==
    /\ Working(c, "commit") /\ ~Inline(c) /\ ~AllLive(c)
    /\ work' = [work EXCEPT ![c].state = "error"]
    /\ UNCHANGED <<saved, kept>>

(* The run the result names, and a fault: the visitor's latest when the      *)
(* result is put together.                                                   *)
LatestRun(c) ==
    IF work[c].run = NoRun THEN NoRun
    ELSE Max({r \in DOMAIN kept : kept[r].kind = "run"})
RunNamed(c) == work[c].run

(* The result: the places, the sections, the run and the badges.             *)
Answer(c) ==
    /\ work[c].state = "working" /\ work[c].left = <<>>
    /\ work' = [work EXCEPT ![c].state = "done", ![c].named = RunNamed(c)]
    /\ UNCHANGED <<saved, kept>>

-----------------------------------------------------------------------------
(* The visitor deletes a place.                                              *)
PlaceGoes(p) ==
    /\ Live(p)
    /\ Cardinality({q \in DOMAIN saved : saved[q].gone}) < MaxGone
    /\ saved' = [saved EXCEPT ![p].gone = TRUE]
    /\ UNCHANGED <<kept, work>>

ToolNext ==
    \/ \E c \in Caller :
         \/ BeginTool(c) \/ ReadLabels(c)
         \/ Match(c) \/ LostMatch(c) \/ SavePlace(c) \/ Unresolved(c) \/ AllResolved(c)
         \/ Section(c) \/ SectionFails(c) \/ CommitRun(c) \/ CommitFails(c)
         \/ Answer(c)
    \/ \E p \in DOMAIN saved : PlaceGoes(p)

ToolSpec == ToolInit /\ [][ToolNext]_toolVars

-----------------------------------------------------------------------------
(* A result names the run its own call wrote, for exactly the places of the  *)
(* result, and that run, the kept comparison and the kept report of a call   *)
(* are about the same places, whatever the visitor's other calls write in    *)
(* between; a call that asks back has written none of them (_compare_places: *)
(* "the exact analyze run, not a post-commit latest lookup").                *)
RunIsItsOwn ==
    \A c \in Caller :
        LET call == work[c]
            mine == {r \in DOMAIN kept : kept[r].by = c}
        IN  /\ \A r \in mine : kept[r].of = ToSet(call.ids)
            /\ \A r, s \in mine : kept[r].kind = kept[s].kind => r = s
            /\ call.state = "clarified" => mine = {}
            /\ call.state = "done" =>
                 /\ call.named # NoRun <=> call.asked.tool \in RunTools /\ ~Inline(c)
                 /\ call.named # NoRun =>
                      call.named \in mine /\ kept[call.named].kind = "run"
                 /\ call.report /\ ~Inline(c) => IsInjective(call.ids)

(* A visitor gets two live places with one label from the assistant only     *)
(* when two calls overlap: the second read the labels before the first saved *)
(* its place (resolve_place_queries; no constraint forbids it).              *)
TwinsOnlyByRace ==
    \A p, q \in DOMAIN saved :
        (/\ p < q /\ Live(p) /\ Live(q)
         /\ saved[p].name = saved[q].name /\ saved[q].by \in Caller)
            => /\ saved[p].by # saved[q].by
               /\ work[saved[q].by].reading < p

(* Both of the above: a call of the tools neither passes another call's rows *)
(* off as its own nor saves a place the visitor has already.                 *)
ToolsHold == RunIsItsOwn /\ TwinsOnlyByRace
=============================================================================
