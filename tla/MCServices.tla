----------------------------- MODULE MCServices -----------------------------
(* The smaller components of the server, side by side: a behavior is about   *)
(* one of them, and the others keep a state of their own.                    *)
EXTENDS Geocode, Freshness, AreaSelection,
        Normalization, RateComparison, Neighborhood, Migrations, AssistantTools,
        Report, ReferenceCircles

VARIABLE part
vars == <<part, geocodeVars, freshnessVars, areaVars, normalizationVars, comparisonVars,
          neighborhoodVars, migrationsVars, toolVars, reportVars, referenceVars>>

(* Rows and stops of an import.                                              *)
Fixes == [at : 0 .. 4, pos : 0 .. 2]
Stayed == [pos : 0 .. 3, dwell : {1, 3}]

(* Beats a1, a2 and b1, neighborhoods m and n, and a cell of water.          *)
Polygons ==
    [beat |-> [d \in Cell |-> CASE d <= 1 -> "a1" [] d \in 2 .. 3 -> "a2"
                                 [] d \in 4 .. 6 -> "b1" [] OTHER -> None],
     mcpp |-> [d \in Cell |-> CASE d <= 2 -> "m" [] d \in 3 .. 6 -> "n" [] OTHER -> None]]
Sectors == [b \in {"a1", "a2", "b1"} |-> IF b = "b1" THEN "B" ELSE "A"]
Rows == {[at |-> 1, in |-> 1], [at |-> 3, in |-> 2], [at |-> None, in |-> 1],
         [at |-> 6, in |-> 5], [at |-> 2, in |-> 4]}
Asked == {<<1, 4>>, <<7, 1, 4>>, <<None, 3>>, <<5, 4>>, <<2, 1>>}

(* What the assistant's tools are asked: one caller for anything, the other  *)
(* to save or compare what the first may save too.                           *)
Task(tool, queries, ids, points, complete) ==
    [tool |-> tool, queries |-> queries, ids |-> ids, points |-> points, window |-> complete]
Tasks ==
    {Task("analyze", <<"a">>, <<>>, 0, TRUE), Task("analyze", <<"b", "b">>, <<>>, 0, TRUE),
     Task("analyze", <<"b">>, <<1>>, 0, FALSE), Task("analyze", <<>>, <<>>, 1, TRUE),
     Task("compare", <<"a", "b">>, <<>>, 0, TRUE), Task("compare", <<>>, <<1, 2>>, 0, TRUE),
     Task("compare", <<>>, <<>>, 1, TRUE),
     Task("explain_analyze", <<>>, <<1>>, 0, TRUE),
     Task("explain_compare", <<>>, <<1, 1>>, 0, TRUE),
     Task("explain_compare", <<>>, <<1, 2>>, 0, TRUE),
     Task("run_place_analysis", <<>>, <<1>>, 0, TRUE),
     Task("get_neighborhood_analysis", <<>>, <<1>>, 0, TRUE),
     Task("get_incident_details", <<>>, <<1>>, 0, TRUE),
     Task("add_place", <<"b">>, <<>>, 0, TRUE), Task("select_places", <<"a", "b">>, <<>>, 0, TRUE),
     Task("select_places", <<>>, <<>>, 0, TRUE), Task("clear_places", <<>>, <<>>, 0, TRUE)}
TasksOf ==
    [c \in Caller |->
       IF c = CHOOSE d \in Caller : TRUE THEN Tasks
       ELSE {Task("add_place", <<"b">>, <<>>, 0, TRUE),
             Task("compare", <<"b", "a">>, <<>>, 0, TRUE)}]
Saved(name, sensitive) ==
    [name |-> name, by |-> SomeoneBefore, sensitive |-> sensitive, gone |-> FALSE]
AtFirst == {<<>>, <<Saved("a", FALSE)>>, <<Saved("a", FALSE), Saved("b", TRUE)>>}

(* Reports, and what may be recorded around their places.                    *)
Requested(pins, points, layer, from, to, adjust, limit) ==
    [pins |-> pins, points |-> points, layer |-> layer, from |-> from, to |-> to,
     adjust |-> adjust, limit |-> limit]
ReportRequests ==
    {Requested(<<1, 2>>, <<>>, "reported", 1, 3, TRUE, 2),
     Requested(<<2>>, <<>>, "reported", 2, 2, FALSE, 1),
     Requested(<<2, 1>>, <<>>, "calls", 2, 3, FALSE, 9),
     Requested(<<>>, <<1, 2>>, "reported", 2, 3, FALSE, 1),
     Requested(<<1>>, <<>>, "calls", 1, 3, FALSE, 1),
     Requested(<<1>>, <<>>, "calls", 1, 1, TRUE, 1)}
Recordings ==
    {[at |-> 1, type |-> 1, day |-> 2, timed |-> TRUE],
     [at |-> 3, type |-> 2, day |-> 3, timed |-> FALSE],
     [at |-> 2, type |-> 1, day |-> 1, timed |-> TRUE],
     [at |-> 2, type |-> 2, day |-> 2, timed |-> TRUE]}

(* Neighborhoods that overlap, and one of water; sectors, one of water, with  *)
(* a beat of no sector beside them.                                          *)
Zones == [mcpp |-> <<{0, 1, 2}, {2, 3, 4}, {5}>>, sector |-> <<0 .. 2, {3}, {-1}>>]
Happenings ==
    {[c \in Block |-> IF c < 3 THEN 2 ELSE 0], [c \in Block |-> c % 3]}

(* The components a behavior is not about.                                   *)
NoArea == table = [i \in Incident |-> Outside] /\ filter = [types |-> {}, hours |-> {}] /\ AreaInit
NoNormalization == fixes = <<>> /\ hashed = FALSE /\ visits = <<>>
NoComparison ==
    /\ counts = <<0, 0>> /\ tests = <<One, One>> /\ window = [from |-> 0, to |-> 0]
NoNeighborhood == places = <<5, 4>> /\ incidents = [i \in Crime |-> Absent] /\ NeighborhoodInit
NoTools == saved = <<>> /\ ToolInit
NoReport ==
    /\ pin = [p \in Pin |-> [at |-> 1, normal |-> TRUE, gone |-> FALSE]]
    /\ recorded = [i \in SourceRecord |-> NotYet] /\ ReportInit
NoReference ==
    /\ subject = [kind |-> "city", at |-> 0] /\ happened = [c \in Block |-> c % 3]
    /\ ReferenceInit

Init ==
    /\ part \in {"geocode", "freshness", "area", "neighborhood",
                 "migrations", "tools", "report", "reference", "stops",
                 "clusters", "comparison"}
    /\ IF part = "area" THEN AreaInit /\ (filter.types = {} \/ filter.hours = {}) ELSE NoArea
    /\ IF part = "stops" THEN visits = <<>> /\ NormalizationInit
       ELSE IF part = "clusters" THEN fixes = <<>> /\ hashed = FALSE /\ NormalizationInit
       ELSE NoNormalization
    /\ IF part = "comparison" THEN ComparisonInit ELSE NoComparison
    /\ IF part = "neighborhood" THEN NeighborhoodInit ELSE NoNeighborhood
    /\ IF part = "tools" THEN ToolInit ELSE NoTools
    /\ IF part = "report" THEN ReportInit ELSE NoReport
    /\ IF part = "reference" THEN ReferenceInit ELSE NoReference
    /\ GeocodeInit /\ FreshnessInit /\ MigrationsInit

Next ==
    /\ \/ /\ part = "geocode" /\ GeocodeNext
          /\ UNCHANGED <<freshnessVars, areaVars, normalizationVars, comparisonVars,
                       neighborhoodVars, migrationsVars, toolVars, reportVars,
                       referenceVars>>
       \/ /\ part = "freshness" /\ FreshnessNext
          /\ UNCHANGED <<geocodeVars, areaVars, normalizationVars, comparisonVars,
                       neighborhoodVars, migrationsVars, toolVars, reportVars,
                       referenceVars>>
       \/ /\ part = "area" /\ AreaNext
          /\ UNCHANGED <<geocodeVars, freshnessVars, normalizationVars,
                       comparisonVars, neighborhoodVars, migrationsVars, toolVars,
                       reportVars, referenceVars>>
       \/ /\ part = "neighborhood" /\ NeighborhoodNext
          /\ UNCHANGED <<geocodeVars, freshnessVars, areaVars, normalizationVars,
                       comparisonVars, migrationsVars, toolVars, reportVars,
                       referenceVars>>
       \/ /\ part = "migrations" /\ MigrationsNext
          /\ UNCHANGED <<geocodeVars, freshnessVars, areaVars, normalizationVars,
                       comparisonVars, neighborhoodVars, toolVars, reportVars,
                       referenceVars>>
       \/ /\ part = "tools" /\ ToolNext
          /\ UNCHANGED <<geocodeVars, freshnessVars, areaVars, normalizationVars,
                       comparisonVars, neighborhoodVars, migrationsVars,
                       reportVars, referenceVars>>
       \/ /\ part = "report" /\ ReportNext
          /\ UNCHANGED <<geocodeVars, freshnessVars, areaVars, normalizationVars,
                       comparisonVars, neighborhoodVars, migrationsVars, toolVars,
                       referenceVars>>
       \/ /\ part = "reference" /\ ReferenceNext
          /\ UNCHANGED <<geocodeVars, freshnessVars, areaVars, normalizationVars,
                       comparisonVars, neighborhoodVars, migrationsVars, toolVars,
                       reportVars>>
    /\ UNCHANGED part

Spec == Init /\ [][Next]_vars

(* Migrations and rows written between them never break the schema, and only *)
(* the downgrades of displayed coordinates and of crime_incidents' unique key *)
(* can fail: MigrationsWork,                                                 *)
(* evaluated in the behaviors it is about.                                   *)
MigrationsWorkHere == part = "migrations" => MigrationsWork
=============================================================================
