---------------------------- MODULE Neighborhood ----------------------------
(***************************************************************************)
(* The neighborhood analysis of selected places                             *)
(* (app/services/neighborhood_service.py): the incidents around each place  *)
(* against those of the rest of its police beats, of its neighborhood       *)
(* (mcpp), its sector and the city.  A request runs several queries, each   *)
(* on the committed table of its own moment, while ingestion changes it.    *)
(*                                                                          *)
(* The map is a line of cells of equal area, and an incident has two        *)
(* places on it: its coordinates, which the police blur or withhold, and    *)
(* the cell its beat and mcpp columns name.                                 *)
(***************************************************************************)
EXTENDS Correction, Functions, Sequences, SequencesExt

CONSTANTS
    Crime,
    Cell,         \* 0 .. n
    AreaOf,       \* AreaOf[kind][c]: the polygon of kind "beat" or "mcpp" over c, or None
    SectorOf,     \* SectorOf[b]: the sector of beat b, or None
    None,
    Radius,       \* radius_m, in cells
    Recorded,     \* the rows of the layer and the filters that may occur: [at, in]
    Selections,   \* the sequences of places that may be asked for: cells, or None
    TestValue,    \* the p-values a test may return
    MinPlace,     \* MIN_PLACE_COUNT
    MinTogether,  \* MIN_COMBINED_COUNT
    MaxIngested   \* bound on the incidents changed during a request

ASSUME NeighborhoodAssumption ==
    /\ IsFiniteSet(Crime) /\ Cell \subseteq Nat /\ None \notin Cell
    /\ \A c \in Cell : AreaOf["beat"][c] \in DOMAIN SectorOf \cup {None}
    /\ Radius \in Nat /\ MinPlace \in Nat \ {0} /\ MinTogether \in Nat /\ MaxIngested \in Nat
    /\ Recorded \subseteq [at : Cell \cup {None}, in : Cell]
    /\ Selections \subseteq Seq(Cell \cup {None}) \ {<<>>}
    /\ TestValue \subseteq 0 .. One

VARIABLES
    incidents,  \* incidents[i]: a row, or Absent
    places,     \* the display cells of the clusters
    query,      \* <<place, kind>>: the query the request is about to run
    buffered,   \* the rows of _filtered_incidents
    entries,    \* raw: what the first loop has found for each place so far
    pValues,    \* p_values
    shared,     \* baseline_query_cache and coverage_by_beat
    answers,    \* the places of the answer so far
    ingested,   \* incidents changed so far
    moved       \* those changed since the first query

neighborhoodVars ==
    <<incidents, places, query, buffered, entries, pValues, shared, answers, ingested, moved>>

Absent == [at |-> None, in |-> None]

Apart(c, d) == IF c >= d THEN c - d ELSE d - c
Located(row) == row # Absent /\ row.at # None

(* The cells of the buffer, and the incidents of rows that lie in it.        *)
Buffer(c) == {d \in Cell : Apart(c, d) <= Radius}
InRadius(rows, c) == {i \in DOMAIN rows : Located(rows[i]) /\ rows[i].at \in Buffer(c)}

(* assign_beat, and the areas the buffer overlaps with the assigned one.     *)
Home(kind, c) == IF c = None THEN None ELSE AreaOf[kind][c]
Region(kind, c) == {AreaOf[kind][d] : d \in Buffer(c)} \ {None}

CellsOf(kind, areas) == {d \in Cell : AreaOf[kind][d] \in areas}

(* _area_incidents: the rows a bucket of areas holds; those without          *)
(* coordinates are left out.                                                 *)
InAreas(kind, areas) ==
    {i \in Crime : Located(incidents[i]) /\ AreaOf[kind][incidents[i].in] \in areas}

(* The region without the buffer, and the area that is left of it.           *)
Rest(kind, c) ==
    {i \in InAreas(kind, Region(kind, c)) : incidents[i].at \notin Buffer(c)}
RestArea(kind, c) == Cardinality(CellsOf(kind, Region(kind, c)) \ Buffer(c))

-----------------------------------------------------------------------------
(* Verdicts.                                                                 *)

(* neighborhood_decision on the counts of a place and of the rest, for       *)
(* windows that are long enough.  A half is added when one is zero.          *)
VsBeat(place, rest, c, adjusted) ==
    LET a == IF place = 0 \/ rest = 0 THEN 2 * place + 1 ELSE 2 * place
        b == IF place = 0 \/ rest = 0 THEN 2 * rest + 1 ELSE 2 * rest
        lhs == a * RestArea("beat", c)
        rhs == b * (2 * Radius + 1)
    IN  IF place < MinPlace \/ place + rest < MinTogether THEN "insufficient_data"
        ELSE IF adjusted < Alpha /\ 4 * lhs >= 5 * rhs THEN "above_clear"
        ELSE IF adjusted < Alpha /\ 5 * lhs <= 4 * rhs THEN "below_clear"
        ELSE "not_clear"

(* Fault: the p-value is looked up by the place of the list.                 *)
OwnPValueByPlace(n) == IF n \in DOMAIN pValues THEN n ELSE Len(pValues)

(* adjusted_p_index.                                                         *)
OwnPValue(n) == entries[n].test

-----------------------------------------------------------------------------
(* The queries.                                                              *)

(* The incidents near any of the places, of which each takes its own.        *)
Buffered ==
    /\ query = <<0, "buffer">>
    /\ LET near == {i \in Crime : \E n \in DOMAIN places :
                      places[n] # None /\ i \in InRadius(incidents, places[n])}
       IN  buffered' = Restrict(incidents, near)
    /\ query' = <<1, "beat">>
    /\ UNCHANGED <<incidents, places, entries, pValues, shared, answers, ingested, moved>>

(* One turn of the first loop.  A place that has no beat, or too little      *)
(* around it, is not tested.                                                 *)
RestOfBeat ==
    LET n == query[1] c == places[n]
    IN  /\ query[2] = "beat"
        /\ IF Home("beat", c) = None \/ RestArea("beat", c) = 0 \/ Rest("beat", c) = {}
           THEN /\ entries' = Append(entries, [rest |-> {}, test |-> 0])
                /\ UNCHANGED pValues
           ELSE \E p \in TestValue :
                /\ entries' = Append(entries, [rest |-> Rest("beat", c), test |-> Len(pValues) + 1])
                /\ pValues' = Append(pValues, p)
        /\ query' = IF n < Len(places) THEN <<n + 1, "beat">> ELSE <<1, "mcpp">>
        /\ UNCHANGED <<incidents, places, buffered, shared, answers, ingested, moved>>

(* The second loop: the neighborhood of the place, ...                       *)
RestOfNeighborhood ==
    LET n == query[1] c == places[n]
    IN  /\ query[2] = "mcpp"
        /\ answers' = Append(answers,
             [place |-> IF c = None THEN {} ELSE InRadius(buffered, c),
              mcpp |-> IF Home("mcpp", c) = None \/ RestArea("mcpp", c) = 0
                       THEN {} ELSE Rest("mcpp", c),
              adjusted |-> 0, verdict |-> "baseline_unavailable"])
        /\ query' = <<n, "sector">>
        /\ UNCHANGED <<incidents, places, buffered, entries, pValues, shared, ingested, moved>>

Sector(c) == IF Home("beat", c) = None THEN None ELSE SectorOf[Home("beat", c)]

(* Fault: one entry of the cache for the sectors of all places.              *)
SharedKeyOfKind(kind, c) == <<kind, None>>

SharedKey(kind, c) ==
    CASE kind = "sector" -> <<kind, Sector(c)>>
      [] kind = "city" -> <<kind, None>>
      [] kind = "coverage" -> <<kind, Home("beat", c)>>

SharedRows(kind, c) ==
    CASE kind = "sector" -> InAreas("beat", {b \in DOMAIN SectorOf : SectorOf[b] = Sector(c)})
      [] kind = "city" -> InAreas("beat", DOMAIN SectorOf)
      [] kind = "coverage" ->
           {i \in Crime : incidents[i] # Absent /\ AreaOf["beat"][incidents[i].in] = Home("beat", c)}

(* ... its sector, the city and the coverage of its beat, each of which is   *)
(* read once in a request.                                                   *)
ReadShared(kind, needed) ==
    LET c == places[query[1]] key == SharedKey(kind, c)
    IN  /\ query[2] = kind
        /\ IF ~needed \/ key \in DOMAIN shared THEN UNCHANGED shared
           ELSE shared' = [k \in DOMAIN shared \cup {key} |->
                             IF k = key THEN SharedRows(kind, c) ELSE shared[k]]
        /\ UNCHANGED <<incidents, places, buffered, entries, pValues, ingested, moved>>

ReadSector ==
    /\ ReadShared("sector", Sector(places[query[1]]) # None)
    /\ query' = <<query[1], "city">>
    /\ UNCHANGED answers

ReadCity ==
    /\ ReadShared("city", places[query[1]] # None)
    /\ query' = <<query[1], "coverage">>
    /\ UNCHANGED answers

(* The last query of a place, and its verdict.                               *)
ReadCoverage ==
    LET n == query[1] c == places[n]
    IN  /\ ReadShared("coverage", Home("beat", c) # None)
        /\ IF entries[n].test = 0
           THEN answers' = [answers EXCEPT ![n].verdict =
                              IF Home("beat", c) = None THEN @ ELSE "insufficient_data"]
           ELSE LET adjusted == Adjusted(pValues, OwnPValue(n))
                IN  answers' = [answers EXCEPT
                      ![n].adjusted = adjusted,
                      ![n].verdict = VsBeat(Cardinality(answers[n].place), Cardinality(entries[n].rest),
                                            c, adjusted)]
        /\ query' = IF n < Len(places) THEN <<n + 1, "mcpp">> ELSE <<0, "done">>

(* A batch of ingestion commits: an incident is added, moved or removed.     *)
IngestionCommits(i) ==
    /\ ingested < MaxIngested /\ query[2] \notin {"buffer", "done"}
    /\ \E row \in Recorded \cup {Absent} :
         row # incidents[i] /\ incidents' = [incidents EXCEPT ![i] = row]
    /\ ingested' = ingested + 1
    /\ moved' = moved \cup {i}
    /\ UNCHANGED <<places, query, buffered, entries, pValues, shared, answers>>

NeighborhoodInit ==
    /\ incidents \in [Crime -> Recorded \cup {Absent}]
    /\ places \in Selections
    /\ query = <<0, "buffer">>
    /\ buffered = [i \in {} |-> Absent]
    /\ entries = <<>> /\ pValues = <<>> /\ answers = <<>>
    /\ shared = [k \in {} |-> {}]
    /\ ingested = 0 /\ moved = {}

NeighborhoodNext ==
    \/ Buffered
    \/ RestOfBeat
    \/ RestOfNeighborhood
    \/ ReadSector
    \/ ReadCity
    \/ ReadCoverage
    \/ \E i \in Crime : IngestionCommits(i)

NeighborhoodSpec == NeighborhoodInit /\ [][NeighborhoodNext]_neighborhoodVars

-----------------------------------------------------------------------------
(* Properties.                                                               *)

(* Though its numbers come from six queries, an answer counts an incident    *)
(* that ingestion left alone where it belongs: an incident of the regions of *)
(* a place is counted for the place or for the rest and never for both, and  *)
(* once in the sector and the city, also when another place of the request   *)
(* had them read; one of another sector is not counted for it.               *)
CountedWhereItBelongs ==
    query[2] = "done" =>
      \A n \in DOMAIN places, i \in Crime \ moved :
        LET c == places[n] row == incidents[i] answer == answers[n]
            of(kind, areas) == Located(row) /\ AreaOf[kind][row.in] \in areas
        IN  Home("beat", c) # None =>
              /\ entries[n].test # 0 /\ of("beat", Region("beat", c)) =>
                   (i \in answer.place) # (i \in entries[n].rest)
              /\ answer.mcpp # {} /\ of("mcpp", Region("mcpp", c)) =>
                   (i \in answer.place) # (i \in answer.mcpp)
              /\ Sector(c) # None =>
                   (i \in shared[SharedKey("sector", c)]
                      <=> of("beat", {b \in DOMAIN SectorOf : SectorOf[b] = Sector(c)}))
              /\ of("beat", {Home("beat", c)}) =>
                   i \in shared[SharedKey("city", c)] \cap shared[SharedKey("coverage", c)]

(* The verdict of a place rests on its own test, corrected for the others    *)
(* that were run: places that could not be tested neither shift nor weaken   *)
(* it, and none is called clear whose own test is not.                       *)
VerdictIsItsOwn ==
    query[2] = "done" =>
      \A n \in DOMAIN places :
        LET tested == {m \in DOMAIN places : entries[m].test # 0}
            own == Cardinality({m \in tested : m <= n})
        IN  IF n \in tested
            THEN /\ answers[n].adjusted = Adjusted(pValues, own)
                 /\ answers[n].verdict \in {"above_clear", "below_clear"} =>
                      pValues[own] < Alpha /\ answers[n].place # {}
            ELSE answers[n].verdict \in {"baseline_unavailable", "insufficient_data"}

(* Both of the above: what is shared between the places of a request mixes   *)
(* up neither their counts nor their verdicts.                               *)
BaselinesHold == CountedWhereItBelongs /\ VerdictIsItsOwn
=============================================================================
