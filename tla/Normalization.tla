--------------------------- MODULE Normalization ---------------------------
(***************************************************************************)
(* The algorithms of normalize_import: stops from a stream of points        *)
(* (app/normalization/stops.py) and recurring places from stops             *)
(* (app/normalization/clusters.py).  Places lie on a line, and haversine_m  *)
(* is the distance between them.                                            *)
(***************************************************************************)
EXTENDS Ranking, Sequences, SequencesExt, FiniteSetsExt

CONSTANTS
    Fix,          \* rows of an import: [at, pos]
    MaxFixes,
    StopRadius,   \* stop_radius_m
    MinStay,      \* minimum_stop_duration_minutes
    TopSpeed,     \* 120 m/s
    Visit,        \* stops: [pos, dwell]
    MaxVisits,
    PlaceRadius,  \* cluster_radius_m
    MinVisits,    \* minimum_cluster_visits
    MinDwell      \* minimum_cluster_total_dwell_minutes

ASSUME NormalizationAssumption ==
    /\ MaxFixes \in Nat /\ StopRadius \in Nat /\ MinStay \in Nat /\ TopSpeed \in Nat
    /\ MaxVisits \in Nat /\ PlaceRadius \in Nat
    /\ \A f \in Fix : f.at \in Int /\ f.pos \in Int
    /\ \A v \in Visit : v.pos \in Int

VARIABLES
    fixes,     \* the rows of an import in the order the database returns them
    hashed,    \* whether they carry a source_record_hash, unique in an import
    visits     \* the stops of an import

normalizationVars == <<fixes, hashed, visits>>

Distance(x, y) == IF x >= y THEN x - y ELSE y - x

-----------------------------------------------------------------------------
(* Stops.                                                                    *)

(* list.sort is stable.                                                      *)
Earlier(rows, i, j) ==
    \/ rows[i].at < rows[j].at
    \/ rows[i].at = rows[j].at /\ i < j

ByTime(rows) ==
    LET pairs == (DOMAIN rows) \X (DOMAIN rows)
        order == Ranked(DOMAIN rows, {p \in pairs : Earlier(rows, p[1], p[2])})
    IN  [i \in 1 .. Len(rows) |-> rows[order[i]]]

TooFast(a, b) ==
    b.at > a.at /\ Distance(a.pos, b.pos) > TopSpeed * (b.at - a.at)

(* _dedupe_and_filter_points: a row is dropped if it repeats another or is   *)
(* out of reach of the last one kept.                                        *)
Keep(sorted, kept, i) ==
    LET repeated == ~hashed /\ \E j \in 1 .. i - 1 : sorted[j] = sorted[i]
    IN  IF repeated \/ (kept # <<>> /\ TooFast(Last(kept), sorted[i]))
        THEN kept ELSE Append(kept, sorted[i])

Filtered(rows) ==
    LET kept[n \in 0 .. Len(rows)] ==
          IF n = 0 THEN <<>> ELSE Keep(ByTime(rows), kept[n - 1], n)
    IN  kept[Len(rows)]

(* The run of points from i on that stay around i.                           *)
RunEnd(points, i) ==
    Max({j \in i .. Len(points) :
           \A k \in i .. j : Distance(points[i].pos, points[k].pos) <= StopRadius})

Stay(points, i, j) == j > i /\ points[j].at - points[i].at >= MinStay

(* Fault: a run that was too short is skipped as a whole.                    *)
NextAnchorPastRun(points, i) == RunEnd(points, i) + 1

(* Where the search goes on: past a stop, or at the next point.              *)
NextAnchor(points, i) ==
    IF Stay(points, i, RunEnd(points, i)) THEN RunEnd(points, i) + 1 ELSE i + 1

(* detect_stops_from_observations: the stops, as intervals of points.  The   *)
(* loop ends when its anchor is past the points, in as many rounds at most.  *)
ScanOn(points, scan) ==
    LET i == scan.anchor
        j == RunEnd(points, i)
    IN  IF i > Len(points) THEN scan
        ELSE [anchor |-> NextAnchor(points, i),
              stops |-> IF Stay(points, i, j)
                        THEN Append(scan.stops, [first |-> i, last |-> j]) ELSE scan.stops]

Stops(points) ==
    LET round[n \in 0 .. Len(points)] ==
          IF n = 0 THEN [anchor |-> 1, stops |-> <<>>] ELSE ScanOn(points, round[n - 1])
    IN  round[Len(points)].stops

-----------------------------------------------------------------------------
(* Places.                                                                   *)

(* Fault: a stop that has its place is counted again.                        *)
MembersTwice(seed, unassigned) ==
    {i \in DOMAIN visits : Distance(visits[seed].pos, visits[i].pos) <= PlaceRadius}

Members(seed, unassigned) ==
    {i \in unassigned : Distance(visits[seed].pos, visits[i].pos) <= PlaceRadius}

Recurring(group) ==
    \/ Cardinality(group) >= MinVisits
    \/ MapThenSumSet(LAMBDA i : visits[i].dwell, group) >= MinDwell

(* cluster_stop_visits: the groups that become places.  Each round assigns   *)
(* the first stop that is left, and those around it.                         *)
Assign(sort) ==
    LET group == Members(Min(sort.unassigned), sort.unassigned)
    IN  IF sort.unassigned = {} THEN sort
        ELSE [unassigned |-> sort.unassigned \ group,
              places |-> IF Recurring(group) THEN Append(sort.places, group) ELSE sort.places]

Places ==
    LET round[n \in 0 .. Len(visits)] ==
          IF n = 0 THEN [unassigned |-> DOMAIN visits, places |-> <<>>]
          ELSE Assign(round[n - 1])
    IN  round[Len(visits)].places

NormalizationInit ==
    /\ fixes \in UNION {[1 .. n -> Fix] : n \in 0 .. MaxFixes}
    /\ hashed \in BOOLEAN
    /\ visits \in UNION {[1 .. n -> Visit] : n \in 0 .. MaxVisits}

-----------------------------------------------------------------------------
(* Properties.                                                               *)

(* Whatever the order of the rows, the stops found are stays, one after the  *)
(* other, and no stay is missed: wherever somebody stayed around a point for *)
(* long enough, a stop covers a part of that time.                           *)
StaysFound ==
    LET points == Filtered(fixes)
        stops == Stops(points)
        around(i, j) == j <= RunEnd(points, i) /\ Stay(points, i, j)
    IN  /\ \A s \in DOMAIN stops : around(stops[s].first, stops[s].last)
        /\ \A s \in 1 .. Len(stops) - 1 :
             /\ stops[s].last < stops[s + 1].first
             /\ points[stops[s].last].at <= points[stops[s + 1].first].at
        /\ \A i \in DOMAIN points : \A j \in i .. Len(points) :
             around(i, j) =>
               \E s \in DOMAIN stops : stops[s].first <= j /\ i <= stops[s].last

(* The seeds: the stops that lie in reach of no earlier seed.                *)
Seeds ==
    LET found[n \in 0 .. Len(visits)] ==
          IF n = 0 THEN {}
          ELSE found[n - 1] \cup
                 {v \in {n} : \A u \in found[n - 1] :
                                ~(Distance(visits[u].pos, visits[v].pos) <= PlaceRadius)}
    IN  found[Len(visits)]

(* The loop computes what it is meant to: each stop belongs to the first     *)
(* seed in reach, places share no stop, and a stop is left without a place   *)
(* only if its whole group is too thin.                                      *)
PlacesAreGroups ==
    LET inReach(v) == {u \in Seeds : /\ u <= v
                                     /\ Distance(visits[u].pos, visits[v].pos) <= PlaceRadius}
        group(u) == {v \in DOMAIN visits : Min(inReach(v)) = u}
    IN  /\ ToSet(Places) = {group(u) : u \in {w \in Seeds : Recurring(group(w))}}
        /\ \A p, q \in DOMAIN Places : p # q => Places[p] \cap Places[q] = {}

(* Both of the above: from the rows of an import to its places, no stay is   *)
(* lost and no visit is counted twice.                                       *)
StaysAndPlaces == StaysFound /\ PlacesAreGroups
=============================================================================
