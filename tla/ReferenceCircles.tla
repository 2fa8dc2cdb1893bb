-------------------------- MODULE ReferenceCircles --------------------------
(***************************************************************************)
(* Reference circles (app/analysis/reference_circles.py): the count of a    *)
(* place's circle against those of circles of the same radius around the    *)
(* street segments of its neighborhoods (mcpp), of its sectors or of the    *)
(* city, every geography weighted by its part of the place's circle.  Small *)
(* frames are taken whole, large ones by a seeded draw.                     *)
(*                                                                          *)
(* The map is a line of cells, the samples of a circle are its cells, and   *)
(* weights are whole numbers.  The asset that lists the street segments of  *)
(* each geography is taken to agree with the polygons.                      *)
(***************************************************************************)
EXTENDS Ranking, Totals, FiniteSetsExt, Functions, Sequences

CONSTANTS
    Block,        \* cells
    Street,       \* the cells that hold the midpoint of a street segment
    Zone,         \* Zone[kind]: the polygons of "mcpp" and "sector", sets of cells;
                  \* a sector is the union of the beats that bear its letter
    NoSector,     \* the cells of the beats without a sector letter (99)
    Span,         \* radius_m, in cells
    Happening,    \* the incidents that may pass the filters: functions on Block
    MinCenters,   \* MIN_REFERENCE_CENTERS
    MaxExact,     \* MAX_EXACT_MEMBERSHIPS
    Draws,        \* MONTE_CARLO_DRAWS
    Whole,        \* a number all sizes of exact components divide
    MaxRequests   \* bound on the requests about the place

ASSUME ReferenceAssumption ==
    /\ IsFiniteSet(Block) /\ Block \subseteq Int /\ IsFiniteSet(Street) /\ Street \subseteq Int
    /\ Zone \in [{"mcpp", "sector"} -> Seq(SUBSET Int)]
    /\ \A y, z \in DOMAIN Zone["sector"] :
         y # z => Zone["sector"][y] \cap Zone["sector"][z] = {}
    /\ NoSector \cap UNION Range(Zone["sector"]) = {}
    /\ Span \in Nat /\ Happening \subseteq [Block -> Nat]
    /\ MaxExact \in Nat /\ Draws \in Nat \ {0} /\ Whole \in Nat \ {0}
    /\ \A n \in 1 .. MaxExact : n * (Whole \div n) = Whole

VARIABLES
    subject,   \* the place and the kind of reference: [kind, at]
    happened,  \* the incidents of the request's filters
    generator, \* what a seed yields: random.Random is a function of it
    answer,    \* the last distribution, or NoAnswer
    earlier,   \* what the requests before drew
    requests   \* requests answered

referenceVars == <<subject, happened, generator, answer, earlier, requests>>

NoAnswer == [status |-> "none"]
Kind == {"mcpp", "sector", "city"}

Samples == subject.at - Span .. subject.at + Span
Around(c) == SumOver(happened, Block \cap c - Span .. c + Span)

ReferenceInit ==
    /\ subject \in [kind : Kind, at : Block]
    /\ happened \in Happening
    /\ generator = [s \in {} |-> {}]
    /\ answer = NoAnswer
    /\ earlier = {}
    /\ requests = 0

-----------------------------------------------------------------------------
(* The geographies.                                                          *)

(* The polygons of the kind; the city is one that holds everything.          *)
Polygon == IF subject.kind = "city" THEN <<Block \cup Samples>> ELSE Zone[subject.kind]

(* polygon_overlap_profile: the samples in each polygon, and in any, those   *)
(* of the beats without a sector letter included.                            *)
Overlap(z) == Cardinality(Samples \cap Polygon[z])
Reached == (UNION Range(Polygon)) \cup {c \in NoSector : subject.kind = "sector"}
Covered == Cardinality(Samples \cap Reached)

(* _mcpp_components and _sector_components, with the centers of the frame.   *)
(* Beats without a sector letter are in no component; the parts of the       *)
(* others are taken as the whole.                                            *)
Component == {z \in DOMAIN Polygon : Overlap(z) > 0}
CentersOf(z) == Street \cap Polygon[z]
OverlapOf(zs) == SumOver([z \in zs |-> Overlap(z)], zs)

(* Those without a street segment are dropped, unless all are.               *)
Supported == {z \in Component : CentersOf(z) # {}}
Represented == IF Supported = {} THEN Component ELSE Supported

(* The coverage is below MIN_POLYGON_COVERAGE: the samples in any polygon,   *)
(* less the share of the components dropped for want of street segments; a   *)
(* beat without a sector letter is no component, and counts as covered.      *)
Uncovered ==
    5 * Covered * OverlapOf(Represented) < 4 * Cardinality(Samples) * OverlapOf(Component)

(* adequacy_status.                                                          *)
Adequacy ==
    IF Component = {} THEN "no_reference_geography"
    ELSE IF Supported = {} THEN "missing_reference_centers"
    ELSE IF Cardinality(UNION {CentersOf(z) : z \in Represented}) < MinCenters
    THEN "insufficient_reference_centers"
    ELSE IF subject.kind # "city" /\ Uncovered THEN "insufficient_polygon_coverage"
    ELSE "met"

-----------------------------------------------------------------------------
(* The centers and their weights.                                            *)

Membership == {m \in Represented \X Street : m[2] \in CentersOf(m[1])}
InZone(z) == {m \in Membership : m[1] = z}
Exact == Cardinality(Membership) <= MaxExact

(* A component's weight, shared by its centers.                              *)
ExactWeight ==
    [m \in Membership |-> Overlap(m[1]) * (Whole \div Cardinality(CentersOf(m[1])))]

(* _draw_allocations: whole shares, and the draws left over to the largest   *)
(* remainders, ties by name.  A fault: those are lost.                       *)
Share(z) == (Overlap(z) * Draws) \div OverlapOf(Represented)
Remainder(z) == (Overlap(z) * Draws) % OverlapOf(Represented)
LeftOver == Draws - SumOver([z \in Represented |-> Share(z)], Represented)
Precedes(y, z) ==
    \/ Remainder(y) > Remainder(z)
    \/ Remainder(y) = Remainder(z) /\ y < z
ByRemainder ==
    Ranked(Represented, {p \in Represented \X Represented : Precedes(p[1], p[2])})
AllocationFloored(z) == Share(z)
Allocation(z) == Share(z) + IF \E n \in 1 .. LeftOver : ByRemainder[n] = z THEN 1 ELSE 0

(* What the draws may be: how often each center of a component is drawn.     *)
Drawn ==
    {w \in [Membership -> 0 .. Draws] :
        \A z \in Represented :
            SumOver(w, InZone(z)) = Allocation(z)}

(* _seed: filters and dates are deliberately absent.                         *)
SeedOf == subject

-----------------------------------------------------------------------------
(* The distribution.                                                         *)

Weight(w, ms) == SumOver(w, ms)

Fewer(count, l, m) ==
    \/ count[l] < count[m]
    \/ count[l] = count[m] /\ l[1] < m[1]
    \/ count[l] = count[m] /\ l[1] = m[1] /\ l[2] < m[2]

(* weighted_quantile, num in den, over the centers with a weight.            *)
Weighing(w) == {m \in DOMAIN w : w[m] > 0}
ByCount(w, count) ==
    Ranked(Weighing(w), {p \in Weighing(w) \X Weighing(w) : Fewer(count, p[1], p[2])})
Quantile(w, count, num, den) ==
    LET ordered == ByCount(w, count)
        reached == {n \in 1 .. Len(ordered) :
                      den * Weight(w, {ordered[k] : k \in 1 .. n}) >= num * Weight(w, DOMAIN w)}
    IN  count[ordered[Min(reached)]]

(* build_reference_distribution and summarize_reference_counts.              *)
Distribution(w) ==
    LET count == [m \in DOMAIN w |-> Around(m[2])]
        target == Around(subject.at)
    IN  [status |-> "met", weight |-> w, count |-> count, target |-> target,
         exact |-> Exact,
         below |-> Weight(w, {m \in DOMAIN w : count[m] < target}),
         equal |-> Weight(w, {m \in DOMAIN w : count[m] = target}),
         above |-> Weight(w, {m \in DOMAIN w : count[m] > target}),
         quantile |-> [d \in {10, 25, 50, 75, 90} |-> Quantile(w, count, d, 100)]]

(* reference_distributions_for_place.                                        *)
CompareCircle ==
    /\ answer = NoAnswer
    /\ \/ /\ Adequacy # "met"
          /\ answer' = [status |-> Adequacy]
          /\ UNCHANGED generator
       \/ /\ Adequacy = "met" /\ Exact
          /\ answer' = Distribution(ExactWeight)
          /\ UNCHANGED generator
       \/ /\ Adequacy = "met" /\ ~Exact
          /\ \E w \in IF SeedOf \in DOMAIN generator THEN {generator[SeedOf]} ELSE Drawn :
               /\ answer' = Distribution(w)
               /\ generator' = [s \in DOMAIN generator \cup {SeedOf} |->
                                  IF s = SeedOf THEN w ELSE generator[s]]
    /\ requests' = requests + 1
    /\ UNCHANGED <<subject, happened, earlier>>

(* The place is asked about again, for other incidents.                      *)
AskAgain ==
    /\ answer # NoAnswer /\ requests < MaxRequests
    /\ \E h \in Happening : happened' = h
    /\ answer' = NoAnswer
    /\ earlier' = IF answer.status = "met" THEN earlier \cup {answer.weight} ELSE earlier
    /\ UNCHANGED <<subject, generator, requests>>

ReferenceNext == CompareCircle \/ AskAgain

ReferenceSpec == ReferenceInit /\ [][ReferenceNext]_referenceVars

-----------------------------------------------------------------------------
(* Every geography weighs what its part of the circle is: exactly when its   *)
(* centers are taken whole, and to within one draw otherwise, with no draw   *)
(* lost.                                                                     *)
WeightsFollowAreas ==
    LET w == answer.weight
        zones == {m[1] : m \in DOMAIN w}
        weighs(z) == Weight(w, {m \in DOMAIN w : m[1] = z})
        area == OverlapOf(zones)
        exactly(z) == Overlap(z) * Weight(w, DOMAIN w) - area * weighs(z)
    IN  IF answer.exact THEN \A z \in zones : exactly(z) = 0
        ELSE /\ Weight(w, DOMAIN w) = Draws
             /\ \A z \in zones : exactly(z) \in -area .. area

(* A quantile leaves no more than its part of the weight below it and no     *)
(* more than the rest above it.                                              *)
QuantilesSplit ==
    LET w == answer.weight
        count == answer.count
    IN  \A d \in DOMAIN answer.quantile :
          /\ 100 * Weight(w, {m \in DOMAIN w : count[m] < answer.quantile[d]})
               <= d * Weight(w, DOMAIN w)
          /\ 100 * Weight(w, {m \in DOMAIN w : count[m] > answer.quantile[d]})
               <= (100 - d) * Weight(w, DOMAIN w)

(* A distribution is given only when it is drawn from sectors that hold four *)
(* fifths of what the circle has in sectors, and those and the beats without *)
(* a sector letter hold four fifths of the circle.  The sectors alone may    *)
(* hold less: what is lost by such beats reduces no coverage.  (Polygons of  *)
(* a kind that overlap are counted once each, so that this is about sectors.) *)
MostlyRepresented ==
    LET CoveredBy(zs) == Cardinality(Samples \cap UNION {Polygon[z] : z \in zs})
        drawn == CoveredBy({m[1] : m \in DOMAIN answer.weight})
    IN  subject.kind = "sector" =>
            /\ 5 * (drawn + Cardinality(Samples \cap NoSector)) >= 4 * Cardinality(Samples)
            /\ 5 * drawn >= 4 * CoveredBy(DOMAIN Polygon)

(* A reference distribution is a weighted sample of the place's own          *)
(* geographies, of the same centers whatever incidents are asked about.      *)
ReferenceIsWeighted ==
    answer.status = "met" =>
        /\ WeightsFollowAreas /\ QuantilesSplit /\ MostlyRepresented
        /\ answer.below + answer.equal + answer.above
             = Weight(answer.weight, DOMAIN answer.weight)
        /\ earlier \subseteq {answer.weight}
=============================================================================
