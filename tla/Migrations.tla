----------------------------- MODULE Migrations -----------------------------
(***************************************************************************)
(* The Alembic migrations (alembic/versions) of the production database: a  *)
(* release upgrades to its head when its container starts, an operator may  *)
(* downgrade, and the release of each version writes rows in between.       *)
(* env.py runs all the steps of a command in one transaction.               *)
(*                                                                          *)
(* A table is the set of its parts: the columns added to it later, those    *)
(* that refer to another table, indexes and constraints.  The columns it is *)
(* created with go with it and are left out.                                *)
(***************************************************************************)
EXTENDS Integers, Sequences, FiniteSets, SequencesExt

CONSTANTS
    Dataset,     \* source_dataset
    ExternalId,  \* external_incident_id
    MaxRows      \* bound on the incidents stored

VARIABLES
    version,      \* the number of migrations in alembic_version
    schema,       \* schema[t]: the parts of table t
    comparisons,  \* the kinds of comparisons that have rows, here ...
    children,     \* ... and in the two tables that refer to them
    stored        \* the keys of crime_incidents

migrationsVars == <<version, schema, comparisons, children, stored>>

-----------------------------------------------------------------------------
(* Operations.                                                               *)

Part(name) == [name |-> name, to |-> "none"]
Reference(name, table) == [name |-> name, to |-> table]

Create(t, parts) == [op |-> "create", table |-> t, parts |-> parts]
Drop(t) == [op |-> "drop", table |-> t, parts |-> {}]
Give(t, parts) == [op |-> "add", table |-> t, parts |-> parts]
Take(t, names) == [op |-> "remove", table |-> t, parts |-> {Part(n) : n \in names}]
DeleteRouted(t) == [op |-> "delete", table |-> t, parts |-> {}]
Round(t) == [op |-> "round", table |-> t, parts |-> {}]

Owner == Part("ix_user_id_hash")

-----------------------------------------------------------------------------
(* upgrade and downgrade of each version.                                    *)

InitialSchema ==
    <<Create("import_batches", {Owner}), Create("place_clusters", {Owner}),
      Create("crime_incidents", {Part("external_incident_id_key")}),
      Create("staging_location_observations",
             {Reference("import_id", "import_batches"), Owner,
              Part("ix_import_id"), Part("uq_staging_hash")}),
      Create("stop_visits",
             {Reference("import_id", "import_batches"), Reference("place_cluster_id", "place_clusters"),
              Owner, Part("ix_import_id"), Part("ix_place_cluster_id")}),
      Create("place_crime_summaries",
             {Reference("place_cluster_id", "place_clusters"), Owner, Part("ix_place_cluster_id")})>>
DropInitialSchema ==
    <<Drop("place_crime_summaries"), Drop("stop_visits"), Drop("staging_location_observations"),
      Drop("crime_incidents"), Drop("place_clusters"), Drop("import_batches")>>

RouteTables(requestParts) ==
    <<Create("route_requests", {Owner} \cup requestParts),
      Create("route_alternatives",
             {Reference("route_request_id", "route_requests"), Owner, Part("ix_route_request_id")}),
      Create("route_segments",
             {Reference("route_alternative_id", "route_alternatives"), Owner,
              Part("ix_route_alternative_id")}),
      Create("route_context_summaries",
             {Reference("route_alternative_id", "route_alternatives"),
              Reference("route_segment_id", "route_segments"), Owner,
              Part("ix_route_alternative_id"), Part("ix_route_segment_id")})>>
DropRouteTables ==
    <<Drop("route_context_summaries"), Drop("route_segments"), Drop("route_alternatives"),
      Drop("route_requests")>>

RouteAlternatives == RouteTables({})

RouteOfComparison ==
    {Reference("source_route_request_id", "route_requests"), Part("ix_source_route_request_id")}

StatisticalComparisons ==
    <<Create("statistical_comparisons", {Owner} \cup RouteOfComparison),
      Create("statistical_comparison_options",
             {Reference("comparison_id", "statistical_comparisons"), Owner, Part("ix_comparison_id")}),
      Create("statistical_pairwise_results",
             {Reference("comparison_id", "statistical_comparisons"), Owner, Part("ix_comparison_id")})>>
DropStatisticalComparisons ==
    <<Drop("statistical_pairwise_results"), Drop("statistical_comparison_options"),
      Drop("statistical_comparisons")>>

OptionGeometry ==
    Give("statistical_comparison_options", {Part("geometry_metadata_json")})

CrimeFilterIndexes ==
    Give("crime_incidents",
        {Part("ix_offense_start_utc"), Part("ix_report_utc"), Part("ix_offense_category"),
         Part("ix_offense_subcategory"), Part("ix_nibrs_group"), Part("ix_latitude"),
         Part("ix_longitude")})

AnalysisRuns ==
    <<Create("analysis_runs", {Owner, Part("ix_created_at")}),
      Give("place_crime_summaries", {Part("analysis_run_id"), Part("ix_analysis_run_id")})>>
DropAnalysisRuns ==
    <<Take("place_crime_summaries", {"ix_analysis_run_id", "analysis_run_id"}),
      Take("analysis_runs", {"ix_created_at", "ix_user_id_hash"}), Drop("analysis_runs")>>

GeocodeCache == Create("geocode_cache", {Part("uq_geocode_cache_provider_query")})

CrimeSourceUnique ==
    <<Give("crime_incidents", {Part("ix_source_dataset")}),
      Give("crime_incidents", {Part("uq_crime_source_external_id")}),
      Take("crime_incidents", {"external_incident_id_key"})>>
CrimeUniqueAcrossSources ==
    <<Give("crime_incidents", {Part("external_incident_id_key")}),
      Take("crime_incidents", {"uq_crime_source_external_id"}),
      Take("crime_incidents", {"ix_source_dataset"})>>

SummaryLayer ==
    <<Give("analysis_runs", {Part("layer")}), Give("place_crime_summaries", {Part("layer")})>>
DropSummaryLayer ==
    <<Take("place_crime_summaries", {"layer"}), Take("analysis_runs", {"layer"})>>

RouteLayer == Give("route_requests", {Part("layer")})

(* Fault: the parents are deleted before their children.                     *)
NoRouteTablesParentsFirst ==
    <<DeleteRouted("statistical_comparisons"),
      DeleteRouted("statistical_comparison_options"), DeleteRouted("statistical_pairwise_results"),
      Take("statistical_comparisons", {"ix_source_route_request_id"}),
      Take("statistical_comparisons", {"source_route_request_id"})>> \o DropRouteTables

(* Comparisons of routes go, children first, and with them the tables.       *)
NoRouteTables ==
    <<DeleteRouted("statistical_comparison_options"), DeleteRouted("statistical_pairwise_results"),
      DeleteRouted("statistical_comparisons"),
      Take("statistical_comparisons", {"ix_source_route_request_id"}),
      Take("statistical_comparisons", {"source_route_request_id"})>> \o DropRouteTables

(* The tables come back as 0002 and 0010 made them together.                 *)
RouteTablesBack ==
    RouteTables({Part("layer")}) \o <<Give("statistical_comparisons", RouteOfComparison)>>

RateIntervals ==
    {Part("rate_ci_lower"), Part("rate_ci_upper"), Part("rate_ci_method")}
OptionRateIntervals == Give("statistical_comparison_options", RateIntervals)

Swept == <<"place_clusters", "place_crime_summaries", "statistical_comparisons", "geocode_cache">>
RetentionIndexes == [n \in DOMAIN Swept |-> Give(Swept[n], {Part("ix_created_at")})]
DropRetentionIndexes == [n \in DOMAIN Swept |-> Take(Swept[5 - n], {"ix_created_at"})]

SessionActivity ==
    <<Create("session_activity", {Part("ix_last_seen_at")}),
      Give("place_clusters", {Part("ix_updated_at")})>>
DropSessionActivity ==
    <<Take("place_clusters", {"ix_updated_at"}), Take("session_activity", {"ix_last_seen_at"}),
      Drop("session_activity")>>

AnalysisRunPlaces == Give("analysis_runs", {Part("place_ids_json")})

ReportSnapshots == Create("analysis_report_snapshots", {Owner, Part("ix_created_at")})
DropReportSnapshots ==
    <<Take("analysis_report_snapshots", {"ix_created_at", "ix_user_id_hash"}),
      Drop("analysis_report_snapshots")>>

(* Places shown again to three decimals, rounded by the database.            *)
RoundedCoordinates == Round("place_clusters")

Undo(add) == Take(add.table, {part.name : part \in add.parts})

(* 0011 and the upgrade of 0017 change values only: the category of arrests,  *)
(* the displayed coordinates of places.                                      *)
Upgrade ==
    <<InitialSchema, RouteAlternatives, StatisticalComparisons, <<OptionGeometry>>,
      <<CrimeFilterIndexes>>, AnalysisRuns, <<GeocodeCache>>, CrimeSourceUnique, SummaryLayer,
      <<RouteLayer>>, <<>>, NoRouteTables, <<OptionRateIntervals>>, RetentionIndexes,
      SessionActivity, <<AnalysisRunPlaces>>, <<>>, <<ReportSnapshots>>>>
Downgrade ==
    <<DropInitialSchema, DropRouteTables, DropStatisticalComparisons, <<Undo(OptionGeometry)>>,
      <<Undo(CrimeFilterIndexes)>>, DropAnalysisRuns, <<Drop("geocode_cache")>>,
      CrimeUniqueAcrossSources, DropSummaryLayer, <<Undo(RouteLayer)>>, <<>>, RouteTablesBack,
      <<Undo(OptionRateIntervals)>>, DropRetentionIndexes, DropSessionActivity,
      <<Undo(AnalysisRunPlaces)>>, <<RoundedCoordinates>>, DropReportSnapshots>>

-----------------------------------------------------------------------------
(* Running a command.                                                        *)

Names(parts) == {part.name : part \in parts}
Has(db, t, name) == t \in DOMAIN db.schema /\ name \in Names(db.schema[t])

(* What PostgreSQL refuses.  It has no round(double precision, integer), and  *)
(* the coordinates are Float: that statement fails on any rows.              *)
Rejected(db, do) ==
    CASE do.op = "create" -> do.table \in DOMAIN db.schema
      [] do.op = "drop" ->
           \/ do.table \notin DOMAIN db.schema
           \/ \E t \in DOMAIN db.schema \ {do.table} : \E part \in db.schema[t] : part.to = do.table
      [] do.op = "add" ->
           \/ do.table \notin DOMAIN db.schema
           \/ \E part \in do.parts : part.to \notin DOMAIN db.schema \cup {"none"}
           \/ \E name \in Names(do.parts) : Has(db, do.table, name)
           \/ /\ "external_incident_id_key" \in Names(do.parts)
              /\ \E a, b \in db.stored : a # b /\ a.external = b.external
      [] do.op = "remove" -> \E name \in Names(do.parts) : ~Has(db, do.table, name)
      [] do.op = "delete" ->
           \/ ~Has(db, "statistical_comparisons", "source_route_request_id")
           \/ do.table = "statistical_comparisons" /\ "routed" \in db.comparisons \cap db.children
      [] do.op = "round" -> TRUE

Without(f, t) == [x \in DOMAIN f \ {t} |-> f[x]]

(* The database after one operation.  A table takes its rows with it.        *)
Apply(db, do) ==
    CASE do.op = "create" ->
           [db EXCEPT !.schema = [t \in DOMAIN @ \cup {do.table} |->
                                    IF t = do.table THEN do.parts ELSE @[t]]]
      [] do.op = "drop" ->
           [db EXCEPT !.schema = Without(@, do.table),
                      !.comparisons = IF do.table = "statistical_comparisons" THEN {} ELSE @,
                      !.children = IF do.table = "statistical_comparison_options" THEN {} ELSE @,
                      !.stored = IF do.table = "crime_incidents" THEN {} ELSE @]
      [] do.op = "add" -> [db EXCEPT !.schema[do.table] = @ \cup do.parts]
      [] do.op = "remove" ->
           [db EXCEPT !.schema[do.table] = {part \in @ : part.name \notin Names(do.parts)}]
      [] do.op = "delete" ->
           IF do.table = "statistical_comparisons"
           THEN [db EXCEPT !.comparisons = @ \ {"routed"}]
           ELSE [db EXCEPT !.children = @ \ {"routed"}]

Failed == [failed |-> TRUE]

(* The operations one after the other, all or none.                          *)
RunAll(db, ops) ==
    FoldLeft(LAMBDA at, do : IF at.failed THEN at ELSE IF Rejected(at, do) THEN Failed ELSE Apply(at, do),
             db, ops)

(* What alembic upgrade or alembic downgrade to version v does to db.        *)
MigratedTo(v, from, db) ==
    RunAll(db, IF v >= from THEN FlattenSeq(SubSeq(Upgrade, from + 1, v))
               ELSE FlattenSeq([n \in 1 .. from - v |-> Downgrade[from + 1 - n]]))

Empty == [failed |-> FALSE, schema |-> [t \in {} |-> {}], comparisons |-> {}, children |-> {},
            stored |-> {}]
Database == [failed |-> FALSE, schema |-> schema, comparisons |-> comparisons,
             children |-> children, stored |-> stored]

(* alembic upgrade or downgrade; a command that fails changes nothing.       *)
Migrate(v) ==
    LET db == MigratedTo(v, version, Database)
    IN  /\ ~db.failed
        /\ version' = v /\ schema' = db.schema /\ comparisons' = db.comparisons
        /\ children' = db.children /\ stored' = db.stored

-----------------------------------------------------------------------------
(* Releases at work.                                                         *)

(* The release of a version with routes compares them as well as places.     *)
Compare(kind) ==
    /\ "statistical_comparisons" \in DOMAIN schema
    /\ kind = "routed" => Has(Database, "statistical_comparisons", "source_route_request_id")
    /\ comparisons' = comparisons \cup {kind} /\ children' = children \cup {kind}
    /\ UNCHANGED <<version, schema, stored>>

(* Ingestion inserts what no unique constraint rejects.                      *)
StoreReport(report) ==
    /\ Cardinality(stored) < MaxRows
    /\ "crime_incidents" \in DOMAIN schema
    /\ Has(Database, "crime_incidents", "external_incident_id_key") =>
         \A other \in stored : other.external # report.external
    /\ stored' = stored \cup {report}
    /\ UNCHANGED <<version, schema, comparisons, children>>

MigrationsInit ==
    /\ version = 0 /\ schema = Empty.schema
    /\ comparisons = {} /\ children = {} /\ stored = {}

MigrationsNext ==
    \/ \E v \in DOMAIN Upgrade \cup {0} : v # version /\ Migrate(v)
    \/ \E kind \in {"place", "routed"} : Compare(kind)
    \/ \E report \in [source : Dataset, external : ExternalId] : StoreReport(report)

-----------------------------------------------------------------------------
(* Properties.                                                               *)

(* Whatever way a database came to a version, by upgrades and downgrades     *)
(* with rows written in between, it has the schema of a new one, so that     *)
(* every step finds what it expects; no upgrade ever fails on the rows; and  *)
(* a downgrade fails only below 0017, always, and below 0008, when two       *)
(* datasets share an id.                                                     *)
MigrationsWork ==
    LET colliding == \E a, b \in stored : a # b /\ a.external = b.external
        Below(v, n) == v < n /\ version >= n
    IN  /\ schema = MigratedTo(version, 0, Empty).schema
        /\ \A v \in DOMAIN Upgrade \cup {0} :
             MigratedTo(v, version, Database).failed <=> Below(v, 17) \/ (Below(v, 8) /\ colliding)
=============================================================================
