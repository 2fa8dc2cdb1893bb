-------------------------- MODULE SessionRetention --------------------------
(***************************************************************************)
(* Anonymous sessions, the rows their identities own, and the retention     *)
(* sweep that deletes the rows of silent identities.                        *)
(*                                                                          *)
(* A public identity exists through a signed cookie whose expiry slides     *)
(* (app/sessions.py) and whose every create or resume is recorded in        *)
(* session_activity.  Its requests write rows into ten tables              *)
(* (app/models.py).  The sweep (app/services/retention_service.py) deletes, *)
(* table by table and batch by batch, each batch a commit of its own, while *)
(* requests go on.  Identities of the internal tier need no cookie.         *)
(*                                                                          *)
(* Time is a count of ticks; an instant is at least 1 and 0 means "never".  *)
(***************************************************************************)
EXTENDS Integers, Sequences, FiniteSets

CONSTANTS
    Public,        \* identities reached through a session cookie
    Internal,      \* identities of the /internal tier (x-demo-user-id header)
    TTL,           \* SESSION_MAX_AGE_SECONDS
    AbsoluteMax,   \* MCA_SESSION_ABSOLUTE_MAX_DAYS
    Retention,     \* MCA_SESSION_DATA_RETENTION_DAYS, positive: 0 disables the sweep
    RawRetention,  \* MCA_RAW_UPLOAD_RETENTION
    BatchSize,     \* DEFAULT_BATCH_SIZE
    RequestBound,  \* the longest a request runs between authentication and commit
    MaxNow,        \* bound on the clock
    MaxWrites,     \* bound on the row-writing requests of a behaviour
    MaxCrashes     \* bound on process restarts in the middle of a sweep

Identity == Public \cup Internal

ASSUME IdentitiesDisjoint == Public \cap Internal = {}
ASSUME TimingAssumption ==
    /\ TTL \in Nat \ {0}
    /\ AbsoluteMax \in Nat \ {0}
    /\ Retention \in Nat \ {0}
    /\ RequestBound \in Nat
    /\ BatchSize \in Nat \ {0}
    /\ RawRetention \in BOOLEAN
    /\ MaxNow \in Nat /\ MaxWrites \in Nat /\ MaxCrashes \in Nat

(* The window is at least one cookie lifetime and two requests longer, the    *)
(* one that is swept and the one that moved its activity back: true of the   *)
(* default 30 days, false of a window of one day.                            *)
ASSUME Slack == Retention >= TTL + 2 * RequestBound

VARIABLES
    now,       \* the wall clock
    issued,    \* issued[i]: the fixed issued_at of i's token, 0 before its creation
    expires,   \* expires[i]: the expires_at of the newest token i holds, 0 if none
    lastSeen,  \* lastSeen[i]: i's session_activity row, 0 if there is none
    since,     \* since[i]: when the requests i has in flight were authenticated
    db,        \* db[t]: the committed rows of table t
    writes,    \* number of row-writing requests so far; names their rows
    sweep,     \* the sweep in progress: its statement (0 when idle) and cutoff
    crashes    \* restarts so far

vars == <<now, issued, expires, lastSeen, since, db, writes, sweep, crashes>>
session == <<issued, expires, lastSeen>>

-----------------------------------------------------------------------------
(* Rows.  A row carries its owner, created_at, updated_at (clusters only),   *)
(* the request that wrote it, and a reference: the cluster of a summary, the *)
(* import of a stop or an upload-derived cluster, the slot of an option.     *)
(* Rows one request writes share its id: a stop and its cluster, a           *)
(* comparison with its options and pairwise result, a run with its summaries.*)

Row == [owner : Identity, at : Nat, touched : Nat, id : Nat, ref : Nat]

NewRow(i, t, k, r) == [owner |-> i, at |-> t, touched |-> t, id |-> k, ref |-> r]

(* Fault: a table left out.                                                 *)
SweepOrderWithoutStops ==
    <<"analysis_report_snapshots", "statistical_pairwise_results",
      "statistical_comparison_options", "statistical_comparisons",
      "analysis_runs", "place_crime_summaries",
      "staging_location_observations", "place_clusters", "import_batches">>

(* The order of the sweep's statements; session_activity comes last.         *)
SweepOrder == <<"analysis_report_snapshots", "statistical_pairwise_results",
                "statistical_comparison_options", "statistical_comparisons",
                "analysis_runs", "place_crime_summaries", "stop_visits",
                "staging_location_observations", "place_clusters",
                "import_batches">>

Table == {"analysis_report_snapshots", "statistical_pairwise_results",
          "statistical_comparison_options", "statistical_comparisons",
          "analysis_runs", "place_crime_summaries", "stop_visits",
          "staging_location_observations", "place_clusters", "import_batches"}

ActivityStepEarly == Len(SweepOrder)      \* fault: the last table shares its step
ActivityStep == Len(SweepOrder) + 1

Own(t, i) == {r \in db[t] : r.owner = i}

-----------------------------------------------------------------------------
(* Sessions.                                                                 *)

Earlier(a, b) == IF a <= b THEN a ELSE b

TokenExpiry(signed, first) == Earlier(signed + TTL, first + AbsoluteMax)

(* session_claims_from_token: a token that has neither expired nor passed    *)
(* the absolute ceiling.                                                     *)
HoldsToken(i) ==
    /\ issued[i] <= now
    /\ now < expires[i]
    /\ now < issued[i] + AbsoluteMax

(* Fault: the signature is checked and the expiry is not.                    *)
SignedOnly(i) == i \in Internal \/ issued[i] # 0

(* current_user_hash and required_public_user_hash.                          *)
Authenticated(i) == i \in Internal \/ HoldsToken(i)

(* What a request is matters only when it commits.                           *)
InFlight(i) == since[i] # {}

(* The instants at which a request in flight may read the clock.             *)
Stamp(i) == UNION {s .. now : s \in since[i]}

(* A request that has read the clock at t ends.  Requests of one identity     *)
(* overlap (two tabs): others may have begun at the same instant.            *)
Ends(i, t) ==
    \E s \in since[i] :
       /\ s <= t
       /\ since' = [since EXCEPT ![i] = @ \ {s}] \/ UNCHANGED since

(* POST /sessions without a valid cookie: a fresh identity.                  *)
CreateSession(i) ==
    /\ i \in Public /\ issued[i] = 0
    /\ issued' = [issued EXCEPT ![i] = now]
    /\ expires' = [expires EXCEPT ![i] = TokenExpiry(now, now)]
    /\ lastSeen' = [lastSeen EXCEPT ![i] = now]
    /\ UNCHANGED <<now, since, db, writes, sweep, crashes>>

(* DELETE /sessions, or a browser that loses the cookie.                     *)
DeleteSession(i) ==
    /\ expires[i] # 0
    /\ expires' = [expires EXCEPT ![i] = 0]
    /\ UNCHANGED <<now, issued, lastSeen, since, db, writes, sweep, crashes>>

(* The dependency that authenticates a request, before its handler runs.     *)
Begin(i) ==
    /\ Authenticated(i)
    /\ since' = [since EXCEPT ![i] = @ \cup {now}]
    /\ UNCHANGED <<now, session, db, writes, sweep, crashes>>

(* Fault: a resume slides the cookie and records no activity.                *)
ResumeUnrecorded(i) ==
    /\ i \in Public /\ Ends(i, now)
    /\ expires' = [expires EXCEPT ![i] = TokenExpiry(now, issued[i])]
    /\ UNCHANGED <<now, issued, lastSeen, db, writes, sweep, crashes>>

(* POST /sessions with a valid cookie: the token is signed, then the activity *)
(* row is stamped and committed, over whatever it held (a resume that began   *)
(* earlier may commit later and move it back), then the cookie is set on an   *)
(* answer that may not arrive, or arrive before that of an earlier resume.   *)
Resume(i) ==
    /\ i \in Public
    /\ \E signed \in Stamp(i) : \E seen \in signed .. now :
         /\ Ends(i, signed)
         /\ lastSeen' = [lastSeen EXCEPT ![i] = seen]
         /\ \/ expires' = [expires EXCEPT ![i] = TokenExpiry(signed, issued[i])]
            \/ expires' = expires
    /\ UNCHANGED <<now, issued, db, writes, sweep, crashes>>

(* A request that ends without a commit: a validation or integrity error, a  *)
(* disconnect, a restart of the server.                                      *)
Fail(i) ==
    /\ Ends(i, now)
    /\ UNCHANGED <<now, session, db, writes, sweep, crashes>>

-----------------------------------------------------------------------------
(* Requests that write rows, each one transaction, with created_at read from *)
(* the clock somewhere between authentication and commit.                    *)

Commit(i, t) ==
    /\ Ends(i, t)
    /\ writes < MaxWrites
    /\ writes' = writes + 1
    /\ UNCHANGED <<now, session, sweep, crashes>>

NewId == writes + 1

CreatePlace(i) ==
    /\ i \in Public
    /\ \E t \in Stamp(i) :
         /\ Commit(i, t)
         /\ db' = [db EXCEPT !["place_clusters"] = @ \cup {NewRow(i, t, NewId, 0)}]

(* Only a manual place can be edited; the ORM stamps updated_at.             *)
EditPlace(i) ==
    /\ i \in Public
    /\ \E c \in Own("place_clusters", i), t \in Stamp(i) :
         /\ c.ref = 0 /\ Commit(i, t)
         /\ db' = [db EXCEPT !["place_clusters"] =
                     (@ \ {c}) \cup {[c EXCEPT !.touched = t]}]

(* The saved places must exist for the public route; the internal route      *)
(* takes whatever clusters the identity has, none included.                  *)
Analyze(i) ==
    \E places \in SUBSET Own("place_clusters", i), t \in Stamp(i) :
      /\ Commit(i, t)
      /\ i \in Public => places # {}
      /\ db' = [db EXCEPT
           !["analysis_runs"] = @ \cup {NewRow(i, t, NewId, 0)},
           !["place_crime_summaries"] =
              @ \cup {NewRow(i, t, NewId, c.id) : c \in places}]

(* Two options and their pairwise result.  The public route compares saved   *)
(* places and needs two of them.                                             *)
Compare(i) ==
    /\ i \in Public => Cardinality(Own("place_clusters", i)) >= 2
    /\ \E t \in Stamp(i) :
         /\ Commit(i, t)
         /\ db' = [db EXCEPT
              !["statistical_comparisons"] = @ \cup {NewRow(i, t, NewId, 0)},
              !["statistical_comparison_options"] =
                 @ \cup {NewRow(i, t, NewId, slot) : slot \in {1, 2}},
              !["statistical_pairwise_results"] = @ \cup {NewRow(i, t, NewId, 1)}]

CreateReport(i) ==
    /\ i \in Public /\ Own("place_clusters", i) # {}
    /\ \E t \in Stamp(i) :
         /\ Commit(i, t)
         /\ db' = [db EXCEPT !["analysis_report_snapshots"] =
                     @ \cup {NewRow(i, t, NewId, 0)}]

(* One transaction: import, normalisation, and the disposal of the raw rows  *)
(* and the batch header unless raw retention is on.                          *)
Upload(i) ==
    /\ i \in Public
    /\ \E t \in Stamp(i) :
         LET new == {NewRow(i, t, NewId, NewId)}
             raw == IF RawRetention THEN new ELSE {}
         IN  /\ Commit(i, t)
             /\ db' = [db EXCEPT
                  !["place_clusters"] = @ \cup new,
                  !["stop_visits"] = @ \cup raw,
                  !["staging_location_observations"] = @ \cup raw,
                  !["import_batches"] = @ \cup raw]

(* The internal tier imports and normalises in two requests and keeps the    *)
(* raw rows.                                                                 *)
Import(i) ==
    /\ i \in Internal
    /\ \E t \in Stamp(i) :
         LET new == {NewRow(i, t, NewId, NewId)}
         IN  /\ Commit(i, t)
             /\ db' = [db EXCEPT
                  !["import_batches"] = @ \cup new,
                  !["staging_location_observations"] = @ \cup new]

(* Fault: the summaries of the replaced clusters are kept.                   *)
NormalizeKeepingSummaries(i) ==
    /\ i \in Internal
    /\ \E b \in Own("import_batches", i), t \in Stamp(i) :
         LET old == {s.id : s \in {s \in Own("stop_visits", i) : s.ref = b.id}}
             new == {NewRow(i, t, NewId, b.id)}
         IN  /\ Commit(i, t)
             /\ db' = [db EXCEPT
                  !["stop_visits"] = {s \in @ : s.ref # b.id} \cup new,
                  !["place_clusters"] =
                     {c \in @ : ~(c.id \in old /\ c.owner = i)} \cup new]

(* Re-normalising first removes the summaries, stops and clusters an earlier *)
(* normalisation of the same import left.                                    *)
Normalize(i) ==
    /\ i \in Internal
    /\ \E b \in Own("import_batches", i), t \in Stamp(i) :
         LET old == {s.id : s \in {s \in Own("stop_visits", i) : s.ref = b.id}}
             new == IF \E s \in db["staging_location_observations"] : s.ref = b.id
                    THEN {NewRow(i, t, NewId, b.id)} ELSE {}
         IN  /\ Commit(i, t)
             /\ db' = [db EXCEPT
                  !["place_crime_summaries"] = {s \in @ : s.ref \notin old},
                  !["stop_visits"] = {s \in @ : s.ref # b.id} \cup new,
                  !["place_clusters"] =
                     {c \in @ : ~(c.id \in old /\ c.owner = i)} \cup new]

-----------------------------------------------------------------------------
(* The sweep.                                                                *)

Sweeping == sweep.step # 0

(* Fault: activity is judged by rows alone, as before session_activity.      *)
ActiveByRows(i, cutoff) ==
    \E t \in Table \ {"statistical_comparisons", "place_crime_summaries"} :
       \E r \in db[t] : r.owner = i /\ (r.at >= cutoff \/ r.touched >= cutoff)

(* _active_identities: the union the abandoned condition tests against.      *)
Active(i, cutoff) ==
    \/ lastSeen[i] # 0 /\ lastSeen[i] >= cutoff
    \/ \E t \in {"analysis_runs", "analysis_report_snapshots", "import_batches",
                 "staging_location_observations", "stop_visits"} :
          \E r \in db[t] : r.owner = i /\ r.at >= cutoff
    \/ \E r \in db["place_clusters"] :
          r.owner = i /\ (r.at >= cutoff \/ r.touched >= cutoff)

Abandoned(r, cutoff) == r.at < cutoff /\ ~Active(r.owner, cutoff)

(* The WHERE clause of each statement: the children of a comparison are      *)
(* pinned to their parent, a cluster is kept while a summary or a stop       *)
(* references it, every other row is judged by itself.                       *)
Victims(t, cutoff) ==
    IF t \in {"statistical_pairwise_results", "statistical_comparison_options"}
    THEN {r \in db[t] : \E c \in db["statistical_comparisons"] :
                           c.id = r.id /\ Abandoned(c, cutoff)}
    ELSE IF t = "place_clusters"
    THEN {r \in db[t] : /\ Abandoned(r, cutoff)
                        /\ \A s \in db["place_crime_summaries"] : s.ref # r.id
                        /\ \A s \in db["stop_visits"] : s.id # r.id}
    ELSE {r \in db[t] : Abandoned(r, cutoff)}

SweepStart ==
    /\ ~Sweeping
    /\ sweep' = [step |-> 1, cutoff |-> now - Retention]
    /\ UNCHANGED <<now, session, since, db, writes, crashes>>

(* One round of _delete_in_batches: any BatchSize of the victims, then a     *)
(* commit; a short round ends the statement.                                 *)
SweepBatch ==
    /\ sweep.step \in 1 .. Len(SweepOrder)
    /\ LET t == SweepOrder[sweep.step]
           victims == Victims(t, sweep.cutoff)
       IN  \E gone \in SUBSET victims :
             /\ Cardinality(gone) = Earlier(Cardinality(victims), BatchSize)
             /\ db' = [db EXCEPT ![t] = @ \ gone]
             /\ sweep' = IF Cardinality(gone) < BatchSize
                         THEN [sweep EXCEPT !.step = @ + 1] ELSE sweep
    /\ UNCHANGED <<now, session, since, writes, crashes>>

(* The last statement deletes the expired session_activity rows.             *)
SweepActivity ==
    /\ sweep.step = ActivityStep
    /\ lastSeen' = [i \in Identity |->
                      IF lastSeen[i] < sweep.cutoff THEN 0 ELSE lastSeen[i]]
    /\ sweep' = [step |-> 0, cutoff |-> 0]
    /\ UNCHANGED <<now, issued, expires, since, db, writes, crashes>>

(* The API process restarts mid-sweep: what was committed stays deleted.     *)
SweepCrash ==
    /\ Sweeping /\ crashes < MaxCrashes
    /\ crashes' = crashes + 1
    /\ sweep' = [step |-> 0, cutoff |-> 0]
    /\ UNCHANGED <<now, session, since, db, writes>>

Tick ==
    /\ now < MaxNow
    /\ \A i \in Identity : \A s \in since[i] : now - s < RequestBound
    /\ now' = now + 1
    /\ UNCHANGED <<session, since, db, writes, sweep, crashes>>

-----------------------------------------------------------------------------
Init ==
    /\ now = 1
    /\ issued = [i \in Identity |-> 0]
    /\ expires = [i \in Identity |-> 0]
    /\ lastSeen = [i \in Identity |-> 0]
    /\ since = [i \in Identity |-> {}]
    /\ db = [t \in Table |-> {}]
    /\ writes = 0
    /\ sweep = [step |-> 0, cutoff |-> 0]
    /\ crashes = 0

Write(i) ==
    \/ CreatePlace(i) \/ EditPlace(i) \/ Analyze(i) \/ Compare(i)
    \/ CreateReport(i) \/ Upload(i) \/ Import(i) \/ Normalize(i)

Sweep == SweepStart \/ SweepBatch \/ SweepActivity

Next ==
    \/ \E i \in Identity :
         \/ CreateSession(i) \/ DeleteSession(i) \/ Begin(i) \/ Resume(i)
         \/ Fail(i) \/ Write(i)
    \/ Sweep
    \/ SweepCrash
    \/ Tick

Spec == Init /\ [][Next]_vars

(* The nightly cron job keeps posting the sweep and the API keeps answering. *)
FairSpec == Spec /\ WF_vars(Sweep)

-----------------------------------------------------------------------------
(* Properties.                                                               *)

(* Every variable has its type; the sweep is idle or at one of its eleven     *)
(* statements, never past the last.                                          *)
TypeOK ==
    /\ now \in Nat \ {0}
    /\ issued \in [Identity -> Nat]
    /\ expires \in [Identity -> Nat]
    /\ lastSeen \in [Identity -> Nat]
    /\ since \in [Identity -> SUBSET (Nat \ {0})]
    /\ db \in [Table -> SUBSET Row]
    /\ writes \in Nat
    /\ sweep \in [step : 0 .. ActivityStep, cutoff : Int]
    /\ crashes \in Nat

(* A public identity that can still see or write its data.                   *)
Reachable(i) == i \in Public /\ (HoldsToken(i) \/ InFlight(i))

(* Foreign keys: whatever a sweep has deleted so far, and whatever commits   *)
(* in between, no row references a row that is gone (retention_service.py    *)
(* relies on the order of its statements; the schema has no ON DELETE).      *)
NoDanglingReference ==
    /\ \A t \in {"statistical_pairwise_results", "statistical_comparison_options"} :
         \A r \in db[t] : \E c \in db["statistical_comparisons"] : c.id = r.id
    /\ \A s \in db["place_crime_summaries"] :
         \E c \in db["place_clusters"] : c.id = s.ref
    /\ \A s \in db["stop_visits"] : \E c \in db["place_clusters"] : c.id = s.id
    /\ \A t \in {"stop_visits", "staging_location_observations"} :
         \A s \in db[t] : \E b \in db["import_batches"] : b.id = s.ref

(* A comparison as the user saw it: both options and the pairwise result.    *)
Whole(c) ==
    /\ \E p \in db["statistical_pairwise_results"] : p.id = c.id
    /\ \A slot \in {1, 2} : \E o \in db["statistical_comparison_options"] :
         o.id = c.id /\ o.ref = slot

(* Nobody can look at a comparison the sweep has half deleted, nor at a      *)
(* summary whose run it has deleted: by the time a sweep touches a public    *)
(* identity no cookie and no request of that identity is left, and none can  *)
(* come back.                                                                *)
HalfDeletedIsUnreachable ==
    /\ \A c \in db["statistical_comparisons"] : ~Whole(c) => ~Reachable(c.owner)
    /\ \A s \in db["place_crime_summaries"] :
         (\A r \in db["analysis_runs"] : r.id # s.id) => ~Reachable(s.owner)

(* A sweep step never takes a row from an identity that holds a valid cookie *)
(* or has a request in flight, nor its session_activity row.                 *)
SweepSparesReachable ==
    [][Sweep => \A i \in Public : Reachable(i) =>
         /\ \A t \in Table : Own(t, i) \subseteq db'[t]
         /\ lastSeen'[i] = lastSeen[i]]_vars

(* The session_activity row that protects an identity keeps up with its       *)
(* cookie: however many resumes overlap, and whichever commits last, it is    *)
(* behind the signing of the cookie by no more than a request lasts          *)
(* (touch_session_activity overwrites the row with the caller's own clock).  *)
CookieBackedByActivity ==
    \A i \in Public : HoldsToken(i) =>
       lastSeen[i] # 0 /\ expires[i] <= lastSeen[i] + TTL + RequestBound

(* Rows of a public identity that has fallen silent are eventually all gone. *)
Gone(i) == \A t \in Table : Own(t, i) = {}
SilentFor(i) ==
    /\ i \in Public /\ issued[i] # 0 /\ ~Reachable(i)
    /\ lastSeen[i] < now - Retention
    /\ \A t \in Table : \A r \in Own(t, i) :
         r.at < now - Retention /\ r.touched < now - Retention
SilentDataGoes == \A i \in Public : SilentFor(i) ~> Gone(i)

(* The sweep never strands a comparison with half its rows: the promise of   *)
(* the comment in retention_service.py, for every identity, between sweeps.  *)
NeverStranded ==
    ~Sweeping => \A c \in db["statistical_comparisons"] : Whole(c)

(* An identity that has run an analysis within the window, a comparison      *)
(* included, keeps its rows (the promise of DEPLOY-VPS.md).                  *)
RecentAnalysisKeepsRows ==
    [][SweepBatch => \A i \in Public :
         (\E c \in Own("statistical_comparisons", i) : c.at >= sweep.cutoff)
           => \A t \in Table : Own(t, i) \subseteq db'[t]]_vars
=============================================================================
