-------------------------- MODULE RequestCharging --------------------------
(***************************************************************************)
(* What a request is charged on its way in: BurstLimitMiddleware            *)
(* (app/ratelimit.py), and the limits of assistant_chat and                 *)
(* assistant_command (app/api/routes_assistant.py), taken one after the     *)
(* other while other requests take theirs.                                  *)
(*                                                                          *)
(* Each limit is taken under the limiter's lock; others may take theirs     *)
(* between any two of a request's, which is more than the event loop lets   *)
(* them: a chat takes its three without an await.                           *)
(*                                                                          *)
(* Each bucket is refilled on every tick, with a call as its unit: the one  *)
(* try_take computes while fewer than 10,000 keys are tracked and nothing   *)
(* is pruned.                                                               *)
(***************************************************************************)
EXTENDS Integers, FiniteSets, Sequences

CONSTANTS
    Ip, User,     \* callers by address, and by the session they were given
    Request,      \* requests that may be in flight at once
    Full, PerTick, \* of each family: capacity, and calls regained per tick
    DayTicks,     \* ticks in a UTC day
    DayCalls,     \* rate_limit_assistant_global_per_day
    Traffic,      \* the sets of paths the requests of a run may have
    MaxHours      \* bound on the clock

Path == {"chat", "command", "health", "tiles", "wholeArchive", "asset", "internal", "other"}

PerIp == {"burst", "tiles", "health", "assistant_ip"}
PerUser == {"assistant", "assistant_commands"}

ASSUME ChargingAssumption ==
    /\ Full \in [PerIp \cup PerUser -> Nat] /\ PerTick \in [PerIp \cup PerUser -> Nat]
    /\ DayTicks \in Nat \ {0} /\ DayCalls \in Nat /\ MaxHours \in Nat
    /\ IsFiniteSet(Request)
    /\ Traffic \subseteq SUBSET Path

VARIABLES
    enabled,    \* rate_limit_enabled
    internals,  \* internal_tier_accessible
    paths,      \* the paths asked for
    hour,       \* the clock, in ticks
    level,      \* level[b]: calls left in bucket b
    dayCalls,   \* calls counted today
    request,    \* request[r]: whose it is and the limits still ahead of it
    counted,    \* counted[ip]: today's calls that ip's requests were counted for
    probes      \* probes[ip]: health probes served since the last tick

chargingVars == <<enabled, internals, paths, hour, level, dayCalls, request, counted, probes>>

Buckets == (PerIp \X Ip) \cup (PerUser \X User)
Nobody == [ahead |-> <<>>, path |-> "none"]
InFlight(r) == request[r].path # "none"

(* Fault: the day's counter before the caller's own limits.                  *)
ChatLimitsDayFirst == <<"assistant", "day", "assistant_ip">>

(* assistant_chat: the session's bucket, the address's, the day's counter.   *)
ChatLimits == <<"assistant", "assistant_ip", "day">>

(* Fault: probes are limited like everything else.                           *)
EdgeLimitsOptional(path) ==
    IF ~enabled \/ path = "asset" THEN <<>>
    ELSE IF path \in {"tiles", "health"} THEN <<path>> ELSE <<"burst">>

(* BurstLimitMiddleware: the bucket a path is charged to.                    *)
EdgeLimits(path) ==
    IF path = "health" THEN <<"health">>
    ELSE IF ~enabled \/ path = "asset" THEN <<>>
    ELSE IF path = "tiles" THEN <<"tiles">> ELSE <<"burst">>

HandlerLimits(path) ==
    IF ~enabled THEN <<>>
    ELSE CASE path = "chat"    -> ChatLimits
           [] path = "command" -> <<"assistant_commands">>
           [] OTHER            -> <<>>

(* Answered at the edge: an internal path where that tier is closed (403), a *)
(* tile archive asked for whole (416).  Neither is charged.                  *)
Turned(path) == path = "wholeArchive" \/ (path = "internal" /\ ~internals)

(* A session costs nothing: an address may use any.                          *)
Arrive(r, ip, user, path) ==
    /\ ~InFlight(r) /\ path \in paths
    /\ request' = [request EXCEPT ![r] =
         IF Turned(path) THEN Nobody
         ELSE [ahead |-> EdgeLimits(path) \o HandlerLimits(path), path |-> path,
               ip |-> ip, user |-> user]]
    /\ UNCHANGED <<enabled, internals, paths, hour, level, dayCalls, counted, probes>>

Ahead(r) == Head(request[r].ahead)
Passed(r) == [request EXCEPT ![r].ahead = Tail(@)]
Refused(r) == [request EXCEPT ![r] = Nobody]

BucketOf(r) ==
    <<Ahead(r), IF Ahead(r) \in PerIp THEN request[r].ip ELSE request[r].user>>

(* try_take on the next bucket ahead.                                        *)
TakeToken(r) ==
    /\ InFlight(r) /\ request[r].ahead # <<>> /\ Ahead(r) # "day"
    /\ LET b == BucketOf(r)
       IN  \/ /\ level[b] > 0
              /\ level' = [level EXCEPT ![b] = @ - 1]
              /\ request' = Passed(r)
           \/ /\ level[b] = 0
              /\ request' = Refused(r)
              /\ UNCHANGED level
    /\ UNCHANGED <<enabled, internals, paths, hour, dayCalls, counted, probes>>

(* try_count_global.                                                         *)
CountCall(r) ==
    /\ InFlight(r) /\ request[r].ahead # <<>> /\ Ahead(r) = "day"
    /\ \/ /\ dayCalls < DayCalls
          /\ dayCalls' = dayCalls + 1
          /\ counted' = [counted EXCEPT ![request[r].ip] = @ + 1]
          /\ request' = Passed(r)
       \/ /\ dayCalls >= DayCalls
          /\ request' = Refused(r)
          /\ UNCHANGED <<dayCalls, counted>>
    /\ UNCHANGED <<enabled, internals, paths, hour, level, probes>>

(* Every limit passed: the request is served.                                *)
Serve(r) ==
    /\ InFlight(r) /\ request[r].ahead = <<>>
    /\ probes' = IF request[r].path = "health"
                 THEN [probes EXCEPT ![request[r].ip] = @ + 1] ELSE probes
    /\ request' = Refused(r)
    /\ UNCHANGED <<enabled, internals, paths, hour, level, dayCalls, counted>>

Regained(b) ==
    IF level[b] + PerTick[b[1]] > Full[b[1]] THEN Full[b[1]] ELSE level[b] + PerTick[b[1]]

Hour ==
    /\ hour < MaxHours
    /\ hour' = hour + 1
    /\ level' = [b \in Buckets |-> Regained(b)]
    /\ LET midnight == hour' % DayTicks = 0
       IN  /\ dayCalls' = IF midnight THEN 0 ELSE dayCalls
           /\ counted' = IF midnight THEN [ip \in Ip |-> 0] ELSE counted
    /\ probes' = [ip \in Ip |-> 0]
    /\ UNCHANGED <<enabled, internals, paths, request>>

ChargingInit ==
    /\ enabled \in BOOLEAN /\ internals \in BOOLEAN /\ paths \in Traffic
    /\ hour = 0
    /\ level = [b \in Buckets |-> Full[b[1]]]
    /\ dayCalls = 0
    /\ request = [r \in Request |-> Nobody]
    /\ counted = [ip \in Ip |-> 0]
    /\ probes = [ip \in Ip |-> 0]

ChargingNext ==
    \/ \E r \in Request : TakeToken(r) \/ CountCall(r) \/ Serve(r)
    \/ \E r \in Request, ip \in Ip, user \in User, path \in Path : Arrive(r, ip, user, path)
    \/ Hour

ChargingSpec == ChargingInit /\ [][ChargingNext]_chargingVars

-----------------------------------------------------------------------------
(* Properties.                                                               *)

(* However many sessions an address mints, and however its requests          *)
(* interleave, it uses no more of the day's shared calls than its own bucket *)
(* holds and has regained today, and the requests that passed that bucket    *)
(* and met midnight: refused attempts never burn the shared budget.          *)
DailyShare ==
    \A ip \in Ip :
        counted[ip] <= Full["assistant_ip"] + PerTick["assistant_ip"] * (hour % DayTicks)
                       + (IF hour < DayTicks THEN 0 ELSE Cardinality(Request))

(* Health probes stay finite when the limiter is switched off: between two   *)
(* ticks an address is served no more than a full bucket, and the requests   *)
(* that had passed it before.                                                *)
ProbesFinite ==
    \A ip \in Ip : probes[ip] <= Full["health"] + Cardinality(Request)

(* Both of the above: no limit is used up by calls another one refuses, and  *)
(* none is passed by, on any path of the middleware and of the routes.       *)
LimitsHold == DailyShare /\ ProbesFinite
=============================================================================
