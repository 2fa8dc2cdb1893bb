----------------------------- MODULE MCRequests -----------------------------
(* Both ends of a request, side by side: the hooks of the browser, and the   *)
(* limits a request meets before the server works on it.  A behavior is      *)
(* about one of them, and the others keep a state of their own.              *)
EXTENDS IncidentPoints, PanelTurn, AddressSearch, AreaPaging, Workspace,
        RequestCharging, RequestBody, MCRateLimiter

CONSTANTS
    Parts,     \* what behaviors are about
    MaxDrops   \* bound on the times a bucket is pruned

VARIABLES part, lateNow, lateBuckets, lateSpent, lateDayKey, lateDayCount, lateGranted, lateDropped
lateVars ==
    <<lateNow, lateBuckets, lateSpent, lateDayKey, lateDayCount, lateGranted, lateDropped>>
hookVars == <<pointVars, panelVars, searchVars, pagingVars, workspaceVars>>
limitVars == <<chargingVars, bodyVars, vars, lateVars>>
partVars == <<part, hookVars, limitVars>>

OneSaved == <<1>>
TwoSaved == <<1, 2>>

(* A second limiter, whose calls wait longer for its lock, of one caller in  *)
(* one family, so that nothing is pruned.                                    *)
Late == INSTANCE RateLimiter WITH
            Family <- OneFamily, Capacity <- OneCapacity, Per <- OnePer,
            Key <- {"a"}, Lag <- 2, DayLimit <- 0, MaxNow <- 4, now <- lateNow,
            buckets <- lateBuckets, spent <- lateSpent, dayKey <- lateDayKey,
            dayCount <- lateDayCount, granted <- lateGranted, dropped <- lateDropped
LateNext == Late!Next

Calls == [f \in PerIp \cup PerUser |-> IF f = "burst" THEN 3 ELSE 1]
Regain == [f \in PerIp \cup PerUser |-> IF f = "health" THEN 0 ELSE 1]
Busy == {{"chat"}, {"command", "internal", "wholeArchive"}, {"health", "tiles", "asset", "other"}}

NoCharging == enabled = TRUE /\ internals = TRUE /\ paths = {"chat"} /\ ChargingInit
NoBody == declared = NoLength /\ BodyInit

PartInit ==
    /\ part \in Parts
    /\ scope = "a" /\ pageSize = 1
    /\ PointsInit /\ PanelInit /\ SearchInit /\ PagingInit /\ WorkspaceInit
    /\ IF part = "charging" THEN ChargingInit ELSE NoCharging
    /\ IF part = "body" THEN BodyInit ELSE NoBody
    /\ Init /\ Late!Init

PartNext ==
    /\ \/ /\ part = "points" /\ PointsNext
          /\ UNCHANGED <<panelVars, searchVars, pagingVars, workspaceVars, limitVars>>
       \/ /\ part = "panel" /\ PanelNext
          /\ UNCHANGED <<pointVars, searchVars, pagingVars, workspaceVars, limitVars>>
       \/ /\ part = "search" /\ SearchNext
          /\ UNCHANGED <<pointVars, panelVars, pagingVars, workspaceVars, limitVars>>
       \/ /\ part = "paging" /\ PagingNext
          /\ UNCHANGED <<pointVars, panelVars, searchVars, workspaceVars, limitVars>>
       \/ /\ part = "workspace" /\ WorkspaceNext
          /\ UNCHANGED <<pointVars, panelVars, searchVars, pagingVars, limitVars>>
       \/ /\ part = "charging" /\ ChargingNext
          /\ UNCHANGED <<hookVars, bodyVars, vars, lateVars>>
       \/ /\ part = "body" /\ BodyNext
          /\ UNCHANGED <<hookVars, chargingVars, vars, lateVars>>
       \/ /\ part = "limiter" /\ Next
          /\ \A b \in Bucket : dropped'[b][0] <= MaxDrops
          /\ UNCHANGED <<hookVars, chargingVars, bodyVars, lateVars>>
       \/ /\ part = "late" /\ LateNext
          /\ UNCHANGED <<hookVars, chargingVars, bodyVars, vars>>
    /\ UNCHANGED part

PartSpec == PartInit /\ [][PartNext]_partVars

(* In every window a caller is granted at most a full bucket and what the    *)
(* window refills, also when calls read the clock before they wait for the   *)
(* lock, as long as the map is not pruned (RateLimiterState.try_take).       *)
LateWindowBound == Late!WindowBound
=============================================================================
