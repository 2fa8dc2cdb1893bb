--------------------------- MODULE IncidentPoints ---------------------------
(***************************************************************************)
(* useIncidentPoints (frontend/src/lib/useIncidentPoints.ts): the dots of   *)
(* the map.  A change of the view is rendered first; the effect runs after  *)
(* it, and answers arrive in any order, also those of aborted requests.     *)
(***************************************************************************)
EXTENDS Naturals

CONSTANTS
    Scope,      \* dates, category, layer and enabled
    Loadable,   \* the enabled scopes with a valid window
    Bounds,     \* viewports
    None,       \* no viewport yet, no dots, no timer
    MaxViews    \* bound on the changes of the view

(* What a callback has captured: its generation, what it asks for, whether   *)
(* it keeps an earlier answer, and whether its controller was aborted.       *)
Captured == [of : Nat, scope : Scope, bounds : Bounds, preserve : BOOLEAN, aborted : BOOLEAN]
View == [scope : Scope, bounds : Bounds]

ASSUME PointsAssumption ==
    /\ Loadable \subseteq Scope /\ MaxViews \in Nat
    /\ None \notin Scope \cup Bounds \cup Captured \cup View

VARIABLES
    scope, bounds,   \* what the workspace asks for
    due,             \* a change was rendered, its effect has not run
    lastScope,       \* scopeKeyRef
    generation,      \* requestGenerationRef
    timer,           \* timerRef, with what its callback has captured
    pointRequests,   \* requests in flight, with what their callbacks have captured
    dots,            \* geojson: the view it answers
    loadedOnce,      \* hasSuccessfulResponseRef
    refreshing, stale

pointVars == <<scope, bounds, due, lastScope, generation, timer, pointRequests,
               dots, loadedOnce, refreshing, stale>>

Changed == generation < MaxViews /\ due' = TRUE

Pan(b) ==
    /\ b # bounds /\ bounds' = b /\ Changed
    /\ UNCHANGED <<scope, lastScope, generation, timer, pointRequests, dots, loadedOnce,
                   refreshing, stale>>

Rescope(s) ==
    /\ s # scope /\ scope' = s /\ Changed
    /\ UNCHANGED <<bounds, lastScope, generation, timer, pointRequests, dots, loadedOnce,
                   refreshing, stale>>

(* Fault: any earlier answer is kept while the next one loads.               *)
PreserveAny(s) == loadedOnce

(* preservePriorResponse.                                                    *)
Preserve(s) == loadedOnce /\ lastScope \in {None, s}

(* The cleanup of the last effect, and the effect.                           *)
PointsEffect ==
    /\ due /\ due' = FALSE
    /\ lastScope' = scope /\ generation' = generation + 1
    /\ pointRequests' = {[r EXCEPT !.aborted = TRUE] : r \in pointRequests}
    /\ IF bounds = None \/ scope \notin Loadable
       THEN /\ timer' = None /\ dots' = None
            /\ loadedOnce' = FALSE /\ refreshing' = FALSE /\ stale' = FALSE
       ELSE /\ timer' = [of |-> generation', scope |-> scope, bounds |-> bounds,
                         preserve |-> Preserve(scope), aborted |-> FALSE]
            /\ dots' = IF Preserve(scope) THEN dots ELSE None
            /\ loadedOnce' = Preserve(scope)
            /\ stale' = (stale /\ Preserve(scope))
            /\ refreshing' = TRUE
    /\ UNCHANGED <<scope, bounds>>

DebounceEnds ==
    /\ timer # None
    /\ pointRequests' = pointRequests \cup {timer} /\ timer' = None
    /\ UNCHANGED <<scope, bounds, due, lastScope, generation, dots, loadedOnce, refreshing,
                   stale>>

Superseded(r) == r.aborted \/ r.of # generation

PointsArrive(r) ==
    /\ pointRequests' = pointRequests \ {r}
    /\ IF Superseded(r) THEN UNCHANGED <<dots, loadedOnce, refreshing, stale>>
       ELSE /\ dots' = [scope |-> r.scope, bounds |-> r.bounds]
            /\ loadedOnce' = TRUE /\ refreshing' = FALSE /\ stale' = FALSE
    /\ UNCHANGED <<scope, bounds, due, lastScope, generation, timer>>

PointsFail(r) ==
    /\ pointRequests' = pointRequests \ {r}
    /\ IF Superseded(r) THEN UNCHANGED <<dots, loadedOnce, refreshing, stale>>
       ELSE /\ refreshing' = FALSE /\ stale' = r.preserve
            /\ dots' = IF r.preserve THEN dots ELSE None
            /\ loadedOnce' = (loadedOnce /\ r.preserve)
    /\ UNCHANGED <<scope, bounds, due, lastScope, generation, timer>>

PointsInit ==
    /\ scope \in Scope /\ bounds = None /\ due = TRUE
    /\ lastScope = None /\ generation = 0
    /\ timer = None /\ pointRequests = {} /\ dots = None
    /\ loadedOnce = FALSE /\ refreshing = FALSE /\ stale = FALSE

PointsNext ==
    \/ \E b \in Bounds : Pan(b)
    \/ \E s \in Scope : Rescope(s)
    \/ PointsEffect
    \/ DebounceEnds
    \/ \E r \in pointRequests : PointsArrive(r) \/ PointsFail(r)

PointsSpec == PointsInit /\ [][PointsNext]_pointVars

-----------------------------------------------------------------------------
(* Once the effect of a change has run, the dots belong to the scope shown;  *)
(* they may be those of an earlier viewport only while a request for this    *)
(* one is on its way or after it failed and they were marked stale, and      *)
(* "refreshing" is on exactly while an answer that counts is to come.        *)
DotsBelongToView ==
    ~due =>
      /\ dots # None =>
           /\ scope \in Loadable /\ dots.scope = scope
           /\ dots.bounds = bounds \/ refreshing \/ stale
      /\ refreshing <=> (timer # None \/ \E r \in pointRequests : ~Superseded(r))
=============================================================================
