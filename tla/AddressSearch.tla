--------------------------- MODULE AddressSearch ---------------------------
(***************************************************************************)
(* useAddressSearch (frontend/src/lib/useAddressSearch.ts): typing waits    *)
(* for a debounce, Enter does not, and both share abortRef.  Typing is a    *)
(* discrete event, so React runs its effect before anything else happens.   *)
(***************************************************************************)
EXTENDS Naturals

CONSTANTS
    Query,        \* what is typed
    Blank,        \* what trims to nothing
    MaxFetches    \* bound on the controllers made

ASSUME SearchAssumption == Blank \in Query /\ MaxFetches \in Nat

VARIABLES
    query,
    fetches,     \* controllers made
    aborted,     \* those aborted
    abortRef,    \* abortRef, 0: null
    ownFetch,    \* the controller of the last effect, which its cleanup aborts
    debounce,    \* the controller whose timer runs, 0: none
    lookups,     \* searches in flight: their controller and their query
    found,       \* the query the results are for, Blank: none
    status

searchVars == <<query, fetches, aborted, abortRef, ownFetch, debounce, lookups, found, status>>

NewController == fetches < MaxFetches /\ fetches' = fetches + 1

(* Fault: the effect leaves a search started by Enter alone.                 *)
CancelledOwn == aborted \cup {ownFetch}

(* What the cleanup and the start of the effect abort.                       *)
Cancelled == aborted \cup ({ownFetch, abortRef} \ {0})

Type(q) ==
    /\ q # query /\ query' = q
    /\ aborted' = Cancelled
    /\ IF q = Blank
       THEN /\ debounce' = 0 /\ abortRef' = 0 /\ ownFetch' = 0
            /\ found' = Blank /\ status' = "idle" /\ UNCHANGED fetches
       ELSE /\ NewController /\ abortRef' = fetches' /\ ownFetch' = fetches'
            /\ debounce' = fetches' /\ UNCHANGED <<found, status>>
    /\ UNCHANGED lookups

RunFetch(controller) ==
    /\ status' = "loading"
    /\ lookups' = lookups \cup {[by |-> controller, query |-> query]}

Debounced ==
    /\ debounce # 0 /\ debounce' = 0
    /\ RunFetch(debounce)
    /\ UNCHANGED <<query, fetches, aborted, abortRef, ownFetch, found>>

RunSearch ==
    /\ query # Blank
    /\ NewController
    /\ debounce' = 0
    /\ aborted' = aborted \cup ({abortRef} \ {0}) /\ abortRef' = fetches'
    /\ RunFetch(fetches')
    /\ UNCHANGED <<query, ownFetch, found>>

SearchAnswers(l, outcome) ==
    /\ lookups' = lookups \ {l}
    /\ IF l.by \in aborted THEN UNCHANGED <<found, status>>
       ELSE /\ status' = outcome
            /\ found' = IF outcome = "error" THEN Blank ELSE l.query
    /\ UNCHANGED <<query, fetches, aborted, abortRef, ownFetch, debounce>>

SearchInit ==
    /\ query = Blank /\ fetches = 0 /\ aborted = {} /\ abortRef = 0 /\ ownFetch = 0
    /\ debounce = 0 /\ lookups = {} /\ found = Blank /\ status = "idle"

SearchNext ==
    \/ \E q \in Query : Type(q)
    \/ Debounced \/ RunSearch
    \/ \E l \in lookups, outcome \in {"done", "empty", "error"} : SearchAnswers(l, outcome)

SearchSpec == SearchInit /\ [][SearchNext]_searchVars

-----------------------------------------------------------------------------
(* Once typing has paused, settled results are those of the text in the box, *)
(* and the box says "loading" only while a search for that text will still   *)
(* answer, however the debounce and Enter take turns.                        *)
AnswersAreCurrent ==
    debounce = 0 =>
      CASE status \in {"done", "empty"} -> found = query /\ query # Blank
        [] status = "loading" ->
             \E l \in lookups : l.by \notin aborted /\ l.query = query
        [] status = "error" -> query # Blank /\ found = Blank
        [] status = "idle" -> query = Blank /\ found = Blank
=============================================================================
