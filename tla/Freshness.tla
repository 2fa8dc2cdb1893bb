----------------------------- MODULE Freshness -----------------------------
(***************************************************************************)
(* crime_data_freshness and dashboard_freshness_by_layer                    *)
(* (app/services/crime_service.py) for one cache key: two dictionaries, the *)
(* values and their expiries, filled by request threads without a lock.     *)
(***************************************************************************)
EXTENDS Integers

CONSTANTS
    Thread,
    CacheTtl,    \* FRESHNESS_CACHE_TTL_S, or the one of calls
    QueryTime,   \* bound on the time one request takes
    MaxInstant   \* bound on the clock

ASSUME FreshnessAssumption == CacheTtl \in Nat /\ QueryTime \in Nat /\ MaxInstant \in Nat

VARIABLES
    instant,    \* monotonic()
    cache,      \* _freshness_cache: when the value was read, or Nothing
    expires,    \* _freshness_expires
    thread,     \* thread[t]: its stage, when it began, the value it holds
    overtaken   \* threads between their two reads, since which another set the expiry

freshnessVars == <<instant, cache, expires, thread, overtaken>>

Nothing == -1
Free == [at |-> "idle", began |-> 0, value |-> Nothing]

Stands(t, stage) == thread[t].at = stage

(* A call begins: the cached value is read.                                  *)
ReadValue(t) ==
    /\ Stands(t, "idle")
    /\ thread' = [thread EXCEPT ![t] =
                     [at |-> IF cache = Nothing THEN "query" ELSE "check",
                      began |-> instant, value |-> cache]]
    /\ overtaken' = overtaken \ {t}
    /\ UNCHANGED <<instant, cache, expires>>

(* The expiry is read by itself: is the value read before still good?        *)
Hits(t) == Stands(t, "check") /\ instant < expires

CheckExpiry(t) ==
    /\ Stands(t, "check")
    /\ thread' = [thread EXCEPT ![t] = IF Hits(t) THEN Free ELSE [@ EXCEPT !.at = "query"]]
    /\ UNCHANGED <<instant, cache, expires, overtaken>>

(* The aggregate over the table, as of now.                                  *)
Query(t) ==
    /\ Stands(t, "query")
    /\ thread' = [thread EXCEPT ![t].at = "store", ![t].value = instant]
    /\ UNCHANGED <<instant, cache, expires, overtaken>>

StoreValue(t) ==
    /\ Stands(t, "store")
    /\ cache' = thread[t].value
    /\ thread' = [thread EXCEPT ![t].at = "expiry"]
    /\ UNCHANGED <<instant, expires, overtaken>>

(* Fault: the expiry adds to the one before.                                 *)
ExpiryAfter(old) == (IF old > instant THEN old ELSE instant) + CacheTtl

Expiry(old) == instant + CacheTtl

(* The call ends with the value it has read from the table.                  *)
StoreExpiry(t) ==
    /\ Stands(t, "expiry")
    /\ expires' = Expiry(expires)
    /\ thread' = [thread EXCEPT ![t] = Free]
    /\ overtaken' = overtaken \cup {u \in Thread : Stands(u, "check")}
    /\ UNCHANGED <<instant, cache>>

Pass ==
    /\ instant < MaxInstant
    /\ \A t \in Thread : ~Stands(t, "idle") => instant - thread[t].began < QueryTime
    /\ instant' = instant + 1
    /\ UNCHANGED <<cache, expires, thread, overtaken>>

FreshnessInit ==
    /\ instant = 0
    /\ cache = Nothing /\ expires = 0
    /\ thread = [t \in Thread |-> Free]
    /\ overtaken = {}

FreshnessNext ==
    \/ \E t \in Thread :
         \/ ReadValue(t) \/ CheckExpiry(t) \/ Query(t) \/ StoreValue(t) \/ StoreExpiry(t)
    \/ Pass

FreshnessSpec == FreshnessInit /\ [][FreshnessNext]_freshnessVars

-----------------------------------------------------------------------------
(* However threads interleave on the two dictionaries, a value about to be   *)
(* served is no older than the time to live and two calls (one that was slow  *)
(* to store what it read, and one that gave that value its expiry), unless   *)
(* another call set the expiry between the two reads of this one: the value  *)
(* read first may then be of any age, which the docstring's "a race only     *)
(* causes a redundant recompute" does not say.  A value from the table is no *)
(* older than the call.                                                      *)
AgeBound ==
    \A t \in Thread :
      /\ Hits(t) /\ t \notin overtaken => instant - thread[t].value <= CacheTtl + 2 * QueryTime
      /\ Stands(t, "expiry") => instant - thread[t].value <= QueryTime
=============================================================================
