----------------------------- MODULE RateLimiter -----------------------------
(***************************************************************************)
(* The in-process rate limiter (app/ratelimit.py, RateLimiterState): lazily *)
(* refilled token buckets per (family, key), a prune of the bucket map when *)
(* it grows past a limit, and a counter of the calls of a UTC day.          *)
(*                                                                          *)
(* A bucket of family f is counted in units of 1/Per[f] of a token, so that *)
(* a tick refills the integer Capacity[f].  The module's lock makes each    *)
(* operation atomic; try_take reads the clock before it waits for the lock, *)
(* at most Lag ticks before it holds it.                                    *)
(***************************************************************************)
EXTENDS Integers, FiniteSets, Functions

CONSTANTS
    Family,      \* "sessions", "burst", "tiles", "health", "assistant", ...
    Key,         \* client addresses or user hashes
    Capacity,    \* Capacity[f]: tokens of a full bucket; 0 closes the tier
    Per,         \* Per[f]: per_seconds, the ticks that refill it
    MaxKeys,     \* _MAX_TRACKED_KEYS
    Lag,         \* the longest wait for the lock
    DayLength,   \* ticks in a UTC day
    DayLimit,    \* MCA_RATE_LIMIT_ASSISTANT_GLOBAL_PER_DAY
    MaxNow       \* bound on the clock

ASSUME LimiterAssumption ==
    /\ Capacity \in [Family -> Nat]
    /\ Per \in [Family -> Nat \ {0}]
    /\ MaxKeys \in Nat /\ Lag \in Nat /\ DayLimit \in Nat /\ MaxNow \in Nat
    /\ DayLength \in Nat \ {0}

VARIABLES
    now,        \* time.monotonic()
    buckets,    \* _buckets: a partial function from <<family, key>>
    spent,      \* spent[b][s]: units granted to b by a call that read s or later
    dayKey,     \* _global_day_key, -1 before the first call
    dayCount,   \* _global_count
    granted,    \* granted[d]: calls try_count_global has allowed on day d
    dropped     \* dropped[b][s]: times b was pruned at s or later

vars == <<now, buckets, spent, dayKey, dayCount, granted, dropped>>

Bucket == Family \X Key
Instant == 0 .. MaxNow
Day(t) == t \div DayLength

Least(a, b) == IF a <= b THEN a ELSE b

FullOf(f) == Capacity[f] * Per[f]

(* The units bucket v of family f holds at t, before the cap.                *)
Refill(f, v, t) == v.tokens + (t - v.at) * Capacity[f]

-----------------------------------------------------------------------------
(* Fault: any entry not touched this tick counts as idle.                    *)
IdleBy(f, b, t) == buckets[b].at < t

(* Has bucket b refilled by t, judged by the family f of the call that       *)
(* prunes: b's own tokens, f's capacity and f's rate.                        *)
RefilledBy(f, b, t) ==
    LET own == Per[b[1]]
    IN  buckets[b].tokens * Per[f] + (t - buckets[b].at) * Capacity[f] * own
          >= FullOf(f) * own

(* The map as the rest of a call sees it: too many entries are thinned out.  *)
Tracked(f, t) ==
    IF Cardinality(DOMAIN buckets) > MaxKeys
    THEN Restrict(buckets, {b \in DOMAIN buckets : ~RefilledBy(f, b, t)})
    ELSE buckets

Pruned(f, t) == DOMAIN buckets \ DOMAIN Tracked(f, t)

Fresh(f, t) == [tokens |-> FullOf(f), at |-> t]

(* Fault: the refill is not capped.                                          *)
HeldUncapped(map, f, k, t) ==
    Refill(f, IF <<f, k>> \in DOMAIN map THEN map[<<f, k>>] ELSE Fresh(f, t), t)

Held(map, f, k, t) ==
    LET v == IF <<f, k>> \in DOMAIN map THEN map[<<f, k>>] ELSE Fresh(f, t)
    IN  Least(FullOf(f), Refill(f, v, t))

Store(map, b, tokens, t) ==
    [x \in DOMAIN map \cup {b} |-> IF x = b THEN [tokens |-> tokens, at |-> t] ELSE map[x]]

(* try_take, by a call that read the clock at t.                             *)
TryTake(f, k, t) ==
    /\ Capacity[f] > 0
    /\ LET map == Tracked(f, t)
           held == Held(map, f, k, t)
       IN  \/ /\ held >= Per[f]
              /\ buckets' = Store(map, <<f, k>>, held - Per[f], t)
              /\ spent' = [spent EXCEPT ![<<f, k>>] =
                   [s \in Instant |-> IF s <= t THEN @[s] + Per[f] ELSE @[s]]]
           \/ /\ held < Per[f]
              /\ buckets' = Store(map, <<f, k>>, held, t)
              /\ UNCHANGED spent
    /\ dropped' = [b \in Bucket |-> [s \in Instant |->
         dropped[b][s] + IF b \in Pruned(f, t) /\ s <= now THEN 1 ELSE 0]]
    /\ UNCHANGED <<now, dayKey, dayCount, granted>>

(* Fault: the comparison with the limit is off by one.                       *)
TryCountGlobalOneMore ==
    LET today == Day(now)
        count == IF today = dayKey THEN dayCount ELSE 0
    IN  /\ count <= DayLimit
        /\ dayKey' = today /\ dayCount' = count + 1
        /\ granted' = [granted EXCEPT ![today] = @ + 1]
        /\ UNCHANGED <<now, buckets, spent, dropped>>

(* try_count_global: the first call of a day resets the counter.             *)
TryCountGlobal ==
    LET today == Day(now)
        count == IF today = dayKey THEN dayCount ELSE 0
    IN  /\ dayKey' = today
        /\ \/ /\ count < DayLimit
              /\ dayCount' = count + 1
              /\ granted' = [granted EXCEPT ![today] = @ + 1]
           \/ /\ count >= DayLimit
              /\ dayCount' = count
              /\ UNCHANGED granted
        /\ UNCHANGED <<now, buckets, spent, dropped>>

Tick ==
    /\ now < MaxNow
    /\ now' = now + 1
    /\ UNCHANGED <<buckets, spent, dayKey, dayCount, granted, dropped>>

Init ==
    /\ now = 0
    /\ buckets = [b \in {} |-> 0]
    /\ spent = [b \in Bucket |-> [s \in Instant |-> 0]]
    /\ dayKey = -1
    /\ dayCount = 0
    /\ granted = [d \in Instant |-> 0]
    /\ dropped = [b \in Bucket |-> [s \in Instant |-> 0]]

Next ==
    \/ \E f \in Family, k \in Key, t \in Instant :
         t <= now /\ now - t <= Lag /\ TryTake(f, k, t)
    \/ TryCountGlobal
    \/ Tick

Spec == Init /\ [][Next]_vars

-----------------------------------------------------------------------------
(* Properties.                                                               *)

(* Every variable has its type, and no bucket ever holds more than a full one.*)
TypeOK ==
    /\ now \in Instant
    /\ DOMAIN buckets \subseteq Bucket
    /\ \A b \in DOMAIN buckets : /\ buckets[b] \in [tokens : Int, at : Instant]
                                 /\ buckets[b].tokens <= FullOf(b[1])
    /\ spent \in [Bucket -> [Instant -> Nat]]
    /\ dayKey \in Instant \cup {-1}
    /\ dayCount \in Nat
    /\ granted \in [Instant -> Nat]
    /\ dropped \in [Bucket -> [Instant -> Nat]]

(* In every window that ends now, a caller is granted at most a full bucket  *)
(* and what the window refills, however late calls are, as long as nothing   *)
(* is pruned.                                                                *)
WindowBound ==
    \A f \in Family, k \in Key : \A s \in 0 .. now :
        spent[<<f, k>>][s] <= FullOf(f) + Capacity[f] * (now - s)

Charging == {f \in Family : Capacity[f] > 0}
Shortest(q) == \A g \in Charging : Per[q] <= Per[g]
Smallest(c) == \A g \in Charging : Capacity[c] <= Capacity[g]

(* What the prune costs, whatever the families are and however late calls    *)
(* are to the lock (try_take).  A caller is granted in a window what its     *)
(* limit allows and at most a full bucket, and a wait for the lock, for each *)
(* time it was forgotten; and at most a full bucket in each period of the    *)
(* family with the shortest one, and for each time it was forgotten what its *)
(* bucket holds above the smallest one, and twice a wait.  The limit of the  *)
(* smallest family is thus never looser than its capacity in the shortest    *)
(* period, if no call waits.                                                 *)
PrunedWindow ==
    \A f \in Charging, k \in Key : \A s \in 0 .. now :
        LET units == spent[<<f, k>>][s]
            times == dropped[<<f, k>>][s]
        IN  /\ units <= FullOf(f) + Capacity[f] * (now - s)
                           + (FullOf(f) + Capacity[f] * Lag) * times
            /\ \A q, c \in Charging : Shortest(q) /\ Smallest(c) =>
                 Per[q] * units
                   <= Per[q] * FullOf(f) + FullOf(f) * (now - s)
                        + (2 * Lag * FullOf(f) + Per[q] * Per[f] * (Capacity[f] - Capacity[c])) * times

(* The lazy prune drops entries that have fully refilled, and no others: the *)
(* promise of the comment in try_take.                                       *)
PruneDropsOnlyRefilled ==
    [][\A b \in DOMAIN buckets \ DOMAIN buckets' :
         Refill(b[1], buckets[b], now) >= FullOf(b[1])]_vars

(* No UTC day grants more than its limit of assistant calls.                 *)
DailyCap == \A d \in Instant : granted[d] <= DayLimit
=============================================================================
