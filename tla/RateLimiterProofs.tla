-------------------------- MODULE RateLimiterProofs --------------------------
(***************************************************************************)
(* What the limiter lets through.  While the map is not pruned, every caller *)
(* keeps the window bound of its family, however late calls are to the lock. *)
(* The prune, which judges a bucket by the family of the call that meets it, *)
(* adds a price for each time a bucket is dropped.  The counter of the day   *)
(* holds its limit whatever the buckets do.                                  *)
(***************************************************************************)
EXTENDS RateLimiter, FiniteSetTheorems, TLAPS

LEMMA Cancel ==
  ASSUME NEW p \in Nat \ {0}, NEW x \in Int, NEW y \in Int, p * x >= p * y
  PROVE  x >= y
BY Z3

LEMMA ProductNat == ASSUME NEW m \in Nat, NEW n \in Nat PROVE m * n \in Nat
BY Z3

LEMMA ProductInt == ASSUME NEW m \in Int, NEW n \in Int PROVE m * n \in Int
BY Z3

-----------------------------------------------------------------------------
(* Calls that wait for the lock.                                             *)

Entry == [tokens : Int, at : Instant]

(* What a call of s or later was granted, n, and what v holds at s were      *)
(* together a full bucket; v may be older than s only if n is nothing.       *)
Covered(f, v, n, s) == n + Refill(f, v, s) <= FullOf(f) \/ (s > v.at /\ n = 0)

(* An entry may owe what the calls it overtook have read too little; it has  *)
(* made up for that by now.                                                  *)
LateInv ==
    /\ now \in Instant /\ DOMAIN buckets \subseteq Bucket
    /\ spent \in [Bucket -> [Instant -> Nat]]
    /\ \A b \in Bucket \ DOMAIN buckets : \A s \in Instant : spent[b][s] = 0
    /\ \A b \in DOMAIN buckets :
         /\ buckets[b] \in Entry /\ buckets[b].tokens <= FullOf(b[1])
         /\ buckets[b].at <= now /\ 0 <= Refill(b[1], buckets[b], now)
         /\ \A s \in Instant : Covered(b[1], buckets[b], spent[b][s], s)

(* Multiples of a rate.                                                      *)
LEMMA Multiples ==
  ASSUME NEW c \in Nat, NEW x \in Int, NEW y \in Int
  PROVE  /\ (x - y) * c = x * c - y * c
         /\ x * c \in Int /\ y * c \in Int
         /\ x <= y => x * c <= y * c
  <1>1. (x - y) * c = x * c - y * c /\ x * c \in Int /\ y * c \in Int
    BY Z3
  <1>2. ASSUME x <= y PROVE x * c <= y * c
    <2>1. y - x \in Nat
      BY <1>2
    <2>2. (y - x) * c \in Nat
      BY <2>1, ProductNat
    <2>3. (y - x) * c = y * c - x * c
      BY Z3
    <2> QED BY <1>1, <2>2, <2>3
  <1> QED BY <1>1, <1>2

LEMMA Rates ==
  ASSUME NEW f \in Family
  PROVE  Capacity[f] \in Nat /\ Per[f] \in Nat /\ FullOf(f) \in Nat
  BY LimiterAssumption, ProductNat DEF FullOf

LEMMA Refills ==
  ASSUME NEW f \in Family, NEW v \in Entry, NEW t \in Instant, NEW s \in Instant
  PROVE  /\ Refill(f, v, t) \in Int
         /\ Refill(f, v, t) = Refill(f, v, s) + (t * Capacity[f] - s * Capacity[f])
         /\ t * Capacity[f] \in Int /\ s * Capacity[f] \in Int
         /\ s <= t => s * Capacity[f] <= t * Capacity[f]
  <1> DEFINE c == Capacity[f]
  <1>1. c \in Nat /\ v.at \in Int /\ v.tokens \in Int /\ t \in Int /\ s \in Int
    BY Rates DEF Entry, Instant
  <1> HIDE DEF c
  <1>2. (t - v.at) * c = t * c - v.at * c /\ (s - v.at) * c = s * c - v.at * c
    BY <1>1, Multiples
  <1>3. t * c \in Int /\ s * c \in Int /\ v.at * c \in Int /\ (s <= t => s * c <= t * c)
    BY <1>1, Multiples
  <1>4. Refill(f, v, t) = v.tokens + (t - v.at) * c /\ Refill(f, v, s) = v.tokens + (s - v.at) * c
    BY DEF Refill, c
  <1> QED BY <1>1, <1>2, <1>3, <1>4 DEF c

(* A call that read the clock at t leaves w of an entry v.                   *)
LEMMA CoveredStays ==
  ASSUME NEW f \in Family, NEW v \in Entry, NEW w \in Entry, NEW t \in Instant,
         NEW s \in Instant, NEW n \in Nat, NEW cost \in Nat,
         w.at = t, w.tokens = Least(FullOf(f), Refill(f, v, t)) - cost, Covered(f, v, n, s)
  PROVE  Covered(f, w, IF s <= t THEN n + cost ELSE n, s)
  <1> DEFINE c == Capacity[f]
             full == FullOf(f)
             tc == t * c
             sc == s * c
             before == Refill(f, v, s)
             after == Refill(f, w, s)
             held == Refill(f, v, t)
  <1>1. full \in Nat /\ c \in Nat
    BY Rates
  <1>2. /\ before \in Int /\ held \in Int /\ held = before + (tc - sc)
        /\ tc \in Int /\ sc \in Int /\ (s <= t => sc <= tc)
    BY Refills
  <1>3. after \in Int /\ after = Refill(f, w, t) + (sc - tc) /\ (t <= s => tc <= sc)
    BY Refills
  <1>4. Refill(f, w, t) = w.tokens
    <2>1. (t - t) * c = 0
      BY <1>1 DEF Instant
    <2> QED BY <2>1 DEF Refill, Entry
  <1>5. w.tokens \in Int /\ w.tokens + cost <= full /\ w.tokens + cost <= held
    BY <1>1, <1>2 DEF Least, Entry
  <1>6. n + before <= full \/ (s > v.at /\ n = 0)
    BY DEF Covered
  <1>7. s \in Int /\ t \in Int
    BY DEF Instant
  <1> HIDE DEF c, full, tc, sc, before, after, held
  <1>8. CASE s <= t
    <2>1. n + cost + after <= full
      BY <1>1, <1>2, <1>3, <1>4, <1>5, <1>6, <1>8
    <2> QED BY <1>8, <2>1 DEF Covered, full, after
  <1>9. CASE s > t
    <2>1. n + after <= full \/ n = 0
      BY <1>1, <1>2, <1>3, <1>4, <1>5, <1>6, <1>9
    <2> QED BY <1>7, <1>9, <2>1 DEF Covered, full, after
  <1> QED BY <1>7, <1>8, <1>9

(* The map never grows past the limit at which it is thinned out.            *)
Unpruned == IsFiniteSet(Bucket) /\ Cardinality(Bucket) <= MaxKeys

LEMMA LateTakeStep ==
  ASSUME Unpruned, LateInv, NEW f \in Family, NEW k \in Key, NEW t \in Instant, t <= now,
         TryTake(f, k, t)
  PROVE  LateInv'
  <1> DEFINE b == <<f, k>>
             v == IF b \in DOMAIN buckets THEN buckets[b] ELSE Fresh(f, t)
             held == Least(FullOf(f), Refill(f, v, t))
  <1>1. b \in Bucket /\ b[1] = f /\ FullOf(f) \in Nat /\ Per[f] \in Nat /\ Capacity[f] \in Nat
    BY Rates DEF Bucket
  <1>2. Tracked(f, t) = buckets
    <2>1. /\ IsFiniteSet(DOMAIN buckets) /\ Cardinality(DOMAIN buckets) <= Cardinality(Bucket)
          /\ Cardinality(DOMAIN buckets) \in Nat /\ Cardinality(Bucket) \in Nat
      BY FS_Subset, FS_CardinalityType DEF Unpruned, LateInv
    <2>2. ~(Cardinality(DOMAIN buckets) > MaxKeys)
      BY <2>1, LimiterAssumption DEF Unpruned
    <2> QED BY <2>2 DEF Tracked
  <1>3. Held(Tracked(f, t), f, k, t) = held
    BY <1>2 DEF Held
  <1>4. /\ v \in Entry /\ v.tokens <= FullOf(f) /\ 0 <= Refill(f, v, now)
        /\ \A s \in Instant : Covered(f, v, spent[b][s], s)
    <2>1. CASE b \in DOMAIN buckets
      BY <1>1, <2>1 DEF LateInv
    <2>2. CASE b \notin DOMAIN buckets
      <3>1. v \in Entry /\ v.tokens = FullOf(f) /\ v.at = t
        BY <1>1, <2>2 DEF Fresh, Entry
      <3>2. now \in Instant
        BY DEF LateInv
      <3> HIDE DEF v
      <3>3. Refill(f, v, t) = FullOf(f)
        <4>1. (t - t) * Capacity[f] = 0
          BY <1>1 DEF Instant
        <4> QED BY <1>1, <3>1, <4>1 DEF Refill
      <3>4. 0 <= Refill(f, v, now)
        BY <1>1, <3>1, <3>2, <3>3, Refills
      <3>5. ASSUME NEW s \in Instant PROVE Covered(f, v, spent[b][s], s)
        <4>1. spent[b][s] = 0
          BY <1>1, <2>2 DEF LateInv
        <4>2. s <= t => Refill(f, v, s) <= FullOf(f)
          BY <1>1, <3>1, <3>3, Refills
        <4>3. s \in Int /\ t \in Int
          BY DEF Instant
        <4> QED BY <3>1, <4>1, <4>2, <4>3, Refills DEF Covered
      <3> QED BY <1>1, <3>1, <3>4, <3>5
    <2> QED BY <2>1, <2>2
  <1> HIDE DEF v
  <1>5. held \in Int /\ held <= FullOf(f)
    BY <1>1, <1>4, Refills DEF Least
  <1>6. PICK cost \in Nat :
          /\ cost = 0 \/ cost <= held
          /\ buckets' = Store(buckets, b, held - cost, t)
          /\ spent' = [spent EXCEPT ![b] =
               [s \in Instant |-> IF s <= t THEN @[s] + cost ELSE @[s]]]
    <2>1. CASE /\ held >= Per[f]
               /\ buckets' = Store(buckets, b, held - Per[f], t)
               /\ spent' = [spent EXCEPT ![b] =
                    [s \in Instant |-> IF s <= t THEN @[s] + Per[f] ELSE @[s]]]
      BY <1>1, <1>5, <2>1
    <2>2. CASE buckets' = Store(buckets, b, held, t) /\ UNCHANGED spent
      <3>1. held - 0 = held
        BY <1>5
      <3> DEFINE m == spent[b]
      <3>4. m \in [Instant -> Nat]
        BY <1>1 DEF LateInv
      <3> HIDE DEF m
      <3>5. \A s \in Instant : (IF s <= t THEN m[s] + 0 ELSE m[s]) = m[s]
        BY <3>4
      <3>6. m = [s \in Instant |-> IF s <= t THEN m[s] + 0 ELSE m[s]]
        BY <3>4, <3>5
      <3>2. spent[b] = [s \in Instant |-> IF s <= t THEN spent[b][s] + 0 ELSE spent[b][s]]
        BY <3>6 DEF m
      <3>3. spent' = [spent EXCEPT ![b] =
                       [s \in Instant |-> IF s <= t THEN @[s] + 0 ELSE @[s]]]
        BY <1>1, <2>2, <3>2 DEF LateInv
      <3> QED BY <2>2, <3>1, <3>3
    <2> QED BY <1>2, <1>3, <2>1, <2>2 DEF TryTake
  <1> DEFINE w == [tokens |-> held - cost, at |-> t]
  <1>7. w \in Entry /\ w.tokens = held - cost /\ w.at = t /\ w.tokens <= FullOf(f)
    BY <1>1, <1>5 DEF Entry
  <1>8. /\ DOMAIN buckets' = DOMAIN buckets \cup {b} /\ buckets'[b] = w
        /\ \A x \in DOMAIN buckets \ {b} : buckets'[x] = buckets[x]
    BY <1>6 DEF Store
  <1>9. /\ \A s \in Instant :
             spent'[b][s] = IF s <= t THEN spent[b][s] + cost ELSE spent[b][s]
        /\ \A x \in Bucket \ {b} : spent'[x] = spent[x]
        /\ spent' \in [Bucket -> [Instant -> Nat]]
    <2>1. spent[b] \in [Instant -> Nat]
      BY <1>1 DEF LateInv
    <2>2. [s \in Instant |-> IF s <= t THEN spent[b][s] + cost ELSE spent[b][s]]
            \in [Instant -> Nat]
      BY <2>1
    <2> QED BY <1>1, <1>6, <2>2 DEF LateInv
  <1> HIDE DEF w, b
  <1>10. 0 <= Refill(f, w, now)
    <2>1. now \in Instant /\ now \in Int /\ t \in Int
      BY DEF LateInv, Instant
    <2>2. /\ Refill(f, w, now) = Refill(f, w, t) + (now * Capacity[f] - t * Capacity[f])
          /\ Refill(f, v, now) = Refill(f, v, t) + (now * Capacity[f] - t * Capacity[f])
          /\ t * Capacity[f] <= now * Capacity[f]
          /\ now * Capacity[f] \in Int /\ t * Capacity[f] \in Int
          /\ Refill(f, v, t) \in Int
      BY <1>4, <1>7, <2>1, Refills
    <2>3. Refill(f, w, t) = held - cost
      <3>1. (t - t) * Capacity[f] = 0
        BY <1>1, <2>1
      <3> QED BY <1>5, <1>7, <3>1 DEF Refill
    <2>4. held = FullOf(f) \/ held = Refill(f, v, t)
      BY DEF Least
    <2> DEFINE r == Refill(f, v, t)
               tc == t * Capacity[f]
               nc == now * Capacity[f]
               full == FullOf(f)
    <2>5. /\ r \in Int /\ tc \in Int /\ nc \in Int /\ tc <= nc /\ full \in Nat
          /\ 0 <= r + (nc - tc) /\ (held = full \/ held = r)
          /\ Refill(f, w, now) = (held - cost) + (nc - tc)
      BY <1>1, <1>4, <2>2, <2>3, <2>4
    <2> HIDE DEF r, tc, nc, full
    <2> HIDE DEF held
    <2> QED BY <1>5, <1>6, <2>5
  <1>11. \A s \in Instant : Covered(f, w, spent'[b][s], s)
    <2> SUFFICES ASSUME NEW s \in Instant PROVE Covered(f, w, spent'[b][s], s)
      OBVIOUS
    <2>1. spent[b][s] \in Nat
      BY <1>1 DEF LateInv
    <2>2. Covered(f, w, IF s <= t THEN spent[b][s] + cost ELSE spent[b][s], s)
      BY <1>4, <1>7, <2>1, CoveredStays
    <2> QED BY <1>9, <2>2
  <1>12. now' = now
    BY DEF TryTake
  <1>13. \A x \in DOMAIN buckets' :
           /\ buckets'[x] \in Entry /\ buckets'[x].tokens <= FullOf(x[1])
           /\ buckets'[x].at <= now /\ 0 <= Refill(x[1], buckets'[x], now)
           /\ \A s \in Instant : Covered(x[1], buckets'[x], spent'[x][s], s)
    <2> SUFFICES ASSUME NEW x \in DOMAIN buckets'
                 PROVE  /\ buckets'[x] \in Entry /\ buckets'[x].tokens <= FullOf(x[1])
                        /\ buckets'[x].at <= now /\ 0 <= Refill(x[1], buckets'[x], now)
                        /\ \A s \in Instant : Covered(x[1], buckets'[x], spent'[x][s], s)
      OBVIOUS
    <2>1. CASE x = b
      BY <1>1, <1>7, <1>8, <1>10, <1>11, <2>1
    <2>2. CASE x # b
      BY <1>8, <1>9, <2>2 DEF LateInv
    <2> QED BY <2>1, <2>2
  <1>14. \A x \in Bucket \ DOMAIN buckets' : \A s \in Instant : spent'[x][s] = 0
    BY <1>8, <1>9 DEF LateInv
  <1> QED BY <1>1, <1>8, <1>9, <1>12, <1>13, <1>14 DEF LateInv, Refill, Covered, FullOf

LEMMA LateStep ==
  ASSUME Unpruned, LateInv, [Next]_vars
  PROVE  LateInv'
  <1>1. ASSUME NEW f \in Family, NEW k \in Key, NEW t \in Instant, t <= now, TryTake(f, k, t)
        PROVE  LateInv'
    BY <1>1, LateTakeStep
  <1>2. CASE Tick
    <2>1. now' \in Instant /\ now \in Instant /\ now <= now' /\ UNCHANGED <<buckets, spent>>
      BY <1>2, LimiterAssumption DEF LateInv, Tick, Instant
    <2>2. ASSUME NEW b \in DOMAIN buckets
          PROVE  buckets[b].at <= now' /\ 0 <= Refill(b[1], buckets[b], now')
      <3>1. b[1] \in Family /\ buckets[b] \in Entry /\ buckets[b].at <= now
        BY DEF LateInv, Bucket
      <3>2. 0 <= Refill(b[1], buckets[b], now)
        BY DEF LateInv
      <3>3. buckets[b].at \in Int /\ now \in Int /\ now' \in Int
        BY <2>1, <3>1 DEF Entry, Instant
      <3> QED BY <2>1, <3>1, <3>2, <3>3, Refills
    <2> QED BY <2>1, <2>2 DEF LateInv, Refill, Covered, FullOf
  <1>3. CASE UNCHANGED <<now, buckets, spent>>
    BY <1>3 DEF LateInv, Refill, Covered, FullOf
  <1> QED BY <1>1, <1>2, <1>3 DEF Next, TryCountGlobal, vars

(* As long as the map is not thinned out, no caller is granted more in any   *)
(* window than a full bucket and the refill of the window, however long its  *)
(* calls wait for the lock after they read the clock, in whatever order they *)
(* get it, and whatever the families are (try_take).                         *)
THEOREM LateWindow == ASSUME Unpruned PROVE Spec => []WindowBound
  <1>1. Init => LateInv
    BY LimiterAssumption DEF Init, LateInv, Instant
  <1>2. LateInv /\ [Next]_vars => LateInv'
    BY LateStep
  <1>3. LateInv => WindowBound
    <2> SUFFICES ASSUME LateInv, NEW f \in Family, NEW k \in Key, NEW s \in 0 .. now
                 PROVE  spent[<<f, k>>][s] <= FullOf(f) + Capacity[f] * (now - s)
      BY DEF WindowBound
    <2> DEFINE b == <<f, k>>
               c == Capacity[f]
               n == spent[b][s]
    <2>1. /\ b \in Bucket /\ b[1] = f /\ FullOf(f) \in Nat /\ c \in Nat
          /\ now \in Instant /\ s \in Instant /\ n \in Nat
      BY Rates, LimiterAssumption DEF Bucket, LateInv, Instant
    <2>2. s \in Int /\ now \in Int /\ s <= now
      BY <2>1 DEF Instant
    <2>3. /\ c * (now - s) = now * c - s * c /\ s * c <= now * c
          /\ now * c \in Int /\ s * c \in Int
      <3> HIDE DEF c
      <3>1. c * (now - s) = (now - s) * c
        BY <2>1, <2>2, Z3
      <3> QED BY <2>1, <2>2, <3>1, Multiples
    <2>4. CASE b \notin DOMAIN buckets \/ n = 0
      BY <2>1, <2>3, <2>4 DEF LateInv
    <2>5. CASE b \in DOMAIN buckets /\ n # 0
      <3> DEFINE v == buckets[b]
      <3>1. v \in Entry /\ 0 <= Refill(f, v, now) /\ Covered(f, v, n, s)
        BY <2>1, <2>5 DEF LateInv
      <3>2. n + Refill(f, v, s) <= FullOf(f)
        BY <2>5, <3>1 DEF Covered
      <3>3. Refill(f, v, now) = Refill(f, v, s) + (now * c - s * c) /\ Refill(f, v, s) \in Int
        BY <2>1, <3>1, Refills
      <3> HIDE DEF v, c, n
      <3> QED BY <2>1, <2>3, <3>1, <3>2, <3>3 DEF n, c
    <2> QED BY <2>4, <2>5
  <1> QED BY <1>1, <1>2, <1>3, PTL DEF Spec

-----------------------------------------------------------------------------
(* What the prune costs.  A price is p, r and x: times p, a caller is granted *)
(* no more than p full buckets, r for each instant of a window, and x for    *)
(* each time it was forgotten.                                               *)

LEMMA Scaled ==
  ASSUME NEW k \in Nat, NEW a \in Int, NEW b \in Int, a <= b
  PROVE  k * a \in Int /\ k * b \in Int /\ k * a <= k * b
<1>1. k * a = a * k /\ k * b = b * k
  BY Z3
<1> QED
  BY <1>1, Multiples

(* A price covers the prune of a bucket that held l of family f when it was  *)
(* last read, e instants ago: some family g judged that it had refilled.     *)
Pays(f, p, r, x) ==
    /\ p * Capacity[f] <= r
    /\ \A l \in 0 .. FullOf(f), e \in Nat, g \in Charging :
         (e + Lag) * (Capacity[g] * Per[f]) >= Per[g] * (Capacity[g] * Per[f] - l)
           => p * FullOf(f) + r * Lag <= p * l + r * e + x

(* n was granted since s, of a bucket pruned d times since s: by an entry    *)
(* that holds l at m, the latest reading of those that used it; and by now,  *)
(* of a bucket that has no entry.                                            *)
Owed(f, l, m, n, d, s, p, r, x) ==
    n = 0 \/ p * (n + l) <= p * FullOf(f) + r * (m - s) + x * d
Clear(t, n, d, s, p, r, x) == n = 0 \/ p * n + r * Lag <= r * (t - s) + x * d

Reads(f, v, m) ==
    /\ v.at <= m /\ m <= v.at + Lag
    /\ 0 <= Refill(f, v, m) /\ Refill(f, v, m) <= FullOf(f)

Keeps(f, v, m, units, times) ==
    \A p, r, x \in Nat : Pays(f, p, r, x) => \A s \in Instant :
        Owed(f, Refill(f, v, m), m, units[s], times[s], s, p, r, x)
Forgotten(f, t, units, times) ==
    \A p, r, x \in Nat : Pays(f, p, r, x) => \A s \in Instant :
        Clear(t, units[s], times[s], s, p, r, x)

PrunedInv ==
    /\ now \in Instant /\ DOMAIN buckets \subseteq Bucket
    /\ spent \in [Bucket -> [Instant -> Nat]] /\ dropped \in [Bucket -> [Instant -> Nat]]
    /\ \A b \in Bucket : \A s \in Instant : s > now => spent[b][s] = 0
    /\ \A b \in DOMAIN buckets :
         /\ buckets[b] \in Entry
         /\ \E m \in 0 .. now : /\ Reads(b[1], buckets[b], m)
                                /\ Keeps(b[1], buckets[b], m, spent[b], dropped[b])
    /\ \A b \in Bucket \ DOMAIN buckets : Forgotten(b[1], now, spent[b], dropped[b])

(* Whatever the judgement of the prune, a bucket owes at most a full one.    *)
LEMMA OwnPrice ==
  ASSUME NEW f \in Family
  PROVE  /\ Pays(f, 1, Capacity[f], FullOf(f) + Capacity[f] * Lag)
         /\ FullOf(f) + Capacity[f] * Lag \in Nat
<1>1. Capacity[f] \in Nat /\ FullOf(f) \in Nat /\ Lag \in Nat
  BY Rates, LimiterAssumption
<1>2. Capacity[f] * Lag \in Nat
  BY <1>1, ProductNat
<1>3. \A l \in 0 .. FullOf(f), e \in Nat :
        1 * FullOf(f) + Capacity[f] * Lag
          <= 1 * l + Capacity[f] * e + (FullOf(f) + Capacity[f] * Lag)
  <2> SUFFICES ASSUME NEW l \in 0 .. FullOf(f), NEW e \in Nat
               PROVE  1 * FullOf(f) + Capacity[f] * Lag
                        <= 1 * l + Capacity[f] * e + (FullOf(f) + Capacity[f] * Lag)
    OBVIOUS
  <2>1. Capacity[f] * e \in Nat
    BY <1>1, ProductNat
  <2> QED
    BY <1>1, <1>2, <2>1
<1>4. 1 * Capacity[f] <= Capacity[f]
  BY <1>1
<1> QED
  BY <1>1, <1>2, <1>3, <1>4 DEF Pays

(* A bucket of size h judged by one of size g, of which it held l, was       *)
(* refilled in e of p instants, but for what it holds above g.               *)
LEMMA RefilledInPeriod ==
  ASSUME NEW h \in Nat, NEW g \in Nat, NEW e \in Nat, NEW l \in Nat, NEW p \in Nat, NEW z \in Nat,
         l <= h, h - g <= z, l < g, e * g >= p * (g - l)
  PROVE  p * (h - l) <= h * e + p * z
<1>1. l * (h - g) <= g * z
  <2>1. l * (h - g) <= l * z
    BY Scaled
  <2>2. z * l <= z * g
    BY Scaled
  <2>3. z * l = l * z /\ z * g = g * z
    BY Z3
  <2> QED
    BY <2>1, <2>2, <2>3, ProductInt
<1>2. h * (e * g) >= h * (p * (g - l))
  <2>1. e * g \in Int /\ p * (g - l) \in Int
    BY ProductInt
  <2> QED
    BY <2>1, Scaled
<1>3. p * (l * (h - g)) <= p * (g * z)
  <2>1. l * (h - g) \in Int /\ g * z \in Int
    BY ProductInt
  <2> QED
    BY <1>1, <2>1, Scaled
<1>4. /\ g * (p * (h - l)) = h * (p * (g - l)) + p * (l * (h - g))
      /\ g * (h * e + p * z) = h * (e * g) + p * (g * z)
  BY Z3
<1>5. /\ p * (h - l) \in Int /\ h * e + p * z \in Int
      /\ h * (e * g) \in Int /\ h * (p * (g - l)) \in Int
      /\ p * (l * (h - g)) \in Int /\ p * (g * z) \in Int
  BY ProductInt
<1>6. g * (h * e + p * z) >= g * (p * (h - l))
  BY <1>2, <1>3, <1>4, <1>5
<1>7. g \in Nat \ {0}
  OBVIOUS
<1> QED
  BY <1>5, <1>6, <1>7, Cancel

(* Judged by families that have no shorter period than q and no smaller      *)
(* buckets than c, it has refilled at a full bucket in the period of q.      *)
LEMMA SharedPrice ==
  ASSUME NEW f \in Charging, NEW q \in Charging, NEW c \in Charging, Shortest(q), Smallest(c)
  PROVE  LET x == 2 * Lag * FullOf(f) + Per[q] * Per[f] * (Capacity[f] - Capacity[c])
         IN  Pays(f, Per[q], FullOf(f), x) /\ x \in Nat
<1>. DEFINE h == FullOf(f)
            p == Per[q]
            z == Per[f] * (Capacity[f] - Capacity[c])
            x == 2 * Lag * FullOf(f) + Per[q] * Per[f] * (Capacity[f] - Capacity[c])
<1>1. /\ f \in Family /\ q \in Family /\ c \in Family
      /\ Capacity[f] \in Nat /\ Capacity[c] \in Nat /\ Per[f] \in Nat /\ p \in Nat
      /\ h \in Nat /\ Lag \in Nat /\ Capacity[c] <= Capacity[f] /\ p <= Per[f]
  BY Rates, LimiterAssumption DEF Charging, Smallest, Shortest
<1>2. z \in Nat /\ p * z \in Nat /\ Lag * h \in Nat
  BY <1>1, ProductNat
<1>3. x = 2 * (Lag * h) + p * z
  BY <1>1, Z3
<1>4. p * Capacity[f] <= h
  <2>1. Capacity[f] * p <= Capacity[f] * Per[f]
    BY <1>1, Scaled
  <2>2. Capacity[f] * p = p * Capacity[f]
    BY <1>1, Z3
  <2> QED
    BY <2>1, <2>2 DEF FullOf
<1>5. ASSUME NEW l \in 0 .. h, NEW e \in Nat, NEW g \in Charging,
             (e + Lag) * (Capacity[g] * Per[f]) >= Per[g] * (Capacity[g] * Per[f] - l)
      PROVE  p * h + h * Lag <= p * l + h * e + x
  <2>. DEFINE y == Capacity[g] * Per[f]
              E == e + Lag
  <2>1. Capacity[g] \in Nat /\ Per[g] \in Nat /\ Capacity[c] <= Capacity[g] /\ p <= Per[g]
    BY LimiterAssumption DEF Charging, Smallest, Shortest
  <2>2. y \in Nat /\ E \in Nat /\ l \in Nat
    BY <1>1, <2>1, ProductNat
  <2>3. h - y <= z
    <3>1. Per[f] * (Capacity[f] - Capacity[g]) <= Per[f] * (Capacity[f] - Capacity[c])
      BY <1>1, <2>1, Scaled
    <3>2. Per[f] * (Capacity[f] - Capacity[g]) = Capacity[f] * Per[f] - Capacity[g] * Per[f]
      BY <1>1, <2>1, Z3
    <3> QED
      BY <3>1, <3>2 DEF FullOf
  <2>4. E * y >= Per[g] * (y - l)
    BY <1>5
  <2>. HIDE DEF y, E
  <2>5. p * (h - l) <= h * E + p * z
    <3>1. CASE l < y
      <4>1. (y - l) * p <= (y - l) * Per[g]
        BY <1>1, <2>1, <2>2, <3>1, Scaled
      <4>2. (y - l) * p = p * (y - l) /\ (y - l) * Per[g] = Per[g] * (y - l)
        BY <1>1, <2>1, <2>2, Z3
      <4>3. p * (y - l) \in Int /\ Per[g] * (y - l) \in Int /\ E * y \in Int
        BY <1>1, <2>1, <2>2, ProductInt
      <4>4. E * y >= p * (y - l)
        BY <2>4, <4>1, <4>2, <4>3
      <4>. HIDE DEF h, p, z
      <4> QED
        BY <1>1, <1>2, <2>2, <2>3, <3>1, <4>4, RefilledInPeriod
    <3>2. CASE l >= y
      <4>1. h - l <= z /\ h - l \in Int
        BY <1>1, <1>2, <2>2, <2>3, <3>2
      <4>2. p * (h - l) <= p * z /\ p * (h - l) \in Int
        BY <1>1, <1>2, <4>1, Scaled
      <4>3. h * E \in Nat
        BY <1>1, <2>2, ProductNat
      <4> QED
        BY <1>2, <4>2, <4>3
    <3> QED
      BY <1>1, <2>2, <3>1, <3>2
  <2>6. /\ p * (h - l) = p * h - p * l /\ h * E = h * e + Lag * h /\ h * Lag = Lag * h
        /\ p * h \in Int /\ p * l \in Int /\ h * e \in Int
    <3>. HIDE DEF h, p
    <3> QED
      BY <1>1, <2>2, Z3 DEF E
  <2>. HIDE DEF h, p, z, x
  <2> QED
    BY <1>2, <1>3, <2>5, <2>6
<1>6. x \in Nat
  BY <1>2, <1>3
<1>7. Pays(f, p, h, x)
  BY <1>4, <1>5 DEF Pays
<1> QED
  BY <1>6, <1>7

(* The judgement of the prune, by what the bucket held when last read.       *)
LEMMA Judged ==
  ASSUME NEW k \in Int, NEW l \in Int, NEW d \in Int, NEW e \in Int,
         NEW c \in Nat, NEW p \in Nat, NEW o \in Nat,
         k <= l, d <= e, k * p + d * c * o >= (c * p) * o
  PROVE  e * (c * o) >= p * (c * o - l)
<1>. DEFINE y == c * o
<1>1. y \in Nat
  BY ProductNat
<1>2. d * c * o = d * y /\ (c * p) * o = p * y
  BY Z3
<1>. HIDE DEF y
<1>3. k * p <= l * p /\ d * y <= e * y
  BY <1>1, Multiples
<1>4. p * (y - l) = p * y - l * p
  BY <1>1, Z3
<1>5. k * p \in Int /\ l * p \in Int /\ d * y \in Int /\ e * y \in Int /\ p * y \in Int
  BY <1>1, ProductInt
<1>6. e * y >= p * (y - l)
  BY <1>2, <1>3, <1>4, <1>5
<1> QED
  BY <1>6 DEF y

(* A bucket is dropped: its price is paid by one more time it was forgotten. *)
LEMMA DropStep ==
  ASSUME now \in Instant, NEW f \in Family, NEW g \in Charging, NEW v \in Entry,
         NEW t \in Instant, t <= now, NEW m \in 0 .. now, Reads(f, v, m),
         v.tokens * Per[g] + (t - v.at) * Capacity[g] * Per[f] >= FullOf(g) * Per[f],
         NEW units \in [Instant -> Nat], NEW times \in [Instant -> Nat],
         NEW after \in [Instant -> Nat], Keeps(f, v, m, units, times),
         \A s \in Instant : s > now => units[s] = 0,
         \A s \in Instant : s <= now => after[s] = times[s] + 1
  PROVE  Forgotten(f, now, units, after)
<1>. DEFINE l == Refill(f, v, m)
            e == now - m
<1>1. /\ now \in Nat /\ m \in Instant /\ m \in Nat /\ t \in Nat /\ v.at \in Nat /\ v.tokens \in Int
      /\ e \in Nat /\ m <= now
  BY LimiterAssumption DEF Instant, Entry
<1>2. /\ g \in Family /\ Lag \in Nat /\ Capacity[g] \in Nat /\ Per[g] \in Nat /\ Per[f] \in Nat
      /\ Capacity[f] \in Nat /\ FullOf(f) \in Nat
  BY Rates, LimiterAssumption DEF Charging
<1>3. l \in Int /\ 0 <= l /\ l <= FullOf(f)
  BY <1>1, Refills DEF Reads
<1>4. v.tokens <= l
  <2>1. m - v.at \in Nat
    BY <1>1 DEF Reads
  <2>2. (m - v.at) * Capacity[f] \in Nat
    BY <1>2, <2>1, ProductNat
  <2> QED
    BY <1>1, <2>2 DEF Refill
<1>5. t - v.at <= e + Lag
  BY <1>1, <1>2 DEF Reads
<1>6. (e + Lag) * (Capacity[g] * Per[f]) >= Per[g] * (Capacity[g] * Per[f] - l)
  <2>1. FullOf(g) = Capacity[g] * Per[g]
    BY DEF FullOf
  <2>2. t - v.at \in Int /\ e + Lag \in Int
    BY <1>1, <1>2
  <2>3. v.tokens * Per[g] + (t - v.at) * Capacity[g] * Per[f] >= (Capacity[g] * Per[g]) * Per[f]
    BY <2>1
  <2>. HIDE DEF l, e
  <2> QED
    BY <1>1, <1>2, <1>3, <1>4, <1>5, <2>2, <2>3, Judged
<1>. HIDE DEF l, e
<1>7. SUFFICES ASSUME NEW p \in Nat, NEW r \in Nat, NEW x \in Nat, Pays(f, p, r, x), NEW s \in Instant
               PROVE  Clear(now, units[s], after[s], s, p, r, x)
  BY DEF Forgotten
<1>8. p * FullOf(f) + r * Lag <= p * l + r * e + x
  <2>1. l \in 0 .. FullOf(f)
    BY <1>2, <1>3
  <2>2. \A i \in 0 .. FullOf(f), k \in Nat :
          (k + Lag) * (Capacity[g] * Per[f]) >= Per[g] * (Capacity[g] * Per[f] - i)
            => p * FullOf(f) + r * Lag <= p * i + r * k + x
    BY <1>7 DEF Pays
  <2> QED
    BY <1>1, <1>6, <2>1, <2>2
<1>9. Owed(f, l, m, units[s], times[s], s, p, r, x)
  BY <1>7 DEF Keeps, l
<1>10. CASE units[s] = 0
  BY <1>10 DEF Clear
<1>11. CASE units[s] # 0
  <2>. DEFINE n == units[s]
              d == times[s]
  <2>1. n \in Nat /\ d \in Nat /\ s \in Int /\ after[s] = d + 1
    BY <1>1, <1>11 DEF Instant
  <2>2. p * (n + l) <= p * FullOf(f) + r * (m - s) + x * d
    BY <1>9, <1>11 DEF Owed
  <2>. HIDE DEF n, d
  <2>3. /\ p * (n + l) = p * n + p * l /\ x * (d + 1) = x * d + x
        /\ r * (now - s) = r * (m - s) + r * e
        /\ p * n \in Int /\ p * l \in Int /\ x * d \in Int /\ r * (m - s) \in Int /\ r * e \in Int
        /\ p * FullOf(f) \in Int /\ r * Lag \in Int
    <3>1. p * (n + l) = p * n + p * l
      BY <1>3, <2>1, Z3
    <3>2. x * (d + 1) = x * d + x
      BY <2>1, Z3
    <3>3. r * (now - s) = r * (m - s) + r * e
      BY <1>1, <2>1, Z3 DEF e
    <3>4. m - s \in Int
      BY <1>1, <2>1
    <3> QED
      BY <1>1, <1>2, <1>3, <2>1, <3>1, <3>2, <3>3, <3>4, ProductInt
  <2>4. p * n + r * Lag <= r * (now - s) + x * (d + 1)
    BY <1>8, <2>2, <2>3
  <2> QED
    BY <2>1, <2>4 DEF Clear, n, d
<1> QED
  BY <1>10, <1>11

(* A call that read the clock at t finds a bucket without an entry.          *)
LEMMA FreshTake ==
  ASSUME now \in Instant, NEW f \in Family, NEW t \in Instant, t <= now, now - t <= Lag,
         NEW cost \in Nat, cost <= FullOf(f),
         NEW w \in Entry, w.at = t, w.tokens = FullOf(f) - cost,
         NEW units \in [Instant -> Nat], NEW times \in [Instant -> Nat],
         NEW granting \in [Instant -> Nat], Forgotten(f, now, units, times),
         \A s \in Instant : granting[s] = IF s <= t THEN units[s] + cost ELSE units[s]
  PROVE  Reads(f, w, t) /\ Keeps(f, w, t, granting, times)
<1>1. /\ Capacity[f] \in Nat /\ FullOf(f) \in Nat /\ Lag \in Nat /\ t \in Nat /\ now \in Nat
  BY Rates, LimiterAssumption DEF Instant
<1>2. Refill(f, w, t) = FullOf(f) - cost
  <2>1. (t - t) * Capacity[f] = 0
    BY <1>1
  <2> QED
    BY <1>1, <2>1 DEF Refill
<1>3. Reads(f, w, t)
  BY <1>1, <1>2 DEF Reads
<1>4. ASSUME NEW p \in Nat, NEW r \in Nat, NEW x \in Nat, Pays(f, p, r, x), NEW s \in Instant
      PROVE  Owed(f, FullOf(f) - cost, t, granting[s], times[s], s, p, r, x)
  <2>. DEFINE n == units[s]
              d == times[s]
              full == FullOf(f)
              new == granting[s]
  <2>1. n \in Nat /\ d \in Nat /\ s \in Int /\ full \in Nat /\ t - s \in Int /\ new \in Nat
    BY <1>1 DEF Instant
  <2>2. new = IF s <= t THEN n + cost ELSE n
    OBVIOUS
  <2>3. n = 0 \/ p * n + r * Lag <= r * (now - s) + x * d
    BY <1>4 DEF Clear, Forgotten
  <2>. HIDE DEF n, d, full, new
  <2>4. /\ p * n \in Nat /\ r * Lag \in Nat /\ x * d \in Nat /\ p * full \in Nat
        /\ r * (t - s) \in Int /\ p * (n + full) = p * n + p * full
    <3>1. p * (n + full) = p * n + p * full
      BY <2>1, Z3
    <3> QED
      BY <1>1, <2>1, <3>1, ProductNat, ProductInt
  <2>5. r * (now - s) <= r * (t - s) + r * Lag /\ r * (now - s) \in Int
    <3>1. now - s <= (t - s) + Lag /\ now - s \in Int /\ (t - s) + Lag \in Int
      BY <1>1, <2>1
    <3>2. r * (now - s) \in Int /\ r * (now - s) <= r * ((t - s) + Lag)
      BY <3>1, Scaled
    <3>3. r * ((t - s) + Lag) = r * (t - s) + r * Lag
      BY <1>1, <2>1, Z3
    <3> QED
      BY <3>2, <3>3
  <2>6. n # 0 => p * (n + full) <= p * full + r * (t - s) + x * d
    BY <2>3, <2>4, <2>5
  <2>7. s <= t => p * full <= p * full + r * (t - s) + x * d
    <3>1. s <= t => r * (t - s) \in Nat
      BY <1>1, <2>1, ProductNat
    <3> QED
      BY <2>4, <3>1
  <2>8. new = 0 \/ p * (new + (full - cost)) <= p * full + r * (t - s) + x * d
    <3>1. CASE s <= t
      <4>1. new + (full - cost) = n + full
        BY <2>1, <2>2, <3>1
      <4>2. n = 0 => n + full = full
        BY <2>1
      <4> QED
        BY <2>6, <2>7, <3>1, <4>1, <4>2
    <3>2. CASE ~(s <= t) /\ n # 0
      <4>1. new = n /\ new + (full - cost) <= n + full /\ new + (full - cost) \in Int /\ n + full \in Int
        BY <2>1, <2>2, <3>2
      <4>2. /\ p * (new + (full - cost)) <= p * (n + full)
            /\ p * (new + (full - cost)) \in Int
        BY <4>1, Scaled
      <4>3. p * (n + full) \in Int
        BY <2>4
      <4> QED
        BY <2>4, <2>6, <3>2, <4>2, <4>3
    <3>3. CASE ~(s <= t) /\ n = 0
      BY <2>2, <3>3
    <3> QED
      BY <3>1, <3>2, <3>3
  <2> QED
    BY <2>8 DEF Owed, new, full, d
<1> QED
  BY <1>2, <1>3, <1>4 DEF Keeps

(* A call that read the clock at t takes from an entry v, last read at m.    *)
LEMMA EntryTake ==
  ASSUME now \in Instant, NEW f \in Family, NEW v \in Entry, NEW t \in Instant,
         t <= now, now - t <= Lag, NEW m \in Instant, m <= now, Reads(f, v, m),
         NEW cost \in Nat, cost = 0 \/ cost <= Least(FullOf(f), Refill(f, v, t)),
         NEW w \in Entry, w.at = t, w.tokens = Least(FullOf(f), Refill(f, v, t)) - cost,
         NEW units \in [Instant -> Nat], NEW times \in [Instant -> Nat],
         NEW granting \in [Instant -> Nat], Keeps(f, v, m, units, times),
         \A s \in Instant : granting[s] = IF s <= t THEN units[s] + cost ELSE units[s]
  PROVE  \E z \in Instant : z <= now /\ Reads(f, w, z) /\ Keeps(f, w, z, granting, times)
<1>. DEFINE l == Refill(f, v, m)
            z == IF t >= m THEN t ELSE m
            rest == Refill(f, w, z)
            c == Capacity[f]
            full == FullOf(f)
<1>1. /\ c \in Nat /\ full \in Nat /\ Lag \in Nat /\ t \in Nat /\ now \in Nat
      /\ m \in Instant /\ m \in Nat /\ m <= now
  BY Rates, LimiterAssumption DEF Instant
<1>2. l \in Int /\ 0 <= l /\ l <= full
  BY <1>1, Refills DEF Reads
<1>3. /\ Refill(f, v, t) = l + (t * c - m * c) /\ Refill(f, w, m) = Refill(f, w, t) + (m * c - t * c)
      /\ t * c \in Int /\ m * c \in Int /\ (t <= m => t * c <= m * c) /\ (m <= t => m * c <= t * c)
  BY <1>1, Refills
<1>0. PICK held \in Int :
        /\ held = Least(full, Refill(f, v, t))
        /\ cost = 0 \/ cost <= held
        /\ w.tokens = held - cost
  <2>1. Least(full, Refill(f, v, t)) \in Int
    BY <1>1, Refills DEF Least
  <2> QED
    BY <2>1
<1>4. Refill(f, w, t) = held - cost
  <2>1. (t - t) * c = 0
    BY <1>1
  <2> QED
    BY <1>0, <1>1, <2>1 DEF Refill
<1>5. /\ held = IF full <= l + (t * c - m * c) THEN full ELSE l + (t * c - m * c)
      /\ cost = 0 \/ cost <= held
  BY <1>0, <1>3 DEF Least
<1>6. /\ z \in 0 .. now /\ z \in Instant /\ t <= z /\ m <= z /\ z <= t + Lag
  BY <1>1
<1>7. z * c - m * c \in Int /\ (t >= m => z = t) /\ (t < m => z = m)
  BY <1>1, <1>3
<1>. HIDE DEF l, full, z
(* What w holds at z.                                                        *)
<1>8. /\ rest \in Int /\ 0 <= rest /\ rest <= full
      /\ rest + cost <= l + (z * c - m * c)
      /\ rest + cost <= full
  <2>1. CASE t >= m
    <3>1. rest = held - cost /\ z = t
      BY <1>4, <1>7, <2>1
    <3>. DEFINE tc == t * c
                mc == m * c
    <3>2. /\ tc \in Int /\ mc \in Int /\ mc <= tc
          /\ held = IF full <= l + (tc - mc) THEN full ELSE l + (tc - mc)
      BY <1>1, <1>3, <1>5, <2>1
    <3>. HIDE DEF tc, mc, rest
    <3>3. /\ rest \in Int /\ 0 <= rest /\ rest <= full /\ rest + cost <= l + (tc - mc) /\ rest + cost <= full
      BY <1>1, <1>2, <1>5, <3>1, <3>2
    <3> QED
      BY <3>1, <3>3 DEF tc, mc
  <2>2. CASE t < m
    <3>. DEFINE tc == t * c
                mc == m * c
    <3>1. z = m /\ rest = (held - cost) + (mc - tc)
      BY <1>3, <1>4, <1>7, <2>2
    <3>2. /\ tc \in Int /\ mc \in Int /\ tc <= mc
          /\ held = IF full <= l + (tc - mc) THEN full ELSE l + (tc - mc)
      BY <1>1, <1>3, <1>5, <2>2
    <3>. HIDE DEF tc, mc, rest
    <3>3. held = l + (tc - mc)
      BY <1>1, <1>2, <3>2
    <3>4. rest = l - cost
      BY <1>2, <3>1, <3>2, <3>3
    <3>5. cost <= l
      BY <1>2, <1>5, <3>2, <3>3
    <3>6. /\ rest \in Int /\ 0 <= rest /\ rest <= full /\ rest + cost <= l + (mc - mc) /\ rest + cost <= full
      BY <1>1, <1>2, <3>2, <3>4, <3>5
    <3> QED
      BY <3>1, <3>6 DEF mc
  <2> QED
    BY <1>1, <2>1, <2>2
<1>9. Reads(f, w, z)
  BY <1>6, <1>8 DEF Reads, full, rest
<1>. HIDE DEF rest
<1>10. ASSUME NEW p \in Nat, NEW r \in Nat, NEW x \in Nat, Pays(f, p, r, x), NEW s \in Instant
       PROVE  Owed(f, rest, z, granting[s], times[s], s, p, r, x)
  <2>. DEFINE n == units[s]
              d == times[s]
              new == granting[s]
  <2>1. n \in Nat /\ d \in Nat /\ new \in Nat /\ s \in Int /\ z \in Nat
    BY <1>1, <1>6 DEF Instant
  <2>2. new = IF s <= t THEN n + cost ELSE n
    OBVIOUS
  <2>3. n = 0 \/ p * (n + l) <= p * full + r * (m - s) + x * d
    BY <1>10 DEF Keeps, Owed, l, full
  <2>4. p * c <= r
    BY <1>10 DEF Pays
  <2>. HIDE DEF n, d, new
  <2>5. x * d \in Nat /\ p * full \in Nat /\ p * (n + l) \in Int
    <3>1. n + l \in Int
      BY <1>2, <2>1
    <3> QED
      BY <1>1, <2>1, <3>1, ProductNat, ProductInt
(* The refill between the two readings is within r of an instant.            *)
  <2>6. /\ r * (m - s) + p * (z * c - m * c) <= r * (z - s)
        /\ r * (m - s) \in Int /\ r * (z - s) \in Int /\ p * (z * c - m * c) \in Int
    <3>1. z - m \in Nat /\ m - s \in Int /\ z - s \in Int
      BY <1>1, <1>6, <2>1
    <3>2. p * (z * c - m * c) = (p * c) * (z - m)
      BY <1>1, <2>1, Z3
    <3>3. p * c \in Nat
      BY <1>1, ProductNat
    <3>4. (z - m) * (p * c) <= (z - m) * r
      BY <2>4, <3>1, <3>3, Scaled
    <3>5. (z - m) * (p * c) = (p * c) * (z - m) /\ (z - m) * r = r * (z - m)
      BY <3>1, <3>3, Z3
    <3>6. r * (z - s) = r * (m - s) + r * (z - m)
      BY <1>1, <2>1, Z3
    <3>7. r * (m - s) \in Int /\ r * (z - m) \in Int /\ (p * c) * (z - m) \in Int
      BY <3>1, <3>3, ProductInt
    <3> QED
      BY <3>2, <3>4, <3>5, <3>6, <3>7
  <2>7. ASSUME n # 0, NEW u \in Int, u <= n + l + (z * c - m * c)
        PROVE  p * u <= p * full + r * (z - s) + x * d
    <3>. DEFINE gain == z * c - m * c
    <3>1. gain \in Int
      BY <1>7
    <3>. HIDE DEF gain
    <3>2. p * u <= p * (n + l + gain) /\ p * u \in Int
      <4>1. n + l + gain \in Int /\ u <= n + l + gain
        BY <1>2, <2>1, <2>7, <3>1 DEF gain
      <4> QED
        BY <4>1, Scaled
    <3>3. p * (n + l + gain) = p * (n + l) + p * gain
      BY <1>2, <2>1, <3>1, Z3
    <3>4. r * (m - s) + p * gain <= r * (z - s) /\ p * gain \in Int
      BY <2>6 DEF gain
    <3> QED
      BY <2>3, <2>5, <2>6, <2>7, <3>2, <3>3, <3>4
  <2>8. ASSUME s <= t, NEW u \in Int, u <= full
        PROVE  p * u <= p * full + r * (z - s) + x * d
    <3>1. p * u <= p * full /\ p * u \in Int
      BY <1>1, <2>8, Scaled
    <3>2. z - s \in Nat
      BY <1>1, <1>6, <2>1, <2>8
    <3>3. r * (z - s) \in Nat
      BY <3>2, ProductNat
    <3> QED
      BY <2>5, <3>1, <3>3
  <2>9. new = 0 \/ p * (new + rest) <= p * full + r * (z - s) + x * d
    <3>. DEFINE u == new + rest
    <3>1. u \in Int
      BY <1>8, <2>1
    <3>2. CASE n # 0
      <4>1. u <= n + l + (z * c - m * c)
        <5>. DEFINE gain == z * c - m * c
        <5>1. gain \in Int /\ rest + cost <= l + gain
          BY <1>7, <1>8
        <5>. HIDE DEF gain
        <5>2. u <= n + l + gain
          BY <1>2, <1>8, <2>1, <2>2, <5>1
        <5> QED
          BY <5>2 DEF gain
      <4>. HIDE DEF u
      <4>2. p * u <= p * full + r * (z - s) + x * d
        BY <2>7, <3>1, <3>2, <4>1
      <4> QED
        BY <4>2 DEF u
    <3>3. CASE n = 0 /\ s <= t
      <4>1. u <= full
        BY <1>1, <1>8, <2>1, <2>2, <3>3
      <4>. HIDE DEF u
      <4>2. p * u <= p * full + r * (z - s) + x * d
        BY <2>8, <3>1, <3>3, <4>1
      <4> QED
        BY <4>2 DEF u
    <3>4. CASE n = 0 /\ ~(s <= t)
      BY <2>2, <3>4
    <3> QED
      BY <3>2, <3>3, <3>4
  <2> QED
    BY <2>9 DEF Owed, new, full, d
<1>11. Keeps(f, w, z, granting, times)
  BY <1>10 DEF Keeps, rest
<1> QED
  BY <1>6, <1>9, <1>11

(* What a call of family f leaves of the map before it takes.                *)
LEMMA PruneStep ==
  ASSUME PrunedInv, NEW f \in Charging, NEW t \in Instant, t <= now,
         NEW after \in [Bucket -> [Instant -> Nat]],
         \A b \in Bucket : \A s \in Instant : after[b][s] =
           dropped[b][s] + IF b \in Pruned(f, t) /\ s <= now THEN 1 ELSE 0
  PROVE  /\ DOMAIN Tracked(f, t) \subseteq DOMAIN buckets
         /\ \A b \in DOMAIN Tracked(f, t) :
              Tracked(f, t)[b] = buckets[b] /\ after[b] = dropped[b]
         /\ \A b \in Bucket \ DOMAIN Tracked(f, t) : Forgotten(b[1], now, spent[b], after[b])
<1>1. /\ DOMAIN Tracked(f, t) \subseteq DOMAIN buckets
      /\ \A b \in DOMAIN Tracked(f, t) : Tracked(f, t)[b] = buckets[b]
      /\ \A b \in Pruned(f, t) : b \in DOMAIN buckets /\ RefilledBy(f, b, t)
  BY DEF Tracked, Pruned, Restrict
<1>2. ASSUME NEW b \in DOMAIN Tracked(f, t)
      PROVE  after[b] = dropped[b]
  <2>1. b \in Bucket /\ b \notin Pruned(f, t)
    BY <1>1 DEF PrunedInv, Pruned
  <2>2. after[b] \in [Instant -> Nat] /\ dropped[b] \in [Instant -> Nat]
    BY <2>1 DEF PrunedInv
  <2>3. \A s \in Instant : after[b][s] = dropped[b][s]
    BY <2>1, <2>2
  <2> QED
    BY <2>2, <2>3
<1>3. ASSUME NEW b \in Bucket, b \notin DOMAIN buckets
      PROVE  Forgotten(b[1], now, spent[b], after[b])
  <2>1. after[b] \in [Instant -> Nat] /\ dropped[b] \in [Instant -> Nat] /\ b \notin Pruned(f, t)
    BY <1>1, <1>3 DEF PrunedInv
  <2>2. \A s \in Instant : after[b][s] = dropped[b][s]
    BY <2>1
  <2>3. after[b] = dropped[b]
    BY <2>1, <2>2
  <2> QED
    BY <1>3, <2>3 DEF PrunedInv
<1>4. ASSUME NEW b \in Pruned(f, t)
      PROVE  Forgotten(b[1], now, spent[b], after[b])
  <2>1. b \in DOMAIN buckets /\ b \in Bucket /\ RefilledBy(f, b, t) /\ b[1] \in Family
    BY <1>1, <1>4 DEF PrunedInv, Bucket
  <2>2. PICK m \in 0 .. now : /\ Reads(b[1], buckets[b], m)
                              /\ Keeps(b[1], buckets[b], m, spent[b], dropped[b])
    BY <2>1 DEF PrunedInv
  <2>3. /\ buckets[b] \in Entry /\ now \in Instant
        /\ spent[b] \in [Instant -> Nat] /\ dropped[b] \in [Instant -> Nat]
        /\ after[b] \in [Instant -> Nat] /\ \A s \in Instant : s > now => spent[b][s] = 0
    BY <2>1 DEF PrunedInv
  <2>4. \A s \in Instant : s <= now => after[b][s] = dropped[b][s] + 1
    BY <1>4, <2>1
  <2>5. buckets[b].tokens * Per[f] + (t - buckets[b].at) * Capacity[f] * Per[b[1]] >= FullOf(f) * Per[b[1]]
    BY <2>1 DEF RefilledBy
  <2>. DEFINE g == b[1]
              v == buckets[b]
              units == spent[b]
              times == dropped[b]
              more == after[b]
  <2>6. /\ g \in Family /\ v \in Entry /\ units \in [Instant -> Nat] /\ times \in [Instant -> Nat]
        /\ more \in [Instant -> Nat] /\ Reads(g, v, m) /\ Keeps(g, v, m, units, times)
        /\ now \in Instant
        /\ v.tokens * Per[f] + (t - v.at) * Capacity[f] * Per[g] >= FullOf(f) * Per[g]
        /\ \A s \in Instant : s > now => units[s] = 0
        /\ \A s \in Instant : s <= now => more[s] = times[s] + 1
    BY <2>1, <2>2, <2>3, <2>4, <2>5
  <2>. HIDE DEF g, v, units, times, more
  <2>7. Forgotten(g, now, units, more)
    BY <2>6, DropStep
  <2> QED
    BY <2>7 DEF g, units, more
<1> QED
  BY <1>1, <1>2, <1>3, <1>4 DEF Pruned

LEMMA PrunedTake ==
  ASSUME PrunedInv, NEW f \in Family, NEW k \in Key, NEW t \in Instant, t <= now, now - t <= Lag,
         TryTake(f, k, t)
  PROVE  PrunedInv'
<1>. DEFINE b == <<f, k>>
            map == Tracked(f, t)
            v == IF b \in DOMAIN map THEN map[b] ELSE Fresh(f, t)
            held == Least(FullOf(f), Refill(f, v, t))
<1>1. /\ b \in Bucket /\ b[1] = f /\ FullOf(f) \in Nat /\ Per[f] \in Nat /\ Capacity[f] \in Nat
      /\ f \in Charging /\ now \in Instant /\ now' = now
  BY Rates DEF Bucket, Charging, TryTake, PrunedInv
<1>2. PICK after \in [Bucket -> [Instant -> Nat]] :
        /\ dropped' = after
        /\ \A x \in Bucket : \A s \in Instant : after[x][s] =
             dropped[x][s] + IF x \in Pruned(f, t) /\ s <= now THEN 1 ELSE 0
  <2>. DEFINE more == [x \in Bucket |-> [s \in Instant |->
                dropped[x][s] + IF x \in Pruned(f, t) /\ s <= now THEN 1 ELSE 0]]
  <2>1. more \in [Bucket -> [Instant -> Nat]]
    <3>1. \A x \in Bucket : \A s \in Instant :
            dropped[x][s] + (IF x \in Pruned(f, t) /\ s <= now THEN 1 ELSE 0) \in Nat
      <4>1. \A x \in Bucket : \A s \in Instant : dropped[x][s] \in Nat
        BY DEF PrunedInv
      <4> QED
        BY <4>1
    <3> QED
      BY <3>1
  <2>2. dropped' = more
    BY DEF TryTake
  <2> QED
    BY <2>1, <2>2
<1>3. /\ DOMAIN map \subseteq DOMAIN buckets
      /\ \A x \in DOMAIN map : map[x] = buckets[x] /\ after[x] = dropped[x]
      /\ \A x \in Bucket \ DOMAIN map : Forgotten(x[1], now, spent[x], after[x])
  BY <1>1, <1>2, PruneStep
<1>4. v \in Entry /\ Held(map, f, k, t) = held
  <2>1. CASE b \in DOMAIN map
    BY <1>3, <2>1 DEF PrunedInv, Held
  <2>2. CASE b \notin DOMAIN map
    BY <1>1, <2>2 DEF Fresh, Entry, Held
  <2> QED
    BY <2>1, <2>2
<1>. HIDE DEF v, map
<1>5. held \in Int /\ held <= FullOf(f)
  BY <1>1, <1>4, Refills DEF Least
<1>6. PICK cost \in Nat :
        /\ cost = 0 \/ cost <= held
        /\ buckets' = Store(map, b, held - cost, t)
        /\ spent' = [spent EXCEPT ![b] =
             [s \in Instant |-> IF s <= t THEN @[s] + cost ELSE @[s]]]
  <2>1. CASE /\ held >= Per[f]
             /\ buckets' = Store(map, b, held - Per[f], t)
             /\ spent' = [spent EXCEPT ![b] =
                  [s \in Instant |-> IF s <= t THEN @[s] + Per[f] ELSE @[s]]]
    BY <1>1, <1>5, <2>1
  <2>2. CASE buckets' = Store(map, b, held, t) /\ UNCHANGED spent
    <3>1. held - 0 = held
      BY <1>5
    <3>. DEFINE m == spent[b]
    <3>2. m \in [Instant -> Nat]
      BY <1>1 DEF PrunedInv
    <3>. HIDE DEF m
    <3>3. \A s \in Instant : (IF s <= t THEN m[s] + 0 ELSE m[s]) = m[s]
      BY <3>2
    <3>4. m = [s \in Instant |-> IF s <= t THEN m[s] + 0 ELSE m[s]]
      BY <3>2, <3>3
    <3>5. spent[b] = [s \in Instant |-> IF s <= t THEN spent[b][s] + 0 ELSE spent[b][s]]
      BY <3>4 DEF m
    <3>6. spent' = [spent EXCEPT ![b] =
                     [s \in Instant |-> IF s <= t THEN @[s] + 0 ELSE @[s]]]
      BY <1>1, <2>2, <3>5 DEF PrunedInv
    <3> QED
      BY <2>2, <3>1, <3>6
  <2> QED
    BY <1>4, <2>1, <2>2 DEF TryTake, map
<1>. DEFINE w == [tokens |-> held - cost, at |-> t]
<1>7. w \in Entry /\ w.tokens = held - cost /\ w.at = t
  BY <1>1, <1>5 DEF Entry
<1>8. /\ DOMAIN buckets' = DOMAIN map \cup {b} /\ buckets'[b] = w
      /\ \A x \in DOMAIN map \ {b} : buckets'[x] = map[x]
  BY <1>6 DEF Store
<1>9. PICK more \in [Bucket -> [Instant -> Nat]] :
        /\ spent' = more
        /\ \A s \in Instant : more[b][s] = IF s <= t THEN spent[b][s] + cost ELSE spent[b][s]
        /\ \A x \in Bucket \ {b} : more[x] = spent[x]
  <2>1. spent[b] \in [Instant -> Nat]
    BY <1>1 DEF PrunedInv
  <2>2. [s \in Instant |-> IF s <= t THEN spent[b][s] + cost ELSE spent[b][s]]
          \in [Instant -> Nat]
    BY <2>1
  <2>3. /\ \A s \in Instant : spent'[b][s] = IF s <= t THEN spent[b][s] + cost ELSE spent[b][s]
        /\ \A x \in Bucket \ {b} : spent'[x] = spent[x]
        /\ spent' \in [Bucket -> [Instant -> Nat]]
    BY <1>1, <1>6, <2>2 DEF PrunedInv
  <2> QED
    BY <2>3
<1>. HIDE DEF w
(* The entry of the caller.                                                  *)
<1>10. \E z \in 0 .. now : Reads(f, w, z) /\ Keeps(f, w, z, more[b], after[b])
  <2>. DEFINE units == spent[b]
              times == after[b]
              granting == more[b]
  <2>1. /\ units \in [Instant -> Nat] /\ times \in [Instant -> Nat] /\ granting \in [Instant -> Nat]
        /\ \A s \in Instant : granting[s] = IF s <= t THEN units[s] + cost ELSE units[s]
    BY <1>1, <1>2, <1>9 DEF PrunedInv
  <2>2. CASE b \in DOMAIN map
    <3>1. v = buckets[b] /\ b \in DOMAIN buckets /\ after[b] = dropped[b]
      BY <1>3, <2>2 DEF v
    <3>2. PICK m \in 0 .. now : Reads(f, v, m) /\ Keeps(f, v, m, units, times)
      BY <1>1, <3>1 DEF PrunedInv
    <3>. HIDE DEF units, times, granting, b
    <3>3. \E z \in 0 .. now : Reads(f, w, z) /\ Keeps(f, w, z, granting, times)
      <4>1. /\ now \in Instant /\ v \in Entry /\ w \in Entry /\ w.at = t
            /\ cost = 0 \/ cost <= Least(FullOf(f), Refill(f, v, t))
            /\ w.tokens = Least(FullOf(f), Refill(f, v, t)) - cost
        BY <1>1, <1>4, <1>6, <1>7
      <4>. HIDE DEF held, units, times, granting, b, map, v, w
      <4>2. m \in Instant /\ m <= now
        BY <1>1, LimiterAssumption DEF Instant
      <4>3. \E z \in Instant : z <= now /\ Reads(f, w, z) /\ Keeps(f, w, z, granting, times)
        BY <2>1, <3>2, <4>1, <4>2, EntryTake
      <4> QED
        BY <4>3 DEF Instant
    <3> QED
      BY <3>3 DEF granting, times
  <2>3. CASE b \notin DOMAIN map
    <3>1. Forgotten(f, now, units, times)
      BY <1>1, <1>3, <2>3
    <3>2. held = FullOf(f)
      <4>1. v.tokens = FullOf(f) /\ v.at = t
        BY <2>3 DEF v, Fresh
      <4>2. (t - t) * Capacity[f] = 0
        BY <1>1 DEF Instant
      <4>3. Refill(f, v, t) = FullOf(f)
        BY <1>1, <4>1, <4>2 DEF Refill
      <4> QED
        BY <1>1, <4>3 DEF Least
    <3>3. cost <= FullOf(f) /\ w.tokens = FullOf(f) - cost
      BY <1>1, <1>6, <1>7, <3>2
    <3>. HIDE DEF units, times, granting, held, b
    <3>4. Reads(f, w, t) /\ Keeps(f, w, t, granting, times)
      <4>1. now \in Instant /\ w \in Entry /\ w.at = t
        BY <1>1, <1>7
      <4> QED
        BY <2>1, <3>1, <3>3, <4>1, FreshTake
    <3>5. t \in 0 .. now
      BY <1>1 DEF Instant
    <3> QED
      BY <3>4, <3>5 DEF granting, times
  <2> QED
    BY <2>2, <2>3
<1>. HIDE DEF b, held
<1>11. \A x \in Bucket : \A s \in Instant : s > now => more[x][s] = 0
  <2> SUFFICES ASSUME NEW x \in Bucket, NEW s \in Instant, s > now PROVE more[x][s] = 0
    OBVIOUS
  <2>1. spent[x][s] = 0
    BY DEF PrunedInv
  <2>2. ~(s <= t)
    BY <1>1 DEF Instant
  <2> QED
    BY <1>1, <1>9, <2>1, <2>2
<1>12. \A x \in DOMAIN buckets' :
         /\ buckets'[x] \in Entry
         /\ \E m \in 0 .. now : Reads(x[1], buckets'[x], m) /\ Keeps(x[1], buckets'[x], m, more[x], after[x])
  <2> SUFFICES ASSUME NEW x \in DOMAIN buckets'
               PROVE  /\ buckets'[x] \in Entry
                      /\ \E m \in 0 .. now : /\ Reads(x[1], buckets'[x], m)
                                             /\ Keeps(x[1], buckets'[x], m, more[x], after[x])
    OBVIOUS
  <2>1. CASE x = b
    BY <1>1, <1>7, <1>8, <1>10, <2>1
  <2>2. CASE x # b
    <3>1. x \in DOMAIN map /\ buckets'[x] = buckets[x] /\ x \in DOMAIN buckets /\ x \in Bucket
      BY <1>3, <1>8, <2>2 DEF PrunedInv
    <3>2. more[x] = spent[x] /\ after[x] = dropped[x]
      BY <1>3, <1>9, <2>2, <3>1
    <3> QED
      BY <3>1, <3>2 DEF PrunedInv
  <2> QED
    BY <2>1, <2>2
<1>13. \A x \in Bucket \ DOMAIN buckets' : Forgotten(x[1], now, more[x], after[x])
  BY <1>3, <1>8, <1>9
<1>14. DOMAIN buckets' \subseteq Bucket
  BY <1>1, <1>3, <1>8 DEF PrunedInv
<1>15. /\ now' \in Instant /\ DOMAIN buckets' \subseteq Bucket
       /\ spent' \in [Bucket -> [Instant -> Nat]] /\ dropped' \in [Bucket -> [Instant -> Nat]]
       /\ \A x \in Bucket : \A s \in Instant : s > now' => spent'[x][s] = 0
       /\ \A x \in DOMAIN buckets' :
            /\ buckets'[x] \in Entry
            /\ \E m \in 0 .. now' : /\ Reads(x[1], buckets'[x], m)
                                    /\ Keeps(x[1], buckets'[x], m, spent'[x], dropped'[x])
       /\ \A x \in Bucket \ DOMAIN buckets' : Forgotten(x[1], now', spent'[x], dropped'[x])
  BY <1>1, <1>2, <1>9, <1>11, <1>12, <1>13, <1>14
<1> QED
  BY <1>15 DEF PrunedInv, Reads, Keeps, Forgotten, Owed, Clear, Refill, FullOf, Pays, Charging

LEMMA PrunedInit == Init => PrunedInv
<1> SUFFICES ASSUME Init PROVE PrunedInv
  OBVIOUS
<1>1. /\ now = 0 /\ now \in Instant /\ DOMAIN buckets = {}
      /\ spent \in [Bucket -> [Instant -> Nat]] /\ dropped \in [Bucket -> [Instant -> Nat]]
      /\ \A b \in Bucket : \A s \in Instant : spent[b][s] = 0
  BY LimiterAssumption DEF Init, Instant
<1> QED
  BY <1>1 DEF PrunedInv, Forgotten, Clear

LEMMA PrunedTick ==
  ASSUME PrunedInv, Tick
  PROVE  PrunedInv'
<1>1. /\ now \in Instant /\ now' \in Instant /\ now \in Nat /\ now' = now + 1 /\ now' \in Nat
      /\ buckets' = buckets /\ spent' = spent /\ dropped' = dropped
  BY LimiterAssumption DEF PrunedInv, Tick, Instant
<1>2. ASSUME NEW b \in Bucket, b \notin DOMAIN buckets,
             NEW p \in Nat, NEW r \in Nat, NEW x \in Nat, Pays(b[1], p, r, x), NEW s \in Instant
      PROVE  Clear(now', spent[b][s], dropped[b][s], s, p, r, x)
  <2>. DEFINE n == spent[b][s]
              d == dropped[b][s]
  <2>1. n \in Nat /\ d \in Nat /\ s \in Int /\ Lag \in Nat
    BY LimiterAssumption DEF PrunedInv, Instant
  <2>2. n = 0 \/ p * n + r * Lag <= r * (now - s) + x * d
    BY <1>2 DEF PrunedInv, Forgotten, Clear
  <2>. HIDE DEF n, d
  <2>3. r * (now - s) <= r * (now' - s) /\ r * (now - s) \in Int /\ r * (now' - s) \in Int
    BY <1>1, <2>1, Scaled
  <2>4. p * n \in Int /\ r * Lag \in Int /\ x * d \in Int
    BY <2>1, ProductInt
  <2>5. n = 0 \/ p * n + r * Lag <= r * (now' - s) + x * d
    BY <2>2, <2>3, <2>4
  <2> QED
    BY <2>5 DEF Clear, n, d
<1>3. \A b \in Bucket \ DOMAIN buckets : Forgotten(b[1], now', spent[b], dropped[b])
  BY <1>2 DEF Forgotten
<1>4. 0 .. now \subseteq 0 .. now'
  BY <1>1
<1>5. \A s \in Instant : s > now' => s > now
  BY <1>1 DEF Instant
<1>6. /\ now' \in Instant /\ DOMAIN buckets' \subseteq Bucket
      /\ spent' \in [Bucket -> [Instant -> Nat]] /\ dropped' \in [Bucket -> [Instant -> Nat]]
      /\ \A b \in Bucket : \A s \in Instant : s > now' => spent'[b][s] = 0
      /\ \A b \in DOMAIN buckets' :
           /\ buckets'[b] \in Entry
           /\ \E m \in 0 .. now' : /\ Reads(b[1], buckets'[b], m)
                                   /\ Keeps(b[1], buckets'[b], m, spent'[b], dropped'[b])
      /\ \A b \in Bucket \ DOMAIN buckets' : Forgotten(b[1], now', spent'[b], dropped'[b])
  BY <1>1, <1>3, <1>4, <1>5 DEF PrunedInv
<1> QED
  BY <1>6 DEF PrunedInv, Reads, Keeps, Forgotten, Owed, Clear, Refill, FullOf, Pays, Charging

LEMMA PrunedStep == PrunedInv /\ [Next]_vars => PrunedInv'
<1> SUFFICES ASSUME PrunedInv, [Next]_vars PROVE PrunedInv'
  OBVIOUS
<1>1. ASSUME NEW f \in Family, NEW k \in Key, NEW t \in Instant, t <= now, now - t <= Lag,
             TryTake(f, k, t)
      PROVE  PrunedInv'
  BY <1>1, PrunedTake
<1>2. CASE Tick
  BY <1>2, PrunedTick
<1>3. CASE UNCHANGED <<now, buckets, spent, dropped>>
  <2>1. now' = now /\ buckets' = buckets /\ spent' = spent /\ dropped' = dropped
    BY <1>3
  <2>2. /\ now' \in Instant /\ DOMAIN buckets' \subseteq Bucket
        /\ spent' \in [Bucket -> [Instant -> Nat]] /\ dropped' \in [Bucket -> [Instant -> Nat]]
        /\ \A b \in Bucket : \A s \in Instant : s > now' => spent'[b][s] = 0
        /\ \A b \in DOMAIN buckets' :
             /\ buckets'[b] \in Entry
             /\ \E m \in 0 .. now' : /\ Reads(b[1], buckets'[b], m)
                                     /\ Keeps(b[1], buckets'[b], m, spent'[b], dropped'[b])
        /\ \A b \in Bucket \ DOMAIN buckets' : Forgotten(b[1], now', spent'[b], dropped'[b])
    BY <2>1 DEF PrunedInv
  <2> QED
    BY <2>2 DEF PrunedInv, Reads, Keeps, Forgotten, Owed, Clear, Refill, FullOf, Pays, Charging
<1> QED
  BY <1>1, <1>2, <1>3 DEF Next, TryCountGlobal, vars

(* What any price bounds by now.                                             *)
LEMMA Priced ==
  ASSUME PrunedInv, NEW b \in Bucket, NEW s \in 0 .. now,
         NEW p \in Nat, NEW r \in Nat, NEW x \in Nat, Pays(b[1], p, r, x)
  PROVE  p * spent[b][s] <= p * FullOf(b[1]) + r * (now - s) + x * dropped[b][s]
<1>. DEFINE n == spent[b][s]
            d == dropped[b][s]
            full == FullOf(b[1])
<1>1. /\ now \in Nat /\ s \in Nat /\ s \in Instant /\ n \in Nat /\ d \in Nat /\ b[1] \in Family
      /\ Lag \in Nat /\ s <= now
  BY LimiterAssumption DEF PrunedInv, Instant, Bucket
<1>2. full \in Nat
  BY <1>1, Rates
<1>3. now - s \in Nat
  BY <1>1
<1>. HIDE DEF full, n, d
<1>4. /\ p * n \in Nat /\ p * full \in Nat /\ r * (now - s) \in Nat /\ x * d \in Nat /\ r * Lag \in Nat
  BY <1>1, <1>2, <1>3, ProductNat
<1>5. CASE n = 0
  <2>1. p * n = 0
    BY <1>5
  <2> QED
    BY <1>4, <2>1 DEF n, d, full
<1>6. CASE n # 0 /\ b \notin DOMAIN buckets
  <2>1. Clear(now, n, d, s, p, r, x)
    BY <1>1, <1>6 DEF PrunedInv, Forgotten, n, d
  <2>2. p * n + r * Lag <= r * (now - s) + x * d
    BY <1>6, <2>1 DEF Clear
  <2> QED
    BY <1>4, <2>2 DEF n, d, full
<1>7. CASE n # 0 /\ b \in DOMAIN buckets
  <2>1. PICK m \in 0 .. now : /\ Reads(b[1], buckets[b], m)
                              /\ Keeps(b[1], buckets[b], m, spent[b], dropped[b])
    BY <1>7 DEF PrunedInv
  <2>. DEFINE l == Refill(b[1], buckets[b], m)
  <2>2. m \in Instant /\ m \in Nat /\ m <= now /\ buckets[b] \in Entry
    BY <1>1, <1>7, LimiterAssumption DEF PrunedInv, Instant
  <2>3. l \in Int /\ 0 <= l
    BY <1>1, <2>1, <2>2, Refills DEF Reads
  <2>4. p * (n + l) <= p * full + r * (m - s) + x * d
    BY <1>1, <1>7, <2>1 DEF Keeps, Owed, n, d, full
  <2>. HIDE DEF l
  <2>5. p * n <= p * (n + l) /\ p * (n + l) \in Int
    BY <1>1, <2>3, Scaled
  <2>6. r * (m - s) <= r * (now - s) /\ r * (m - s) \in Int
    BY <1>1, <2>2, Scaled
  <2> QED
    BY <1>4, <2>4, <2>5, <2>6 DEF n, d, full
<1> QED
  BY <1>5, <1>6, <1>7

(* What the prune costs a caller's limits, for all families, any wait for    *)
(* the lock and any order of the calls (try_take).                           *)
THEOREM PrunedWindowHolds == Spec => []PrunedWindow
<1>1. PrunedInv => PrunedWindow
  <2> SUFFICES ASSUME PrunedInv, NEW f \in Charging, NEW k \in Key, NEW s \in 0 .. now
               PROVE  LET units == spent[<<f, k>>][s]
                          times == dropped[<<f, k>>][s]
                      IN  /\ units <= FullOf(f) + Capacity[f] * (now - s)
                                        + (FullOf(f) + Capacity[f] * Lag) * times
                          /\ \A q, c \in Charging : Shortest(q) /\ Smallest(c) =>
                               Per[q] * units <= Per[q] * FullOf(f) + FullOf(f) * (now - s)
                                 + (2 * Lag * FullOf(f)
                                      + Per[q] * Per[f] * (Capacity[f] - Capacity[c])) * times
    BY DEF PrunedWindow
  <2>. DEFINE b == <<f, k>>
              units == spent[b][s]
              times == dropped[b][s]
  <2>1. b \in Bucket /\ b[1] = f /\ f \in Family
    BY DEF Bucket, Charging
  <2>2. units \in Nat /\ s \in Instant
    BY <2>1, LimiterAssumption DEF PrunedInv, Instant
  <2>3. units <= FullOf(f) + Capacity[f] * (now - s) + (FullOf(f) + Capacity[f] * Lag) * times
    <3>. DEFINE x == FullOf(f) + Capacity[f] * Lag
    <3>1. Pays(f, 1, Capacity[f], x) /\ x \in Nat /\ Capacity[f] \in Nat /\ FullOf(f) \in Nat
      BY <2>1, OwnPrice, Rates
    <3>. HIDE DEF x
    <3>2. 1 * spent[b][s] <= 1 * FullOf(f) + Capacity[f] * (now - s) + x * dropped[b][s]
      BY <2>1, <3>1, Priced
    <3>3. 1 * units = units /\ 1 * FullOf(f) = FullOf(f)
      BY <2>2, <3>1
    <3> QED
      BY <3>2, <3>3 DEF x
  <2>4. ASSUME NEW q \in Charging, NEW c \in Charging, Shortest(q), Smallest(c)
        PROVE  Per[q] * units <= Per[q] * FullOf(f) + FullOf(f) * (now - s)
                 + (2 * Lag * FullOf(f) + Per[q] * Per[f] * (Capacity[f] - Capacity[c])) * times
    <3>. DEFINE x == 2 * Lag * FullOf(f) + Per[q] * Per[f] * (Capacity[f] - Capacity[c])
    <3>1. Pays(f, Per[q], FullOf(f), x) /\ x \in Nat
      BY <2>4, SharedPrice
    <3>2. Per[q] \in Nat /\ FullOf(f) \in Nat
      BY <2>1, Rates DEF Charging
    <3>. HIDE DEF x
    <3>3. Per[q] * spent[b][s] <= Per[q] * FullOf(f) + FullOf(f) * (now - s) + x * dropped[b][s]
      BY <2>1, <3>1, <3>2, Priced
    <3> QED
      BY <3>3 DEF x
  <2> QED
    BY <2>3, <2>4
<1> QED
  BY <1>1, PrunedInit, PrunedStep, PTL DEF Spec

-----------------------------------------------------------------------------
(* The counter of the day's calls, whatever the buckets do.                  *)

LEMMA DayType == ASSUME NEW t \in Nat, NEW n \in Nat \ {0} PROVE t \div n \in 0 .. t
<1> DEFINE q == t \div n
<1>1. q \in Int /\ q * n <= t /\ t < (q + 1) * n
  BY Z3
<1>2. q >= 0
  BY <1>1, Z3
<1>3. q <= t
  BY <1>1, <1>2, Z3
<1> QED
  BY <1>1, <1>2, <1>3

LEMMA DayGrows ==
  ASSUME NEW t \in Nat, NEW n \in Nat \ {0}
  PROVE  t \div n <= (t + 1) \div n
<1>1. /\ (t \div n) * n <= t /\ t + 1 < ((t + 1) \div n + 1) * n
      /\ t \div n \in Int /\ (t + 1) \div n \in Int
  BY Z3
<1> QED
  BY <1>1, Z3

(* The counter is what its day has granted; days after it have granted       *)
(* nothing, days before it no more than the limit.                           *)
CountInv ==
    /\ now \in Instant
    /\ dayKey \in Instant \cup {-1} /\ dayKey <= Day(now)
    /\ dayCount \in 0 .. DayLimit
    /\ granted \in [Instant -> 0 .. DayLimit]
    /\ dayKey # -1 => granted[dayKey] = dayCount
    /\ \A d \in Instant : d > dayKey => granted[d] = 0

LEMMA CountInit == Init => CountInv
<1> SUFFICES ASSUME Init PROVE CountInv
  OBVIOUS
<1>1. Day(0) = 0
  <2>1. 0 \div DayLength \in 0 .. 0
    BY LimiterAssumption, DayType
  <2> QED
    BY <2>1 DEF Day
<1> QED
  BY <1>1, LimiterAssumption DEF Init, CountInv, Instant

LEMMA CountStep == CountInv /\ [Next]_vars => CountInv'
<1> SUFFICES ASSUME CountInv, [Next]_vars PROVE CountInv'
  OBVIOUS
<1> USE LimiterAssumption
<1>1. now \in Nat /\ DayLength \in Nat \ {0} /\ Day(now) \in Instant
  <2>1. now \in Nat /\ DayLength \in Nat \ {0}
    BY DEF CountInv, Instant
  <2>2. now \div DayLength \in 0 .. now
    BY <2>1, DayType
  <2> QED
    BY <2>1, <2>2 DEF CountInv, Day, Instant
<1>2. CASE TryCountGlobal
  <2>1. now' = now /\ dayKey' = Day(now)
    BY <1>2 DEF TryCountGlobal
  <2>2. Day(now)' = Day(now)
    BY <2>1 DEF Day
  <2>3. granted[Day(now)] = IF Day(now) = dayKey THEN dayCount ELSE 0
    BY <1>1 DEF CountInv, Instant
  <2>4. CASE /\ (IF Day(now) = dayKey THEN dayCount ELSE 0) < DayLimit
             /\ dayCount' = (IF Day(now) = dayKey THEN dayCount ELSE 0) + 1
             /\ granted' = [granted EXCEPT ![Day(now)] = @ + 1]
    BY <1>1, <2>1, <2>2, <2>3, <2>4 DEF CountInv, Instant
  <2>5. CASE /\ dayCount' = (IF Day(now) = dayKey THEN dayCount ELSE 0)
             /\ UNCHANGED granted
    BY <1>1, <2>1, <2>2, <2>3, <2>5 DEF CountInv, Instant
  <2> QED
    BY <1>2, <2>4, <2>5 DEF TryCountGlobal
<1>3. CASE Tick
  <2>1. now' \in Instant /\ UNCHANGED <<dayKey, dayCount, granted>> /\ now' = now + 1
    BY <1>3 DEF CountInv, Tick, Instant
  <2>2. Day(now) <= Day(now)' /\ Day(now)' \in Int
    <3>1. now \div DayLength <= (now + 1) \div DayLength
      BY <1>1, DayGrows
    <3>2. (now + 1) \div DayLength \in 0 .. now + 1
      BY <1>1, DayType
    <3> QED
      BY <1>1, <2>1, <3>1, <3>2 DEF Day
  <2> QED
    BY <1>1, <2>1, <2>2 DEF CountInv, Instant
<1>4. CASE \/ \E f \in Family, k \in Key, t \in Instant : TryTake(f, k, t)
           \/ UNCHANGED vars
  <2>1. UNCHANGED <<now, dayKey, dayCount, granted>>
    BY <1>4 DEF TryTake, vars
  <2>2. Day(now)' = Day(now)
    BY <2>1 DEF Day
  <2> QED
    BY <2>1, <2>2 DEF CountInv
<1> QED
  BY <1>2, <1>3, <1>4 DEF Next

(* No UTC day grants more than its limit of assistant calls, in every        *)
(* interleaving of the counter with ticks and with calls of try_take         *)
(* (try_count_global).                                                       *)
THEOREM DayIsCapped == Spec => []DailyCap
<1>1. CountInv => DailyCap
  BY LimiterAssumption DEF CountInv, DailyCap, Instant
<1> QED
  BY <1>1, CountInit, CountStep, PTL DEF Spec
=============================================================================
