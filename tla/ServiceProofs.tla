--------------------------- MODULE ServiceProofs ---------------------------
(*****************************************************************************)
(* The smaller components of the server, for any number of threads, searches *)
(* and callers and any data: the cache of Freshness and the gate of Geocode  *)
(* hold under every interleaving; a call of the assistant's tools keeps to   *)
(* its own places, results and labels; the comparison of places and the      *)
(* neighborhood analysis rest their verdicts on what the tests say, however  *)
(* many places there are and whatever changes between the queries; and an    *)
(* import of any length and order is normalised into the stays it holds.     *)
(*****************************************************************************)
EXTENDS Freshness, Geocode, AssistantTools, RateComparison, Neighborhood,
        AreaSelection, Report, Normalization, SequenceTheorems, FiniteSetTheorems,
        WellFoundedInduction, TLAPS

-----------------------------------------------------------------------------
(* Freshness.                                                                *)

(* What a thread holds between two of its steps.                             *)
Stage == [at : {"idle", "check", "query", "store", "expiry"}, began : Nat,
          value : Nat \cup {Nothing}]

(* A thread is at most one query old, and what it read from the table no     *)
(* older than itself; once it has stored that, the cache is at most a query   *)
(* older; no expiry is further off than the time to live, two queries and the *)
(* value cached, or the value that a thread not overtaken is about to judge.  *)
AgeInv ==
    /\ instant \in Nat /\ cache \in Nat \cup {Nothing} /\ expires \in Nat
    /\ thread \in [Thread -> Stage]
    /\ expires <= instant + CacheTtl
    /\ cache # Nothing => expires <= cache + CacheTtl + 2 * QueryTime
    /\ \A t \in Thread : thread[t].at # "idle" =>
         thread[t].began <= instant /\ instant <= thread[t].began + QueryTime
    /\ \A t \in Thread : thread[t].at \in {"store", "expiry"} =>
         thread[t].value # Nothing /\ thread[t].began <= thread[t].value /\ thread[t].value <= instant
    /\ \A t \in Thread : thread[t].at = "expiry" =>
         cache # Nothing /\ thread[t].began <= cache + QueryTime
    /\ \A t \in Thread : thread[t].at = "check" =>
         /\ thread[t].value # Nothing
         /\ t \notin overtaken => expires <= thread[t].value + CacheTtl + 2 * QueryTime

LEMMA AgeInvInit == FreshnessInit => AgeInv
  BY FreshnessAssumption DEF FreshnessInit, AgeInv, Free, Nothing, Stage

LEMMA AgeInvStep == AgeInv /\ [FreshnessNext]_freshnessVars => AgeInv'
  <1> SUFFICES ASSUME AgeInv, [FreshnessNext]_freshnessVars PROVE AgeInv'
    OBVIOUS
  <1> USE FreshnessAssumption DEF Nothing, Stands
  <1>f. Free \in Stage /\ Free.at = "idle"
    BY DEF Free, Stage
  <1>1. ASSUME NEW t \in Thread, ReadValue(t)
        PROVE  AgeInv'
    <2>1. PICK stage \in {"query", "check"} :
            /\ stage = IF cache = Nothing THEN "query" ELSE "check"
            /\ thread' = [thread EXCEPT ![t] = [at |-> stage, began |-> instant, value |-> cache]]
      BY <1>1 DEF ReadValue
    <2>2. overtaken' = overtaken \ {t} /\ UNCHANGED <<instant, cache, expires>>
      BY <1>1 DEF ReadValue
    <2>3. [at |-> stage, began |-> instant, value |-> cache] \in Stage
      BY DEF Stage, AgeInv
    <2>4. thread' \in [Thread -> Stage]
      BY <2>1, <2>3 DEF AgeInv
    <2>5. \A u \in Thread : u # t => thread'[u] = thread[u] /\ (u \notin overtaken' => u \notin overtaken)
      BY <2>1, <2>2 DEF AgeInv
    <2>6. /\ thread'[t].at = stage /\ thread'[t].began = instant /\ thread'[t].value = cache
          /\ stage = "check" => cache # Nothing
      BY <2>1 DEF AgeInv
    <2> QED BY <2>2, <2>4, <2>5, <2>6 DEF AgeInv
  <1>2. ASSUME NEW t \in Thread, CheckExpiry(t)
        PROVE  AgeInv'
    <2>1. UNCHANGED <<instant, cache, expires, overtaken>>
      BY <1>2 DEF CheckExpiry
    <2>2. PICK next \in Stage : /\ next.at \in {"idle", "query"}
                                /\ next.at = "query" => next.began = thread[t].began
                                /\ thread' = [thread EXCEPT ![t] = next]
      <3>1. [thread[t] EXCEPT !.at = "query"] \in Stage
        BY DEF AgeInv, Stage
      <3>2. /\ [thread[t] EXCEPT !.at = "query"].at = "query"
            /\ [thread[t] EXCEPT !.at = "query"].began = thread[t].began
        BY DEF AgeInv, Stage
      <3>3. CASE Hits(t)
        BY <1>2, <3>3, <1>f DEF CheckExpiry
      <3>4. CASE ~Hits(t)
        BY <1>2, <3>1, <3>2, <3>4 DEF CheckExpiry
      <3> QED BY <3>3, <3>4
    <2>3. thread[t].at = "check"
      BY <1>2 DEF CheckExpiry
    <2>4. thread' \in [Thread -> Stage]
      BY <2>2 DEF AgeInv
    <2>5. \A u \in Thread : u # t => thread'[u] = thread[u]
      BY <2>2 DEF AgeInv
    <2>6. thread'[t] = next
      BY <2>2 DEF AgeInv
    <2> QED BY <2>1, <2>2, <2>3, <2>4, <2>5, <2>6 DEF AgeInv
  <1>3. ASSUME NEW t \in Thread, Query(t)
        PROVE  AgeInv'
    <2>1. /\ thread[t].at = "query"
          /\ thread' = [thread EXCEPT ![t].at = "store", ![t].value = instant]
          /\ UNCHANGED <<instant, cache, expires, overtaken>>
      BY <1>3 DEF Query
    <2>2. thread' \in [Thread -> Stage]
      BY <2>1 DEF AgeInv, Stage
    <2>3. \A u \in Thread : u # t => thread'[u] = thread[u]
      BY <2>1 DEF AgeInv
    <2>4. thread'[t].at = "store" /\ thread'[t].value = instant /\ thread'[t].began = thread[t].began
      BY <2>1 DEF AgeInv, Stage
    <2> QED BY <2>1, <2>2, <2>3, <2>4 DEF AgeInv
  <1>4. ASSUME NEW t \in Thread, StoreValue(t)
        PROVE  AgeInv'
    <2>1. /\ thread[t].at = "store" /\ cache' = thread[t].value
          /\ thread' = [thread EXCEPT ![t].at = "expiry"]
          /\ UNCHANGED <<instant, expires, overtaken>>
      BY <1>4 DEF StoreValue
    <2>2. /\ thread \in [Thread -> Stage] /\ thread[t] \in Stage
          /\ thread[t].began \in Nat /\ thread[t].value \in Nat \cup {Nothing}
      BY DEF AgeInv, Stage
    <2>3. /\ cache' \in Nat /\ thread[t].began <= cache'
          /\ thread[t].began <= instant /\ instant <= thread[t].began + QueryTime /\ cache' <= instant
      BY <2>1, <2>2 DEF AgeInv
    <2>4. thread' \in [Thread -> Stage]
      BY <2>1, <2>2 DEF Stage
    <2>5. \A u \in Thread : u # t => thread'[u] = thread[u]
      BY <2>1, <2>2
    <2>6. thread'[t].at = "expiry" /\ thread'[t].began = thread[t].began /\ thread'[t].value = thread[t].value
      BY <2>1, <2>2 DEF Stage
    <2>7. expires' <= cache' + CacheTtl + 2 * QueryTime /\ cache' # Nothing
      BY <2>1, <2>2, <2>3 DEF AgeInv
    <2>8. \A u \in Thread : thread'[u].began \in Nat
      BY <2>4 DEF Stage
    <2>9. \A u \in Thread : thread'[u].at # "idle" =>
            thread'[u].began <= instant /\ instant <= thread'[u].began + QueryTime
      BY <2>3, <2>5, <2>6 DEF AgeInv
    <2>10. \A u \in Thread : thread'[u].at = "expiry" => thread'[u].began <= cache' + QueryTime
      <3> SUFFICES ASSUME NEW u \in Thread, thread'[u].at = "expiry"
                   PROVE  thread'[u].began <= cache' + QueryTime
        OBVIOUS
      <3>1. thread'[u].began <= instant /\ thread'[u].began \in Nat
        BY <2>8, <2>9
      <3> QED BY <2>2, <2>3, <3>1 DEF AgeInv
    <2>11. \A u \in Thread : thread'[u].at \in {"store", "expiry"} =>
             /\ thread'[u].value # Nothing
             /\ thread'[u].began <= thread'[u].value /\ thread'[u].value <= instant
      BY <2>1, <2>5, <2>6 DEF AgeInv
    <2>12. \A u \in Thread : thread'[u].at = "check" =>
             /\ thread'[u].value # Nothing
             /\ u \notin overtaken => expires <= thread'[u].value + CacheTtl + 2 * QueryTime
      BY <2>5, <2>6 DEF AgeInv
    <2> QED BY <2>1, <2>3, <2>4, <2>7, <2>9, <2>10, <2>11, <2>12 DEF AgeInv
  <1>5. ASSUME NEW t \in Thread, StoreExpiry(t)
        PROVE  AgeInv'
    <2>1. /\ thread[t].at = "expiry" /\ expires' = instant + CacheTtl
          /\ thread' = [thread EXCEPT ![t] = Free]
          /\ overtaken' = overtaken \cup {u \in Thread : thread[u].at = "check"}
          /\ UNCHANGED <<instant, cache>>
      BY <1>5 DEF StoreExpiry, Expiry
    <2>2. thread[t].began \in Nat
      BY DEF AgeInv, Stage
    <2>3. /\ cache # Nothing /\ thread[t].began <= cache + QueryTime
          /\ instant <= thread[t].began + QueryTime
      BY <2>1 DEF AgeInv
    <2>4. thread' \in [Thread -> Stage]
      BY <2>1, <1>f DEF AgeInv
    <2>5. \A u \in Thread : thread'[u].at # "idle" => thread'[u] = thread[u]
      BY <2>1, <1>f DEF AgeInv
    <2>6. \A u \in Thread : thread'[u].at = "check" => u \in overtaken' /\ thread'[u] = thread[u]
      BY <2>1, <2>5
    <2>7. expires' <= cache' + CacheTtl + 2 * QueryTime /\ expires' \in Nat
      BY <2>1, <2>2, <2>3 DEF AgeInv
    <2> QED BY <2>1, <2>4, <2>5, <2>6, <2>7 DEF AgeInv
  <1>6. CASE Pass
    <2>1. /\ instant' = instant + 1 /\ UNCHANGED <<cache, expires, thread, overtaken>>
          /\ \A t \in Thread : thread[t].at # "idle" => instant - thread[t].began < QueryTime
      BY <1>6 DEF Pass
    <2>2. \A t \in Thread : thread[t].began \in Nat /\ thread[t].value \in Nat \cup {Nothing}
      BY DEF AgeInv, Stage
    <2> QED BY <2>1, <2>2 DEF AgeInv
  <1>7. CASE UNCHANGED freshnessVars
    BY <1>7 DEF freshnessVars, AgeInv
  <1> QED BY <1>1, <1>2, <1>3, <1>4, <1>5, <1>6, <1>7 DEF FreshnessNext

(* However threads interleave between the two reads and between the two      *)
(* assignments of the cache, a call that no other one overtook serves        *)
(* nothing older than the time to live and what two queries may take.        *)
THEOREM FreshEnough == FreshnessSpec => []AgeBound
  <1>1. AgeInv => AgeBound
    <2> SUFFICES ASSUME AgeInv PROVE AgeBound
      OBVIOUS
    <2>1. \A t \in Thread : thread[t].began \in Nat /\ thread[t].value \in Nat \cup {Nothing}
      BY DEF AgeInv, Stage
    <2>2. ASSUME NEW t \in Thread, Hits(t), t \notin overtaken
          PROVE  instant - thread[t].value <= CacheTtl + 2 * QueryTime
      <3>1. instant < expires /\ thread[t].at = "check"
        BY <2>2 DEF Hits, Stands
      <3>2. thread[t].value # Nothing /\ expires <= thread[t].value + CacheTtl + 2 * QueryTime
        BY <2>2, <3>1 DEF AgeInv
      <3>3. instant \in Nat /\ expires \in Nat
        BY DEF AgeInv
      <3> QED BY <2>1, <3>1, <3>2, <3>3, FreshnessAssumption DEF Nothing
    <2>3. ASSUME NEW t \in Thread, Stands(t, "expiry")
          PROVE  instant - thread[t].value <= QueryTime
      <3>1. thread[t].at = "expiry"
        BY <2>3 DEF Stands
      <3>2. /\ thread[t].value # Nothing /\ thread[t].began <= thread[t].value
            /\ instant <= thread[t].began + QueryTime /\ instant \in Nat
        BY <3>1 DEF AgeInv
      <3> QED BY <2>1, <3>2, FreshnessAssumption DEF Nothing
    <2> QED BY <2>2, <2>3, Zenon DEF AgeBound
  <1> QED BY <1>1, AgeInvInit, AgeInvStep, PTL DEF FreshnessSpec

-----------------------------------------------------------------------------
(* Geocode.                                                                  *)

(* What a search holds between two of its steps.                             *)
Stages == {"idle", "gate", "waiting", "upstream", "insert", "conflict", "update", "lost"}
SearchRecord == [at : Stages, began : Nat, slot : Nat, met : Nat \cup {NoRow}]

(* Those asleep until a slot no later than the given moment.                *)
DueBy(moment) == {s \in Search : In(s, "waiting") /\ search[s].slot <= moment}
Asleep == {s \in Search : In(s, "waiting")}

GeocodeType ==
    /\ clock \in Nat /\ gate \in Nat /\ row \in Nat \cup {NoRow} /\ calls \in Nat
    /\ search \in [Search -> SearchRecord]
    /\ MinInterval <= clock /\ row <= clock

(* The slots claimed up to any moment from now on are an interval apart;    *)
(* those of them that are not asleep were called.                            *)
PoliteInv ==
    /\ IsFiniteSet(Asleep)
    /\ (calls + Cardinality(Asleep)) * MinInterval <= gate
    /\ \A moment \in Nat :
         clock <= moment => (calls + Cardinality(DueBy(moment))) * MinInterval <= moment

(* The row a search met is still there, or was old enough for the sweep.     *)
LostInv ==
    \A s \in Search :
      /\ ~In(s, "idle") => search[s].began <= clock /\ clock <= search[s].began + Patience
      /\ In(s, "conflict") \/ In(s, "update") =>
           /\ search[s].met \in Nat
           /\ (row # NoRow /\ search[s].met <= row) \/ search[s].met < search[s].began
      /\ In(s, "lost") => search[s].met < search[s].began

GeocodeInv == GeocodeType /\ PoliteInv /\ LostInv

LEMMA MoreTimes ==
  ASSUME NEW a \in Nat, NEW b \in Nat, NEW m \in Nat, a <= b
  PROVE  a * m <= b * m
  <1>1. PICK c \in Nat : b = a + c
    <2>1. b - a \in Nat /\ b = a + (b - a)
      OBVIOUS
    <2> QED BY <2>1
  <1>2. b * m = a * m + c * m
    BY <1>1
  <1>3. a * m \in Nat /\ c * m \in Nat
    OBVIOUS
  <1> QED BY <1>2, <1>3

LEMMA AtMostByInterval ==
  ASSUME NEW n \in Nat, NEW m \in Nat \ {0}, NEW c \in Nat, m <= c, n * m <= c
  PROVE  n <= 1 + (c - m) \div m
  <1> DEFINE q == (c - m) \div m
  <1>1. q \in Nat /\ c - m < (q + 1) * m
    OBVIOUS
  <1>2. c < (q + 2) * m
    BY <1>1
  <1>3. CASE q + 2 <= n
    <2>1. (q + 2) * m <= n * m
      BY <1>1, <1>3, MoreTimes
    <2>2. n * m \in Nat /\ (q + 2) * m \in Nat
      BY <1>1
    <2> QED BY <1>2, <2>1, <2>2
  <1>4. CASE n < q + 2
    BY <1>1, <1>4
  <1> QED BY <1>1, <1>3, <1>4

LEMMA GeocodeInvHolds == GeocodeInv => GeocodingHolds
  <1> SUFFICES ASSUME GeocodeInv PROVE GeocodingHolds
    OBVIOUS
  <1> USE DEF GeocodeInv
  <1>1. LostOnlyToOld
    BY DEF LostInv, LostOnlyToOld
  <1>2. Polite
    <2>1. /\ clock \in Nat /\ calls \in Nat /\ MinInterval \in Nat \ {0} /\ MinInterval <= clock
      BY GeocodeAssumption DEF GeocodeType
    <2>2. IsFiniteSet(DueBy(clock))
      BY FS_Subset DEF PoliteInv, DueBy, Asleep
    <2>3. Cardinality(DueBy(clock)) \in Nat
      BY <2>2, FS_CardinalityType
    <2>4. (calls + Cardinality(DueBy(clock))) * MinInterval <= clock
      BY <2>1 DEF PoliteInv
    <2>5. calls * MinInterval <= (calls + Cardinality(DueBy(clock))) * MinInterval
      BY <2>1, <2>3, MoreTimes
    <2>6. calls * MinInterval <= clock
      BY <2>1, <2>3, <2>4, <2>5
    <2> QED BY <2>1, <2>6, AtMostByInterval DEF Polite
  <1> QED BY <1>1, <1>2 DEF GeocodingHolds
LEMMA GeocodeInvInit == GeocodeInit => GeocodeInv
  <1> SUFFICES ASSUME GeocodeInit PROVE GeocodeInv
    OBVIOUS
  <1> USE GeocodeAssumption DEF GeocodeInit
  <1>1. Unbegun \in SearchRecord /\ Unbegun.at = "idle"
    BY DEF Unbegun, SearchRecord, Stages, NoRow
  <1>2. GeocodeType
    BY <1>1 DEF GeocodeType, NoRow
  <1>3. Asleep = {} /\ \A moment : DueBy(moment) = {}
    BY <1>1 DEF Asleep, DueBy, In
  <1>4. PoliteInv
    BY <1>3, FS_EmptySet DEF PoliteInv
  <1>5. LostInv
    BY <1>1 DEF LostInv, In
  <1> QED BY <1>2, <1>4, <1>5 DEF GeocodeInv

(* The record of one search is replaced.                                     *)
Becomes(s, r) == search' = [search EXCEPT ![s] = r]

LEMMA BecomesEffect ==
  ASSUME GeocodeType, NEW s \in Search, NEW r \in SearchRecord, Becomes(s, r)
  PROVE  /\ search' \in [Search -> SearchRecord] /\ search'[s] = r
         /\ \A u \in Search : u # s => search'[u] = search[u]
  BY DEF GeocodeType, Becomes

LEMMA ToBecomes ==
  ASSUME GeocodeType, NEW s \in Search, NEW stage \in Stages, To(s, stage)
  PROVE  \E r \in SearchRecord :
           /\ Becomes(s, r) /\ r.at = stage /\ r.began = search[s].began
           /\ r.slot = search[s].slot /\ r.met = search[s].met
  <1> DEFINE r == [search[s] EXCEPT !.at = stage]
  <1>1. search[s] \in SearchRecord
    BY DEF GeocodeType
  <1>2. /\ r \in SearchRecord /\ r.at = stage /\ r.began = search[s].began
        /\ r.slot = search[s].slot /\ r.met = search[s].met
    BY <1>1 DEF SearchRecord
  <1>3. Becomes(s, r)
    BY DEF To, Becomes
  <1> QED BY <1>2, <1>3

(* A step of a search that is not at the gate, asleep, or called.            *)
LEMMA QuietPolite ==
  ASSUME GeocodeInv, NEW s \in Search, NEW r \in SearchRecord, Becomes(s, r),
         ~In(s, "waiting"), r.at # "waiting", UNCHANGED <<clock, gate, calls>>
  PROVE  PoliteInv'
  <1>1. /\ search'[s] = r
        /\ \A u \in Search : u # s => search'[u] = search[u]
    BY BecomesEffect DEF GeocodeInv
  <1>2. Asleep' = Asleep
    BY <1>1 DEF Asleep, In
  <1>3. \A moment : DueBy(moment)' = DueBy(moment)
    BY <1>1 DEF DueBy, In
  <1> QED BY <1>2, <1>3 DEF PoliteInv, GeocodeInv

LEMMA QuietLost ==
  ASSUME GeocodeInv, NEW s \in Search, NEW r \in SearchRecord, Becomes(s, r),
         clock' = clock, row' = row \/ row' = clock,
         \/ r.at = "idle"
         \/ /\ r.began <= clock /\ clock <= r.began + Patience
            /\ r.at \in {"conflict", "update"} =>
                 /\ r.met \in Nat
                 /\ (row' # NoRow /\ r.met <= row') \/ r.met < r.began
            /\ r.at = "lost" => r.met < r.began
  PROVE  LostInv'
  <1>1. /\ search'[s] = r
        /\ \A u \in Search : u # s => search'[u] = search[u]
    BY BecomesEffect DEF GeocodeInv
  <1>2. /\ clock \in Nat /\ row \in Nat \cup {NoRow} /\ row <= clock
        /\ \A u \in Search : search[u].met \in Nat \cup {NoRow} /\ search[u].began \in Nat
    BY DEF GeocodeInv, GeocodeType, SearchRecord
  <1>3. row # NoRow => row' # NoRow /\ row <= row'
    BY <1>2 DEF NoRow
  <1>4. row' \in Nat \cup {NoRow}
    BY <1>2
  <1> SUFFICES ASSUME NEW u \in Search
               PROVE  /\ search'[u].at # "idle" =>
                           search'[u].began <= clock' /\ clock' <= search'[u].began + Patience
                      /\ search'[u].at \in {"conflict", "update"} =>
                           /\ search'[u].met \in Nat
                           /\ \/ row' # NoRow /\ search'[u].met <= row'
                              \/ search'[u].met < search'[u].began
                      /\ search'[u].at = "lost" => search'[u].met < search'[u].began
    BY DEF LostInv, In
  <1>5. CASE u = s
    BY <1>1, <1>5
  <1>6. CASE u # s
    <2>1. search'[u] = search[u]
      BY <1>1, <1>6
    <2>2. /\ search[u].at # "idle" => search[u].began <= clock /\ clock <= search[u].began + Patience
          /\ search[u].at \in {"conflict", "update"} =>
               /\ search[u].met \in Nat
               /\ (row # NoRow /\ search[u].met <= row) \/ search[u].met < search[u].began
          /\ search[u].at = "lost" => search[u].met < search[u].began
      BY DEF GeocodeInv, LostInv, In
    <2>3. row # NoRow /\ search[u].met <= row /\ search[u].met \in Nat
            => row' # NoRow /\ search[u].met <= row'
      BY <1>2, <1>3, <1>4 DEF NoRow
    <2> QED BY <2>1, <2>2, <2>3
  <1> QED BY <1>5, <1>6

LEMMA QuietType ==
  ASSUME GeocodeInv, NEW s \in Search, NEW r \in SearchRecord, Becomes(s, r),
         UNCHANGED <<clock, gate, calls>>, row' = row \/ row' = clock
  PROVE  GeocodeType'
  <1>1. search' \in [Search -> SearchRecord]
    BY BecomesEffect DEF GeocodeInv
  <1> QED BY <1>1 DEF GeocodeInv, GeocodeType

(* Any step of a search but the claim of its slot and its call.              *)
LEMMA QuietStep ==
  ASSUME GeocodeInv, NEW s \in Search, NEW r \in SearchRecord, Becomes(s, r),
         ~In(s, "waiting"), r.at # "waiting", UNCHANGED <<clock, gate, calls>>,
         row' = row \/ row' = clock,
         \/ r.at = "idle"
         \/ /\ r.began <= clock /\ clock <= r.began + Patience
            /\ r.at \in {"conflict", "update"} =>
                 /\ r.met \in Nat
                 /\ (row' # NoRow /\ r.met <= row') \/ r.met < r.began
            /\ r.at = "lost" => r.met < r.began
  PROVE  GeocodeInv'
  BY QuietType, QuietPolite, QuietLost DEF GeocodeInv

LEMMA Began ==
  ASSUME GeocodeInv, NEW s \in Search, ~In(s, "idle")
  PROVE  /\ search[s] \in SearchRecord /\ search[s].began \in Nat
         /\ search[s].began <= clock /\ clock <= search[s].began + Patience
  BY DEF GeocodeInv, GeocodeType, LostInv, SearchRecord

LEMMA BlankRecord == Unbegun \in SearchRecord /\ Unbegun.at = "idle"
  BY DEF Unbegun, SearchRecord, Stages, NoRow

LEMMA ReadCacheStep ==
  ASSUME GeocodeInv, NEW s \in Search, ReadCache(s)
  PROVE  GeocodeInv'
  <1> DEFINE r == [Unbegun EXCEPT !.at = "gate", !.began = clock]
  <1>1. clock \in Nat /\ Patience \in Nat
    BY GeocodeAssumption DEF GeocodeInv, GeocodeType
  <1>2. r \in SearchRecord /\ r.at = "gate" /\ r.began = clock
    BY <1>1 DEF Unbegun, SearchRecord, Stages, NoRow
  <1>3. /\ Becomes(s, r) /\ ~In(s, "waiting")
        /\ UNCHANGED <<clock, gate, calls>> /\ row' = row
    BY DEF ReadCache, Becomes, In
  <1> HIDE DEF r
  <1>4. r.began <= clock /\ clock <= r.began + Patience
    BY <1>1, <1>2
  <1> QED BY <1>2, <1>3, <1>4, QuietStep

LEMMA AnswerStep ==
  ASSUME GeocodeInv, NEW s \in Search, UpstreamAnswers(s)
  PROVE  GeocodeInv'
  <1>1. "insert" \in Stages
    BY DEF Stages
  <1>2. PICK r \in SearchRecord :
          Becomes(s, r) /\ r.at = "insert" /\ r.began = search[s].began
    BY <1>1, ToBecomes DEF UpstreamAnswers, GeocodeInv
  <1>3. /\ ~In(s, "waiting") /\ ~In(s, "idle")
        /\ UNCHANGED <<clock, gate, calls>> /\ row' = row
    BY DEF UpstreamAnswers, In
  <1> QED BY <1>2, <1>3, Began, QuietStep

(* The searches that end.                                                    *)
LEMMA EndStep ==
  ASSUME GeocodeInv, NEW s \in Search, UpstreamFails(s) \/ Report(s)
  PROVE  GeocodeInv'
  <1>1. /\ Becomes(s, Unbegun) /\ ~In(s, "waiting")
        /\ UNCHANGED <<clock, gate, calls>> /\ row' = row
    BY DEF UpstreamFails, Report, In, Becomes
  <1> QED BY <1>1, BlankRecord, QuietStep

LEMMA InsertStep ==
  ASSUME GeocodeInv, NEW s \in Search, Insert(s)
  PROVE  GeocodeInv'
  <1>1. ~In(s, "waiting") /\ ~In(s, "idle") /\ UNCHANGED <<clock, gate, calls>>
    BY DEF Insert, In
  <1>2. CASE row = NoRow /\ row' = clock /\ search' = [search EXCEPT ![s] = Unbegun]
    BY <1>1, <1>2, BlankRecord, QuietStep DEF Becomes
  <1>3. CASE /\ row # NoRow /\ UNCHANGED row
             /\ search' = [search EXCEPT ![s].at = "conflict", ![s].met = row]
    <2> DEFINE r == [search[s] EXCEPT !.at = "conflict", !.met = row]
    <2>1. search[s] \in SearchRecord /\ row \in Nat
      BY <1>3 DEF GeocodeInv, GeocodeType
    <2>2. r \in SearchRecord /\ r.at = "conflict" /\ r.began = search[s].began /\ r.met = row
      BY <2>1 DEF SearchRecord, Stages
    <2>3. Becomes(s, r)
      BY <1>3 DEF Becomes
    <2> HIDE DEF r
    <2>4. r.met <= row'
      BY <1>3, <2>1, <2>2
    <2> QED BY <1>1, <1>3, <2>1, <2>2, <2>3, <2>4, Began, QuietStep
  <1> QED BY <1>2, <1>3 DEF Insert

LEMMA RereadStep ==
  ASSUME GeocodeInv, NEW s \in Search, Reread(s)
  PROVE  GeocodeInv'
  <1>1. ~In(s, "waiting") /\ ~In(s, "idle") /\ UNCHANGED <<clock, gate, calls, row>>
    BY DEF Reread, In
  <1>2. /\ search[s].met \in Nat
        /\ (row # NoRow /\ search[s].met <= row) \/ search[s].met < search[s].began
    BY DEF GeocodeInv, LostInv, Reread
  <1>3. CASE row = NoRow
    <2>1. "lost" \in Stages
      BY DEF Stages
    <2>2. PICK r \in SearchRecord :
            Becomes(s, r) /\ r.at = "lost" /\ r.began = search[s].began /\ r.met = search[s].met
      BY <1>3, <2>1, ToBecomes DEF Reread, GeocodeInv
    <2> QED BY <1>1, <1>2, <1>3, <2>2, Began, QuietStep
  <1>4. CASE row # NoRow
    <2>1. "update" \in Stages
      BY DEF Stages
    <2>2. PICK r \in SearchRecord :
            Becomes(s, r) /\ r.at = "update" /\ r.began = search[s].began /\ r.met = search[s].met
      BY <1>4, <2>1, ToBecomes DEF Reread, GeocodeInv
    <2> QED BY <1>1, <1>2, <1>4, <2>2, Began, QuietStep
  <1> QED BY <1>3, <1>4

LEMMA UpdateStep ==
  ASSUME GeocodeInv, NEW s \in Search, Update(s)
  PROVE  GeocodeInv'
  <1>1. ~In(s, "waiting") /\ ~In(s, "idle") /\ UNCHANGED <<clock, gate, calls>>
    BY DEF Update, In
  <1>2. CASE row = NoRow /\ To(s, "lost") /\ UNCHANGED row
    <2>1. "lost" \in Stages
      BY DEF Stages
    <2>2. PICK r \in SearchRecord :
            Becomes(s, r) /\ r.at = "lost" /\ r.began = search[s].began /\ r.met = search[s].met
      BY <1>2, <2>1, ToBecomes DEF GeocodeInv
    <2>3. search[s].met < search[s].began
      BY <1>2 DEF Update, GeocodeInv, LostInv
    <2> QED BY <1>1, <1>2, <2>2, <2>3, Began, QuietStep
  <1>3. CASE row # NoRow /\ row' = clock /\ search' = [search EXCEPT ![s] = Unbegun]
    BY <1>1, <1>3, BlankRecord, QuietStep DEF Becomes
  <1> QED BY <1>2, <1>3 DEF Update

(* The new slot is an interval later than any before it.                     *)
LEMMA ClaimStep ==
  ASSUME GeocodeInv, NEW s \in Search, Claim(s)
  PROVE  GeocodeInv'
  <1> DEFINE r == [search[s] EXCEPT !.at = "waiting", !.slot = Slot]
  <1>1. /\ clock \in Nat /\ gate \in Nat /\ calls \in Nat /\ MinInterval \in Nat \ {0}
        /\ search[s] \in SearchRecord
    BY GeocodeAssumption DEF GeocodeInv, GeocodeType
  <1>2. Slot \in Nat /\ Slot >= clock /\ Slot >= gate + MinInterval
    BY <1>1 DEF Slot, Latest
  <1>3. r \in SearchRecord /\ r.at = "waiting" /\ r.slot = Slot /\ r.began = search[s].began
    BY <1>1, <1>2 DEF SearchRecord, Stages
  <1>4. /\ Becomes(s, r) /\ In(s, "gate") /\ gate' = Slot
        /\ UNCHANGED <<clock, row, calls>>
    BY DEF Claim, Becomes
  <1> HIDE DEF r
  <1>5. /\ search' \in [Search -> SearchRecord] /\ search'[s] = r
        /\ \A u \in Search : u # s => search'[u] = search[u]
    BY <1>3, <1>4, BecomesEffect DEF GeocodeInv
  <1>6. GeocodeType'
    BY <1>2, <1>4, <1>5 DEF GeocodeInv, GeocodeType
  <1>7. LostInv'
    <2>1. ~In(s, "idle")
      BY <1>4 DEF In
    <2> QED BY <1>3, <1>4, <2>1, Began, QuietLost
  <1>8. PoliteInv'
    <2>1. Asleep' = Asleep \cup {s} /\ s \notin Asleep
      BY <1>3, <1>4, <1>5 DEF Asleep, In
    <2>2. IsFiniteSet(Asleep) /\ (calls + Cardinality(Asleep)) * MinInterval <= gate
      BY DEF GeocodeInv, PoliteInv
    <2>3. IsFiniteSet(Asleep') /\ Cardinality(Asleep') = Cardinality(Asleep) + 1
      BY <2>1, <2>2, FS_AddElement
    <2>4. Cardinality(Asleep) \in Nat
      BY <2>2, FS_CardinalityType
    <2>5. (calls' + Cardinality(Asleep')) * MinInterval <= gate'
      <3>1. (calls + Cardinality(Asleep) + 1) * MinInterval
              = (calls + Cardinality(Asleep)) * MinInterval + MinInterval
        BY <1>1, <2>4
      <3>2. (calls + Cardinality(Asleep)) * MinInterval \in Nat
        BY <1>1, <2>4
      <3> QED BY <1>1, <1>2, <1>4, <2>2, <2>3, <2>4, <3>1, <3>2
    <2>6. ASSUME NEW moment \in Nat, clock' <= moment
          PROVE  (calls' + Cardinality(DueBy(moment)')) * MinInterval <= moment
      <3>1. CASE Slot <= moment
        <4>1. DueBy(moment)' \subseteq Asleep'
          BY DEF DueBy, Asleep
        <4>2. /\ Cardinality(DueBy(moment)') <= Cardinality(Asleep')
              /\ Cardinality(DueBy(moment)') \in Nat /\ Cardinality(Asleep') \in Nat
          BY <2>3, <4>1, FS_Subset, FS_CardinalityType
        <4>3. (calls' + Cardinality(DueBy(moment)')) * MinInterval
                <= (calls' + Cardinality(Asleep')) * MinInterval
          BY <1>1, <1>4, <4>2, MoreTimes
        <4>4. /\ (calls' + Cardinality(DueBy(moment)')) * MinInterval \in Nat
              /\ (calls' + Cardinality(Asleep')) * MinInterval \in Nat
          BY <1>1, <1>4, <4>2
        <4> QED BY <1>2, <1>4, <2>5, <3>1, <4>3, <4>4
      <3>2. CASE moment < Slot
        <4>1. DueBy(moment)' = DueBy(moment)
          BY <1>2, <1>3, <1>4, <1>5, <3>2 DEF DueBy, In
        <4> QED BY <1>4, <2>6, <4>1 DEF GeocodeInv, PoliteInv
      <3> QED BY <1>2, <3>1, <3>2
    <2> QED BY <2>3, <2>5, <2>6 DEF PoliteInv
  <1> QED BY <1>6, <1>7, <1>8 DEF GeocodeInv

(* A call is one slot fewer to wait for.                                     *)
LEMMA CallStep ==
  ASSUME GeocodeInv, NEW s \in Search, Call(s)
  PROVE  GeocodeInv'
  <1>1. "upstream" \in Stages
    BY DEF Stages
  <1>2. PICK r \in SearchRecord :
          Becomes(s, r) /\ r.at = "upstream" /\ r.began = search[s].began
    BY <1>1, ToBecomes DEF Call, GeocodeInv
  <1>3. /\ In(s, "waiting") /\ ~In(s, "idle") /\ search[s].slot <= clock /\ calls' = calls + 1
        /\ UNCHANGED <<clock, gate, row>>
    <2>1. search[s].slot \in Nat /\ clock \in Nat
      BY DEF GeocodeInv, GeocodeType, SearchRecord
    <2> QED BY <2>1 DEF Call, In
  <1>4. /\ search' \in [Search -> SearchRecord] /\ search'[s] = r
        /\ \A u \in Search : u # s => search'[u] = search[u]
    BY <1>2, BecomesEffect DEF GeocodeInv
  <1>5. GeocodeType'
    BY <1>3, <1>4 DEF GeocodeInv, GeocodeType
  <1>6. LostInv'
    BY <1>2, <1>3, Began, QuietLost
  <1>7. calls \in Nat /\ clock \in Nat /\ search[s].slot \in Nat
    BY DEF GeocodeInv, GeocodeType, SearchRecord
  <1>8. PoliteInv'
    <2>1. Asleep' = Asleep \ {s} /\ s \in Asleep /\ IsFiniteSet(Asleep)
      BY <1>2, <1>3, <1>4 DEF Asleep, In, GeocodeInv, PoliteInv
    <2>2. /\ IsFiniteSet(Asleep') /\ Cardinality(Asleep') = Cardinality(Asleep) - 1
          /\ Cardinality(Asleep) \in Nat
      BY <2>1, FS_RemoveElement, FS_CardinalityType
    <2>3. (calls' + Cardinality(Asleep')) * MinInterval <= gate'
      <3>1. calls' + Cardinality(Asleep') = calls + Cardinality(Asleep)
        BY <1>3, <1>7, <2>2
      <3> QED BY <1>3, <3>1 DEF GeocodeInv, PoliteInv
    <2>4. ASSUME NEW moment \in Nat, clock' <= moment
          PROVE  (calls' + Cardinality(DueBy(moment)')) * MinInterval <= moment
      <3>1. DueBy(moment)' = DueBy(moment) \ {s} /\ s \in DueBy(moment)
        BY <1>2, <1>3, <1>4, <1>7, <2>4 DEF DueBy, In
      <3>2. IsFiniteSet(DueBy(moment))
        BY <2>1, FS_Subset DEF DueBy, Asleep
      <3>3. /\ Cardinality(DueBy(moment)') = Cardinality(DueBy(moment)) - 1
            /\ Cardinality(DueBy(moment)) \in Nat
        BY <3>1, <3>2, FS_RemoveElement, FS_CardinalityType
      <3>4. calls' + Cardinality(DueBy(moment)') = calls + Cardinality(DueBy(moment))
        BY <1>3, <1>7, <3>3
      <3> QED BY <1>3, <2>4, <3>4 DEF GeocodeInv, PoliteInv
    <2> QED BY <2>2, <2>3, <2>4 DEF PoliteInv
  <1> QED BY <1>5, <1>6, <1>8 DEF GeocodeInv

(* What the sweep evicts was there before any search that still runs.        *)
LEMMA EvictStep ==
  ASSUME GeocodeInv, Evict
  PROVE  GeocodeInv'
  <1>1. /\ row # NoRow /\ row < clock - Ttl /\ row' = NoRow
        /\ UNCHANGED <<clock, gate, search, calls>>
    BY DEF Evict, Evictable
  <1>2. GeocodeType' /\ PoliteInv'
    BY <1>1 DEF GeocodeInv, GeocodeType, PoliteInv, Asleep, DueBy, In, NoRow
  <1>3. ASSUME NEW s \in Search, In(s, "conflict") \/ In(s, "update")
        PROVE  search[s].met < search[s].began
    <2>1. /\ search[s].began \in Nat /\ search[s].met \in Nat
          /\ clock <= search[s].began + Patience
      BY <1>3, Began DEF GeocodeInv, LostInv, In
    <2>2. CASE search[s].met <= row
      <3>1. row \in Nat /\ clock \in Nat /\ Ttl \in Nat /\ Patience \in Nat /\ Patience < Ttl
        BY <1>1, GeocodeAssumption DEF GeocodeInv, GeocodeType
      <3> QED BY <1>1, <2>1, <2>2, <3>1
    <2> QED BY <1>3, <2>2 DEF GeocodeInv, LostInv
  <1>4. LostInv'
    BY <1>1, <1>3 DEF GeocodeInv, LostInv, In
  <1> QED BY <1>2, <1>4 DEF GeocodeInv

LEMMA SecondStep ==
  ASSUME GeocodeInv, Second
  PROVE  GeocodeInv'
  <1>1. /\ clock' = clock + 1 /\ UNCHANGED <<gate, row, search, calls>>
        /\ \A s \in Search : ~In(s, "idle") => clock - search[s].began < Patience
    BY DEF Second
  <1>2. clock \in Nat /\ MinInterval \in Nat /\ Patience \in Nat
    BY GeocodeAssumption DEF GeocodeInv, GeocodeType
  <1>3. GeocodeType'
    BY <1>1, <1>2 DEF GeocodeInv, GeocodeType, NoRow
  <1>4. Asleep' = Asleep /\ \A moment : DueBy(moment)' = DueBy(moment)
    BY <1>1 DEF Asleep, DueBy, In
  <1>5. PoliteInv'
    BY <1>1, <1>2, <1>4 DEF GeocodeInv, PoliteInv
  <1>6. \A s \in Search : search[s].began \in Nat
    BY DEF GeocodeInv, GeocodeType, SearchRecord
  <1>7. LostInv'
    BY <1>1, <1>2, <1>6 DEF GeocodeInv, LostInv, In
  <1> QED BY <1>3, <1>5, <1>7 DEF GeocodeInv

LEMMA GeocodeInvStep == GeocodeInv /\ [GeocodeNext]_geocodeVars => GeocodeInv'
  <1>1. GeocodeInv /\ UNCHANGED geocodeVars => GeocodeInv'
    BY DEF geocodeVars, GeocodeInv, GeocodeType, PoliteInv, LostInv, Asleep, DueBy, In
  <1> QED BY <1>1, ReadCacheStep, ClaimStep, CallStep, AnswerStep, EndStep, InsertStep,
             RereadStep, UpdateStep, EvictStep, SecondStep DEF GeocodeNext

(* However many searches wait, no more calls have gone upstream than one an  *)
(* interval since the first slot, and a search loses a cached row only if it *)
(* was there before the search began: never to another search.               *)
THEOREM GeocodingIsPolite == GeocodeSpec => []GeocodingHolds
  BY GeocodeInvInit, GeocodeInvStep, GeocodeInvHolds, PTL DEF GeocodeSpec

-----------------------------------------------------------------------------
(* The assistant's tools: a call's rows are about its own places, its result *)
(* names its own run, and it saves no label twice.                           *)

SectionName == Computed \cup {"commit"}
StepName == {"idle", "reading", "resolving", "clarified", "working", "error", "done"}

PlaceRow ==
    [name : Name, by : Caller \cup {SomeoneBefore}, sensitive : BOOLEAN, gone : BOOLEAN]

Field ==
    {"state", "asked", "known", "reading", "next", "ids", "created", "left", "run", "named",
     "report"}

(* The ids of a call are whatever it was given.                              *)
CallType(r) ==
    /\ r = [f \in Field |-> r[f]]
    /\ r.state \in StepName /\ r.known \in [Name -> Nat] /\ r.reading \in Nat
    /\ r.next \in Nat \ {0} /\ r.left \in Seq(SectionName) /\ r.run \in Nat
    /\ r.named \in Nat /\ r.report \in BOOLEAN

ToolsType ==
    /\ saved \in Seq(PlaceRow)
    /\ kept \in Seq(ToSet(kept))
    /\ work = [c \in Caller |-> work[c]] /\ \A c \in Caller : CallType(work[c])

Mine(c) == {r \in DOMAIN kept : kept[r].by = c}
SectionOf(kind) == IF kind = "run" THEN "commit" ELSE kind
ToRun(c) == work[c].asked.tool \in RunTools /\ ~Inline(c)

(* The rows of a call: none before it works, one of each kind afterwards,    *)
(* and none of a section that is still to come.                              *)
OwnInv(c) ==
    /\ work[c].state # "idle" => work[c].asked \in ToolCall[c]
    /\ work[c].state \in {"idle", "reading", "resolving", "clarified"} => Mine(c) = {}
    /\ work[c].state \in {"reading", "resolving"} => work[c].run = NoRun /\ ~work[c].report
    /\ \A r \in Mine(c) : kept[r].of = ToSet(work[c].ids)
    /\ \A r, s \in Mine(c) : kept[r].kind = kept[s].kind => r = s
    /\ work[c].run # NoRun => work[c].run \in Mine(c) /\ kept[work[c].run].kind = "run"
    /\ work[c].report /\ ~Inline(c) => IsInjective(work[c].ids)
    /\ work[c].state = "working" =>
         /\ IsInjective(work[c].left)
         /\ \A r \in Mine(c) : SectionOf(kept[r].kind) \notin ToSet(work[c].left)
         /\ "commit" \in ToSet(work[c].left) => work[c].asked.tool \in RunTools
         /\ work[c].run # NoRun <=> ToRun(c) /\ "commit" \notin ToSet(work[c].left)
    /\ work[c].state = "done" =>
         work[c].named = work[c].run /\ (work[c].run # NoRun <=> ToRun(c))

(* A name that is not in a call's index stood on no place when the labels    *)
(* were read, and on none that the call has saved since.                     *)
LabelInv(c) ==
    /\ work[c].state \in {"idle", "reading"} => \A p \in DOMAIN saved : saved[p].by # c
    /\ work[c].state = "resolving" =>
         /\ work[c].reading <= Len(saved)
         /\ \A n \in Name : work[c].known[n] = NoPlace =>
              \A p \in DOMAIN saved : Live(p) /\ saved[p].name = n =>
                p > work[c].reading /\ saved[p].by # c

ToolsInv == ToolsType /\ (\A c \in Caller : OwnInv(c) /\ LabelInv(c)) /\ TwinsOnlyByRace

LEMMA ToolsInvHolds == ToolsInv => ToolsHold
<1>. SUFFICES ASSUME ToolsInv PROVE RunIsItsOwn
  BY DEF ToolsInv, ToolsHold
<1>. SUFFICES ASSUME NEW c \in Caller
              PROVE  LET call == work[c]
                         mine == {r \in DOMAIN kept : kept[r].by = c}
                     IN  /\ \A r \in mine : kept[r].of = ToSet(call.ids)
                         /\ \A r, s \in mine : kept[r].kind = kept[s].kind => r = s
                         /\ call.state = "clarified" => mine = {}
                         /\ call.state = "done" =>
                              /\ call.named # NoRun <=> call.asked.tool \in RunTools /\ ~Inline(c)
                              /\ call.named # NoRun =>
                                   call.named \in mine /\ kept[call.named].kind = "run"
                              /\ call.report /\ ~Inline(c) => IsInjective(call.ids)
  BY DEF RunIsItsOwn
<1> QED
  BY DEF ToolsInv, OwnInv, Mine, ToRun

-----------------------------------------------------------------------------
(* Sequences.                                                                *)

LEMMA Appended ==
  ASSUME NEW s, s \in Seq(ToSet(s)), NEW x
  PROVE  /\ Append(s, x) \in Seq(ToSet(Append(s, x)))
         /\ Len(s) \in Nat /\ DOMAIN s = 1 .. Len(s)
         /\ Len(Append(s, x)) = Len(s) + 1 /\ DOMAIN Append(s, x) = 1 .. (Len(s) + 1)
         /\ Append(s, x)[Len(s) + 1] = x
         /\ \A i \in DOMAIN s : Append(s, x)[i] = s[i]
<1>. DEFINE t == Append(s, x)
            S == ToSet(s) \cup {x}
<1>1. s \in Seq(S) /\ x \in S
  BY DEF ToSet
<1>2. t \in Seq(S) /\ Len(t) = Len(s) + 1 /\ Len(s) \in Nat
  BY <1>1
<1>3. t[Len(s) + 1] = x /\ \A i \in 1 .. Len(s) : t[i] = s[i]
  BY <1>1
<1>4. DOMAIN s = 1 .. Len(s) /\ DOMAIN t = 1 .. (Len(s) + 1)
  BY <1>1, <1>2
<1>5. t \in Seq(ToSet(t))
  <2>1. \A i \in 1 .. Len(t) : t[i] \in ToSet(t)
    BY <1>2, <1>4 DEF ToSet
  <2>. HIDE DEF t
  <2> QED
    BY <1>2, <2>1
<1> QED
  BY <1>2, <1>3, <1>4, <1>5

(* Without its head a sequence has the other elements, if none repeats.      *)
LEMMA Shortened ==
  ASSUME NEW S, NEW s \in Seq(S), s # <<>>, IsInjective(s)
  PROVE  /\ Tail(s) \in Seq(S) /\ IsInjective(Tail(s)) /\ Head(s) \in S
         /\ ToSet(Tail(s)) = ToSet(s) \ {Head(s)} /\ Head(s) \in ToSet(s)
<1>1. Tail(s) \in Seq(S) /\ Len(s) \in Nat \ {0} /\ Head(s) = s[1] /\ Len(Tail(s)) = Len(s) - 1
  OBVIOUS
<1>2. \A i \in 1 .. (Len(s) - 1) : Tail(s)[i] = s[i + 1]
  BY <1>1
<1>3. DOMAIN s = 1 .. Len(s) /\ DOMAIN Tail(s) = 1 .. (Len(s) - 1)
  BY <1>1
<1>4. IsInjective(Tail(s))
  BY <1>1, <1>2, <1>3 DEF IsInjective
<1>5. ToSet(Tail(s)) \subseteq ToSet(s) \ {Head(s)}
  BY <1>1, <1>2, <1>3 DEF ToSet, IsInjective
<1>6. ASSUME NEW x \in ToSet(s), x # Head(s) PROVE x \in ToSet(Tail(s))
  <2>1. PICK i \in DOMAIN s : x = s[i]
    BY <1>6 DEF ToSet
  <2>2. i # 1 /\ i - 1 \in 1 .. (Len(s) - 1) /\ Tail(s)[i - 1] = s[i]
    BY <2>1, <1>1, <1>2, <1>3, <1>6
  <2> QED
    BY <2>1, <2>2, <1>3 DEF ToSet
<1>7. Head(s) \in S /\ Head(s) \in ToSet(s)
  BY <1>1, <1>3 DEF ToSet
<1> QED
  BY <1>1, <1>4, <1>5, <1>6, <1>7

(* The sections of a tool.                                                   *)
LEMMA SectionsOfTools ==
  ASSUME NEW tool \in Tool
  PROVE  /\ Sections(tool) \in Seq(SectionName) /\ IsInjective(Sections(tool))
         /\ "commit" \in ToSet(Sections(tool)) <=> tool \in RunTools
<1>1. CASE tool = "analyze"
  BY <1>1 DEF Sections, SectionName, Computed, IsInjective, ToSet, RunTools
<1>2. CASE tool = "compare"
  BY <1>2 DEF Sections, SectionName, Computed, IsInjective, ToSet, RunTools
<1>3. CASE tool = "run_place_analysis"
  BY <1>3 DEF Sections, SectionName, Computed, IsInjective, ToSet, RunTools
<1>4. CASE tool = "explain_analyze"
  BY <1>4 DEF Sections, SectionName, Computed, IsInjective, ToSet, RunTools
<1>5. CASE tool = "explain_compare"
  BY <1>5 DEF Sections, SectionName, Computed, IsInjective, ToSet, RunTools
<1>6. CASE tool = "get_neighborhood_analysis"
  BY <1>6 DEF Sections, SectionName, Computed, IsInjective, ToSet, RunTools
<1>7. CASE tool = "get_incident_details"
  BY <1>7 DEF Sections, SectionName, Computed, IsInjective, ToSet, RunTools
<1>8. CASE tool = "add_place"
  BY <1>8 DEF Sections, SectionName, Computed, IsInjective, ToSet, RunTools
<1>9. CASE tool \in {"select_places", "clear_places"}
  BY <1>9 DEF Sections, SectionName, Computed, IsInjective, ToSet, RunTools
<1> QED
  BY <1>1, <1>2, <1>3, <1>4, <1>5, <1>6, <1>7, <1>8, <1>9 DEF Tool, RunTools

-----------------------------------------------------------------------------
(* Steps.                                                                    *)

LEMMA IdleType ==
  /\ CallType(Idle) /\ Idle.state = "idle" /\ Idle.run = NoRun /\ Idle.report = FALSE
  /\ Idle.reading = 0
<1>1. Idle = [f \in Field |-> Idle[f]]
  BY DEF Idle, Field
<1>2. Idle.known \in [Name -> Nat] /\ Idle.left \in Seq(SectionName) /\ Idle.state = "idle"
  BY DEF Idle, NoPlace
<1>3. Idle.run = NoRun /\ Idle.report = FALSE /\ Idle.reading = 0 /\ Idle.next = 1 /\ Idle.named = NoRun
  BY DEF Idle
<1>4. /\ Idle.reading \in Nat /\ Idle.next \in Nat \ {0}
      /\ Idle.run \in Nat /\ Idle.named \in Nat
  BY DEF Idle, NoRun
<1>5. Idle.state \in StepName /\ Idle.report \in BOOLEAN
  BY DEF Idle, StepName
<1> QED
  BY <1>1, <1>2, <1>3, <1>4, <1>5 DEF CallType

LEMMA ToolsInvInit == ToolInit => ToolsInv
<1>. SUFFICES ASSUME ToolInit PROVE ToolsInv
  OBVIOUS
<1>1. saved \in Seq([name : Name, by : {SomeoneBefore}, sensitive : BOOLEAN, gone : BOOLEAN])
  BY ToolsAssumption DEF ToolInit
<1>2. saved \in Seq(PlaceRow) /\ \A p \in DOMAIN saved : saved[p].by = SomeoneBefore
  <2>. DEFINE R == [name : Name, by : {SomeoneBefore}, sensitive : BOOLEAN, gone : BOOLEAN]
  <2>1. R \subseteq PlaceRow /\ \A r \in R : r.by = SomeoneBefore
    BY DEF PlaceRow
  <2>2. saved \in Seq(R)
    BY <1>1
  <2>. HIDE DEF R
  <2>3. DOMAIN saved = 1 .. Len(saved) /\ \A p \in 1 .. Len(saved) : saved[p] \in R
    BY <2>2
  <2>4. saved \in Seq(PlaceRow)
    BY <2>1, <2>2, <2>3
  <2> QED
    BY <2>1, <2>3, <2>4
<1>3. kept = <<>> /\ kept \in Seq(ToSet(kept)) /\ DOMAIN kept = {}
  BY DEF ToolInit
<1>4. CallType(Idle) /\ Idle.state = "idle" /\ Idle.run = NoRun /\ ~Idle.report
  BY IdleType
<1>5. work = [c \in Caller |-> Idle]
  BY DEF ToolInit
<1>6. ToolsType
  BY <1>2, <1>3, <1>4, <1>5 DEF ToolsType
<1>7. ASSUME NEW c \in Caller PROVE OwnInv(c) /\ LabelInv(c)
  <2>1. work[c] = Idle /\ Mine(c) = {}
    BY <1>3, <1>5 DEF Mine
  <2>2. OwnInv(c)
    BY <2>1, <1>4 DEF OwnInv
  <2>3. LabelInv(c)
    BY <2>1, <1>2, <1>4, ToolsAssumption DEF LabelInv
  <2> QED
    BY <2>2, <2>3
<1>8. TwinsOnlyByRace
  BY <1>2, ToolsAssumption DEF TwinsOnlyByRace
<1> QED
  BY <1>6, <1>7, <1>8 DEF ToolsInv

(* Only caller c goes on, and it keeps at most a row of its own.             *)
Goes(c, call) == work' = [work EXCEPT ![c] = call]

LEMMA CallOf ==
  ASSUME ToolsType, NEW c \in Caller, NEW call, Goes(c, call)
  PROVE  /\ work' = [d \in Caller |-> IF d = c THEN call ELSE work[d]]
         /\ work'[c] = call /\ \A d \in Caller : d # c => work'[d] = work[d]
BY DEF Goes, ToolsType

LEMMA OthersOwn ==
  ASSUME ToolsType, NEW c \in Caller, NEW d \in Caller, c # d, OwnInv(d), work'[d] = work[d],
         kept' = kept \/ \E rec : rec.by = c /\ kept' = Append(kept, rec)
  PROVE  OwnInv(d)'
<1>1. kept \in Seq(ToSet(kept))
  BY DEF ToolsType
<1>2. Mine(d)' = Mine(d) /\ \A r \in Mine(d) : kept'[r] = kept[r]
  <2>1. CASE kept' = kept
    BY <2>1 DEF Mine
  <2>2. ASSUME NEW rec, rec.by = c, kept' = Append(kept, rec)
        PROVE  Mine(d)' = Mine(d) /\ \A r \in Mine(d) : kept'[r] = kept[r]
    BY <2>2, <1>1, Appended DEF Mine
  <2> QED
    BY <2>1, <2>2
<1>3. Inline(d)' <=> Inline(d)
  BY DEF Inline
<1>4. ToRun(d)' <=> ToRun(d)
  BY <1>3 DEF ToRun
<1> QED
  BY <1>2, <1>3, <1>4 DEF OwnInv

LEMMA OthersLabels ==
  ASSUME ToolsType, NEW c \in Caller, NEW d \in Caller, c # d, LabelInv(d), work'[d] = work[d],
         saved' = saved \/ \E rec \in PlaceRow : rec.by = c /\ saved' = Append(saved, rec)
  PROVE  LabelInv(d)'
<1>1. saved \in Seq(PlaceRow)
  BY DEF ToolsType
<1>2. CASE saved' = saved
  BY <1>2 DEF LabelInv, Live
<1>3. ASSUME NEW rec \in PlaceRow, rec.by = c, saved' = Append(saved, rec) PROVE LabelInv(d)'
  <2>1. /\ Len(saved) \in Nat /\ DOMAIN saved = 1 .. Len(saved) /\ Len(saved') = Len(saved) + 1
        /\ DOMAIN saved' = 1 .. (Len(saved) + 1) /\ saved'[Len(saved) + 1] = rec
        /\ \A p \in DOMAIN saved : saved'[p] = saved[p]
    BY <1>1, <1>3
  <2>0. rec.by # d
    BY <1>3
  <2>2. \A p \in DOMAIN saved' : saved'[p].by = d => p \in DOMAIN saved
    BY <2>0, <2>1
  <2>3. work[d].state \in {"idle", "reading"} => \A p \in DOMAIN saved' : saved'[p].by # d
    BY <2>1, <2>2 DEF LabelInv
  <2>4. ASSUME work[d].state = "resolving"
        PROVE  /\ work[d].reading <= Len(saved')
               /\ \A n \in Name : work[d].known[n] = NoPlace =>
                    \A p \in DOMAIN saved' : Live(p)' /\ saved'[p].name = n =>
                      p > work[d].reading /\ saved'[p].by # d
    <3>1. work[d].reading <= Len(saved) /\ work[d].reading \in Nat
      BY <2>4 DEF LabelInv, ToolsType, CallType
    <3>2. ASSUME NEW n \in Name, work[d].known[n] = NoPlace, NEW p \in DOMAIN saved',
                 Live(p)', saved'[p].name = n
          PROVE  p > work[d].reading /\ saved'[p].by # d
      <4>1. CASE p = Len(saved) + 1
        BY <4>1, <3>1, <2>1, <2>0
      <4>2. CASE p # Len(saved) + 1
        <5>1. p \in DOMAIN saved /\ saved'[p] = saved[p]
          BY <4>2, <2>1
        <5>2. Live(p) /\ saved[p].name = n
          BY <5>1, <3>2 DEF Live
        <5> QED
          BY <5>1, <5>2, <3>2, <2>4 DEF LabelInv
      <4> QED
        BY <4>1, <4>2
    <3> QED
      BY <3>1, <3>2, <2>1
  <2> QED
    BY <2>3, <2>4 DEF LabelInv
<1> QED
  BY <1>2, <1>3

(* A step of c within the sections, or before the names are resolved, that   *)
(* saves no place.                                                           *)
LEMMA UnsavedStep ==
  ASSUME ToolsInv, NEW c \in Caller, NEW call, Goes(c, call), CallType(call), UNCHANGED saved,
         kept' = kept \/ \E rec : rec.by = c /\ kept' = Append(kept, rec),
         OwnInv(c)', LabelInv(c)', call.reading = work[c].reading \/ work[c].state \in {"idle", "reading"}
  PROVE  ToolsInv'
<1>0. ToolsType
  BY DEF ToolsInv
<1>1. /\ work' = [d \in Caller |-> IF d = c THEN call ELSE work[d]]
      /\ work'[c] = call /\ \A d \in Caller : d # c => work'[d] = work[d]
  BY <1>0, CallOf
<1>2. kept' \in Seq(ToSet(kept'))
  <2>1. kept \in Seq(ToSet(kept))
    BY <1>0 DEF ToolsType
  <2>2. ASSUME NEW rec, kept' = Append(kept, rec) PROVE kept' \in Seq(ToSet(kept'))
    BY <2>1, <2>2, Appended
  <2> QED
    BY <2>1, <2>2
<1>3. ToolsType'
  BY <1>0, <1>1, <1>2 DEF ToolsType
<1>4. ASSUME NEW d \in Caller PROVE OwnInv(d)' /\ LabelInv(d)'
  BY <1>0, <1>1, OthersOwn, OthersLabels DEF ToolsInv
<1>5. TwinsOnlyByRace'
  <2>1. CASE work[c].state \in {"idle", "reading"}
    <3>1. \A p \in DOMAIN saved : saved[p].by # c
      BY <2>1 DEF ToolsInv, LabelInv
    <3> QED
      BY <3>1, <1>1 DEF ToolsInv, TwinsOnlyByRace, Live
  <2>2. CASE call.reading = work[c].reading
    BY <2>2, <1>1 DEF ToolsInv, TwinsOnlyByRace, Live
  <2> QED
    BY <2>1, <2>2
<1> QED
  BY <1>3, <1>4, <1>5 DEF ToolsInv

(* A call whose names are resolved, or that has none.                        *)
LEMMA ResolvedCall ==
  ASSUME NEW call, CallType(call), call.asked.tool \in Tool, NEW ids
  PROVE  LET r == Resolved(call, ids)
         IN  /\ CallType(r) /\ r.asked = call.asked /\ r.ids = ids /\ r.run = call.run
             /\ r.report = call.report /\ r.reading = call.reading
             /\ r.state = "clarified" \/ (r.state = "working" /\ r.left = Sections(call.asked.tool))
<1>. DEFINE known == [call EXCEPT !.ids = ids, !.left = Sections(call.asked.tool),
                                  !.known = Idle.known]
<1>1. Sections(call.asked.tool) \in Seq(SectionName) /\ Idle.known \in [Name -> Nat]
  BY SectionsOfTools DEF Idle, NoPlace
<1>2. /\ CallType(known) /\ known.asked = call.asked /\ known.ids = ids
      /\ known.run = call.run /\ known.report = call.report
      /\ known.reading = call.reading /\ known.left = Sections(call.asked.tool)
  BY <1>1 DEF CallType, Field
<1>. HIDE DEF known
<1>3. CASE Unclear(call.asked, ids)
  <2>. DEFINE r == [known EXCEPT !.state = "clarified", !.left = <<>>]
  <2>1. Resolved(call, ids) = r
    BY <1>3 DEF Resolved, known
  <2>2. r = [f \in Field |-> r[f]]
    BY <1>2 DEF CallType, Field
  <2>3. /\ r.state = "clarified" /\ r.left = <<>> /\ r.known = known.known
        /\ r.reading = known.reading /\ r.next = known.next /\ r.run = known.run
        /\ r.named = known.named /\ r.report = known.report
        /\ r.asked = known.asked /\ r.ids = known.ids
    BY <1>2 DEF CallType, Field
  <2>. HIDE DEF r
  <2>4. <<>> \in Seq(SectionName)
    OBVIOUS
  <2>5. CallType(r)
    BY <2>2, <2>3, <2>4, <1>2 DEF CallType, StepName
  <2> QED
    BY <2>1, <2>3, <2>5, <1>2
<1>4. CASE ~Unclear(call.asked, ids)
  <2>1. Resolved(call, ids) = [known EXCEPT !.state = "working"]
    BY <1>4 DEF Resolved, known
  <2> QED
    BY <2>1, <1>1, <1>2 DEF CallType, Field, StepName
<1> QED
  BY <1>3, <1>4

LEMMA ResolvedStep ==
  ASSUME ToolsInv, NEW c \in Caller, NEW call, CallType(call), call.asked \in ToolCall[c],
         call.run = NoRun, ~call.report, Mine(c) = {}, NEW ids,
         call.reading = work[c].reading \/ work[c].state \in {"idle", "reading"},
         Goes(c, Resolved(call, ids)), UNCHANGED <<saved, kept>>
  PROVE  ToolsInv'
<1>. DEFINE r == Resolved(call, ids)
<1>1. call.asked.tool \in Tool
  BY ToolsAssumption
<1>2. /\ CallType(r) /\ r.asked = call.asked /\ r.ids = ids /\ r.run = NoRun
      /\ ~r.report /\ r.reading = call.reading
      /\ r.state = "clarified" \/ (r.state = "working" /\ r.left = Sections(call.asked.tool))
  BY <1>1, ResolvedCall
<1>. HIDE DEF r
<1>3. work'[c] = r /\ Goes(c, r)
  BY CallOf DEF ToolsInv, r
<1>4. Mine(c)' = {}
  BY DEF Mine
<1>5. OwnInv(c)'
  <2>1. CASE r.state = "clarified"
    BY <2>1, <1>2, <1>3, <1>4 DEF OwnInv
  <2>2. CASE r.state = "working"
    <3>1. IsInjective(r.left) /\ ("commit" \in ToSet(r.left) <=> r.asked.tool \in RunTools)
      BY <2>2, <1>1, <1>2, SectionsOfTools
    <3>2. ToRun(c)' => r.asked.tool \in RunTools
      BY <1>3 DEF ToRun
    <3> QED
      BY <2>2, <1>2, <1>3, <1>4, <3>1, <3>2 DEF OwnInv
  <2> QED
    BY <2>1, <2>2, <1>2
<1>6. LabelInv(c)'
  BY <1>2, <1>3 DEF LabelInv
<1> QED
  BY <1>2, <1>3, <1>5, <1>6, UnsavedStep

LEMMA IdleCall ==
  ASSUME NEW asked
  PROVE  LET call == [Idle EXCEPT !.asked = asked]
         IN  /\ CallType(call) /\ call.asked = asked /\ call.run = NoRun /\ ~call.report
             /\ call.reading = 0
BY IdleType DEF CallType, Field

LEMMA BeginToolStep ==
  ASSUME ToolsInv, NEW c \in Caller, BeginTool(c) PROVE ToolsInv'
<1>. PICK asked \in ToolCall[c] :
       LET call == [Idle EXCEPT !.asked = asked]
           ids == IF asked.tool \in {"explain_analyze", "explain_compare"}
                  THEN Once(asked.ids) ELSE asked.ids
       IN  work' = [work EXCEPT ![c] =
             CASE asked.queries # <<>> -> [call EXCEPT !.state = "reading"]
               [] asked.queries = <<>> /\ asked.tool = "select_places" ->
                      [call EXCEPT !.state = "clarified"]
               [] OTHER -> Resolved(call, ids)]
  BY DEF BeginTool
<1>. DEFINE call == [Idle EXCEPT !.asked = asked]
            ids == IF asked.tool \in {"explain_analyze", "explain_compare"}
                   THEN Once(asked.ids) ELSE asked.ids
<1>1. /\ CallType(call) /\ call.asked = asked /\ call.run = NoRun /\ ~call.report
      /\ call.reading = 0
  BY IdleCall
<1>2. work[c].state = "idle" /\ UNCHANGED <<saved, kept>>
  BY DEF BeginTool
<1>3. Mine(c) = {} /\ \A p \in DOMAIN saved : saved[p].by # c
  BY <1>2 DEF ToolsInv, OwnInv, LabelInv
<1>4. \/ Goes(c, [call EXCEPT !.state = "reading"])
      \/ Goes(c, [call EXCEPT !.state = "clarified"])
      \/ Goes(c, Resolved(call, ids))
  BY DEF Goes
<1>. HIDE DEF call, ids
<1>5. ASSUME NEW state \in {"reading", "clarified"}, Goes(c, [call EXCEPT !.state = state])
      PROVE  ToolsInv'
  <2>. DEFINE r == [call EXCEPT !.state = state]
  <2>1. /\ CallType(r) /\ r.asked = asked /\ r.run = NoRun /\ ~r.report /\ r.state = state
        /\ r.reading = 0
    BY <1>1, <1>5 DEF CallType, Field, StepName
  <2>. HIDE DEF r
  <2>2. work'[c] = r /\ Goes(c, r)
    BY <1>5, CallOf DEF ToolsInv, r
  <2>3. Mine(c)' = {}
    BY <1>2, <1>3 DEF Mine
  <2>4. OwnInv(c)'
    BY <2>1, <2>2, <2>3, <1>5 DEF OwnInv
  <2>5. LabelInv(c)'
    BY <2>1, <2>2, <1>2, <1>3, <1>5 DEF LabelInv
  <2> QED
    BY <2>1, <2>2, <2>4, <2>5, <1>2, UnsavedStep
<1>6. CASE Goes(c, Resolved(call, ids))
  BY <1>1, <1>2, <1>3, <1>6, ResolvedStep
<1> QED
  BY <1>4, <1>5, <1>6

(* Before the names are resolved no row is kept.                             *)
LEMMA QuietOwn ==
  ASSUME ToolsInv, NEW c \in Caller, work[c].state \in {"reading", "resolving"},
         NEW r, work'[c] = r, r.asked = work[c].asked, r.state \in {"resolving", "error"},
         r.run = work[c].run, r.report = work[c].report, UNCHANGED kept
  PROVE  OwnInv(c)'
<1>1. Mine(c)' = {}
  BY DEF ToolsInv, OwnInv, Mine
<1>2. r.asked \in ToolCall[c] /\ r.run = NoRun /\ ~r.report
  BY DEF ToolsInv, OwnInv
<1> QED
  BY <1>1, <1>2 DEF OwnInv

LEMMA ReadLabelsStep ==
  ASSUME ToolsInv, NEW c \in Caller, ReadLabels(c) PROVE ToolsInv'
<1>. PICK known \in [Name -> {NoPlace} \cup {p \in DOMAIN saved : Live(p)}] :
         /\ \A n \in Name :
              LET named == {p \in DOMAIN saved : Live(p) /\ saved[p].name = n}
              IN  IF named = {} THEN known[n] = NoPlace ELSE known[n] \in named
         /\ work' = [work EXCEPT ![c].state = "resolving", ![c].known = known,
                                   ![c].reading = Len(saved)]
  BY DEF ReadLabels
<1>1. work[c].state = "reading" /\ UNCHANGED <<saved, kept>>
  BY DEF ReadLabels
<1>2. ToolsType /\ CallType(work[c])
  BY DEF ToolsInv, ToolsType
<1>3. saved \in Seq(PlaceRow) /\ Len(saved) \in Nat /\ DOMAIN saved = 1 .. Len(saved)
  BY <1>2 DEF ToolsType
<1>. DEFINE r == [work[c] EXCEPT !.state = "resolving", !.known = known, !.reading = Len(saved)]
<1>4. Goes(c, r)
  BY DEF Goes
<1>5. known \in [Name -> Nat]
  BY <1>3 DEF NoPlace
<1>6. /\ CallType(r) /\ r.state = "resolving" /\ r.asked = work[c].asked /\ r.known = known
      /\ r.reading = Len(saved) /\ r.run = work[c].run /\ r.report = work[c].report
  BY <1>2, <1>3, <1>5 DEF CallType, Field, StepName
<1>. HIDE DEF r
<1>7. work'[c] = r
  BY <1>2, <1>4, CallOf
<1>8. OwnInv(c)'
  BY <1>1, <1>6, <1>7, QuietOwn
<1>9. LabelInv(c)'
  <2>1. ASSUME NEW n \in Name, known[n] = NoPlace, NEW p \in DOMAIN saved, Live(p),
               saved[p].name = n
        PROVE  FALSE
    BY <2>1, <1>3 DEF NoPlace
  <2> QED
    <3>1. work'[c].state = "resolving" /\ work'[c].known = known /\ work'[c].reading = Len(saved)
      BY <1>6, <1>7
    <3>2. \A n \in Name, p \in DOMAIN saved : known[n] = NoPlace => ~(Live(p)' /\ saved[p].name = n)
      BY <2>1, <1>1 DEF Live
    <3>3. saved' = saved /\ Len(saved) <= Len(saved)
      BY <1>1, <1>3
    <3> QED
      BY <3>1, <3>2, <3>3 DEF LabelInv
<1> QED
  BY <1>1, <1>4, <1>6, <1>8, <1>9, UnsavedStep

(* A name is passed over, found in the index, or lost.                       *)
LEMMA PassedStep ==
  ASSUME ToolsInv, NEW c \in Caller, work[c].state = "resolving", UNCHANGED <<saved, kept>>,
         NEW r, CallType(r), Goes(c, r), r.asked = work[c].asked, r.known = work[c].known,
         r.state \in {"resolving", "error"}, r.reading = work[c].reading,
         r.run = work[c].run, r.report = work[c].report
  PROVE  ToolsInv'
<1>1. work'[c] = r
  BY CallOf DEF ToolsInv
<1>2. OwnInv(c)'
  BY <1>1, QuietOwn
<1>3. LabelInv(c)'
  BY <1>1 DEF ToolsInv, LabelInv, Live
<1> QED
  BY <1>2, <1>3, UnsavedStep

LEMMA NamesStep ==
  ASSUME ToolsInv, NEW c \in Caller, Match(c) \/ LostMatch(c) \/ Unresolved(c)
  PROVE  ToolsInv'
<1>1. ToolsType /\ CallType(work[c])
  BY DEF ToolsInv, ToolsType
<1>2. work[c].state = "resolving" /\ UNCHANGED <<saved, kept>>
  BY DEF Match, LostMatch, Unresolved, Resolving
<1>3. CASE Match(c)
  <2>. DEFINE r == [work[c] EXCEPT !.next = @ + 1, !.ids = Append(@, work[c].known[Wanted(c)])]
  <2>1. Goes(c, r)
    BY <1>3 DEF Match, Goes
  <2>2. r = [f \in Field |-> r[f]]
    BY <1>1 DEF CallType, Field
  <2>3. /\ r.asked = work[c].asked /\ r.known = work[c].known /\ r.next = work[c].next + 1
        /\ r.state = work[c].state /\ r.reading = work[c].reading /\ r.left = work[c].left
        /\ r.run = work[c].run /\ r.report = work[c].report /\ r.named = work[c].named
    BY <1>1 DEF CallType, Field
  <2>. HIDE DEF r
  <2>4. CallType(r)
    BY <1>1, <2>2, <2>3 DEF CallType
  <2> QED
    BY <2>1, <2>3, <2>4, <1>2, PassedStep
<1>4. CASE LostMatch(c)
  <2>. DEFINE r == [work[c] EXCEPT !.state = "error"]
  <2>1. Goes(c, r)
    BY <1>4 DEF LostMatch, Goes
  <2>2. /\ CallType(r) /\ r.asked = work[c].asked /\ r.known = work[c].known
        /\ r.state = "error" /\ r.reading = work[c].reading
        /\ r.run = work[c].run /\ r.report = work[c].report
    BY <1>1 DEF CallType, Field, StepName
  <2>. HIDE DEF r
  <2> QED
    BY <2>1, <2>2, <1>2, PassedStep
<1>5. CASE Unresolved(c)
  <2>. DEFINE r == [work[c] EXCEPT !.next = @ + 1]
  <2>1. Goes(c, r)
    BY <1>5 DEF Unresolved, Goes
  <2>2. /\ CallType(r) /\ r.asked = work[c].asked /\ r.known = work[c].known
        /\ r.state = "resolving" /\ r.reading = work[c].reading
        /\ r.run = work[c].run /\ r.report = work[c].report
    BY <1>1, <1>2 DEF CallType, Field
  <2>. HIDE DEF r
  <2> QED
    BY <2>1, <2>2, <1>2, PassedStep
<1> QED
  BY <1>3, <1>4, <1>5

LEMMA AllResolvedStep ==
  ASSUME ToolsInv, NEW c \in Caller, AllResolved(c) PROVE ToolsInv'
<1>1. ToolsType /\ CallType(work[c])
  BY DEF ToolsInv, ToolsType
<1>2. work[c].state = "resolving" /\ UNCHANGED <<saved, kept>>
  BY DEF AllResolved
<1>3. /\ work[c].asked \in ToolCall[c] /\ work[c].run = NoRun /\ ~work[c].report
      /\ Mine(c) = {}
  BY <1>2 DEF ToolsInv, OwnInv
<1>4. Goes(c, Resolved(work[c], work[c].ids))
  BY DEF AllResolved, Goes
<1> QED
  BY <1>1, <1>2, <1>3, <1>4, ResolvedStep

(* A name that is not in the index is saved.                                 *)
LEMMA SavePlaceStep ==
  ASSUME ToolsInv, NEW c \in Caller, SavePlace(c) PROVE ToolsInv'
<1>1. ToolsType /\ CallType(work[c])
  BY DEF ToolsInv, ToolsType
<1>2. /\ work[c].state = "resolving" /\ UNCHANGED kept /\ work[c].known[Wanted(c)] = NoPlace
      /\ saved' = Append(saved, NewPlace(c))
  BY DEF SavePlace, Resolving
<1>3. Wanted(c) \in Name
  <2>1. work[c].asked \in ToolCall[c]
    BY <1>2 DEF ToolsInv, OwnInv
  <2>2. work[c].asked.queries \in Seq(Name)
    BY <2>1, ToolsAssumption
  <2>3. work[c].next \in 1 .. Len(work[c].asked.queries)
    <3>1. work[c].next <= Len(work[c].asked.queries)
      BY DEF SavePlace, Resolving
    <3>2. work[c].next \in Nat \ {0}
      BY <1>1 DEF CallType
    <3> QED
      BY <2>2, <3>1, <3>2
  <2> QED
    BY <2>2, <2>3 DEF Wanted
<1>4. NewPlace(c) \in PlaceRow /\ NewPlace(c).by = c /\ NewPlace(c).name = Wanted(c)
  BY <1>3 DEF NewPlace, PlaceRow
<1>. DEFINE l == Len(saved) + 1
<1>5. /\ saved' \in Seq(PlaceRow) /\ Len(saved) \in Nat /\ DOMAIN saved = 1 .. Len(saved)
      /\ Len(saved') = l /\ DOMAIN saved' = 1 .. l /\ saved'[l] = NewPlace(c)
      /\ \A p \in DOMAIN saved : saved'[p] = saved[p]
  BY <1>1, <1>2, <1>4 DEF ToolsType
<1>. DEFINE r == [work[c] EXCEPT !.next = @ + 1, !.known[Wanted(c)] = l,
                                 !.ids = Append(@, l), !.created = @ \cup {l}]
<1>6. Goes(c, r)
  BY <1>5 DEF SavePlace, Goes
<1>7. r = [f \in Field |-> r[f]]
  BY <1>1 DEF CallType, Field
<1>8. /\ r.asked = work[c].asked /\ r.known = [work[c].known EXCEPT ![Wanted(c)] = l]
      /\ r.next = work[c].next + 1 /\ r.state = "resolving" /\ r.reading = work[c].reading
      /\ r.left = work[c].left /\ r.run = work[c].run /\ r.report = work[c].report
      /\ r.named = work[c].named
  BY <1>1, <1>2 DEF CallType, Field
<1>. HIDE DEF r
<1>9. CallType(r)
  <2>1. r.known \in [Name -> Nat]
    <3>1. work[c].known \in [Name -> Nat] /\ l \in Nat
      BY <1>1, <1>5 DEF CallType
    <3>. HIDE DEF l
    <3> QED
      BY <1>8, <3>1
  <2> QED
    BY <2>1, <1>1, <1>2, <1>7, <1>8 DEF CallType
<1>10. work'[c] = r /\ \A d \in Caller : d # c => work'[d] = work[d]
  BY <1>1, <1>6, CallOf
<1>11. work' = [d \in Caller |-> IF d = c THEN r ELSE work[d]]
  BY <1>1, <1>6, CallOf
<1>12. ToolsType'
  BY <1>1, <1>2, <1>5, <1>9, <1>11 DEF ToolsType
<1>13. OwnInv(c)'
  BY <1>2, <1>8, <1>10, QuietOwn
(* What stood there when the labels were read, or was saved by c, has no     *)
(* name outside the index.                                                   *)
<1>14. /\ work[c].reading <= Len(saved) /\ work[c].reading \in Nat
       /\ \A n \in Name : work[c].known[n] = NoPlace =>
            \A p \in DOMAIN saved : Live(p) /\ saved[p].name = n =>
              p > work[c].reading /\ saved[p].by # c
  BY <1>1, <1>2 DEF ToolsInv, LabelInv, CallType
<1>15. LabelInv(c)'
  <2>1. ASSUME NEW n \in Name, r.known[n] = NoPlace, NEW p \in DOMAIN saved', Live(p)',
               saved'[p].name = n
        PROVE  p > r.reading /\ saved'[p].by # c
    <3>1. n # Wanted(c) /\ work[c].known[n] = NoPlace
      BY <2>1, <1>1, <1>3, <1>5, <1>8 DEF CallType, NoPlace
    <3>2. p \in DOMAIN saved /\ saved'[p] = saved[p]
      BY <2>1, <3>1, <1>4, <1>5
    <3>3. Live(p) /\ saved[p].name = n
      BY <2>1, <3>2 DEF Live
    <3> QED
      BY <3>1, <3>2, <3>3, <1>8, <1>14
  <2>2. r.reading <= Len(saved')
    BY <1>5, <1>8, <1>14
  <2>3. work'[c].state = "resolving" /\ work'[c] = r
    BY <1>8, <1>10
  <2> QED
    BY <2>1, <2>2, <2>3 DEF LabelInv
<1>16. ASSUME NEW d \in Caller PROVE OwnInv(d)' /\ LabelInv(d)'
  BY <1>1, <1>2, <1>4, <1>10, <1>13, <1>15, OthersOwn, OthersLabels DEF ToolsInv
<1>17. TwinsOnlyByRace'
  <2>1. ASSUME NEW p \in DOMAIN saved', NEW q \in DOMAIN saved', p < q, Live(p)', Live(q)',
               saved'[p].name = saved'[q].name, saved'[q].by \in Caller
        PROVE  saved'[p].by # saved'[q].by /\ work'[saved'[q].by].reading < p
    <3>1. p \in DOMAIN saved /\ saved'[p] = saved[p]
      BY <2>1, <1>5
    <3>2. Live(p)
      BY <2>1, <3>1 DEF Live
    <3>3. CASE q = l
      <4>1. saved[p].name = Wanted(c) /\ saved'[q].by = c
        BY <3>1, <3>3, <2>1, <1>4, <1>5
      <4>2. p > work[c].reading /\ saved[p].by # c
        BY <4>1, <3>1, <3>2, <1>2, <1>3, <1>14
      <4> QED
        BY <4>1, <4>2, <3>1, <1>8, <1>10, <1>5, <1>14
    <3>4. CASE q # l
      <4>1. q \in DOMAIN saved /\ saved'[q] = saved[q]
        BY <2>1, <3>4, <1>5
      <4>2. Live(q)
        BY <2>1, <4>1 DEF Live
      <4>3. saved[p].by # saved[q].by /\ work[saved[q].by].reading < p
        BY <2>1, <3>1, <3>2, <4>1, <4>2 DEF ToolsInv, TwinsOnlyByRace
      <4>4. work'[saved[q].by].reading = work[saved[q].by].reading
        BY <2>1, <4>1, <1>8, <1>10
      <4> QED
        BY <4>1, <4>3, <4>4, <3>1
    <3> QED
      BY <3>3, <3>4
  <2> QED
    BY <2>1 DEF TwinsOnlyByRace
<1> QED
  BY <1>12, <1>16, <1>17 DEF ToolsInv

-----------------------------------------------------------------------------
(* The sections.                                                             *)

(* A section is done; it may have kept a row of its kind.                    *)
LEMMA FurtherStep ==
  ASSUME ToolsInv, NEW c \in Caller, NEW section, Working(c, section), UNCHANGED saved,
         NEW r, Goes(c, r), CallType(r), r.left = Tail(work[c].left), r.state = "working",
         r.asked = work[c].asked, r.ids = work[c].ids, r.reading = work[c].reading,
         r.report /\ ~Inline(c) => IsInjective(work[c].ids),
         \/ kept' = kept /\ section # "commit" /\ r.run = work[c].run
         \/ kept' = kept /\ section = "commit" /\ Inline(c) /\ r.run = NoRun
         \/ \E kind : /\ kept' = Append(kept, Row(c, kind)) /\ SectionOf(kind) = section
                      /\ \/ kind # "run" /\ section # "commit" /\ r.run = work[c].run
                         \/ kind = "run" /\ r.run = Len(kept') /\ ~Inline(c)
  PROVE  ToolsInv'
<1>1. ToolsType /\ CallType(work[c]) /\ OwnInv(c) /\ LabelInv(c)
  BY DEF ToolsInv, ToolsType
<1>2. work[c].state = "working" /\ work[c].left # <<>> /\ Head(work[c].left) = section
  BY DEF Working
<1>3. work'[c] = r
  BY <1>1, CallOf
<1>4. /\ IsInjective(r.left) /\ ToSet(r.left) = ToSet(work[c].left) \ {section}
      /\ section \in ToSet(work[c].left)
  BY <1>1, <1>2, Shortened DEF OwnInv, CallType
<1>5. (Inline(c)' <=> Inline(c)) /\ (ToRun(c)' <=> ToRun(c))
  BY <1>3 DEF ToRun, Inline
<1>6. LabelInv(c)'
  BY <1>3 DEF LabelInv
<1>7. kept' = kept \/ \E rec : rec.by = c /\ kept' = Append(kept, rec)
  BY DEF Row
<1>8. OwnInv(c)'
  <2>1. CASE kept' = kept /\ r.run = work[c].run /\ section # "commit"
    <3>1. Mine(c)' = Mine(c)
      BY <2>1 DEF Mine
    <3> QED
      BY <2>1, <3>1, <1>1, <1>2, <1>3, <1>4, <1>5 DEF OwnInv
  <2>2. CASE kept' = kept /\ section = "commit" /\ Inline(c) /\ r.run = NoRun
    <3>1. Mine(c)' = Mine(c)
      BY <2>2 DEF Mine
    <3>2. ~ToRun(c)
      BY <2>2 DEF ToRun
    <3> QED
      BY <2>2, <3>1, <3>2, <1>1, <1>2, <1>3, <1>4, <1>5 DEF OwnInv
  <2>3. ASSUME NEW kind, kept' = Append(kept, Row(c, kind)), SectionOf(kind) = section,
               \/ kind # "run" /\ section # "commit" /\ r.run = work[c].run
               \/ kind = "run" /\ r.run = Len(kept') /\ ~Inline(c)
        PROVE  OwnInv(c)'
    <3>. DEFINE l == Len(kept) + 1
    <3>1. /\ Len(kept) \in Nat /\ DOMAIN kept = 1 .. Len(kept) /\ Len(kept') = l
          /\ DOMAIN kept' = 1 .. l /\ kept'[l] = Row(c, kind)
          /\ \A i \in DOMAIN kept : kept'[i] = kept[i]
      BY <2>3, <1>1, Appended DEF ToolsType
    <3>2. Row(c, kind).kind = kind /\ Row(c, kind).by = c /\ Row(c, kind).of = ToSet(work[c].ids)
      BY DEF Row
    <3>3. /\ Mine(c)' = Mine(c) \cup {l} /\ l \notin Mine(c)
          /\ \A i \in Mine(c) : kept'[i] = kept[i] /\ i # l
      BY <3>1, <3>2 DEF Mine
    <3>4. \A i \in Mine(c) : SectionOf(kept[i].kind) \in SectionName => SectionOf(kept[i].kind) # section
      BY <1>1, <1>2, <1>4 DEF OwnInv
    <3>5. \A i \in Mine(c) : kept[i].kind # kind
      BY <1>1, <1>2, <1>4, <2>3 DEF OwnInv
    <3>6. \A i, j \in Mine(c)' : kept'[i].kind = kept'[j].kind => i = j
      BY <3>1, <3>2, <3>3, <3>5, <1>1 DEF OwnInv
    <3>7. \A i \in Mine(c)' : kept'[i].of = ToSet(r.ids)
      BY <3>1, <3>2, <3>3, <1>1 DEF OwnInv
    <3>8. \A i \in Mine(c)' : SectionOf(kept'[i].kind) \notin ToSet(r.left)
      BY <3>1, <3>2, <3>3, <2>3, <1>1, <1>2, <1>4 DEF OwnInv
    <3>9. CASE kind # "run" /\ section # "commit" /\ r.run = work[c].run
      <4>1. r.run # NoRun => r.run \in Mine(c)' /\ kept'[r.run].kind = "run"
        BY <3>9, <3>3, <1>1 DEF OwnInv
      <4>2. r.run # NoRun <=> ToRun(c) /\ "commit" \notin ToSet(r.left)
        BY <3>9, <1>1, <1>2, <1>4 DEF OwnInv
      <4> QED
        BY <4>1, <4>2, <3>6, <3>7, <3>8, <1>1, <1>2, <1>3, <1>4, <1>5 DEF OwnInv
    <3>10. CASE kind = "run" /\ r.run = Len(kept') /\ ~Inline(c)
      <4>1. section = "commit" /\ r.run = l /\ l # NoRun
        <5>1. section = "commit"
          BY <3>10, <2>3 DEF SectionOf
        <5>2. r.run = l /\ l # 0
          BY <3>10, <3>1
        <5> QED
          BY <5>1, <5>2 DEF NoRun
      <4>2. r.run \in Mine(c)' /\ kept'[r.run].kind = "run"
        BY <4>1, <3>1, <3>2, <3>3, <3>10
      <4>3. ToRun(c) /\ "commit" \notin ToSet(r.left)
        BY <4>1, <3>10, <1>1, <1>2, <1>4 DEF OwnInv, ToRun
      <4> QED
        BY <4>1, <4>2, <4>3, <3>6, <3>7, <3>8, <1>1, <1>2, <1>3, <1>4, <1>5 DEF OwnInv
    <3> QED
      BY <2>3, <3>9, <3>10
  <2> QED
    BY <2>1, <2>2, <2>3
<1> QED
  BY <1>6, <1>7, <1>8, UnsavedStep

LEMMA SectionStep ==
  ASSUME ToolsInv, NEW c \in Caller, Section(c) PROVE ToolsInv'
<1>1. ToolsType /\ CallType(work[c]) /\ OwnInv(c)
  BY DEF ToolsInv, ToolsType
<1>. PICK section \in Computed :
        /\ Working(c, section) /\ Accepted(c, section)
        /\ \/ /\ work' = [work EXCEPT ![c] = Further([@ EXCEPT !.report = section = "report"])]
              /\ kept' = IF Keeps(c, section) THEN Append(kept, Row(c, section)) ELSE kept
           \/ /\ section = "report"
              /\ work' = [work EXCEPT ![c] = Further(@)]
              /\ UNCHANGED kept
        /\ UNCHANGED saved
  BY DEF Section
<1>2. /\ work[c].state = "working" /\ work[c].left # <<>> /\ section # "commit"
      /\ work[c].left \in Seq(SectionName) /\ IsInjective(work[c].left)
  BY <1>1 DEF Working, Computed, CallType, OwnInv
<1>3. Tail(work[c].left) \in Seq(SectionName)
  BY <1>2
<1>4. section = "report" /\ ~Inline(c) => IsInjective(work[c].ids)
  BY DEF Accepted
<1>5. ASSUME NEW report \in BOOLEAN, report /\ ~Inline(c) => IsInjective(work[c].ids),
             Goes(c, [work[c] EXCEPT !.report = report, !.left = Tail(work[c].left)]),
             kept' = kept \/ (kept' = Append(kept, Row(c, section)) /\ Keeps(c, section))
      PROVE  ToolsInv'
  <2>. DEFINE r == [work[c] EXCEPT !.report = report, !.left = Tail(work[c].left)]
  <2>1. r = [f \in Field |-> r[f]]
    BY <1>1 DEF CallType, Field
  <2>2. /\ r.left = Tail(work[c].left) /\ r.report = report /\ r.state = "working"
        /\ r.asked = work[c].asked /\ r.ids = work[c].ids /\ r.reading = work[c].reading
        /\ r.run = work[c].run /\ r.known = work[c].known /\ r.next = work[c].next
        /\ r.named = work[c].named
    BY <1>1, <1>2 DEF CallType, Field
  <2>3. Goes(c, r)
    BY <1>5
  <2>. HIDE DEF r
  <2>4. CallType(r)
    BY <1>1, <1>3, <1>5, <2>1, <2>2 DEF CallType, StepName
  <2>5. \/ kept' = kept /\ section # "commit" /\ r.run = work[c].run
        \/ \E kind : /\ kept' = Append(kept, Row(c, kind)) /\ SectionOf(kind) = section
                     /\ kind # "run" /\ section # "commit" /\ r.run = work[c].run
    <3>1. CASE kept' = kept
      BY <3>1, <1>2, <2>2
    <3>2. CASE kept' = Append(kept, Row(c, section)) /\ Keeps(c, section)
      <4>1. section # "run" /\ SectionOf(section) = section
        BY <3>2 DEF Keeps, SectionOf
      <4> QED
        BY <3>2, <4>1, <1>2, <2>2
    <3> QED
      BY <3>1, <3>2, <1>5
  <2> QED
    BY <1>5, <2>2, <2>3, <2>4, <2>5, FurtherStep
<1>6. CASE /\ work' = [work EXCEPT ![c] = Further([@ EXCEPT !.report = section = "report"])]
           /\ kept' = IF Keeps(c, section) THEN Append(kept, Row(c, section)) ELSE kept
  <2>1. Goes(c, [work[c] EXCEPT !.report = (section = "report"), !.left = Tail(work[c].left)])
    BY <1>1, <1>6 DEF Goes, Further, CallType, Field
  <2> QED
    BY <2>1, <1>4, <1>5, <1>6
<1>7. CASE section = "report" /\ work' = [work EXCEPT ![c] = Further(@)] /\ UNCHANGED kept
  <2>1. work[c].report \in BOOLEAN /\ (work[c].report /\ ~Inline(c) => IsInjective(work[c].ids))
    BY <1>1 DEF CallType, OwnInv
  <2>2. Goes(c, [work[c] EXCEPT !.report = work[c].report, !.left = Tail(work[c].left)])
    BY <1>1, <1>7 DEF Goes, Further, CallType, Field
  <2> QED
    BY <2>1, <2>2, <1>5, <1>7
<1> QED
  BY <1>6, <1>7

LEMMA CommitRunStep ==
  ASSUME ToolsInv, NEW c \in Caller, CommitRun(c) PROVE ToolsInv'
<1>1. ToolsType /\ CallType(work[c]) /\ OwnInv(c)
  BY DEF ToolsInv, ToolsType
<1>2. /\ Working(c, "commit") /\ UNCHANGED saved
      /\ kept' = IF Inline(c) THEN kept ELSE Append(kept, Row(c, "run"))
      /\ work' = [work EXCEPT ![c] =
           Further([@ EXCEPT !.run = IF Inline(c) THEN NoRun ELSE Len(kept')])]
  BY DEF CommitRun
<1>3. /\ work[c].state = "working" /\ work[c].left # <<>>
      /\ work[c].left \in Seq(SectionName)
  BY <1>1, <1>2 DEF Working, CallType
<1>4. Tail(work[c].left) \in Seq(SectionName)
  BY <1>3
<1>. DEFINE run == IF Inline(c) THEN NoRun ELSE Len(kept')
            r == [work[c] EXCEPT !.run = run, !.left = Tail(work[c].left)]
<1>5. run \in Nat
  BY <1>1, <1>2, Appended DEF ToolsType, NoRun
<1>6. Goes(c, r)
  BY <1>1, <1>2 DEF Goes, Further, CallType, Field
<1>7. r = [f \in Field |-> r[f]]
  BY <1>1 DEF CallType, Field
<1>8. /\ r.left = Tail(work[c].left) /\ r.report = work[c].report /\ r.state = "working"
      /\ r.asked = work[c].asked /\ r.ids = work[c].ids /\ r.reading = work[c].reading
      /\ r.run = run /\ r.known = work[c].known /\ r.next = work[c].next
      /\ r.named = work[c].named
  BY <1>1, <1>3 DEF CallType, Field
<1>. HIDE DEF r
<1>9. CallType(r)
  BY <1>1, <1>4, <1>5, <1>7, <1>8 DEF CallType, StepName
<1>10. r.report /\ ~Inline(c) => IsInjective(work[c].ids)
  BY <1>1, <1>8 DEF OwnInv
<1>11. CASE Inline(c)
  <2>1. kept' = kept /\ r.run = NoRun
    BY <1>11, <1>2, <1>8
  <2> QED
    BY <2>1, <1>11, <1>2, <1>6, <1>8, <1>9, <1>10, FurtherStep
<1>12. CASE ~Inline(c)
  <2>1. kept' = Append(kept, Row(c, "run")) /\ r.run = Len(kept') /\ SectionOf("run") = "commit"
    BY <1>12, <1>2, <1>8 DEF SectionOf
  <2>2. \E kind : /\ kept' = Append(kept, Row(c, kind)) /\ SectionOf(kind) = "commit"
                  /\ kind = "run" /\ r.run = Len(kept') /\ ~Inline(c)
    BY <2>1, <1>12
  <2> QED
    BY <2>2, <1>2, <1>6, <1>8, <1>9, <1>10, FurtherStep
<1> QED
  BY <1>11, <1>12

(* The call is over.                                                         *)
LEMMA OverStep ==
  ASSUME ToolsInv, NEW c \in Caller, SectionFails(c) \/ CommitFails(c) \/ Answer(c)
  PROVE  ToolsInv'
<1>1. ToolsType /\ CallType(work[c]) /\ OwnInv(c)
  BY DEF ToolsInv, ToolsType
<1>2. work[c].state = "working" /\ UNCHANGED <<saved, kept>>
  BY DEF SectionFails, CommitFails, Answer, Working
<1>3. \/ work' = [work EXCEPT ![c].state = "error"]
      \/ /\ work[c].left = <<>>
         /\ work' = [work EXCEPT ![c].state = "done", ![c].named = work[c].run]
  BY DEF SectionFails, CommitFails, Answer, RunNamed
<1>4. ASSUME NEW state \in {"error", "done"}, NEW named \in Nat,
             Goes(c, [work[c] EXCEPT !.state = state, !.named = named]),
             state = "done" => work[c].left = <<>> /\ named = work[c].run
      PROVE  ToolsInv'
  <2>. DEFINE r == [work[c] EXCEPT !.state = state, !.named = named]
  <2>1. r = [f \in Field |-> r[f]]
    BY <1>1 DEF CallType, Field
  <2>2. /\ r.left = work[c].left /\ r.report = work[c].report /\ r.state = state
        /\ r.asked = work[c].asked /\ r.ids = work[c].ids /\ r.reading = work[c].reading
        /\ r.run = work[c].run /\ r.known = work[c].known /\ r.next = work[c].next
        /\ r.named = named
    BY <1>1 DEF CallType, Field
  <2>3. Goes(c, r)
    BY <1>4
  <2>. HIDE DEF r
  <2>4. CallType(r) /\ work'[c] = r
    BY <1>1, <1>4, <2>1, <2>2, <2>3, CallOf DEF CallType, StepName
  <2>5. Mine(c)' = Mine(c) /\ (Inline(c)' <=> Inline(c)) /\ (ToRun(c)' <=> ToRun(c))
    BY <1>2, <2>2, <2>4 DEF Mine, Inline, ToRun
  <2>6. state = "done" => named = work[c].run /\ (work[c].run # NoRun <=> ToRun(c))
    <3>1. work[c].left = <<>> => "commit" \notin ToSet(work[c].left)
      BY DEF ToSet
    <3> QED
      BY <3>1, <1>1, <1>2, <1>4 DEF OwnInv
  <2>7. OwnInv(c)'
    <3>1. /\ work[c].asked \in ToolCall[c]
          /\ \A i \in Mine(c) : kept[i].of = ToSet(work[c].ids)
          /\ \A i, j \in Mine(c) : kept[i].kind = kept[j].kind => i = j
          /\ work[c].run # NoRun => work[c].run \in Mine(c) /\ kept[work[c].run].kind = "run"
          /\ work[c].report /\ ~Inline(c) => IsInjective(work[c].ids)
      BY <1>1, <1>2 DEF OwnInv
    <3> QED
      BY <3>1, <1>2, <1>4, <2>2, <2>4, <2>5, <2>6 DEF OwnInv
  <2>8. LabelInv(c)'
    BY <1>4, <2>2, <2>4 DEF LabelInv
  <2> QED
    BY <1>2, <2>2, <2>3, <2>4, <2>7, <2>8, UnsavedStep
<1>5. CASE work' = [work EXCEPT ![c].state = "error"]
  <2>1. Goes(c, [work[c] EXCEPT !.state = "error", !.named = work[c].named])
    BY <1>1, <1>5 DEF Goes, CallType, Field
  <2> QED
    BY <2>1, <1>1, <1>4 DEF CallType
<1>6. CASE /\ work[c].left = <<>>
           /\ work' = [work EXCEPT ![c].state = "done", ![c].named = work[c].run]
  <2>1. Goes(c, [work[c] EXCEPT !.state = "done", !.named = work[c].run])
    BY <1>6 DEF Goes
  <2> QED
    BY <2>1, <1>1, <1>4, <1>6 DEF CallType
<1> QED
  BY <1>3, <1>5, <1>6

LEMMA PlaceGoesStep ==
  ASSUME ToolsInv, NEW p \in DOMAIN saved, PlaceGoes(p) PROVE ToolsInv'
<1>1. /\ saved' = [saved EXCEPT ![p].gone = TRUE] /\ UNCHANGED <<kept, work>>
      /\ ToolsType
  BY DEF PlaceGoes, ToolsInv
<1>2. saved \in Seq(PlaceRow) /\ DOMAIN saved = 1 .. Len(saved) /\ Len(saved) \in Nat
  BY <1>1 DEF ToolsType
<1>3. \A q \in DOMAIN saved : saved[q] \in PlaceRow
  BY <1>2
<1>4. [saved[p] EXCEPT !.gone = TRUE] \in PlaceRow
  BY <1>3 DEF PlaceRow
<1>5. saved' \in Seq(PlaceRow) /\ DOMAIN saved' = DOMAIN saved /\ Len(saved') = Len(saved)
  BY <1>1, <1>2, <1>4
<1>6. \A q \in DOMAIN saved : /\ saved'[q].by = saved[q].by /\ saved'[q].name = saved[q].name
                              /\ saved[q].gone => saved'[q].gone
  BY <1>1, <1>3 DEF PlaceRow
<1>7. \A q \in DOMAIN saved : Live(q)' => Live(q)
  BY <1>5, <1>6 DEF Live
<1>8. ToolsType'
  BY <1>1, <1>5 DEF ToolsType
<1>9. ASSUME NEW c \in Caller PROVE OwnInv(c)' /\ LabelInv(c)'
  <2>1. OwnInv(c)'
    BY <1>1 DEF ToolsInv, OwnInv, Mine, ToRun, Inline
  <2>2. LabelInv(c)'
    BY <1>1, <1>5, <1>6, <1>7 DEF ToolsInv, LabelInv
  <2> QED
    BY <2>1, <2>2
<1>10. TwinsOnlyByRace'
  BY <1>1, <1>5, <1>6, <1>7 DEF ToolsInv, TwinsOnlyByRace
<1> QED
  BY <1>8, <1>9, <1>10 DEF ToolsInv

LEMMA ToolsInvStep == ToolsInv /\ [ToolNext]_toolVars => ToolsInv'
<1>. SUFFICES ASSUME ToolsInv, [ToolNext]_toolVars PROVE ToolsInv'
  OBVIOUS
<1>1. ASSUME NEW c \in Caller,
             \/ BeginTool(c) \/ ReadLabels(c)
             \/ Match(c) \/ LostMatch(c) \/ SavePlace(c) \/ Unresolved(c) \/ AllResolved(c)
             \/ Section(c) \/ SectionFails(c) \/ CommitRun(c) \/ CommitFails(c)
             \/ Answer(c)
      PROVE  ToolsInv'
  BY <1>1, BeginToolStep, ReadLabelsStep, NamesStep, SavePlaceStep, AllResolvedStep,
     SectionStep, CommitRunStep, OverStep
<1>2. ASSUME NEW p \in DOMAIN saved, PlaceGoes(p) PROVE ToolsInv'
  BY <1>2, PlaceGoesStep
<1>3. CASE UNCHANGED toolVars
  BY <1>3 DEF toolVars, ToolsInv, ToolsType, OwnInv, LabelInv, Mine, ToRun, Inline, Live,
     TwinsOnlyByRace
<1> QED
  BY <1>1, <1>2, <1>3 DEF ToolNext

(* However the calls of a visitor interleave with each other and with        *)
(* deletions, a result names the run its own call wrote, for exactly its own *)
(* places, and only calls that overlap save a label twice (tools.py,         *)
(* place_resolution.py).                                                     *)
THEOREM CallsKeepToThemselves == ToolSpec => []ToolsHold
BY ToolsInvInit, ToolsInvStep, ToolsInvHolds, PTL DEF ToolSpec

-----------------------------------------------------------------------------
(* Correction and RateComparison.  The loop of the correction is the step-up *)
(* procedure: what is left to visit at the first of equals is all that is    *)
(* no larger.                                                                *)

LEMMA LeastNat ==
  ASSUME NEW S, S \subseteq Nat, S # {}
  PROVE  \E x \in S : \A y \in S : x <= y
  <1>. DEFINE R == OpToRel(<, Nat)
  <1>1. IsWellFoundedOn(R, Nat)
    BY NatLessThanWellFounded
  <1>2. PICK x \in S : \A y \in S : ~ (<<y, x>> \in R)
    <2>. HIDE DEF R
    <2> QED BY <1>1, WFMin
  <1>3. \A y \in S : ~(y < x)
    BY <1>2 DEF OpToRel
  <1> QED BY <1>3

LEMMA MinOfNat ==
  ASSUME NEW S, S \subseteq Nat, S # {}
  PROVE  Min(S) \in S /\ Min(S) \in Nat /\ \A y \in S : Min(S) <= y
BY LeastNat DEF Min

(* The minima of two sets agree if each has something as small for           *)
(* everything in the other.                                                  *)
LEMMA SameMin ==
  ASSUME NEW S, NEW T, S \subseteq Nat, T \subseteq Nat, S # {}, T # {},
         \A x \in S : \E y \in T : y <= x, \A y \in T : \E x \in S : x <= y
  PROVE  Min(S) = Min(T)
<1>1. PICK y \in T : y <= Min(S)
  BY MinOfNat
<1>2. PICK x \in S : x <= Min(T)
  BY MinOfNat
<1>3. /\ Min(S) \in Nat /\ Min(T) \in Nat /\ x \in Nat /\ y \in Nat
      /\ Min(T) <= y /\ Min(S) <= x
  BY MinOfNat
<1> QED
  BY <1>1, <1>2, <1>3

LEMMA Quotient ==
  ASSUME NEW a \in Nat, NEW r \in Nat \ {0}
  PROVE  a \div r \in Nat /\ r * (a \div r) <= a /\ a < r * (a \div r + 1)
<1>. DEFINE q == a \div r
<1>1. q \in Int /\ r * q <= a /\ a < r * (q + 1)
  BY Z3
<1>2. q >= 0
  BY <1>1, Z3
<1> QED
  BY <1>1, <1>2

LEMMA Product == ASSUME NEW m \in Nat, NEW n \in Nat PROVE m * n \in Nat
OBVIOUS

LEMMA SmallerShare ==
  ASSUME NEW a \in Nat, NEW q \in Nat \ {0}, NEW r \in 1 .. q
  PROVE  a \div q <= a \div r
<1>. DEFINE x == a \div q
            y == a \div r
<1>1. /\ x \in Nat /\ y \in Nat /\ q * x <= a /\ a < r * (y + 1) /\ r \in Nat \ {0}
  BY Quotient
<1>. HIDE DEF x, y
<1>2. SUFFICES ASSUME x >= y + 1 PROVE FALSE
  BY <1>1 DEF x, y
<1>3. PICK d \in Nat : x = y + 1 + d
  <2>1. x - y - 1 \in Nat /\ x = y + 1 + (x - y - 1)
    BY <1>1, <1>2
  <2> QED
    BY <2>1
<1>4. PICK e \in Nat : q = r + e
  <2>1. q - r \in Nat /\ q = r + (q - r)
    BY <1>1
  <2> QED
    BY <2>1
<1>5. q * x = r * (y + 1) + r * d + e * x
  BY <1>1, <1>3, <1>4
<1>6. r * d \in Nat /\ e * x \in Nat /\ r * (y + 1) \in Nat /\ q * x \in Nat
  BY <1>1, <1>3, <1>4
<1> QED
  BY <1>1, <1>5, <1>6

LEMMA Exactly ==
  ASSUME NEW m \in Nat, NEW n \in Nat \ {0}
  PROVE  (m * n) \div n = m
<1>. DEFINE x == (m * n) \div n
<1>1. m * n \in Nat
  BY Product
<1>2. x \in Nat /\ n * x <= m * n /\ m * n < n * (x + 1)
  BY <1>1, Quotient
<1>. HIDE DEF x
<1>3. x <= m
  <2>1. SUFFICES ASSUME x >= m + 1 PROVE FALSE
    BY <1>2
  <2>2. PICK d \in Nat : x = m + 1 + d
    <3>1. x - m - 1 \in Nat /\ x = m + 1 + (x - m - 1)
      BY <1>2, <2>1
    <3> QED
      BY <3>1
  <2>3. n * x = m * n + n + n * d /\ n * d \in Nat
    BY <1>2, <2>2
  <2> QED
    BY <2>3, <1>1, <1>2
<1>4. m <= x
  <2>1. SUFFICES ASSUME m >= x + 1 PROVE FALSE
    BY <1>2
  <2>2. PICK d \in Nat : m = x + 1 + d
    <3>1. m - x - 1 \in Nat /\ m = x + 1 + (m - x - 1)
      BY <1>2, <2>1
    <3> QED
      BY <3>1
  <2>3. m * n = n * (x + 1) + n * d /\ n * d \in Nat
    BY <1>2, <2>2
  <2> QED
    BY <2>3, <1>1, <1>2
<1> QED
  BY <1>2, <1>3, <1>4 DEF x

-----------------------------------------------------------------------------
(* The correction, for any finite family of tests.                           *)

ToVisit(p, k) == {j \in DOMAIN p : k = j \/ VisitedBefore(p, k, j)}
NoLarger(p, k) == {j \in DOMAIN p : p[j] <= p[k]}
Visited(p, i) == {k \in DOMAIN p : k = i \/ VisitedBefore(p, k, i)}
Family(p) == IsFiniteSet(DOMAIN p) /\ DOMAIN p \subseteq Nat /\ \A k \in DOMAIN p : p[k] \in Nat

LEMMA RankOf ==
  ASSUME NEW p, Family(p), NEW k \in DOMAIN p
  PROVE  /\ Cardinality(DOMAIN p) \in Nat \ {0}
         /\ Cardinality(NoLarger(p, k)) \in 1 .. Cardinality(DOMAIN p)
         /\ Cardinality(ToVisit(p, k)) \in 1 .. Cardinality(NoLarger(p, k))
<1>. DEFINE S == DOMAIN p
<1>1. ToVisit(p, k) \subseteq NoLarger(p, k) /\ NoLarger(p, k) \subseteq S /\ k \in ToVisit(p, k)
  BY DEF ToVisit, NoLarger, VisitedBefore, Family
<1>2. IsFiniteSet(S) /\ IsFiniteSet(NoLarger(p, k)) /\ IsFiniteSet(ToVisit(p, k))
  BY <1>1, FS_Subset DEF Family
<1>3. /\ Cardinality(S) \in Nat /\ Cardinality(NoLarger(p, k)) \in Nat
      /\ Cardinality(ToVisit(p, k)) \in Nat
  BY <1>2, FS_CardinalityType
<1>4. Cardinality(ToVisit(p, k)) <= Cardinality(NoLarger(p, k))
  BY <1>1, <1>2, FS_Subset
<1>5. Cardinality(NoLarger(p, k)) <= Cardinality(S)
  BY <1>1, <1>2, FS_Subset
<1>6. Cardinality(ToVisit(p, k)) # 0
  BY <1>1, <1>2, FS_EmptySet
<1> QED
  BY <1>3, <1>4, <1>5, <1>6

(* The step-up value of a test: its share of the tests no larger.            *)
StepUp(p, k) == (p[k] * Cardinality(DOMAIN p)) \div Cardinality(NoLarger(p, k))

LEMMA ScaledBounds ==
  ASSUME NEW p, Family(p), NEW k \in DOMAIN p
  PROVE  /\ Scaled(p, k) \in Nat /\ StepUp(p, k) \in Nat
         /\ p[k] <= StepUp(p, k) /\ StepUp(p, k) <= Scaled(p, k)
<1>. DEFINE n == Cardinality(DOMAIN p)
            m == Cardinality(NoLarger(p, k))
            r == Cardinality(ToVisit(p, k))
            a == p[k] * n
<1>1. p[k] \in Nat /\ n \in Nat \ {0} /\ m \in 1 .. n /\ r \in 1 .. m
  BY RankOf DEF Family
<1>2. Scaled(p, k) = a \div r /\ StepUp(p, k) = a \div m
  BY DEF Scaled, StepUp, ToVisit
<1>. HIDE DEF n, m, r
<1>3. a \in Nat /\ m \in Nat \ {0} /\ r \in Nat \ {0}
  BY <1>1
<1>4. a \div n = p[k]
  BY <1>1, Exactly
<1>. HIDE DEF a
<1>5. a \div r \in Nat /\ a \div m \in Nat
  BY <1>3, Quotient
<1>6. a \div n <= a \div m
  BY <1>1, <1>3, SmallerShare
<1>7. a \div m <= a \div r
  BY <1>1, <1>3, SmallerShare
<1> QED
  BY <1>2, <1>4, <1>5, <1>6, <1>7

(* The first of those that are equal is visited with the rank of them all.   *)
LEMMA FirstOfEquals ==
  ASSUME NEW p, Family(p), NEW k \in DOMAIN p
  PROVE  \E f \in DOMAIN p : /\ p[f] = p[k] /\ f <= k
                             /\ Scaled(p, f) = StepUp(p, k)
<1>. DEFINE E == {j \in DOMAIN p : p[j] = p[k]}
<1>1. E \subseteq Nat /\ k \in E
  BY DEF Family
<1>2. PICK f \in E : \A j \in E : f <= j
  BY <1>1, LeastNat
<1>3. ToVisit(p, f) = NoLarger(p, k)
  <2>1. ASSUME NEW j \in DOMAIN p PROVE j \in ToVisit(p, f) <=> j \in NoLarger(p, k)
    <3>1. j \in Nat /\ f \in Nat /\ p[j] \in Nat /\ p[k] \in Nat /\ p[f] = p[k]
      BY <1>1, <1>2 DEF Family
    <3>2. p[j] = p[k] => f = j \/ f < j
      BY <1>2, <3>1
    <3> QED
      BY <3>1, <3>2 DEF ToVisit, NoLarger, VisitedBefore
  <2> QED
    BY <2>1 DEF ToVisit, NoLarger
<1>4. Scaled(p, f) = StepUp(p, k)
  BY <1>2, <1>3 DEF Scaled, StepUp, ToVisit
<1> QED
  BY <1>1, <1>2, <1>4

(* The loop computes the step-up adjustment.                                 *)
LEMMA LoopIsStepUp ==
  ASSUME NEW p, Family(p), NEW i \in DOMAIN p
  PROVE  Adjusted(p, i) = Min({One} \cup {StepUp(p, j) : j \in {l \in DOMAIN p : p[l] >= p[i]}})
<1>. DEFINE A == {One} \cup {Scaled(p, j) : j \in Visited(p, i)}
            D == {One} \cup {StepUp(p, j) : j \in {l \in DOMAIN p : p[l] >= p[i]}}
<1>1. Adjusted(p, i) = Min(A)
  BY DEF Adjusted, Visited
<1>2. A \subseteq Nat /\ D \subseteq Nat /\ A # {} /\ D # {}
  BY ScaledBounds, CorrectionAssumption DEF Visited
<1>3. ASSUME NEW x \in A PROVE \E y \in D : y <= x
  <2>1. CASE x = One
    BY <2>1, CorrectionAssumption
  <2>2. ASSUME NEW j \in Visited(p, i), x = Scaled(p, j) PROVE \E y \in D : y <= x
    <3>1. j \in DOMAIN p /\ p[j] >= p[i]
      BY DEF Visited, VisitedBefore, Family
    <3> QED
      BY <2>2, <3>1, ScaledBounds
  <2> QED
    BY <2>1, <2>2
<1>4. ASSUME NEW y \in D PROVE \E x \in A : x <= y
  <2>1. CASE y = One
    BY <2>1, CorrectionAssumption
  <2>2. ASSUME NEW j \in DOMAIN p, p[j] >= p[i], y = StepUp(p, j) PROVE \E x \in A : x <= y
    <3>1. PICK f \in DOMAIN p : p[f] = p[j] /\ f <= j /\ Scaled(p, f) = StepUp(p, j)
      BY FirstOfEquals
    <3>2. PICK g \in DOMAIN p : p[g] = p[j] /\ g \in Visited(p, i) /\ Scaled(p, g) = StepUp(p, j)
      <4>1. CASE p[j] = p[i]
        <5>1. PICK g \in DOMAIN p : p[g] = p[i] /\ g <= i /\ Scaled(p, g) = StepUp(p, i)
          BY FirstOfEquals
        <5>2. StepUp(p, i) = StepUp(p, j)
          BY <4>1 DEF StepUp, NoLarger
        <5>3. g \in Visited(p, i)
          BY <5>1 DEF Visited, VisitedBefore, Family
        <5> QED
          BY <4>1, <5>1, <5>2, <5>3
      <4>2. CASE p[j] # p[i]
        <5>1. f \in Visited(p, i)
          BY <3>1, <4>2, <2>2 DEF Visited, VisitedBefore, Family
        <5> QED
          BY <5>1, <3>1
      <4> QED
        BY <4>1, <4>2
    <3>3. Scaled(p, g) \in A /\ Scaled(p, g) \in Nat /\ Scaled(p, g) = y
      BY <3>2, <2>2, ScaledBounds
    <3> QED
      BY <3>3
  <2> QED
    BY <2>1, <2>2
<1>. HIDE DEF A, D
<1>5. Min(A) = Min(D)
  BY <1>2, <1>3, <1>4, SameMin
<1> QED
  BY <1>1, <1>5 DEF D

(* No test passes by the correction that does not pass alone, and all do if  *)
(* each does.                                                                *)
LEMMA NeverBelow ==
  ASSUME NEW p, Family(p), NEW i \in DOMAIN p, p[i] <= One
  PROVE  p[i] <= Adjusted(p, i) /\ Adjusted(p, i) \in Nat
<1>. DEFINE A == {One} \cup {Scaled(p, j) : j \in Visited(p, i)}
<1>1. Adjusted(p, i) = Min(A)
  BY DEF Adjusted, Visited
<1>2. A \subseteq Nat /\ A # {} /\ p[i] \in Nat
  BY ScaledBounds, CorrectionAssumption DEF Visited, Family
<1>3. ASSUME NEW x \in A PROVE p[i] <= x
  <2>1. ASSUME NEW j \in Visited(p, i), x = Scaled(p, j) PROVE p[i] <= x
    <3>1. j \in DOMAIN p /\ p[j] >= p[i] /\ p[j] \in Nat
      BY DEF Visited, VisitedBefore, Family
    <3>2. p[j] <= StepUp(p, j) /\ StepUp(p, j) <= Scaled(p, j) /\ StepUp(p, j) \in Nat
          /\ Scaled(p, j) \in Nat
      BY <3>1, ScaledBounds
    <3> QED
      BY <2>1, <3>1, <3>2, <1>2
  <2> QED
    BY <2>1
<1>. HIDE DEF A
<1> QED
  BY <1>1, <1>2, <1>3, MinOfNat

LEMMA AllTogether ==
  ASSUME NEW p, Family(p), NEW i \in DOMAIN p, NEW a \in Nat, \A k \in DOMAIN p : p[k] < a
  PROVE  Adjusted(p, i) < a
<1>. DEFINE A == {One} \cup {Scaled(p, j) : j \in Visited(p, i)}
            V == {p[k] : k \in DOMAIN p}
<1>1. Adjusted(p, i) = Min(A)
  BY DEF Adjusted, Visited
<1>2. A \subseteq Nat /\ A # {}
  BY ScaledBounds, CorrectionAssumption DEF Visited
(* The largest.                                                              *)
<1>3. PICK h \in DOMAIN p : \A k \in DOMAIN p : p[k] <= p[h]
  <2>. DEFINE W == {a - p[k] : k \in DOMAIN p}
  <2>1. W \subseteq Nat /\ W # {}
    BY DEF Family
  <2>2. PICK w \in W : \A v \in W : w <= v
    <3>. HIDE DEF W
    <3> QED
      BY <2>1, LeastNat
  <2>3. PICK h \in DOMAIN p : w = a - p[h]
    BY <2>2
  <2>4. ASSUME NEW k \in DOMAIN p PROVE p[k] <= p[h]
    <3>1. a - p[k] \in W
      OBVIOUS
    <3>2. a - p[h] <= a - p[k]
      <4>. HIDE DEF W
      <4> QED
        BY <2>2, <2>3, <3>1
    <3> QED
      BY <3>2 DEF Family
  <2> QED
    BY <2>4
<1>4. NoLarger(p, h) = DOMAIN p
  BY <1>3 DEF NoLarger
<1>5. StepUp(p, h) = p[h]
  <2>1. p[h] \in Nat /\ Cardinality(DOMAIN p) \in Nat \ {0}
    BY RankOf DEF Family
  <2> QED
    BY <2>1, <1>4, Exactly DEF StepUp
<1>6. PICK f \in DOMAIN p : p[f] = p[h] /\ f <= h /\ Scaled(p, f) = StepUp(p, h)
  BY FirstOfEquals
<1>7. \E x \in A : x < a
  <2>1. CASE f \in Visited(p, i)
    BY <2>1, <1>5, <1>6
  <2>2. CASE f \notin Visited(p, i)
    <3>1. p[f] = p[i]
      BY <2>2, <1>3, <1>6 DEF Visited, VisitedBefore, Family
    <3>2. PICK g \in DOMAIN p : p[g] = p[i] /\ g <= i /\ Scaled(p, g) = StepUp(p, i)
      BY FirstOfEquals
    <3>3. StepUp(p, i) = StepUp(p, h)
      BY <3>1, <1>6 DEF StepUp, NoLarger
    <3>4. g \in Visited(p, i)
      BY <3>2 DEF Visited, VisitedBefore, Family
    <3> QED
      BY <3>2, <3>3, <3>4, <1>5
  <2> QED
    BY <2>1, <2>2
<1>. HIDE DEF A
<1>8. PICK x \in A : x < a
  BY <1>7
<1>9. Min(A) <= x /\ Min(A) \in Nat /\ x \in Nat
  BY <1>2, MinOfNat
<1> QED
  BY <1>1, <1>8, <1>9

-----------------------------------------------------------------------------
(* The decision.                                                             *)

ComparisonType ==
    /\ \E n \in 2 .. MaxOptions : counts \in [1 .. n -> Nat] /\ tests \in [1 .. n -> 0 .. One]
    /\ window \in [from : Nat, to : Nat] /\ window.from <= window.to

LEMMA InputsAreTyped == ComparisonInit => ComparisonType
<1>. SUFFICES ASSUME ComparisonInit PROVE ComparisonType
  OBVIOUS
<1>. PICK n \in 2 .. MaxOptions :
      /\ counts \in [1 .. n -> 0 .. MaxCount]
      /\ tests \in [1 .. n -> PValue]
      /\ window \in [from : 0 .. MonthDays - 1, to : 0 .. MaxMonths * MonthDays - 1]
      /\ window.from <= window.to
  BY DEF ComparisonInit
<1>1. MonthDays - 1 \in Int /\ MaxMonths * MonthDays - 1 \in Int
  BY ComparisonAssumption, Product
<1>2. window.from \in Nat /\ window.to \in Nat /\ window = [from |-> window.from, to |-> window.to]
  BY <1>1
<1>3. counts \in [1 .. n -> Nat]
  BY ComparisonAssumption
<1>4. tests \in [1 .. n -> 0 .. One]
  <2>1. PValue \subseteq 0 .. One
    BY ComparisonAssumption
  <2> QED
    BY <2>1
<1> QED
  BY <1>2, <1>3, <1>4 DEF ComparisonType

LEMMA OthersAreAFamily ==
  ASSUME ComparisonType
  PROVE  /\ Family(TestFamily) /\ DOMAIN TestFamily = Others /\ Others # {}
         /\ \A o \in Others : TestFamily[o] = tests[o] /\ tests[o] \in 0 .. One
<1>. PICK n \in 2 .. MaxOptions : counts \in [1 .. n -> Nat] /\ tests \in [1 .. n -> 0 .. One]
  BY DEF ComparisonType
<1>1. n \in Nat /\ n >= 2 /\ Options = 1 .. n
  BY ComparisonAssumption DEF Options
<1>2. IsFiniteSet(Options)
  BY <1>1, FS_Interval
<1>3. Others \subseteq Options /\ IsFiniteSet(Others) /\ Others \subseteq Nat
  BY <1>1, <1>2, FS_Subset DEF Others
<1>4. Others # {}
  <2>1. 1 \in Options /\ 2 \in Options /\ 1 # 2
    BY <1>1
  <2> QED
    BY <2>1 DEF Others
<1>5. \A o \in Others : tests[o] \in 0 .. One
  BY <1>1, <1>3
<1> QED
  BY <1>3, <1>4, <1>5, CorrectionAssumption DEF Family, TestFamily

LEMMA AdjustmentIsStepUp == ComparisonType => AdjustedAsDefined
<1>. SUFFICES ASSUME ComparisonType, NEW i \in Others
              PROVE  Adjusted(TestFamily, i) = Min({One} \cup
                       {(tests[j] * Cardinality(Others))
                           \div Cardinality({k \in Others : tests[k] <= tests[j]}) :
                          j \in {l \in Others : tests[l] >= tests[i]}})
  BY DEF AdjustedAsDefined
<1>1. /\ Family(TestFamily) /\ DOMAIN TestFamily = Others
      /\ \A o \in Others : TestFamily[o] = tests[o]
  BY OthersAreAFamily
<1>2. Adjusted(TestFamily, i) =
        Min({One} \cup {StepUp(TestFamily, j) :
                          j \in {l \in Others : TestFamily[l] >= TestFamily[i]}})
  BY <1>1, LoopIsStepUp
<1>3. {l \in Others : TestFamily[l] >= TestFamily[i]} = {l \in Others : tests[l] >= tests[i]}
  BY <1>1
<1>4. ASSUME NEW j \in Others
      PROVE  StepUp(TestFamily, j) = (tests[j] * Cardinality(Others))
                           \div Cardinality({k \in Others : tests[k] <= tests[j]})
  <2>1. NoLarger(TestFamily, j) = {k \in Others : tests[k] <= tests[j]}
    BY <1>1 DEF NoLarger
  <2> QED
    BY <2>1, <1>1 DEF StepUp
<1>. DEFINE T == {l \in Others : tests[l] >= tests[i]}
            U(j) == (tests[j] * Cardinality(Others))
                           \div Cardinality({k \in Others : tests[k] <= tests[j]})
<1>5. {StepUp(TestFamily, j) : j \in T} = {U(j) : j \in T}
  <2>1. T \subseteq Others /\ \A j \in Others : StepUp(TestFamily, j) = U(j)
    BY <1>4
  <2>. HIDE DEF T, U
  <2> QED
    BY <2>1
<1> QED
  BY <1>2, <1>3, <1>5

(* A window of whole or broken months has two to test iff it ends in a later *)
(* month than it begins.                                                     *)
LEMMA TwoBins ==
  ASSUME NEW from \in Nat, NEW to \in Nat, from <= to
  PROVE  Bins(from, to) \in Int /\ (Bins(from, to) >= 2 <=> from \div MonthDays < to \div MonthDays)
<1>. DEFINE f == from \div MonthDays
            t == to \div MonthDays
            head == IF from % MonthDays # 0 THEN 1 ELSE 0
            tail == IF (to + 1) % MonthDays # 0 THEN 1 ELSE 0
<1>1. MonthDays \in Nat \ {0}
  BY ComparisonAssumption
<1>2. f \in Nat /\ t \in Nat /\ head \in 0 .. 1 /\ tail \in 0 .. 1
  BY <1>1, Quotient
<1>3. Bins(from, to) = IF t - f + 1 - head - tail >= 2 THEN t - f + 1 - head - tail
                       ELSE t - f + 1
  <2>. DEFINE months == t - f + 1
              trimmed == months - head - tail
  <2>1. Bins(from, to) = IF trimmed >= 2 THEN trimmed ELSE months
    BY Zenon DEF Bins
  <2>. HIDE DEF f, t, head, tail
  <2> QED
    BY <2>1, <1>2
<1>. HIDE DEF f, t, head, tail
<1>4. Bins(from, to) \in Int /\ (Bins(from, to) >= 2 <=> f < t)
  BY <1>2, <1>3
<1> QED
  BY <1>4 DEF f, t

LEMMA RecommendedIffEarned == ComparisonType => RecommendationIsEarned
<1>. SUFFICES ASSUME ComparisonType PROVE RecommendationIsEarned
  OBVIOUS
<1>. DEFINE Long == window.to - window.from + 1 >= MinDays
            TwoMonths == window.from \div MonthDays < window.to \div MonthDays
            Clear(o) == Adjusted(TestFamily, o) < Alpha
<1>1. /\ Family(TestFamily) /\ DOMAIN TestFamily = Others /\ Others # {}
      /\ \A o \in Others : TestFamily[o] = tests[o] /\ tests[o] \in 0 .. One
  BY OthersAreAFamily
<1>2. Overall = "statistically_lower" <=> \A o \in Others : Classified(o) = "statistically_lower"
  <2>. DEFINE classes == {Classified(o) : o \in Others}
  <2>1. Overall = "statistically_lower" <=> classes = {"statistically_lower"}
    BY DEF Overall
  <2> QED
    BY <2>1, <1>1
<1>3. Bins(window.from, window.to) \in Int /\ (Bins(window.from, window.to) >= 2 <=> TwoMonths)
  <2>1. window.from \in Nat /\ window.to \in Nat /\ window.from <= window.to
    BY DEF ComparisonType
  <2> QED
    BY <2>1, TwoBins
<1>4. ASSUME NEW o \in Others
      PROVE  Classified(o) = "statistically_lower"
               <=> Met(o) /\ TwoMonths /\ Clear(o) /\ FarLower(o)
  <2>1. Bins(window.from, window.to) < 2 <=> ~TwoMonths
    BY <1>3
  <2>2. CASE ~Met(o)
    BY <2>2 DEF Classified
  <2>3. CASE Met(o) /\ ~TwoMonths
    BY <2>1, <2>3, <1>3 DEF Classified
  <2>4. CASE Met(o) /\ TwoMonths
    BY <2>1, <2>4, <1>3 DEF Classified
  <2> QED
    BY <2>2, <2>3, <2>4
<1>5. (\A o \in Others : Clear(o)) <=> (\A o \in Others : tests[o] < Alpha)
  <2>1. ASSUME NEW o \in Others, Clear(o) PROVE tests[o] < Alpha
    <3>1. TestFamily[o] <= One /\ o \in DOMAIN TestFamily /\ tests[o] \in Nat
      BY <1>1, CorrectionAssumption
    <3>2. TestFamily[o] <= Adjusted(TestFamily, o) /\ Adjusted(TestFamily, o) \in Nat
      BY <1>1, <3>1, NeverBelow
    <3> QED
      BY <1>1, <2>1, <3>1, <3>2, CorrectionAssumption
  <2>2. ASSUME \A o \in Others : tests[o] < Alpha PROVE \A o \in Others : Clear(o)
    <3>1. \A k \in DOMAIN TestFamily : TestFamily[k] < Alpha
      BY <1>1, <2>2
    <3> QED
      BY <1>1, <3>1, AllTogether, CorrectionAssumption
  <2> QED
    BY <2>1, <2>2
<1>6. \A o \in Others : Met(o) <=> /\ Long /\ counts[Candidate] >= PlaceFloor
                                   /\ counts[Candidate] + counts[o] >= CombinedFloor
  BY DEF Met
<1>. HIDE DEF Long, TwoMonths, Clear
<1>7. Overall = "statistically_lower"
        <=> /\ Long /\ TwoMonths /\ counts[Candidate] >= PlaceFloor
            /\ \A o \in Others : /\ counts[Candidate] + counts[o] >= CombinedFloor
                                 /\ tests[o] < Alpha /\ FarLower(o)
  BY <1>1, <1>2, <1>4, <1>5, <1>6
<1> QED
  BY <1>7 DEF RecommendationIsEarned, Long, TwoMonths

(* For any number of options, any counts and p-values and any window: the    *)
(* loop of benjamini_hochberg computes the step-up adjustment, and a place   *)
(* is recommended exactly when it has earned it (rate_tests.py,              *)
(* comparison.py).                                                           *)
THEOREM ComparisonsAreSound == ComparisonInit => DecisionsHold
BY InputsAreTyped, AdjustmentIsStepUp, RecommendedIffEarned DEF DecisionsHold

-----------------------------------------------------------------------------
(* The baselines of a place: what its counts and its verdict rest on.        *)

Spot == Cell \cup {None}
SharedKind == {"sector", "city", "coverage"}
Verdict ==
    {"baseline_unavailable", "insufficient_data", "above_clear", "below_clear", "not_clear"}
EntryRow == [rest : SUBSET Crime, test : Nat]
AnswerRow ==
    [place : SUBSET Crime, mcpp : SUBSET Crime, adjusted : Nat, verdict : Verdict]

BaselineType ==
    /\ incidents = [i \in Crime |-> incidents[i]] /\ DOMAIN buffered \subseteq Crime
    /\ places \in Seq(Spot) /\ places # <<>> /\ pValues \in Seq(TestValue)
    /\ entries \in Seq(EntryRow) /\ answers \in Seq(AnswerRow)

(* How far the request is: its loops run one after the other.                *)
ProgressInv ==
    \/ /\ query = <<0, "buffer">> /\ moved = {} /\ entries = <<>> /\ answers = <<>>
       /\ pValues = <<>> /\ DOMAIN shared = {}
    \/ /\ query[2] = "beat" /\ query[1] \in DOMAIN places /\ Len(entries) = query[1] - 1
       /\ answers = <<>> /\ DOMAIN shared = {}
    \/ /\ query[2] = "mcpp" /\ query[1] \in DOMAIN places /\ Len(entries) = Len(places)
       /\ Len(answers) = query[1] - 1
    \/ /\ query[2] \in {"sector", "city", "coverage"} /\ query[1] \in DOMAIN places
       /\ Len(entries) = Len(places) /\ Len(answers) = query[1]
    \/ /\ query[2] = "done" /\ Len(entries) = Len(places) /\ Len(answers) = Len(places)

Near(i, c) == Located(incidents[i]) /\ incidents[i].at \in Buffer(c)

(* What has been counted of the incidents that nobody has touched.           *)
CountInv ==
    \A i \in Crime \ moved :
      /\ query[2] # "buffer" =>
           \A c \in Cell : (\E n \in DOMAIN places : places[n] = c) =>
             (i \in InRadius(buffered, c) <=> Near(i, c))
      /\ \A n \in DOMAIN entries, c \in Spot : entries[n].test # 0 /\ places[n] = c =>
           (i \in entries[n].rest <=> i \in Rest("beat", c))
      /\ \A n \in DOMAIN answers, c \in Spot : answers[n].mcpp # {} /\ places[n] = c =>
           (i \in answers[n].mcpp <=> i \in Rest("mcpp", c))
      /\ \A kind \in SharedKind, c \in Spot : SharedKey(kind, c) \in DOMAIN shared =>
           (i \in shared[SharedKey(kind, c)] <=> i \in SharedRows(kind, c))

PlaceInv ==
    /\ \A n \in DOMAIN answers :
         answers[n].place = IF places[n] = None THEN {} ELSE InRadius(buffered, places[n])
    /\ \A n \in DOMAIN entries : entries[n].test # 0 => Home("beat", places[n]) # None

(* The places whose shared rows of a kind have been read.                    *)
Needs(kind, c) ==
    CASE kind = "sector" -> Sector(c) # None
      [] kind = "city" -> c # None
      [] kind = "coverage" -> Home("beat", c) # None
Read(kind) ==
    {n \in DOMAIN answers :
       \/ query[2] = "done" \/ n < query[1]
       \/ kind = "sector" /\ query[2] \in {"city", "coverage"}
       \/ kind = "city" /\ query[2] = "coverage"}
ReadInv ==
    \A kind \in SharedKind : \A n \in Read(kind) :
      Needs(kind, places[n]) => SharedKey(kind, places[n]) \in DOMAIN shared

Tested == {n \in DOMAIN entries : entries[n].test # 0}
TestInv ==
    /\ Len(pValues) = Cardinality(Tested)
    /\ \A n \in Tested : /\ entries[n].test = Cardinality({m \in Tested : m <= n})
                         /\ entries[n].test \in DOMAIN pValues

Judged == {n \in DOMAIN answers : query[2] = "done" \/ n < query[1]}
VerdictInv ==
    /\ \A n \in DOMAIN answers \ Judged : answers[n].verdict = "baseline_unavailable"
    /\ \A n \in Judged :
         IF n \in Tested
         THEN /\ answers[n].adjusted = Adjusted(pValues, entries[n].test)
              /\ answers[n].verdict \in {"above_clear", "below_clear"} =>
                   answers[n].adjusted < Alpha /\ answers[n].place # {}
         ELSE answers[n].verdict \in {"baseline_unavailable", "insufficient_data"}

BaselineInv ==
    BaselineType /\ ProgressInv /\ CountInv /\ PlaceInv /\ ReadInv /\ TestInv /\ VerdictInv

LEMMA PValuesAreAFamily ==
  ASSUME BaselineType
  PROVE  Family(pValues) /\ \A k \in DOMAIN pValues : pValues[k] <= One
<1>1. pValues \in Seq(TestValue) /\ TestValue \subseteq 0 .. One /\ One \in Nat
  BY NeighborhoodAssumption, CorrectionAssumption DEF BaselineType
<1>2. DOMAIN pValues = 1 .. Len(pValues) /\ Len(pValues) \in Nat
  BY <1>1
<1>5. ASSUME NEW k \in DOMAIN pValues PROVE pValues[k] \in TestValue
  BY <1>1
<1>6. \A x \in TestValue : x \in 0 .. One
  BY NeighborhoodAssumption
<1>7. \A x \in TestValue : x \in Nat /\ x <= One
  BY <1>6, CorrectionAssumption
<1>3. \A k \in DOMAIN pValues : pValues[k] \in Nat /\ pValues[k] <= One
  BY <1>5, <1>7
<1>4. IsFiniteSet(DOMAIN pValues)
  BY <1>2, FS_Interval
<1> QED
  BY <1>1, <1>2, <1>3, <1>4 DEF Family

LEMMA Spots ==
  /\ \A c \in Cell : c \in Spot /\ c # None /\ c \in Nat
  /\ \A c \in Spot : Home("beat", c) # None => c \in Cell /\ Home("beat", c) \in DOMAIN SectorOf
  /\ \A c \in Spot : Sector(c) # None => Home("beat", c) # None
BY NeighborhoodAssumption DEF Spot, Home, Sector

(* A key stands for one set of rows.                                         *)
LEMMA KeysStandForRows ==
  ASSUME NEW k \in SharedKind, NEW l \in SharedKind, NEW c, NEW d,
         SharedKey(k, c) = SharedKey(l, d)
  PROVE  SharedRows(k, c) = SharedRows(l, d)
<1>1. k = l
  BY DEF SharedKind, SharedKey
<1>2. CASE k = "sector"
  <2>1. Sector(c) = Sector(d)
    BY <1>1, <1>2 DEF SharedKey
  <2> QED
    BY <2>1, <1>1, <1>2 DEF SharedRows
<1>3. CASE k = "city"
  BY <1>1, <1>3 DEF SharedRows
<1>4. CASE k = "coverage"
  <2>1. Home("beat", c) = Home("beat", d)
    BY <1>1, <1>4 DEF SharedKey
  <2> QED
    BY <2>1, <1>1, <1>4 DEF SharedRows
<1> QED
  BY <1>2, <1>3, <1>4 DEF SharedKind

LEMMA BaselineInvHolds == BaselineInv => BaselinesHold
<1>. SUFFICES ASSUME BaselineInv PROVE BaselinesHold
  OBVIOUS
<1>1. CountedWhereItBelongs
  <2>. SUFFICES ASSUME query[2] = "done", NEW n \in DOMAIN places, NEW i \in Crime \ moved,
                       Home("beat", places[n]) # None
                PROVE
        LET c == places[n] rec == incidents[i] answer == answers[n]
            of(kind, areas) == Located(rec) /\ AreaOf[kind][rec.in] \in areas
        IN    /\ entries[n].test # 0 /\ of("beat", Region("beat", c)) =>
                   (i \in answer.place) # (i \in entries[n].rest)
              /\ answer.mcpp # {} /\ of("mcpp", Region("mcpp", c)) =>
                   (i \in answer.place) # (i \in answer.mcpp)
              /\ Sector(c) # None =>
                   (i \in shared[SharedKey("sector", c)]
                      <=> of("beat", {b \in DOMAIN SectorOf : SectorOf[b] = Sector(c)}))
              /\ of("beat", {Home("beat", c)}) =>
                   i \in shared[SharedKey("city", c)] \cap shared[SharedKey("coverage", c)]
    BY DEF CountedWhereItBelongs
  <2>1. PICK c \in Cell : c = places[n] /\ Home("beat", c) \in DOMAIN SectorOf /\ c \in Spot
    <3>1. places[n] \in Spot
      BY DEF BaselineInv, BaselineType
    <3> QED
      BY <3>1, Spots
  <2>2. n \in DOMAIN entries /\ n \in DOMAIN answers /\ c # None
    BY <2>1, Spots DEF BaselineInv, ProgressInv, BaselineType
  <2>3. /\ i \in answers[n].place <=> Near(i, c)
        /\ entries[n].test # 0 => (i \in entries[n].rest <=> i \in Rest("beat", c))
        /\ answers[n].mcpp # {} => (i \in answers[n].mcpp <=> i \in Rest("mcpp", c))
    BY <2>1, <2>2 DEF BaselineInv, CountInv, PlaceInv
  <2>4. ASSUME NEW kind \in SharedKind, Needs(kind, c)
        PROVE  i \in shared[SharedKey(kind, c)] <=> i \in SharedRows(kind, c)
    <3>1. n \in Read(kind)
      BY <2>2 DEF Read
    <3> QED
      BY <3>1, <2>1, <2>4 DEF BaselineInv, CountInv, ReadInv
  <2>5. ASSUME NEW kind, Located(incidents[i]), AreaOf[kind][incidents[i].in] \in Region(kind, c)
        PROVE  i \in Rest(kind, c) <=> ~Near(i, c)
    BY <2>5 DEF Rest, InAreas, Near
  <2>6. Sector(c) # None =>
          (i \in shared[SharedKey("sector", c)]
             <=> /\ Located(incidents[i])
                 /\ AreaOf["beat"][incidents[i].in]
                      \in {b \in DOMAIN SectorOf : SectorOf[b] = Sector(c)})
    BY <2>4 DEF SharedKind, Needs, SharedRows, InAreas
  <2>7. Located(incidents[i]) /\ AreaOf["beat"][incidents[i].in] = Home("beat", c) =>
          i \in shared[SharedKey("city", c)]
    BY <2>1, <2>2, <2>4 DEF SharedKind, Needs, SharedRows, InAreas
  <2>8. Located(incidents[i]) /\ AreaOf["beat"][incidents[i].in] = Home("beat", c) =>
          i \in shared[SharedKey("coverage", c)]
    BY <2>1, <2>2, <2>4 DEF SharedKind, Needs, SharedRows, Located
  <2> QED
    BY <2>1, <2>3, <2>5, <2>6, <2>7, <2>8
<1>2. VerdictIsItsOwn
  <2>. SUFFICES ASSUME query[2] = "done", NEW n \in DOMAIN places
                PROVE
        LET tested == {m \in DOMAIN places : entries[m].test # 0}
            own == Cardinality({m \in tested : m <= n})
        IN  IF n \in tested
            THEN /\ answers[n].adjusted = Adjusted(pValues, own)
                 /\ answers[n].verdict \in {"above_clear", "below_clear"} =>
                      pValues[own] < Alpha /\ answers[n].place # {}
            ELSE answers[n].verdict \in {"baseline_unavailable", "insufficient_data"}
    BY DEF VerdictIsItsOwn
  <2>1. DOMAIN places = DOMAIN entries /\ n \in DOMAIN answers
    BY DEF BaselineInv, ProgressInv, BaselineType
  <2>2. Tested = {m \in DOMAIN places : entries[m].test # 0} /\ n \in Judged
    BY <2>1 DEF Tested, Judged
  <2>3. CASE n \in Tested
    <3>. DEFINE own == Cardinality({m \in Tested : m <= n})
    <3>1. entries[n].test = own /\ own \in DOMAIN pValues
      BY <2>3 DEF BaselineInv, TestInv
    <3>. HIDE DEF own
    <3>2. pValues[own] <= Adjusted(pValues, own) /\ Adjusted(pValues, own) \in Nat /\ pValues[own] \in Nat
      BY <3>1, PValuesAreAFamily, NeverBelow DEF BaselineInv, Family
    <3>3. /\ answers[n].adjusted = Adjusted(pValues, own)
          /\ answers[n].verdict \in {"above_clear", "below_clear"} =>
               answers[n].adjusted < Alpha /\ answers[n].place # {}
      BY <2>2, <2>3, <3>1 DEF BaselineInv, VerdictInv
    <3>4. answers[n].adjusted < Alpha => pValues[own] < Alpha
      BY <3>2, <3>3, CorrectionAssumption
    <3> QED
      BY <2>2, <2>3, <3>3, <3>4 DEF own
  <2>4. CASE n \notin Tested
    BY <2>2, <2>4 DEF BaselineInv, VerdictInv
  <2> QED
    BY <2>2, <2>3, <2>4
<1> QED
  BY <1>1, <1>2 DEF BaselinesHold

-----------------------------------------------------------------------------
(* The queries keep it.                                                      *)

LEMMA InitBaseline == NeighborhoodInit => BaselineInv
<1>. SUFFICES ASSUME NeighborhoodInit PROVE BaselineInv
  OBVIOUS
<1>1. query = <<0, "buffer">> /\ query[2] = "buffer" /\ entries = <<>> /\ answers = <<>> /\ pValues = <<>>
  BY DEF NeighborhoodInit
<1>2. DOMAIN shared = {} /\ DOMAIN buffered = {} /\ moved = {}
  BY DEF NeighborhoodInit
<1>3. DOMAIN entries = {} /\ DOMAIN answers = {} /\ Len(pValues) = 0
  BY <1>1
<1>4. BaselineType
  <2>1. places \in Seq(Spot) /\ places # <<>>
    BY NeighborhoodAssumption DEF NeighborhoodInit, Spot
  <2>2. incidents = [i \in Crime |-> incidents[i]]
    BY DEF NeighborhoodInit
  <2> QED
    BY <1>1, <1>2, <2>1, <2>2 DEF BaselineType
<1>5. ProgressInv
  BY <1>1, <1>2 DEF ProgressInv
<1>6. CountInv
  BY <1>1, <1>2, <1>3 DEF CountInv
<1>7. PlaceInv /\ ReadInv /\ VerdictInv
  BY <1>3 DEF PlaceInv, ReadInv, Read, VerdictInv, Judged
<1>8. TestInv
  <2>1. Tested = {}
    BY <1>3 DEF Tested
  <2> QED
    BY <2>1, <1>3, FS_EmptySet DEF TestInv
<1> QED
  BY <1>4, <1>5, <1>6, <1>7, <1>8 DEF BaselineInv

(* Of an incident that did not change the table says what it said.           *)
LEMMA Steady ==
  ASSUME NEW i \in Crime, incidents'[i] = incidents[i], NEW c
  PROVE  /\ Near(i, c)' <=> Near(i, c)
         /\ \A kind : (i \in Rest(kind, c))' <=> i \in Rest(kind, c)
         /\ \A kind \in SharedKind : (i \in SharedRows(kind, c))' <=> i \in SharedRows(kind, c)
<1>1. Near(i, c)' <=> Near(i, c)
  BY DEF Near, Located
<1>2. \A kind, areas : (i \in InAreas(kind, areas))' <=> i \in InAreas(kind, areas)
  BY DEF InAreas, Located
<1>3. \A kind : (i \in Rest(kind, c))' <=> i \in Rest(kind, c)
  BY DEF InAreas, Located, Rest
<1>4. ASSUME NEW kind \in SharedKind
      PROVE  (i \in SharedRows(kind, c))' <=> i \in SharedRows(kind, c)
  <2>1. CASE kind = "sector"
    BY <2>1 DEF SharedRows, InAreas, Located
  <2>2. CASE kind = "city"
    BY <2>2 DEF SharedRows, InAreas, Located
  <2>3. CASE kind = "coverage"
    BY <2>3 DEF SharedRows
  <2> QED
    BY <2>1, <2>2, <2>3 DEF SharedKind
<1> QED
  BY <1>1, <1>3, <1>4

(* The request's own steps: what they add to the counts is what the table    *)
(* says.                                                                     *)
LEMMA CountStep ==
  ASSUME BaselineInv, UNCHANGED <<incidents, places, moved>>,
         \/ UNCHANGED buffered /\ (query'[2] # "buffer" => query[2] # "buffer")
         \/ \A i \in Crime, c \in Cell : (\E n \in DOMAIN places : places[n] = c) =>
              (/\ i \in DOMAIN buffered' /\ Located(buffered'[i]) /\ buffered'[i].at \in Buffer(c)
               <=> Near(i, c)),
         \A n \in DOMAIN entries' :
           \/ n \in DOMAIN entries /\ entries'[n] = entries[n]
           \/ entries'[n].test = 0
           \/ \A c \in Spot : places[n] = c => entries'[n].rest = Rest("beat", c),
         \A n \in DOMAIN answers' :
           \/ n \in DOMAIN answers /\ answers'[n].mcpp = answers[n].mcpp
           \/ answers'[n].mcpp = {}
           \/ \A c \in Spot : places[n] = c => answers'[n].mcpp = Rest("mcpp", c),
         \A k \in DOMAIN shared' :
           \/ k \in DOMAIN shared /\ shared'[k] = shared[k]
           \/ \E kind \in SharedKind, c \in Spot :
                k = SharedKey(kind, c) /\ shared'[k] = SharedRows(kind, c)
  PROVE  CountInv'
<1>. SUFFICES ASSUME NEW i \in Crime \ moved
              PROVE
      /\ (query[2] # "buffer")' =>
           \A c \in Cell : (\E n \in DOMAIN places : places[n] = c) =>
             (i \in InRadius(buffered, c)' <=> Near(i, c)')
      /\ \A n \in DOMAIN entries', c \in Spot : entries'[n].test # 0 /\ places[n] = c =>
           (i \in entries'[n].rest <=> (i \in Rest("beat", c))')
      /\ \A n \in DOMAIN answers', c \in Spot : answers'[n].mcpp # {} /\ places[n] = c =>
           (i \in answers'[n].mcpp <=> (i \in Rest("mcpp", c))')
      /\ \A kind \in SharedKind, c \in Spot : SharedKey(kind, c) \in DOMAIN shared' =>
           (i \in shared'[SharedKey(kind, c)] <=> (i \in SharedRows(kind, c))')
  BY DEF CountInv
<1>1. \A c : /\ Near(i, c)' <=> Near(i, c)
             /\ \A kind : (i \in Rest(kind, c))' <=> i \in Rest(kind, c)
             /\ \A kind \in SharedKind : (i \in SharedRows(kind, c))' <=> i \in SharedRows(kind, c)
  BY Steady
<1>2. ASSUME (query[2] # "buffer")', NEW c \in Cell, \E n \in DOMAIN places : places[n] = c
      PROVE  i \in InRadius(buffered, c)' <=> Near(i, c)'
  <2>1. CASE UNCHANGED buffered /\ (query'[2] # "buffer" => query[2] # "buffer")
    <3>1. i \in InRadius(buffered, c) <=> Near(i, c)
      BY <1>2, <2>1 DEF BaselineInv, CountInv
    <3> QED
      BY <3>1, <2>1, <1>1 DEF InRadius, Located
  <2>2. CASE \A j \in Crime, d \in Cell : (\E n \in DOMAIN places : places[n] = d) =>
              (/\ j \in DOMAIN buffered' /\ Located(buffered'[j]) /\ buffered'[j].at \in Buffer(d)
               <=> Near(j, d))
    BY <2>2, <1>2, <1>1 DEF InRadius, Located
  <2> QED
    BY <2>1, <2>2
<1>3. ASSUME NEW n \in DOMAIN entries', NEW c \in Spot, entries'[n].test # 0, places[n] = c
      PROVE  i \in entries'[n].rest <=> (i \in Rest("beat", c))'
  <2>1. CASE n \in DOMAIN entries /\ entries'[n] = entries[n]
    <3>1. i \in entries[n].rest <=> i \in Rest("beat", c)
      BY <2>1, <1>3 DEF BaselineInv, CountInv
    <3> QED
      BY <3>1, <2>1, <1>1
  <2>2. CASE entries'[n].rest = Rest("beat", c)
    BY <2>2, <1>1
  <2> QED
    BY <2>1, <2>2, <1>3
<1>4. ASSUME NEW n \in DOMAIN answers', NEW c \in Spot, answers'[n].mcpp # {}, places[n] = c
      PROVE  i \in answers'[n].mcpp <=> (i \in Rest("mcpp", c))'
  <2>1. CASE n \in DOMAIN answers /\ answers'[n].mcpp = answers[n].mcpp
    <3>1. i \in answers[n].mcpp <=> i \in Rest("mcpp", c)
      BY <2>1, <1>4 DEF BaselineInv, CountInv
    <3> QED
      BY <3>1, <2>1, <1>1
  <2>2. CASE answers'[n].mcpp = Rest("mcpp", c)
    <3>1. (i \in Rest("mcpp", c))' <=> i \in Rest("mcpp", c)
      BY <1>1
    <3> QED
      BY <3>1, <2>2, Zenon
  <2> QED
    BY <2>1, <2>2, <1>4
<1>5. ASSUME NEW kind \in SharedKind, NEW c \in Spot, SharedKey(kind, c) \in DOMAIN shared'
      PROVE  i \in shared'[SharedKey(kind, c)] <=> (i \in SharedRows(kind, c))'
  <2>. DEFINE k == SharedKey(kind, c)
  <2>1. CASE k \in DOMAIN shared /\ shared'[k] = shared[k]
    BY <2>1, <1>1 DEF BaselineInv, CountInv
  <2>2. CASE \E l \in SharedKind, d \in Spot :
               k = SharedKey(l, d) /\ shared'[k] = SharedRows(l, d)
    <3>1. PICK l \in SharedKind, d \in Spot : k = SharedKey(l, d) /\ shared'[k] = SharedRows(l, d)
      BY <2>2
    <3>2. SharedRows(kind, c) = SharedRows(l, d)
      BY <3>1, KeysStandForRows
    <3> QED
      BY <3>1, <3>2, <1>1
  <2> QED
    BY <2>1, <2>2, <1>5
<1> QED
  BY <1>2, <1>3, <1>4, <1>5

LEMMA BufferedStep == BaselineInv /\ Buffered => BaselineInv'
<1>. SUFFICES ASSUME BaselineInv, Buffered PROVE BaselineInv'
  OBVIOUS
<1>. DEFINE near == {i \in Crime : \E n \in DOMAIN places :
                      places[n] # None /\ i \in InRadius(incidents, places[n])}
<1>1. /\ query[2] = "buffer" /\ query' = <<1, "beat">> /\ buffered' = Restrict(incidents, near)
      /\ UNCHANGED <<incidents, places, entries, pValues, shared, answers, moved>>
  BY DEF Buffered
<1>2. /\ entries = <<>> /\ answers = <<>> /\ pValues = <<>> /\ DOMAIN shared = {}
      /\ incidents = [i \in Crime |-> incidents[i]]
  BY <1>1 DEF BaselineInv, ProgressInv, BaselineType
<1>3. DOMAIN buffered' = near /\ \A i \in near : buffered'[i] = incidents[i]
  BY <1>1 DEF Restrict
<1>4. query'[1] = 1 /\ query'[2] = "beat"
  BY <1>1
<1>5. BaselineType'
  BY <1>1, <1>3 DEF BaselineInv, BaselineType
<1>6. ProgressInv'
  <2>1. 1 \in DOMAIN places
    BY DEF BaselineInv, BaselineType
  <2>2. Len(entries') = 0 /\ answers' = <<>> /\ DOMAIN shared' = {}
    BY <1>1, <1>2
  <2> QED
    BY <2>1, <2>2, <1>1, <1>4 DEF ProgressInv
<1>7. CountInv'
  <2>1. ASSUME NEW i \in Crime, NEW c \in Cell, NEW n \in DOMAIN places, places[n] = c
        PROVE  (i \in DOMAIN buffered' /\ Located(buffered'[i]) /\ buffered'[i].at \in Buffer(c))
                 <=> Near(i, c)
    <3>1. c # None
      BY Spots
    <3>2. ASSUME Near(i, c) PROVE i \in near
      BY <3>1, <3>2, <2>1, <1>2 DEF Near, InRadius
    <3> QED
      BY <3>2, <1>3 DEF Near, Located
  <2>2. DOMAIN entries' = {} /\ DOMAIN answers' = {} /\ DOMAIN shared' = {}
    BY <1>1, <1>2
  <2> QED
    BY <2>1, <2>2, <1>1, CountStep
<1>8. PlaceInv' /\ ReadInv' /\ VerdictInv'
  BY <1>1, <1>2 DEF PlaceInv, ReadInv, Read, VerdictInv, Judged
<1>9. TestInv'
  BY <1>1 DEF BaselineInv, TestInv, Tested
<1> QED
  BY <1>5, <1>6, <1>7, <1>8, <1>9 DEF BaselineInv

LEMMA RestOfBeatStep == BaselineInv /\ RestOfBeat => BaselineInv'
<1>. SUFFICES ASSUME BaselineInv, RestOfBeat PROVE BaselineInv'
  OBVIOUS
<1>1. /\ query[2] = "beat"
      /\ UNCHANGED <<incidents, places, buffered, shared, answers, moved>>
  BY DEF RestOfBeat
<1>2. PICK n \in DOMAIN places : n = query[1]
  BY <1>1 DEF BaselineInv, ProgressInv
<1>3. PICK c \in Spot : c = places[n]
  BY DEF BaselineInv, BaselineType
<1>4. /\ Len(entries) = n - 1 /\ answers = <<>> /\ DOMAIN shared = {}
      /\ entries \in Seq(EntryRow) /\ pValues \in Seq(TestValue) /\ Len(places) \in Nat
      /\ n \in 1 .. Len(places) /\ DOMAIN places = 1 .. Len(places)
  BY <1>1, <1>2 DEF BaselineInv, ProgressInv, BaselineType
<1>5. query' = IF n < Len(places) THEN <<n + 1, "beat">> ELSE <<1, "mcpp">>
  BY <1>2 DEF RestOfBeat
<1>6. PICK e \in EntryRow :
        /\ entries' = Append(entries, e)
        /\ \/ e.test = 0 /\ UNCHANGED pValues
           \/ /\ e.test = Len(pValues) + 1 /\ e.rest = Rest("beat", c) /\ Home("beat", c) # None
              /\ \E p \in TestValue : pValues' = Append(pValues, p)
  <2>1. CASE Home("beat", c) = None \/ RestArea("beat", c) = 0 \/ Rest("beat", c) = {}
    <3>1. entries' = Append(entries, [rest |-> {}, test |-> 0]) /\ UNCHANGED pValues
      BY <2>1, <1>2, <1>3 DEF RestOfBeat
    <3>2. [rest |-> {}, test |-> 0] \in EntryRow
      BY DEF EntryRow
    <3> QED
      BY <3>1, <3>2
  <2>2. CASE ~(Home("beat", c) = None \/ RestArea("beat", c) = 0 \/ Rest("beat", c) = {})
    <3>1. PICK p \in TestValue :
            /\ entries' = Append(entries, [rest |-> Rest("beat", c), test |-> Len(pValues) + 1])
            /\ pValues' = Append(pValues, p)
      BY <2>2, <1>2, <1>3 DEF RestOfBeat
    <3>2. Rest("beat", c) \subseteq Crime /\ Len(pValues) + 1 \in Nat
      BY <1>4 DEF Rest, InAreas
    <3>3. [rest |-> Rest("beat", c), test |-> Len(pValues) + 1] \in EntryRow
      BY <3>2 DEF EntryRow
    <3> QED
      BY <3>1, <3>3, <2>2
  <2> QED
    BY <2>1, <2>2
<1>7. /\ entries' \in Seq(EntryRow) /\ Len(entries') = n /\ DOMAIN entries' = 1 .. n
      /\ DOMAIN entries = 1 .. (n - 1) /\ entries'[n] = e
      /\ \A m \in DOMAIN entries : entries'[m] = entries[m]
  <2>1. n \in Nat /\ n >= 1 /\ Len(entries) = n - 1 /\ entries \in Seq(EntryRow)
    BY <1>4
  <2>2. entries' = Append(entries, e)
    BY <1>6
  <2> QED
    BY <2>1, <2>2
<1>8. pValues' \in Seq(TestValue)
  <2>1. CASE UNCHANGED pValues
    BY <2>1, <1>4
  <2>2. CASE \E p \in TestValue : pValues' = Append(pValues, p)
    BY <2>2, <1>4
  <2> QED
    BY <2>1, <2>2, <1>6
<1>9. BaselineType'
  BY <1>1, <1>7, <1>8 DEF BaselineInv, BaselineType
<1>10. ProgressInv'
  <2>1. CASE n < Len(places)
    <3>1. query'[1] = n + 1 /\ query'[2] = "beat" /\ n + 1 \in DOMAIN places /\ Len(entries') = (n + 1) - 1
      BY <2>1, <1>4, <1>5, <1>7
    <3> QED
      BY <3>1, <1>1, <1>4 DEF ProgressInv
  <2>2. CASE ~(n < Len(places))
    <3>1. query'[1] = 1 /\ query'[2] = "mcpp" /\ 1 \in DOMAIN places /\ Len(entries') = Len(places)
      BY <2>2, <1>4, <1>5, <1>7
    <3>2. Len(answers') = 1 - 1
      BY <1>1, <1>4
    <3> QED
      BY <3>1, <3>2, <1>1 DEF ProgressInv
  <2> QED
    BY <2>1, <2>2
<1>11. CountInv'
  <2>1. ASSUME NEW m \in DOMAIN entries'
        PROVE  \/ m \in DOMAIN entries /\ entries'[m] = entries[m]
               \/ entries'[m].test = 0
               \/ \A d \in Spot : places[m] = d => entries'[m].rest = Rest("beat", d)
    <3>1. CASE m = n
      BY <3>1, <1>3, <1>6, <1>7
    <3>2. CASE m # n
      BY <3>2, <1>4, <1>7
    <3> QED
      BY <3>1, <3>2
  <2>2. DOMAIN answers' = {} /\ DOMAIN shared' = {} /\ query[2] # "buffer"
    BY <1>1, <1>4
  <2> QED
    BY <2>1, <2>2, <1>1, CountStep
<1>12. PlaceInv'
  <2>1. ASSUME NEW m \in DOMAIN entries', entries'[m].test # 0
        PROVE  Home("beat", places[m]) # None
    <3>1. CASE m = n
      BY <3>1, <2>1, <1>3, <1>6, <1>7
    <3>2. CASE m # n
      BY <3>2, <2>1, <1>4, <1>7 DEF BaselineInv, PlaceInv
    <3> QED
      BY <3>1, <3>2
  <2>2. DOMAIN answers' = {}
    BY <1>1, <1>4
  <2> QED
    BY <2>1, <2>2, <1>1 DEF PlaceInv
<1>13. ReadInv' /\ VerdictInv'
  <2>1. DOMAIN answers' = {}
    BY <1>1, <1>4
  <2> QED
    BY <2>1 DEF ReadInv, Read, VerdictInv, Judged
<1>14. TestInv'
  <2>. DEFINE T == Tested U == Tested'
  <2>1. T \subseteq 1 .. (n - 1) /\ T = {m \in 1 .. (n - 1) : entries[m].test # 0}
    BY <1>7 DEF Tested
  <2>2. U = {m \in 1 .. n : entries'[m].test # 0}
    BY <1>7 DEF Tested
  <2>3. n \in Nat \ {0} /\ IsFiniteSet(T) /\ Cardinality(T) \in Nat
    <3>1. n \in Nat \ {0} /\ n - 1 \in Nat
      BY <1>4
    <3>2. IsFiniteSet(1 .. (n - 1))
      BY <3>1, FS_Interval
    <3>3. IsFiniteSet(T)
      BY <2>1, <3>2, FS_Subset
    <3> QED
      BY <3>1, <3>3, FS_CardinalityType
  <2>4. /\ Len(pValues) = Cardinality(T) /\ DOMAIN pValues = 1 .. Len(pValues)
        /\ \A m \in T : entries[m].test = Cardinality({k \in T : k <= m}) /\ entries[m].test \in DOMAIN pValues
    BY <1>4 DEF BaselineInv, TestInv
  <2>5. CASE e.test = 0 /\ UNCHANGED pValues
    <3>1. U = T
      BY <2>1, <2>2, <2>5, <1>4, <1>7
    <3>2. \A m \in T : entries'[m] = entries[m]
      BY <2>1, <1>7
    <3> QED
      BY <3>1, <3>2, <2>4, <2>5 DEF TestInv
  <2>6. CASE e.test = Len(pValues) + 1 /\ \E p \in TestValue : pValues' = Append(pValues, p)
    <3>1. e.test # 0 /\ Len(pValues') = Len(pValues) + 1 /\ DOMAIN pValues' = 1 .. (Len(pValues) + 1)
      BY <2>6, <1>4
    <3>2. U = T \cup {n} /\ n \notin T
      BY <2>1, <2>2, <2>3, <3>1, <1>7
    <3>3. Cardinality(U) = Cardinality(T) + 1
      BY <2>3, <3>2, FS_AddElement
    <3>4. ASSUME NEW m \in T
          PROVE  {k \in U : k <= m} = {k \in T : k <= m} /\ entries'[m] = entries[m]
      BY <2>1, <2>3, <3>2, <1>7
    <3>5. {k \in U : k <= n} = U
      BY <2>2, <2>3
    <3>6. ASSUME NEW m \in U
          PROVE  entries'[m].test = Cardinality({k \in U : k <= m}) /\ entries'[m].test \in DOMAIN pValues'
      <4>1. CASE m = n
        <5>1. entries'[m].test = Len(pValues) + 1 /\ Len(pValues) = Cardinality(T)
          BY <4>1, <2>4, <2>6, <1>7
        <5>2. Cardinality({k \in U : k <= m}) = Cardinality(T) + 1
          BY <4>1, <3>3, <3>5
        <5> QED
          BY <5>1, <5>2, <3>1, <2>3
      <4>2. CASE m \in T
        BY <4>2, <3>1, <3>4, <2>3, <2>4
      <4> QED
        BY <4>1, <4>2, <3>2
    <3>7. Len(pValues') = Cardinality(U)
      BY <3>1, <3>3, <2>4
    <3> QED
      BY <3>6, <3>7 DEF TestInv
  <2> QED
    BY <2>5, <2>6, <1>6
<1> QED
  BY <1>9, <1>10, <1>11, <1>12, <1>13, <1>14 DEF BaselineInv

LEMMA RestOfNeighborhoodStep == BaselineInv /\ RestOfNeighborhood => BaselineInv'
<1>. SUFFICES ASSUME BaselineInv, RestOfNeighborhood PROVE BaselineInv'
  OBVIOUS
<1>1. /\ query[2] = "mcpp"
      /\ UNCHANGED <<incidents, places, buffered, entries, pValues, shared, moved>>
  BY DEF RestOfNeighborhood
<1>2. PICK n \in DOMAIN places : n = query[1]
  BY <1>1 DEF BaselineInv, ProgressInv
<1>3. PICK c \in Spot : c = places[n]
  BY DEF BaselineInv, BaselineType
<1>4. query' = <<n, "sector">> /\ query'[1] = n /\ query'[2] = "sector"
  BY <1>2 DEF RestOfNeighborhood
<1>5. /\ Len(entries) = Len(places) /\ Len(answers) = n - 1 /\ n \in Nat /\ n >= 1
      /\ answers \in Seq(AnswerRow) /\ DOMAIN answers = 1 .. (n - 1)
  BY <1>1, <1>2 DEF BaselineInv, ProgressInv, BaselineType
<1>6. PICK a \in AnswerRow :
        /\ answers' = Append(answers, a)
        /\ a.place = IF c = None THEN {} ELSE InRadius(buffered, c)
        /\ a.mcpp = {} \/ a.mcpp = Rest("mcpp", c)
        /\ a.verdict = "baseline_unavailable"
  <2>. DEFINE p == IF c = None THEN {} ELSE InRadius(buffered, c)
              m == IF Home("mcpp", c) = None \/ RestArea("mcpp", c) = 0 THEN {} ELSE Rest("mcpp", c)
              a == [place |-> p, mcpp |-> m, adjusted |-> 0, verdict |-> "baseline_unavailable"]
  <2>1. answers' = Append(answers, a)
    BY <1>2, <1>3 DEF RestOfNeighborhood
  <2>2. p \subseteq Crime
    BY DEF BaselineInv, BaselineType, InRadius
  <2>3. m \subseteq Crime /\ (m = {} \/ m = Rest("mcpp", c))
    BY DEF Rest, InAreas
  <2>4. a \in AnswerRow
    <3>. HIDE DEF p, m
    <3> QED
      BY <2>2, <2>3 DEF AnswerRow, Verdict
  <2> QED
    BY <2>1, <2>3, <2>4
<1>7. /\ answers' \in Seq(AnswerRow) /\ Len(answers') = n /\ DOMAIN answers' = 1 .. n
      /\ answers'[n] = a /\ \A m \in DOMAIN answers : answers'[m] = answers[m]
  <2>1. answers' = Append(answers, a)
    BY <1>6
  <2> QED
    BY <2>1, <1>5
<1>8. \A m \in DOMAIN answers' :
        m = n \/ (m \in DOMAIN answers /\ m < n /\ answers'[m] = answers[m])
  <2>1. \A m \in 1 .. n : m = n \/ (m \in 1 .. (n - 1) /\ m < n)
    BY <1>5
  <2> QED
    BY <2>1, <1>5, <1>7
<1>9. BaselineType'
  BY <1>1, <1>7 DEF BaselineInv, BaselineType
<1>10. ProgressInv'
  BY <1>1, <1>4, <1>5, <1>7 DEF ProgressInv
<1>11. CountInv'
  <2>1. ASSUME NEW m \in DOMAIN answers'
        PROVE  \/ m \in DOMAIN answers /\ answers'[m].mcpp = answers[m].mcpp
               \/ answers'[m].mcpp = {}
               \/ \A d \in Spot : places[m] = d => answers'[m].mcpp = Rest("mcpp", d)
    BY <1>3, <1>6, <1>7, <1>8
  <2>2. query[2] # "buffer"
    BY <1>1
  <2> QED
    BY <2>1, <2>2, <1>1, CountStep
<1>12. PlaceInv'
  <2>1. ASSUME NEW m \in DOMAIN answers'
        PROVE  answers'[m].place = IF places[m] = None THEN {} ELSE InRadius(buffered, places[m])
    <3>1. CASE m = n
      BY <3>1, <1>3, <1>6, <1>7
    <3>2. CASE m # n
      BY <3>2, <1>8 DEF BaselineInv, PlaceInv
    <3> QED
      BY <3>1, <3>2
  <2> QED
    BY <2>1, <1>1 DEF BaselineInv, PlaceInv, InRadius
<1>13. ReadInv'
  <2>1. ASSUME NEW kind \in SharedKind, NEW m \in Read(kind)'
        PROVE  m \in Read(kind)
    <3>1. m \in DOMAIN answers' /\ m < n
      BY <1>4, <1>5, <1>7 DEF Read
    <3> QED
      BY <3>1, <1>2, <1>8, <1>5 DEF Read
  <2> QED
    BY <2>1, <1>1 DEF BaselineInv, ReadInv
<1>14. TestInv'
  BY <1>1 DEF BaselineInv, TestInv, Tested
<1>15. VerdictInv'
  <2>1. Judged' = DOMAIN answers /\ Judged = DOMAIN answers
    BY <1>1, <1>2, <1>4, <1>5, <1>7 DEF Judged
  <2>2. Tested' = Tested
    BY <1>1 DEF Tested
  <2>3. ASSUME NEW m \in DOMAIN answers'
        PROVE  /\ m \notin Judged' => answers'[m].verdict = "baseline_unavailable"
               /\ m \in Judged' => m \in Judged /\ answers'[m] = answers[m]
    BY <2>1, <1>6, <1>7, <1>8
  <2>4. \A m \in DOMAIN answers' \ Judged' : answers'[m].verdict = "baseline_unavailable"
    BY <2>3
  <2>5. ASSUME NEW m \in Judged'
        PROVE  IF m \in Tested'
               THEN /\ answers'[m].adjusted = Adjusted(pValues', entries'[m].test)
                    /\ answers'[m].verdict \in {"above_clear", "below_clear"} =>
                         answers'[m].adjusted < Alpha /\ answers'[m].place # {}
               ELSE answers'[m].verdict \in {"baseline_unavailable", "insufficient_data"}
    <3>1. m \in Judged /\ answers'[m] = answers[m]
      BY <2>1, <2>3, <1>7
    <3>2. IF m \in Tested
          THEN /\ answers[m].adjusted = Adjusted(pValues, entries[m].test)
               /\ answers[m].verdict \in {"above_clear", "below_clear"} =>
                    answers[m].adjusted < Alpha /\ answers[m].place # {}
          ELSE answers[m].verdict \in {"baseline_unavailable", "insufficient_data"}
      BY <3>1 DEF BaselineInv, VerdictInv
    <3> QED
      BY <3>1, <3>2, <2>2, <1>1
  <2> QED
    BY <2>4, <2>5 DEF VerdictInv
<1> QED
  BY <1>9, <1>10, <1>11, <1>12, <1>13, <1>14, <1>15 DEF BaselineInv

(* Reading shared rows, for the place the request is at.                     *)
LEMMA SharedStep ==
  ASSUME BaselineInv, NEW kind \in SharedKind, query[2] = kind,
         UNCHANGED <<incidents, places, buffered, entries, pValues, moved>>,
         NEW n \in DOMAIN places, NEW c \in Spot, c = places[n],
         \/ UNCHANGED shared /\ (Needs(kind, c) => SharedKey(kind, c) \in DOMAIN shared)
         \/ shared' = [k \in DOMAIN shared \cup {SharedKey(kind, c)} |->
                         IF k = SharedKey(kind, c) THEN SharedRows(kind, c) ELSE shared[k]],
         DOMAIN answers' = DOMAIN answers,
         \A m \in DOMAIN answers :
           answers'[m].mcpp = answers[m].mcpp /\ answers'[m].place = answers[m].place,
         \A l \in SharedKind : \A m \in Read(l)' : m \in Read(l) \/ (l = kind /\ m = n)
  PROVE  CountInv' /\ PlaceInv' /\ ReadInv' /\ TestInv'
<1>. DEFINE key == SharedKey(kind, c)
<1>1. \A k \in DOMAIN shared' :
           \/ k \in DOMAIN shared /\ shared'[k] = shared[k]
           \/ k = key /\ shared'[k] = SharedRows(kind, c)
  OBVIOUS
<1>2. DOMAIN shared \subseteq DOMAIN shared' /\ (Needs(kind, c) => key \in DOMAIN shared')
  OBVIOUS
<1>3. CountInv'
  <2>1. query[2] # "buffer"
    BY DEF SharedKind
  <2> QED
    BY <2>1, <1>1, CountStep
<1>4. PlaceInv'
  <2>1. \A m \in DOMAIN answers' :
          answers'[m].place = IF places[m] = None THEN {} ELSE InRadius(buffered, places[m])
    BY DEF BaselineInv, PlaceInv
  <2> QED
    BY <2>1 DEF BaselineInv, PlaceInv, InRadius
<1>5. ReadInv'
  <2>1. ASSUME NEW l \in SharedKind, NEW m \in Read(l)', Needs(l, places[m])
        PROVE  SharedKey(l, places[m]) \in DOMAIN shared'
    <3>1. CASE m \in Read(l)
      BY <3>1, <2>1, <1>2 DEF BaselineInv, ReadInv
    <3>2. CASE l = kind /\ m = n
      BY <3>2, <2>1, <1>2
    <3> QED
      BY <3>1, <3>2
  <2> QED
    BY <2>1 DEF ReadInv
<1>6. TestInv'
  <2>1. entries' = entries /\ pValues' = pValues /\ TestInv
    BY DEF BaselineInv
  <2>2. Tested' = Tested
    BY <2>1 DEF Tested
  <2> QED
    BY <2>1, <2>2 DEF TestInv
<1> QED
  BY <1>3, <1>4, <1>5, <1>6

LEMMA ReadSectorStep == BaselineInv /\ ReadSector => BaselineInv'
<1>. SUFFICES ASSUME BaselineInv, ReadSector PROVE BaselineInv'
  OBVIOUS
<1>1. /\ query[2] = "sector"
      /\ UNCHANGED <<incidents, places, buffered, entries, pValues, answers, moved>>
  BY DEF ReadSector, ReadShared
<1>2. PICK n \in DOMAIN places : n = query[1]
  BY <1>1 DEF BaselineInv, ProgressInv
<1>3. PICK c \in Spot : c = places[n]
  BY DEF BaselineInv, BaselineType
<1>4. query' = <<n, "city">> /\ query'[1] = n /\ query'[2] = "city"
  BY <1>2 DEF ReadSector
<1>5. \/ UNCHANGED shared /\ (Needs("sector", c) => SharedKey("sector", c) \in DOMAIN shared)
      \/ shared' = [k \in DOMAIN shared \cup {SharedKey("sector", c)} |->
                      IF k = SharedKey("sector", c) THEN SharedRows("sector", c) ELSE shared[k]]
  BY <1>2, <1>3 DEF ReadSector, ReadShared, Needs
<1>6. /\ Len(entries) = Len(places) /\ Len(answers) = n /\ n \in Nat
      /\ DOMAIN answers = 1 .. n
  BY <1>1, <1>2 DEF BaselineInv, ProgressInv, BaselineType
<1>7. BaselineType'
  BY <1>1 DEF BaselineInv, BaselineType
<1>8. ProgressInv'
  BY <1>1, <1>4, <1>6 DEF ProgressInv
<1>9. CountInv' /\ PlaceInv' /\ ReadInv' /\ TestInv'
  <2>1. ASSUME NEW l \in SharedKind, NEW m \in Read(l)'
        PROVE  m \in Read(l) \/ (l = "sector" /\ m = n)
    <3>1. m \in 1 .. n /\ (m < n \/ l = "sector")
      BY <1>1, <1>4, <1>6 DEF Read
    <3> QED
      BY <3>1, <1>2, <1>6 DEF Read
  <2>2. "sector" \in SharedKind
    BY DEF SharedKind
  <2> QED
    BY <2>1, <2>2, <1>1, <1>3, <1>5, SharedStep
<1>10. VerdictInv'
  <2>1. Judged' = Judged /\ Tested' = Tested
    BY <1>1, <1>2, <1>4 DEF Judged, Tested
  <2> QED
    BY <2>1, <1>1 DEF BaselineInv, VerdictInv
<1> QED
  BY <1>7, <1>8, <1>9, <1>10 DEF BaselineInv

LEMMA ReadCityStep == BaselineInv /\ ReadCity => BaselineInv'
<1>. SUFFICES ASSUME BaselineInv, ReadCity PROVE BaselineInv'
  OBVIOUS
<1>1. /\ query[2] = "city"
      /\ UNCHANGED <<incidents, places, buffered, entries, pValues, answers, moved>>
  BY DEF ReadCity, ReadShared
<1>2. PICK n \in DOMAIN places : n = query[1]
  BY <1>1 DEF BaselineInv, ProgressInv
<1>3. PICK c \in Spot : c = places[n]
  BY DEF BaselineInv, BaselineType
<1>4. query' = <<n, "coverage">> /\ query'[1] = n /\ query'[2] = "coverage"
  BY <1>2 DEF ReadCity
<1>5. \/ UNCHANGED shared /\ (Needs("city", c) => SharedKey("city", c) \in DOMAIN shared)
      \/ shared' = [k \in DOMAIN shared \cup {SharedKey("city", c)} |->
                      IF k = SharedKey("city", c) THEN SharedRows("city", c) ELSE shared[k]]
  BY <1>2, <1>3 DEF ReadCity, ReadShared, Needs
<1>6. /\ Len(entries) = Len(places) /\ Len(answers) = n /\ n \in Nat
      /\ DOMAIN answers = 1 .. n
  BY <1>1, <1>2 DEF BaselineInv, ProgressInv, BaselineType
<1>7. BaselineType'
  BY <1>1 DEF BaselineInv, BaselineType
<1>8. ProgressInv'
  BY <1>1, <1>4, <1>6 DEF ProgressInv
<1>9. CountInv' /\ PlaceInv' /\ ReadInv' /\ TestInv'
  <2>1. ASSUME NEW l \in SharedKind, NEW m \in Read(l)'
        PROVE  m \in Read(l) \/ (l = "city" /\ m = n)
    <3>1. m \in 1 .. n /\ (m < n \/ l = "sector" \/ l = "city")
      BY <1>1, <1>4, <1>6 DEF Read
    <3> QED
      BY <3>1, <1>1, <1>2, <1>6 DEF Read
  <2>2. "city" \in SharedKind
    BY DEF SharedKind
  <2> QED
    BY <2>1, <2>2, <1>1, <1>3, <1>5, SharedStep
<1>10. VerdictInv'
  <2>1. Judged' = Judged /\ Tested' = Tested
    BY <1>1, <1>2, <1>4 DEF Judged, Tested
  <2> QED
    BY <2>1, <1>1 DEF BaselineInv, VerdictInv
<1> QED
  BY <1>7, <1>8, <1>9, <1>10 DEF BaselineInv

(* A verdict that is clear rests on a test below Alpha and on incidents.     *)
LEMMA ClearVerdicts ==
  ASSUME NEW place \in SUBSET Crime, NEW rest, NEW c, NEW adjusted
  PROVE  LET v == VsBeat(Cardinality(place), rest, c, adjusted)
         IN  v \in Verdict /\ (v \in {"above_clear", "below_clear"} => adjusted < Alpha /\ place # {})
<1>. DEFINE v == VsBeat(Cardinality(place), rest, c, adjusted)
<1>1. v \in Verdict /\ (v \in {"above_clear", "below_clear"} => adjusted < Alpha /\ ~(Cardinality(place) < MinPlace))
  BY DEF VsBeat, Verdict
<1>2. ~(Cardinality(place) < MinPlace) => place # {}
  <2>1. Cardinality({}) = 0 /\ 0 < MinPlace
    BY FS_EmptySet, NeighborhoodAssumption
  <2> QED
    BY <2>1
<1> QED
  BY <1>1, <1>2

LEMMA ReadCoverageStep == BaselineInv /\ ReadCoverage => BaselineInv'
<1>. SUFFICES ASSUME BaselineInv, ReadCoverage PROVE BaselineInv'
  OBVIOUS
<1>1. /\ query[2] = "coverage"
      /\ UNCHANGED <<incidents, places, buffered, entries, pValues, moved>>
  BY DEF ReadCoverage, ReadShared
<1>2. PICK n \in DOMAIN places : n = query[1]
  BY <1>1 DEF BaselineInv, ProgressInv
<1>3. PICK c \in Spot : c = places[n]
  BY DEF BaselineInv, BaselineType
<1>4. query' = IF n < Len(places) THEN <<n + 1, "mcpp">> ELSE <<0, "done">>
  BY <1>2 DEF ReadCoverage
<1>5. \/ UNCHANGED shared /\ (Needs("coverage", c) => SharedKey("coverage", c) \in DOMAIN shared)
      \/ shared' = [k \in DOMAIN shared \cup {SharedKey("coverage", c)} |->
                      IF k = SharedKey("coverage", c) THEN SharedRows("coverage", c) ELSE shared[k]]
  BY <1>2, <1>3 DEF ReadCoverage, ReadShared, Needs
<1>6. /\ Len(entries) = Len(places) /\ Len(answers) = n /\ n \in Nat
      /\ DOMAIN answers = 1 .. n /\ n >= 1 /\ answers \in Seq(AnswerRow)
      /\ DOMAIN entries = DOMAIN places /\ Len(places) \in Nat /\ DOMAIN places = 1 .. Len(places)
  BY <1>1, <1>2 DEF BaselineInv, ProgressInv, BaselineType
<1>7. answers[n].verdict = "baseline_unavailable" /\ answers[n] \in AnswerRow
  BY <1>1, <1>2, <1>6 DEF BaselineInv, VerdictInv, Judged
<1>8. n \in Tested <=> entries[n].test # 0
  BY <1>6 DEF Tested
<1>9. PICK a \in AnswerRow :
        /\ answers' = [answers EXCEPT ![n] = a]
        /\ a.place = answers[n].place /\ a.mcpp = answers[n].mcpp
        /\ IF n \in Tested
           THEN /\ a.adjusted = Adjusted(pValues, entries[n].test)
                /\ a.verdict \in {"above_clear", "below_clear"} =>
                     a.adjusted < Alpha /\ a.place # {}
           ELSE a.verdict \in {"baseline_unavailable", "insufficient_data"}
  <2>1. CASE entries[n].test = 0
    <3>. DEFINE v == IF Home("beat", c) = None THEN answers[n].verdict ELSE "insufficient_data"
                a == [answers[n] EXCEPT !.verdict = v]
    <3>1. answers' = [answers EXCEPT ![n].verdict = v]
      BY <2>1, <1>2, <1>3 DEF ReadCoverage
    <3>2. v \in {"baseline_unavailable", "insufficient_data"}
      BY <1>7
    <3>. HIDE DEF v
    <3>3. a \in AnswerRow /\ a.place = answers[n].place /\ a.mcpp = answers[n].mcpp /\ a.verdict = v
      BY <1>7, <3>2 DEF AnswerRow, Verdict
    <3>4. answers' = [answers EXCEPT ![n] = a]
      BY <3>1
    <3> QED
      BY <3>2, <3>3, <3>4, <2>1, <1>8
  <2>2. CASE entries[n].test # 0
    <3>. DEFINE adjusted == Adjusted(pValues, entries[n].test)
                v == VsBeat(Cardinality(answers[n].place), Cardinality(entries[n].rest), c, adjusted)
                a == [answers[n] EXCEPT !.adjusted = adjusted, !.verdict = v]
    <3>1. answers' = [answers EXCEPT ![n].adjusted = adjusted, ![n].verdict = v]
      BY <2>2, <1>2, <1>3 DEF ReadCoverage, OwnPValue
    <3>2. adjusted \in Nat
      <4>1. entries[n].test \in DOMAIN pValues
        BY <2>2, <1>8 DEF BaselineInv, TestInv
      <4> QED
        BY <4>1, PValuesAreAFamily, NeverBelow DEF BaselineInv
    <3>3. answers[n].place \in SUBSET Crime
      BY <1>7 DEF AnswerRow
    <3>4. v \in Verdict /\ (v \in {"above_clear", "below_clear"} => adjusted < Alpha /\ answers[n].place # {})
      BY <3>3, ClearVerdicts
    <3>. HIDE DEF v, adjusted
    <3>5. /\ a \in AnswerRow /\ a.place = answers[n].place /\ a.mcpp = answers[n].mcpp
          /\ a.verdict = v /\ a.adjusted = adjusted
      BY <1>7, <3>2, <3>4 DEF AnswerRow
    <3>6. answers' = [answers EXCEPT ![n] = a]
      BY <3>1
    <3> QED
      BY <3>4, <3>5, <3>6, <2>2, <1>8 DEF adjusted
  <2> QED
    BY <2>1, <2>2
<1>10. /\ answers' \in Seq(AnswerRow) /\ Len(answers') = n /\ DOMAIN answers' = DOMAIN answers
       /\ answers'[n] = a /\ \A m \in DOMAIN answers : m # n => answers'[m] = answers[m]
  <2>1. answers' = [answers EXCEPT ![n] = a] /\ n \in DOMAIN answers
    BY <1>6, <1>9
  <2> QED
    BY <2>1, <1>6
<1>11. BaselineType'
  BY <1>1, <1>10 DEF BaselineInv, BaselineType
<1>12. ProgressInv'
  <2>1. CASE n < Len(places)
    <3>1. query'[1] = n + 1 /\ query'[2] = "mcpp" /\ n + 1 \in DOMAIN places /\ Len(answers') = (n + 1) - 1
      BY <2>1, <1>4, <1>6, <1>10
    <3> QED
      BY <3>1, <1>1, <1>6 DEF ProgressInv
  <2>2. CASE ~(n < Len(places))
    <3>1. query'[2] = "done" /\ n = Len(places)
      BY <2>2, <1>4, <1>6
    <3> QED
      BY <3>1, <1>1, <1>6, <1>10 DEF ProgressInv
  <2> QED
    BY <2>1, <2>2
<1>13. \A m \in DOMAIN answers' : m < n \/ m = n
  BY <1>6, <1>10
<1>14. CountInv' /\ PlaceInv' /\ ReadInv' /\ TestInv'
  <2>1. ASSUME NEW l \in SharedKind, NEW m \in Read(l)'
        PROVE  m \in Read(l) \/ (l = "coverage" /\ m = n)
    <3>1. m \in DOMAIN answers /\ (m < n \/ m = n)
      BY <1>10, <1>13 DEF Read
    <3> QED
      BY <3>1, <1>1, <1>2 DEF Read, SharedKind
  <2>2. "coverage" \in SharedKind
    BY DEF SharedKind
  <2>3. \A m \in DOMAIN answers :
           answers'[m].mcpp = answers[m].mcpp /\ answers'[m].place = answers[m].place
    BY <1>9, <1>10
  <2>4. DOMAIN answers' = DOMAIN answers
    BY <1>10
  <2> QED
    BY <2>1, <2>2, <2>3, <2>4, <1>1, <1>3, <1>5, SharedStep
<1>15. VerdictInv'
  <2>1. Judged' = DOMAIN answers /\ Tested' = Tested
    <3>1. CASE n < Len(places)
      <4>1. query'[1] = n + 1
        BY <3>1, <1>4
      <4>2. \A m \in DOMAIN answers : m < n + 1
        BY <1>6
      <4> QED
        BY <4>1, <4>2, <1>1, <1>10 DEF Judged, Tested
    <3>2. CASE ~(n < Len(places))
      BY <3>2, <1>1, <1>4, <1>10 DEF Judged, Tested
    <3> QED
      BY <3>1, <3>2
  <2>2. ASSUME NEW m \in Judged'
        PROVE  IF m \in Tested'
               THEN /\ answers'[m].adjusted = Adjusted(pValues', entries'[m].test)
                    /\ answers'[m].verdict \in {"above_clear", "below_clear"} =>
                         answers'[m].adjusted < Alpha /\ answers'[m].place # {}
               ELSE answers'[m].verdict \in {"baseline_unavailable", "insufficient_data"}
    <3>1. CASE m = n
      BY <3>1, <2>1, <1>1, <1>9, <1>10
    <3>2. CASE m # n
      <4>1. m \in Judged /\ answers'[m] = answers[m]
        BY <3>2, <2>1, <1>2, <1>10, <1>13 DEF Judged
      <4>2. IF m \in Tested
            THEN /\ answers[m].adjusted = Adjusted(pValues, entries[m].test)
                 /\ answers[m].verdict \in {"above_clear", "below_clear"} =>
                      answers[m].adjusted < Alpha /\ answers[m].place # {}
            ELSE answers[m].verdict \in {"baseline_unavailable", "insufficient_data"}
        BY <4>1 DEF BaselineInv, VerdictInv
      <4> QED
        BY <4>1, <4>2, <2>1, <1>1
    <3> QED
      BY <3>1, <3>2
  <2> QED
    BY <2>1, <2>2, <1>10 DEF VerdictInv
<1> QED
  BY <1>11, <1>12, <1>14, <1>15 DEF BaselineInv

LEMMA IngestionStep ==
  ASSUME BaselineInv, NEW x \in Crime, IngestionCommits(x)
  PROVE  BaselineInv'
<1>1. /\ query[2] # "buffer" /\ moved' = moved \cup {x}
      /\ UNCHANGED <<places, query, buffered, entries, pValues, shared, answers>>
      /\ \E rec : incidents' = [incidents EXCEPT ![x] = rec]
  BY DEF IngestionCommits
<1>2. incidents' = [i \in Crime |-> incidents'[i]]
  BY <1>1 DEF BaselineInv, BaselineType
<1>3. \A i \in Crime \ moved' : i \in Crime \ moved /\ incidents'[i] = incidents[i]
  BY <1>1 DEF BaselineInv, BaselineType
<1>4. BaselineType'
  BY <1>1, <1>2 DEF BaselineInv, BaselineType
<1>5. ProgressInv'
  BY <1>1 DEF BaselineInv, ProgressInv
<1>6. CountInv'
  <2>. SUFFICES ASSUME NEW i \in Crime \ moved'
                PROVE
        /\ (query[2] # "buffer")' =>
             \A c \in Cell : (\E n \in DOMAIN places : places[n] = c)' =>
               (i \in InRadius(buffered, c)' <=> Near(i, c)')
        /\ \A n \in DOMAIN entries', c \in Spot : entries'[n].test # 0 /\ places'[n] = c =>
             (i \in entries'[n].rest <=> (i \in Rest("beat", c))')
        /\ \A n \in DOMAIN answers', c \in Spot : answers'[n].mcpp # {} /\ places'[n] = c =>
             (i \in answers'[n].mcpp <=> (i \in Rest("mcpp", c))')
        /\ \A kind \in SharedKind, c \in Spot : SharedKey(kind, c) \in DOMAIN shared' =>
             (i \in shared'[SharedKey(kind, c)] <=> (i \in SharedRows(kind, c))')
    BY DEF CountInv
  <2>1. \A c : /\ Near(i, c)' <=> Near(i, c)
               /\ \A kind : (i \in Rest(kind, c))' <=> i \in Rest(kind, c)
               /\ \A kind \in SharedKind : (i \in SharedRows(kind, c))' <=> i \in SharedRows(kind, c)
    BY <1>3, Steady
  <2>2. /\ query[2] # "buffer" =>
           \A c \in Cell : (\E n \in DOMAIN places : places[n] = c) =>
             (i \in InRadius(buffered, c) <=> Near(i, c))
        /\ \A n \in DOMAIN entries, c \in Spot : entries[n].test # 0 /\ places[n] = c =>
             (i \in entries[n].rest <=> i \in Rest("beat", c))
        /\ \A n \in DOMAIN answers, c \in Spot : answers[n].mcpp # {} /\ places[n] = c =>
             (i \in answers[n].mcpp <=> i \in Rest("mcpp", c))
        /\ \A kind \in SharedKind, c \in Spot : SharedKey(kind, c) \in DOMAIN shared =>
             (i \in shared[SharedKey(kind, c)] <=> i \in SharedRows(kind, c))
    BY <1>3 DEF BaselineInv, CountInv
  <2> QED
    BY <2>1, <2>2, <1>1 DEF InRadius
<1>7. PlaceInv' /\ ReadInv' /\ TestInv' /\ VerdictInv'
  <2>1. PlaceInv'
    BY <1>1 DEF BaselineInv, PlaceInv, InRadius
  <2>2. ReadInv'
    BY <1>1 DEF BaselineInv, ReadInv, Read
  <2>3. TestInv'
    BY <1>1 DEF BaselineInv, TestInv, Tested
  <2>4. VerdictInv'
    BY <1>1 DEF BaselineInv, VerdictInv, Judged, Tested
  <2> QED
    BY <2>1, <2>2, <2>3, <2>4
<1> QED
  BY <1>4, <1>5, <1>6, <1>7 DEF BaselineInv

LEMMA BaselineStep == BaselineInv /\ [NeighborhoodNext]_neighborhoodVars => BaselineInv'
<1>. SUFFICES ASSUME BaselineInv, [NeighborhoodNext]_neighborhoodVars PROVE BaselineInv'
  OBVIOUS
<1>1. CASE Buffered
  BY <1>1, BufferedStep
<1>2. CASE RestOfBeat
  BY <1>2, RestOfBeatStep
<1>3. CASE RestOfNeighborhood
  BY <1>3, RestOfNeighborhoodStep
<1>4. CASE ReadSector
  BY <1>4, ReadSectorStep
<1>5. CASE ReadCity
  BY <1>5, ReadCityStep
<1>6. CASE ReadCoverage
  BY <1>6, ReadCoverageStep
<1>7. CASE \E i \in Crime : IngestionCommits(i)
  BY <1>7, IngestionStep
<1>8. CASE UNCHANGED neighborhoodVars
  <2>1. UNCHANGED <<incidents, places, query, buffered, entries, pValues, shared, answers, moved>>
    BY <1>8 DEF neighborhoodVars
  <2>2. BaselineType' /\ ProgressInv'
    BY <2>1 DEF BaselineInv, BaselineType, ProgressInv
  <2>3. CountInv'
    BY <2>1, CountStep
  <2>4. PlaceInv'
    BY <2>1 DEF BaselineInv, PlaceInv, InRadius
  <2>5. ReadInv'
    BY <2>1 DEF BaselineInv, ReadInv, Read
  <2>6. TestInv'
    BY <2>1 DEF BaselineInv, TestInv, Tested
  <2>7. VerdictInv'
    BY <2>1 DEF BaselineInv, VerdictInv, Judged, Tested
  <2> QED
    BY <2>2, <2>3, <2>4, <2>5, <2>6, <2>7 DEF BaselineInv
<1> QED
  BY <1>1, <1>2, <1>3, <1>4, <1>5, <1>6, <1>7, <1>8 DEF NeighborhoodNext

(* For every map, table of incidents, selection of places and outcome of the *)
(* tests, and whatever ingestion changes between the queries of a request:   *)
(* an incident nobody touched is counted where it belongs, and the verdict   *)
(* of a place is that of its own corrected test.                             *)
THEOREM BaselinesAreSound == NeighborhoodSpec => []BaselinesHold
<1>1. NeighborhoodInit => BaselineInv
  BY InitBaseline
<1>2. BaselineInv /\ [NeighborhoodNext]_neighborhoodVars => BaselineInv'
  BY BaselineStep
<1>3. BaselineInv => BaselinesHold
  BY BaselineInvHolds
<1> QED
  BY <1>1, <1>2, <1>3, PTL DEF NeighborhoodSpec

-----------------------------------------------------------------------------
(* Ranking.  What a query with ORDER BY returns.                            *)

(* The more come before an element, the later it is in the order.            *)
LEMMA RankIsMonotone ==
  ASSUME NEW S, IsFiniteSet(S), NEW R, Orders(R, S)
  PROVE  /\ \A x \in S : Cardinality(AheadOf(S, R, x)) + 1 \in 1 .. Cardinality(S)
         /\ \A x, y \in S :
              <<x, y>> \in R <=> Cardinality(AheadOf(S, R, x)) < Cardinality(AheadOf(S, R, y))
<1>. DEFINE c(x) == Cardinality(AheadOf(S, R, x))
<1>1. Cardinality(S) \in Nat
  BY FS_CardinalityType
<1>2. ASSUME NEW x \in S
      PROVE  IsFiniteSet(AheadOf(S, R, x)) /\ c(x) \in Nat /\ c(x) <= Cardinality(S) - 1
  <2>1. AheadOf(S, R, x) \in SUBSET S /\ AheadOf(S, R, x) # S
    BY DEF AheadOf, Orders
  <2>2. IsFiniteSet(AheadOf(S, R, x)) /\ c(x) \in Nat
    BY <2>1, FS_Subset, FS_CardinalityType
  <2>3. c(x) <= Cardinality(S) /\ c(x) # Cardinality(S)
    BY <2>1, FS_Subset
  <2> QED
    BY <2>2, <2>3, <1>1
<1>3. ASSUME NEW x \in S, NEW y \in S, <<x, y>> \in R PROVE c(x) < c(y)
  <2>. DEFINE X == AheadOf(S, R, x) Y == AheadOf(S, R, y)
  <2>1. X \in SUBSET Y /\ x \in Y /\ x \notin X
    BY <1>3 DEF AheadOf, Orders
  <2>2. IsFiniteSet(Y) /\ Cardinality(X) \in Nat /\ Cardinality(Y) \in Nat
    BY <1>2
  <2>3. Cardinality(X) <= Cardinality(Y) /\ Cardinality(X) # Cardinality(Y)
    <3>. HIDE DEF X, Y
    <3> QED
      BY <2>1, <2>2, FS_Subset
  <2> QED
    BY <2>2, <2>3
<1>4. ASSUME NEW x \in S, NEW y \in S, c(x) < c(y) PROVE <<x, y>> \in R
  <2>1. c(x) \in Nat /\ c(y) \in Nat
    BY <1>2
  <2>2. x # y
    BY <1>4, <2>1
  <2>3. <<y, x>> \notin R
    <3>1. ASSUME <<y, x>> \in R PROVE c(y) < c(x)
      BY <1>3, <3>1
    <3>. HIDE DEF c
    <3> QED
      BY <1>4, <2>1, <3>1
  <2> QED
    BY <2>2, <2>3 DEF Orders
<1>5. ASSUME NEW x \in S PROVE c(x) + 1 \in 1 .. Cardinality(S)
  <2>. HIDE DEF c
  <2> QED
    BY <1>1, <1>2
<1> QED
  BY <1>3, <1>4, <1>5

(* A finite set in an order: every element once, and the earlier before the  *)
(* later.                                                                    *)
LEMMA RankedInOrder ==
  ASSUME NEW S, IsFiniteSet(S), NEW R, Orders(R, S)
  PROVE  /\ Ranked(S, R) \in Seq(S) /\ Len(Ranked(S, R)) = Cardinality(S)
         /\ Cardinality(S) \in Nat
         /\ \A x \in S : \E n \in 1 .. Cardinality(S) : Ranked(S, R)[n] = x
         /\ \A m, n \in 1 .. Cardinality(S) :
              m < n <=> <<Ranked(S, R)[m], Ranked(S, R)[n]>> \in R
<1>. DEFINE N == 1 .. Cardinality(S)
            c(x) == Cardinality(AheadOf(S, R, x))
            f == [x \in S |-> c(x) + 1]
            s == Ranked(S, R)
<1>1. Cardinality(S) \in Nat /\ \A x \in S : c(x) \in Int
  <2>1. Cardinality(S) \in Nat
    BY FS_CardinalityType
  <2>2. ASSUME NEW x \in S PROVE c(x) \in Nat
    <3>1. AheadOf(S, R, x) \in SUBSET S
      BY DEF AheadOf
    <3> QED
      BY <3>1, FS_Subset, FS_CardinalityType
  <2> QED
    BY <2>1, <2>2
<1>2. f \in [S -> N]
  BY RankIsMonotone
<1>3. \A x, y \in S : c(x) = c(y) => x = y
  <2>1. ASSUME NEW x \in S, NEW y \in S, x # y PROVE c(x) # c(y)
    <3>1. <<x, y>> \in R \/ <<y, x>> \in R
      BY <2>1 DEF Orders
    <3>2. c(x) < c(y) \/ c(y) < c(x)
      BY <3>1, RankIsMonotone
    <3>3. c(x) \in Int /\ c(y) \in Int
      BY <1>1
    <3>. HIDE DEF c
    <3> QED
      BY <3>2, <3>3
  <2> QED
    BY <2>1
<1>4. IsFiniteSet(N) /\ Cardinality(N) = Cardinality(S)
  BY <1>1, FS_Interval
<1>5. \A x, y \in S : f[x] = f[y] => x = y
  <2>. HIDE DEF c
  <2> QED
    BY <1>1, <1>3
<1>6. f \in Surjection(S, N)
  <2>1. f \in Injection(S, N)
    <3>. HIDE DEF f, N
    <3> QED
      BY <1>2, <1>5 DEF Injection, IsInjective
  <2> QED
    BY <2>1, <1>4, FS_Injection
<1>7. ASSUME NEW n \in N PROVE s[n] \in S /\ c(s[n]) = n - 1
  <2>1. \E x \in S : f[x] = n
    BY <1>6 DEF Surjection
  <2>2. \E x \in S : c(x) = n - 1
    <3>. HIDE DEF c
    <3> QED
      BY <1>1, <2>1
  <2>3. s[n] = CHOOSE x \in S : c(x) = n - 1
    BY DEF Ranked
  <2>. HIDE DEF c, s
  <2> QED
    BY <2>2, <2>3
<1>8. s \in Seq(S) /\ Len(s) = Cardinality(S)
  <2>1. s \in [N -> S]
    BY <1>7 DEF Ranked
  <2>. HIDE DEF s
  <2> QED
    BY <1>1, <2>1
<1>9. ASSUME NEW x \in S PROVE \E n \in N : s[n] = x
  <2>1. c(x) + 1 \in N
    BY RankIsMonotone
  <2>2. s[c(x) + 1] \in S /\ c(s[c(x) + 1]) = (c(x) + 1) - 1
    BY <1>7, <2>1
  <2>3. c(s[c(x) + 1]) = c(x)
    <3>. HIDE DEF c, s
    <3> QED
      BY <1>1, <2>2
  <2> QED
    BY <1>3, <2>1, <2>2, <2>3
<1>10. ASSUME NEW m \in N, NEW n \in N PROVE m < n <=> <<s[m], s[n]>> \in R
  <2>1. s[m] \in S /\ c(s[m]) = m - 1 /\ s[n] \in S /\ c(s[n]) = n - 1
    BY <1>7
  <2>2. <<s[m], s[n]>> \in R <=> c(s[m]) < c(s[n])
    BY <2>1, RankIsMonotone
  <2>. HIDE DEF c, s
  <2> QED
    BY <1>1, <2>1, <2>2
<1> QED
  BY <1>1, <1>8, <1>9, <1>10

(* A finite set of numbers has a largest.                                    *)
LEMMA MaxIsLargest ==
  ASSUME NEW S \in SUBSET Nat, IsFiniteSet(S), S # {}
  PROVE  Max(S) \in S /\ \A y \in S : Max(S) >= y
<1>. DEFINE R == {p \in S \X S : p[1] > p[2]}
<1>1. \A x, y \in S : <<x, y>> \in R <=> x > y
  OBVIOUS
<1>2. Orders(R, S)
  <2>1. \A x \in S : <<x, x>> \notin R
    BY <1>1
  <2>2. \A x, y \in S : x # y => <<x, y>> \in R \/ <<y, x>> \in R
    BY <1>1
  <2>3. \A x, y, z \in S : <<x, y>> \in R /\ <<y, z>> \in R => <<x, z>> \in R
    BY <1>1
  <2>. HIDE DEF R
  <2> QED
    BY <2>1, <2>2, <2>3 DEF Orders
<1>. DEFINE s == Ranked(S, R)
<1>3. /\ s \in Seq(S) /\ Len(s) = Cardinality(S) /\ Cardinality(S) \in Nat
      /\ \A x \in S : \E n \in 1 .. Cardinality(S) : s[n] = x
      /\ \A m, n \in 1 .. Cardinality(S) : m < n <=> <<s[m], s[n]>> \in R
  <2>. HIDE DEF R
  <2> QED
    BY <1>2, RankedInOrder
<1>. HIDE DEF s
<1>4. Cardinality(S) >= 1
  <2>1. PICK x \in S : TRUE
    OBVIOUS
  <2>2. PICK n \in 1 .. Cardinality(S) : s[n] = x
    BY <1>3
  <2> QED
    BY <2>2, <1>3
<1>5. s[1] \in S
  BY <1>3, <1>4
<1>6. \A y \in S : s[1] >= y
  <2>1. ASSUME NEW y \in S PROVE s[1] >= y
    <3>1. PICK n \in 1 .. Cardinality(S) : s[n] = y
      BY <1>3
    <3>2. 1 \in 1 .. Cardinality(S) /\ (n = 1 \/ 1 < n)
      BY <1>3, <1>4
    <3>3. 1 < n => s[1] > y
      BY <3>1, <3>2, <1>1, <1>3, <1>5
    <3>4. s[1] \in Nat /\ y \in Nat
      BY <1>5
    <3> QED
      BY <3>1, <3>2, <3>3, <3>4
  <2> QED
    BY <2>1
<1> QED
  BY <1>5, <1>6 DEF Max

-----------------------------------------------------------------------------
(* Totals.  Counts add up to what is counted.                               *)

(* Induction up to a bound.                                                  *)
LEMMA StepByStep ==
  ASSUME NEW D, NEW L \in Nat, 0 \in D, \A n \in 1 .. L : n - 1 \in D => n \in D
  PROVE  \A n \in 0 .. L : n \in D
  <1> DEFINE T == (0 .. L) \ D
             R == OpToRel(<, Nat)
  <1> SUFFICES ASSUME T # {} PROVE FALSE
    OBVIOUS
  <1>1. PICK x \in T : \A y \in T : ~ (<<y, x>> \in R)
    <2>1. IsWellFoundedOn(R, Nat)
      BY NatLessThanWellFounded
    <2>2. T \subseteq Nat /\ T # {}
      OBVIOUS
    <2> HIDE DEF T, R
    <2> QED BY <2>1, <2>2, WFMin
  <1> HIDE DEF R
  <1>2. x \in 1 .. L /\ x - 1 \in 0 .. L /\ x - 1 \in Nat
    BY <1>1
  <1>3. x - 1 \in T
    BY <1>1, <1>2
  <1>4. <<x - 1, x>> \in R
    BY <1>2 DEF OpToRel, R
  <1> QED BY <1>1, <1>3, <1>4

Follows(f, first, L, step) ==
    f = [n \in 0 .. L |-> IF n = 0 THEN first ELSE step[<<n, f[n - 1]>>]]

(* Such a recursion is a function.                                           *)
LEMMA RecursionExists ==
  ASSUME NEW V, NEW L \in Nat, NEW v0 \in V, NEW step \in [(1 .. L) \X V -> V]
  PROVE  \E f : Follows(f, v0, L, step) /\ \A n \in 0 .. L : f[n] \in V
  <1> USE DEF Follows
  <1> DEFINE Is(f, m) == Follows(f, v0, m, step)
             D == {m \in Nat : m <= L => \E f : Is(f, m) /\ \A n \in 0 .. m : f[n] \in V}
  <1>1. 0 \in D
    <2> DEFINE f == [n \in 0 .. 0 |-> v0]
    <2>1. Is(f, 0) /\ f[0] \in V /\ \A n \in 0 .. 0 : f[n] \in V
      OBVIOUS
    <2>2. 0 \in Nat
      OBVIOUS
    <2> HIDE DEF f, Is
    <2> QED BY <2>1, <2>2
  <1>2. ASSUME NEW m \in 1 .. L, m - 1 \in D PROVE m \in D
    <2>1. m \in Nat /\ m - 1 \in Nat /\ m <= L /\ m - 1 <= L /\ m # 0
      OBVIOUS
    <2>2. PICK f : Is(f, m - 1) /\ \A n \in 0 .. (m - 1) : f[n] \in V
      BY <1>2, <2>1
    <2> DEFINE g == [n \in 0 .. m |-> IF n = m THEN step[<<m, f[m - 1]>>] ELSE f[n]]
    <2>3. f[m - 1] \in V
      BY <2>1, <2>2
    <2>4. step[<<m, f[m - 1]>>] \in V
      BY <2>1, <2>3
    <2>5. \A n \in 0 .. m : g[n] \in V
      BY <2>1, <2>2, <2>4
    <2>6. g[m] = step[<<m, g[m - 1]>>]
      <3>1. m \in 0 .. m /\ m - 1 \in 0 .. m /\ m - 1 # m
        BY <2>1
      <3> QED BY <3>1
    <2>7. ASSUME NEW n \in 0 .. m, n # m
          PROVE  g[n] = IF n = 0 THEN v0 ELSE step[<<n, g[n - 1]>>]
      <3>1. n \in 0 .. (m - 1) /\ g[n] = f[n]
        BY <2>1, <2>7
      <3>2. n # 0 => n - 1 \in 0 .. m /\ n - 1 # m /\ g[n - 1] = f[n - 1]
        BY <2>1, <2>7
      <3>3. f[n] = IF n = 0 THEN v0 ELSE step[<<n, f[n - 1]>>]
        BY <2>2, <3>1
      <3> QED BY <3>1, <3>2, <3>3
    <2>8. \A n \in 0 .. m : g[n] = IF n = 0 THEN v0 ELSE step[<<n, g[n - 1]>>]
      BY <2>1, <2>6, <2>7
    <2>9. Is(g, m)
      <3>1. g = [n \in 0 .. m |-> g[n]]
        OBVIOUS
      <3> HIDE DEF g
      <3> QED BY <2>8, <3>1
    <2> HIDE DEF g, Is
    <2> QED BY <2>1, <2>5, <2>9
  <1>3. L \in D
    <2> HIDE DEF D
    <2> QED BY <1>1, <1>2, StepByStep
  <1> QED BY <1>3

(* The partial sums of a list of counts.                                     *)
Sums(sum, s) ==
    /\ sum[0] = 0
    /\ \A n \in 1 .. Len(s) : sum[n] = sum[n - 1] + s[n]
    /\ \A n \in 0 .. Len(s) : sum[n] \in Nat

LEMMA TotalIsASum ==
  ASSUME NEW s \in Seq(Nat)
  PROVE  \E sum : Sums(sum, s) /\ Total(s) = sum[Len(s)]
  <1> DEFINE L == Len(s)
             step == [p \in (1 .. L) \X Nat |-> p[2] + s[p[1]]]
             Body(f) == [n \in 0 .. L |-> IF n = 0 THEN 0 ELSE f[n - 1] + s[n]]
             sum == CHOOSE f : f = Body(f)
  <1>1. L \in Nat /\ \A n \in 1 .. L : s[n] \in Nat
    BY LenProperties, ElementOfSeq
  <1>2. step \in [(1 .. L) \X Nat -> Nat]
    BY <1>1
  <1>3. \A n \in 1 .. L : \A v \in Nat : step[<<n, v>>] = v + s[n]
    OBVIOUS
  <1>4. Total(s) = sum[L]
    BY DEF Total
  <1> HIDE DEF step, L
  <1>5. PICK f : Follows(f, 0, L, step) /\ \A n \in 0 .. L : f[n] \in Nat
    BY <1>1, <1>2, RecursionExists
  <1>6. f = Body(f)
    <2>1. ASSUME NEW n \in 1 .. L PROVE f[n - 1] \in Nat
      BY <1>1, <1>5
    <2>2. \A n \in 1 .. L : step[<<n, f[n - 1]>>] = f[n - 1] + s[n]
      BY <1>3, <2>1
    <2>3. \A n \in 0 .. L : n # 0 => n \in 1 .. L
      BY <1>1
    <2> QED BY <1>5, <2>2, <2>3 DEF Follows
  <1>7. sum = Body(sum)
    <2> HIDE DEF Body
    <2> QED BY <1>6
  <1>8. /\ sum[0] = 0
        /\ \A n \in 1 .. L : sum[n] = sum[n - 1] + s[n]
    <2>1. 0 \in 0 .. L /\ \A n \in 1 .. L : n \in 0 .. L /\ n # 0
      BY <1>1
    <2> HIDE DEF sum
    <2> QED BY <1>7, <2>1
  <1> DEFINE D == {n \in 0 .. L : sum[n] \in Nat}
  <1> HIDE DEF sum
  <1>9. \A n \in 0 .. L : n \in D
    <2>1. 0 \in D
      BY <1>1, <1>8
    <2>2. ASSUME NEW n \in 1 .. L, n - 1 \in D PROVE n \in D
      <3>1. sum[n - 1] \in Nat /\ s[n] \in Nat /\ n \in 0 .. L
        BY <1>1, <2>2
      <3> QED BY <1>8, <3>1
    <2> HIDE DEF D
    <2> QED BY <1>1, <2>1, <2>2, StepByStep
  <1>10. Sums(sum, s)
    BY <1>8, <1>9 DEF Sums, L
  <1> QED BY <1>4, <1>10 DEF L

(* The first n parts.                                                        *)
Together(part, n) == UNION {part[m] : m \in 1 .. n}

(* The counts of disjoint parts add up to the count of the whole.            *)
LEMMA PartsAddUp ==
  ASSUME NEW s \in Seq(Nat), NEW part,
         \A n \in 1 .. Len(s) : IsFiniteSet(part[n]) /\ s[n] = Cardinality(part[n]),
         \A m, n \in 1 .. Len(s) : m # n => part[m] \cap part[n] = {}
  PROVE  Total(s) = Cardinality(Together(part, Len(s)))
  <1> DEFINE L == Len(s)
             first(n) == Together(part, n)
  <1>1. L \in Nat
    BY LenProperties
  <1>2. PICK sum : Sums(sum, s) /\ Total(s) = sum[L]
    BY TotalIsASum
  <1> DEFINE D == {n \in 0 .. L : IsFiniteSet(first(n)) /\ sum[n] = Cardinality(first(n))}
  <1>3. 0 \in D
    <2>1. first(0) = {}
      BY DEF Together
    <2>2. IsFiniteSet(first(0)) /\ Cardinality(first(0)) = 0
      BY <2>1, FS_EmptySet
    <2> HIDE DEF first
    <2> QED BY <1>1, <1>2, <2>2 DEF Sums
  <1>4. ASSUME NEW n \in 1 .. L, n - 1 \in D PROVE n \in D
    <2>1. n \in 0 .. L /\ n \in Nat /\ n - 1 \in Nat
      BY <1>1
    <2>2. first(n) = first(n - 1) \cup part[n]
      <3>1. \A m \in 1 .. n : m = n \/ m \in 1 .. n - 1
        BY <2>1
      <3>2. n \in 1 .. n /\ \A m \in 1 .. n - 1 : m \in 1 .. n
        BY <2>1
      <3> QED BY <3>1, <3>2 DEF Together
    <2>3. first(n - 1) \cap part[n] = {}
      <3>1. \A m \in 1 .. n - 1 : m \in 1 .. L /\ m # n
        BY <1>1, <2>1
      <3>2. \A m \in 1 .. n - 1 : part[m] \cap part[n] = {}
        BY <3>1
      <3> QED BY <3>2 DEF Together
    <2>4. IsFiniteSet(first(n - 1)) /\ sum[n - 1] = Cardinality(first(n - 1))
      BY <1>4
    <2>5. IsFiniteSet(part[n]) /\ s[n] = Cardinality(part[n])
      OBVIOUS
    <2> HIDE DEF first
    <2>6. /\ IsFiniteSet(first(n - 1) \cup part[n])
          /\ Cardinality(first(n - 1) \cup part[n])
               = Cardinality(first(n - 1)) + Cardinality(part[n]) - Cardinality(first(n - 1) \cap part[n])
      BY <2>4, <2>5, FS_Union
    <2>7. Cardinality(first(n - 1) \cap part[n]) = 0
      BY <2>3, FS_EmptySet
    <2>8. Cardinality(first(n - 1)) \in Nat /\ Cardinality(part[n]) \in Nat
      BY <2>4, <2>5, FS_CardinalityType
    <2>9. sum[n] = sum[n - 1] + s[n]
      BY <1>2 DEF Sums
    <2>10. Cardinality(first(n)) = sum[n]
      BY <2>2, <2>4, <2>5, <2>6, <2>7, <2>8, <2>9
    <2> QED BY <2>1, <2>2, <2>6, <2>10
  <1>5. L \in D
    <2>1. L \in 0 .. L
      BY <1>1
    <2> HIDE DEF D
    <2> QED BY <1>1, <1>3, <1>4, <2>1, StepByStep
  <1> QED BY <1>2, <1>5

(* One more count.                                                           *)
LEMMA OneMoreCount ==
  ASSUME NEW s \in Seq(Nat), NEW c \in Nat
  PROVE  Total(Append(s, c)) = Total(s) + c /\ Total(s) \in Nat
  <1> DEFINE L == Len(s)
             t == Append(s, c)
  <1>1. L \in Nat
    BY LenProperties
  <1>2. t \in Seq(Nat) /\ Len(t) = L + 1 /\ t[L + 1] = c /\ \A n \in 1 .. L : t[n] = s[n]
    BY AppendProperties
  <1>3. PICK a : Sums(a, s) /\ Total(s) = a[L]
    BY TotalIsASum
  <1>4. PICK b : Sums(b, t) /\ Total(t) = b[L + 1]
    BY <1>2, TotalIsASum
  <1> DEFINE D == {n \in 0 .. L : a[n] = b[n]}
  <1> HIDE DEF t
  <1>5. 0 \in D
    BY <1>1, <1>3, <1>4 DEF Sums
  <1>6. ASSUME NEW n \in 1 .. L, n - 1 \in D PROVE n \in D
    <2>1. n \in 0 .. L /\ n \in 1 .. L + 1
      BY <1>1
    <2>2. a[n] = a[n - 1] + s[n] /\ b[n] = b[n - 1] + t[n]
      BY <1>2, <1>3, <1>4, <2>1 DEF Sums
    <2> QED BY <1>2, <1>6, <2>1, <2>2
  <1>7. L \in D
    <2>1. L \in 0 .. L
      BY <1>1
    <2> HIDE DEF D
    <2> QED BY <1>1, <1>5, <1>6, <2>1, StepByStep
  <1>8. b[L + 1] = b[L] + c
    <2>1. L + 1 \in 1 .. L + 1 /\ (L + 1) - 1 = L
      BY <1>1
    <2> QED BY <1>2, <1>4, <2>1 DEF Sums
  <1>9. a[L] \in Nat
    <2>1. L \in 0 .. L
      BY <1>1
    <2> QED BY <1>3, <2>1 DEF Sums
  <1> QED BY <1>3, <1>4, <1>7, <1>8, <1>9 DEF t

(* A list cut in two.                                                        *)
LEMMA CutInTwo ==
  ASSUME NEW S, NEW s \in Seq(S), NEW t \in 0 .. Len(s)
  PROVE  /\ SubSeq(s, 1, t) \in Seq(S) /\ Len(SubSeq(s, 1, t)) = t
         /\ \A n \in 1 .. t : SubSeq(s, 1, t)[n] = s[n]
         /\ SubSeq(s, t + 1, Len(s)) \in Seq(S) /\ Len(SubSeq(s, t + 1, Len(s))) = Len(s) - t
         /\ \A n \in 1 .. Len(s) - t : SubSeq(s, t + 1, Len(s))[n] = s[t + n]
  <1> DEFINE L == Len(s)
             front == SubSeq(s, 1, t)
             back == SubSeq(s, t + 1, L)
  <1>1. L \in Nat /\ \A n \in 1 .. L : s[n] \in S
    BY LenProperties, ElementOfSeq
  <1>2. t \in Nat /\ t \in Int /\ L \in Int /\ 1 \in Int /\ t + 1 \in Int /\ t <= L
    BY <1>1
  <1>3. front \in Seq(S) /\ Len(front) = t /\ \A n \in 1 .. t : front[n] = s[n]
    <2>1. \A n \in 1 .. t : s[n] \in S
      BY <1>1, <1>2
    <2>2. /\ front \in Seq(S) /\ Len(front) = IF 1 <= t THEN t - 1 + 1 ELSE 0
          /\ \A n \in 1 .. t - 1 + 1 : front[n] = s[1 + n - 1]
      BY <1>2, <2>1, SubSeqProperties
    <2>3. \A n \in 1 .. t : n \in 1 .. t - 1 + 1 /\ 1 + n - 1 = n
      BY <1>2
    <2> HIDE DEF front
    <2> QED BY <1>2, <2>2, <2>3
  <1>4. back \in Seq(S) /\ Len(back) = L - t /\ \A n \in 1 .. L - t : back[n] = s[t + n]
    <2>1. \A n \in t + 1 .. L : s[n] \in S
      BY <1>1, <1>2
    <2>2. /\ back \in Seq(S) /\ Len(back) = IF t + 1 <= L THEN L - (t + 1) + 1 ELSE 0
          /\ \A n \in 1 .. L - (t + 1) + 1 : back[n] = s[t + 1 + n - 1]
      BY <1>2, <2>1, SubSeqProperties
    <2>3. \A n \in 1 .. L - t : n \in 1 .. L - (t + 1) + 1 /\ t + 1 + n - 1 = t + n
      BY <1>1, <1>2
    <2> HIDE DEF back
    <2> QED BY <1>1, <1>2, <2>2, <2>3
  <1> QED BY <1>3, <1>4

(* The members of S with a value, and with one of the values from a to b.    *)
Having(S, v, x) == {i \in S : v[i] = x}
HavingOneOf(S, v, values, a, b) == {i \in S : \E n \in a .. b : v[i] = values[n]}

Distinct(values, k) == \A m, n \in 1 .. k : values[m] = values[n] => m = n

(* The counts are of the values from a to b, of which there are k.           *)
CountsFrom(tally, S, v, values, k, a, b) ==
    /\ tally \in Seq(Nat) /\ a \in Nat \ {0} /\ b \in Nat /\ b <= k
    /\ Len(tally) = (b + 1) - a
    /\ \A n \in 1 .. Len(tally) : tally[n] = Cardinality(Having(S, v, values[n + a - 1]))

(* A finite set counted by the values v[i] of its members: the counts of a   *)
(* stretch of the values are the count of the members that have them.        *)
LEMMA StretchAddsUp ==
  ASSUME NEW S, IsFiniteSet(S), NEW v, NEW values, NEW k \in Nat, Distinct(values, k),
         NEW tally, NEW a, NEW b, CountsFrom(tally, S, v, values, k, a, b)
  PROVE  Total(tally) = Cardinality(HavingOneOf(S, v, values, a, b))
  <1> DEFINE L == Len(tally)
             part == [n \in 1 .. L |-> Having(S, v, values[n + a - 1])]
             whole == HavingOneOf(S, v, values, a, b)
  <1>1. L \in Nat /\ a \in Nat \ {0} /\ b \in Nat /\ b <= k /\ L = (b + 1) - a /\ tally \in Seq(Nat)
    BY LenProperties DEF CountsFrom
  <1>2. \A n \in 1 .. L : IsFiniteSet(part[n]) /\ tally[n] = Cardinality(part[n])
    BY FS_Subset DEF Having, CountsFrom
  <1>3. \A m, n \in 1 .. L : m # n => part[m] \cap part[n] = {}
    <2> SUFFICES ASSUME NEW m \in 1 .. L, NEW n \in 1 .. L, m # n,
                        NEW i \in S, v[i] = values[m + a - 1], v[i] = values[n + a - 1]
                 PROVE  FALSE
      BY DEF Having
    <2>1. m + a - 1 \in 1 .. k /\ n + a - 1 \in 1 .. k /\ m + a - 1 # n + a - 1
      BY <1>1
    <2> QED BY <2>1 DEF Distinct
  <1>4. Together(part, L) = whole
    <2>1. ASSUME NEW n \in 1 .. L PROVE n + a - 1 \in a .. b
      BY <1>1
    <2>2. ASSUME NEW n \in a .. b PROVE n - a + 1 \in 1 .. L /\ (n - a + 1) + a - 1 = n
      BY <1>1
    <2>3. ASSUME NEW i \in whole PROVE i \in UNION {part[n] : n \in 1 .. L}
      <3>1. PICK n \in a .. b : v[i] = values[n]
        BY <2>3 DEF HavingOneOf
      <3>2. i \in part[n - a + 1]
        BY <2>2, <2>3, <3>1 DEF Having, HavingOneOf
      <3> QED BY <2>2, <3>2
    <2>4. ASSUME NEW n \in 1 .. L, NEW i \in part[n] PROVE i \in whole
      BY <2>1, <2>4 DEF Having, HavingOneOf
    <2> QED BY <2>3, <2>4 DEF Together
  <1> HIDE DEF part, whole
  <1>5. Total(tally) = Cardinality(Together(part, Len(tally)))
    BY <1>1, <1>2, <1>3, PartsAddUp DEF L
  <1> QED BY <1>4, <1>5 DEF whole, L

(* How many members of S have each of the first k values.                    *)
CountsOf(S, v, values, k) == [n \in 1 .. k |-> Cardinality(Having(S, v, values[n]))]

(* Every value once, and none left out.                                      *)
Covers(S, v, values, k) ==
    /\ Distinct(values, k)
    /\ \A i \in S : \E n \in 1 .. k : v[i] = values[n]

LEMMA CountsAreCounts ==
  ASSUME NEW S, IsFiniteSet(S), NEW v, NEW values, NEW k \in Nat
  PROVE  /\ CountsOf(S, v, values, k) \in Seq(Nat) /\ Len(CountsOf(S, v, values, k)) = k
         /\ \A n \in 1 .. k :
              CountsOf(S, v, values, k)[n] = Cardinality(Having(S, v, values[n]))
  <1> DEFINE having(n) == Having(S, v, values[n])
             tally == CountsOf(S, v, values, k)
  <1>1. \A n \in 1 .. k : Cardinality(having(n)) \in Nat
    BY FS_Subset, FS_CardinalityType DEF Having
  <1>2. tally = [n \in 1 .. k |-> Cardinality(having(n))]
    BY DEF CountsOf
  <1> HIDE DEF having, tally
  <1>3. tally \in Seq(Nat)
    BY <1>1, <1>2, IsASeq
  <1>4. Len(tally) = k
    BY <1>2, <1>3, LenProperties
  <1>5. \A n \in 1 .. k : tally[n] = Cardinality(having(n))
    BY <1>2
  <1> QED BY <1>3, <1>4, <1>5 DEF tally, having

(* The members of a finite set counted by their values, in any order of the  *)
(* values: cut anywhere, the two parts of the list add up to the set.        *)
LEMMA HistogramAddsUp ==
  ASSUME NEW S, IsFiniteSet(S), NEW v, NEW values, NEW k \in Nat, Covers(S, v, values, k),
         NEW tally, tally = CountsOf(S, v, values, k), NEW t \in 0 .. k
  PROVE  /\ Total(tally) = Cardinality(S)
         /\ Total(SubSeq(tally, 1, t)) \in Nat /\ Total(SubSeq(tally, t + 1, k)) \in Nat
         /\ Total(SubSeq(tally, 1, t)) + Total(SubSeq(tally, t + 1, k)) = Cardinality(S)
  <1> DEFINE front == SubSeq(tally, 1, t)
             back == SubSeq(tally, t + 1, k)
             early == HavingOneOf(S, v, values, 1, t)
             late == HavingOneOf(S, v, values, t + 1, k)
  <1>1. /\ tally \in Seq(Nat) /\ Len(tally) = k
        /\ \A n \in 1 .. k : tally[n] = Cardinality(Having(S, v, values[n]))
    BY CountsAreCounts
  <1>2. Distinct(values, k)
    BY DEF Covers
  <1>3. t \in Nat /\ t <= k
    OBVIOUS
  <1>4. /\ front \in Seq(Nat) /\ Len(front) = t /\ \A n \in 1 .. t : front[n] = tally[n]
        /\ back \in Seq(Nat) /\ Len(back) = k - t /\ \A n \in 1 .. k - t : back[n] = tally[t + n]
    <2>1. t \in 0 .. Len(tally)
      BY <1>1
    <2> DEFINE rest == SubSeq(tally, t + 1, Len(tally))
    <2>2. /\ front \in Seq(Nat) /\ Len(front) = t /\ \A n \in 1 .. t : front[n] = tally[n]
          /\ rest \in Seq(Nat) /\ Len(rest) = Len(tally) - t
          /\ \A n \in 1 .. Len(tally) - t : rest[n] = tally[t + n]
      BY <1>1, <2>1, CutInTwo
    <2>3. rest = back
      BY <1>1
    <2> HIDE DEF rest, front, back
    <2> QED BY <1>1, <2>2, <2>3
  <1> HIDE DEF front, back
  <1>6. Total(front) = Cardinality(early)
    <2>1. ASSUME NEW n \in 1 .. Len(front)
          PROVE  front[n] = Cardinality(Having(S, v, values[n + 1 - 1]))
      <3>1. n \in 1 .. t /\ n \in 1 .. k /\ n + 1 - 1 = n
        BY <1>3, <1>4
      <3> QED BY <1>1, <1>4, <3>1
    <2>2. CountsFrom(front, S, v, values, k, 1, t)
      BY <1>3, <1>4, <2>1 DEF CountsFrom
    <2> QED BY <1>2, <2>2, StretchAddsUp
  <1>7. Total(back) = Cardinality(late)
    <2>1. ASSUME NEW n \in 1 .. Len(back)
          PROVE  back[n] = Cardinality(Having(S, v, values[n + (t + 1) - 1]))
      <3>1. n \in 1 .. k - t /\ t + n \in 1 .. k /\ n + (t + 1) - 1 = t + n
        BY <1>3, <1>4
      <3> QED BY <1>1, <1>4, <3>1
    <2>2. CountsFrom(back, S, v, values, k, t + 1, k)
      BY <1>3, <1>4, <2>1 DEF CountsFrom
    <2> QED BY <1>2, <2>2, StretchAddsUp
  <1>8. early \cup late = S /\ early \cap late = {}
    <2>1. \A n \in 1 .. k : n \in 1 .. t \/ n \in t + 1 .. k
      BY <1>3
    <2>2. \A m \in 1 .. t, n \in t + 1 .. k : m \in 1 .. k /\ n \in 1 .. k /\ m # n
      BY <1>3
    <2>3. early \cap late = {}
      BY <1>2, <2>2 DEF HavingOneOf, Distinct
    <2>4. \A i \in S : \E n \in 1 .. k : v[i] = values[n]
      BY DEF Covers
    <2>5. early \cup late = S
      BY <2>1, <2>4 DEF HavingOneOf
    <2> QED BY <2>3, <2>5
  <1>9. /\ IsFiniteSet(early) /\ IsFiniteSet(late)
        /\ Cardinality(early) \in Nat /\ Cardinality(late) \in Nat
    BY FS_Subset, FS_CardinalityType DEF HavingOneOf
  <1> HIDE DEF early, late
  <1>10. Cardinality(early) + Cardinality(late) = Cardinality(S)
    <2>1. Cardinality(early \cup late)
            = Cardinality(early) + Cardinality(late) - Cardinality(early \cap late)
      BY <1>9, FS_Union
    <2>2. Cardinality(early \cap late) = 0
      BY <1>8, FS_EmptySet
    <2>3. Cardinality(S) = Cardinality(early) + Cardinality(late) - 0
      BY <1>8, <2>1, <2>2
    <2> QED BY <1>9, <2>3
  <1>11. Total(tally) = Cardinality(S)
    <2>1. ASSUME NEW n \in 1 .. Len(tally)
          PROVE  tally[n] = Cardinality(Having(S, v, values[n + 1 - 1]))
      <3>1. n \in 1 .. k /\ n + 1 - 1 = n
        BY <1>1
      <3> QED BY <1>1, <3>1
    <2>2. CountsFrom(tally, S, v, values, k, 1, k)
      BY <1>1, <2>1 DEF CountsFrom
    <2>3. Total(tally) = Cardinality(HavingOneOf(S, v, values, 1, k))
      BY <1>2, <2>2, StretchAddsUp
    <2>4. HavingOneOf(S, v, values, 1, k) = S
      BY DEF Covers, HavingOneOf
    <2> QED BY <2>3, <2>4
  <1>12. Total(front) \in Nat /\ Total(back) \in Nat
    BY <1>6, <1>7, <1>9
  <1>13. Total(front) + Total(back) = Cardinality(S)
    BY <1>6, <1>7, <1>10
  <1> QED BY <1>11, <1>12, <1>13 DEF front, back

(* The values of a finite set, ranked by how many have them, cover it.       *)
LEMMA RankedCovers ==
  ASSUME NEW S, IsFiniteSet(S), NEW v, NEW T, NEW R, Orders(R, T), v \in Surjection(S, T)
  PROVE  /\ Covers(S, v, Ranked(T, R), Len(Ranked(T, R)))
         /\ Ranked(T, R) \in Seq(T) /\ Len(Ranked(T, R)) \in Nat
  <1> DEFINE values == Ranked(T, R)
             k == Cardinality(T)
  <1>1. /\ IsFiniteSet(T) /\ \A i \in S : v[i] \in T
    BY FS_Surjection DEF Surjection
  <1>2. /\ values \in Seq(T) /\ Len(values) = k /\ k \in Nat
        /\ \A x \in T : \E n \in 1 .. k : values[n] = x
        /\ \A m, n \in 1 .. k : m < n <=> <<values[m], values[n]>> \in R
    <2>1. IsFiniteSet(T)
      BY <1>1
    <2> QED BY <2>1, RankedInOrder
  <1>3. \A n \in 1 .. k : values[n] \in T
    BY <1>2, ElementOfSeq
  <1> HIDE DEF values, k
  <1>4. \A m, n \in 1 .. k : values[m] = values[n] => m = n
    <2> SUFFICES ASSUME NEW m \in 1 .. k, NEW n \in 1 .. k, values[m] = values[n], m < n
                 PROVE  FALSE
      BY <1>2
    <2>1. <<values[m], values[m]>> \in R /\ values[m] \in T
      BY <1>2, <1>3
    <2> QED BY <2>1 DEF Orders
  <1>5. \A i \in S : \E n \in 1 .. k : v[i] = values[n]
    BY <1>1, <1>2
  <1>6. Covers(S, v, values, k)
    BY <1>4, <1>5 DEF Covers, Distinct
  <1> QED BY <1>2, <1>6 DEF values, k

-----------------------------------------------------------------------------
(* AreaSelection.  A page holds the newest of the records behind its cursor, *)
(* and the next cursor leaves the others behind it.                          *)

Cursor == {Start, End} \cup [at : Nat, id : Nat]
Seen(i) == \E n \in DOMAIN listed : listed[n] = i

AreaType ==
    /\ table = [i \in Incident |-> table[i]] /\ \A i \in Incident : table[i].at \in Nat
    /\ listed \in Seq(Incident) /\ cursor \in Cursor /\ touched \subseteq Incident
    /\ cursor = Start => listed = <<>>

(* Of the incidents nobody has touched, those are listed that match and have *)
(* the cursor before them, in order.                                         *)
ListInv ==
    /\ \A i \in Incident \ touched : Seen(i) <=> Matches(table[i]) /\ ~Behind(i)
    /\ \A m, n \in DOMAIN listed :
         m < n /\ listed[m] \notin touched /\ listed[n] \notin touched =>
            Newer(listed[m], listed[n])

SummaryInv ==
    summary # Unread =>
      /\ summary.withTime + summary.withoutTime = summary.count
      /\ touched = {} => summary.count = Cardinality(Matching)

AreaInv == AreaType /\ ListInv /\ SummaryInv

LEMMA MatchingIsFinite ==
  /\ Matching \subseteq Incident /\ IsFiniteSet(Matching) /\ Cardinality(Matching) \in Nat
  /\ \A i \in Incident : i \in Nat
<1>1. Matching \subseteq Incident /\ IsFiniteSet(Incident)
  BY AreaAssumption DEF Matching
<1> QED
  BY <1>1, AreaAssumption, FS_Subset, FS_CardinalityType

(* A record is listed once.                                                  *)
LEMMA ListsOnce == AreaInv => ListedOnce
<1>. SUFFICES ASSUME AreaInv PROVE ListedOnce
  OBVIOUS
<1>1. ASSUME NEW i \in Incident \ touched
      PROVE  Times(i) = IF Seen(i) THEN 1 ELSE 0
  <2>. DEFINE at == {n \in DOMAIN listed : listed[n] = i}
  <2>1. \A m, n \in at : m = n
    <3>1. \A m, n \in at : ~(m < n)
      <4>1. ~Newer(i, i)
        BY AreaAssumption DEF Newer, AreaInv, AreaType
      <4> QED
        BY <4>1 DEF AreaInv, ListInv
    <3>2. at \subseteq Nat
      BY DEF AreaInv, AreaType
    <3> QED
      BY <3>1, <3>2
  <2>2. CASE Seen(i)
    <3>1. PICK n : n \in at
      BY <2>2 DEF Seen
    <3>2. at = {n}
      BY <2>1, <3>1
    <3>3. Cardinality(at) = 1
      BY <3>2, FS_Singleton
    <3> QED
      BY <3>3, <2>2 DEF Times
  <2>3. CASE ~Seen(i)
    <3>1. at = {}
      BY <2>3 DEF Seen
    <3> QED
      BY <3>1, <2>3, FS_EmptySet DEF Times
  <2> QED
    BY <2>2, <2>3
<1>2. cursor = End => \A i \in Incident \ touched : Seen(i) <=> Matches(table[i])
  <2>1. ASSUME cursor = End, NEW i \in Incident PROVE ~Behind(i)
    <3>1. table[i].at \in Nat /\ cursor.at = -2 /\ cursor # Start
      BY <2>1 DEF AreaInv, AreaType, End, Start
    <3> QED
      BY <3>1 DEF Behind
  <2> QED
    BY <2>1 DEF AreaInv, ListInv
<1>3. \A m, n \in DOMAIN listed :
        m < n /\ {listed[m], listed[n]} \cap touched = {} => Newer(listed[m], listed[n])
  BY DEF AreaInv, ListInv
<1>4. ASSUME NEW i \in Incident \ touched
      PROVE  Times(i) <= 1 /\ (cursor = End => Times(i) = (IF Matches(table[i]) THEN 1 ELSE 0))
  BY <1>1, <1>2
<1> QED
  BY <1>3, <1>4 DEF ListedOnce

LEMMA SummaryMatches == AreaInv => SummaryMatchesList
<1>. SUFFICES ASSUME AreaInv, summary # Unread, touched = {}, cursor = End
              PROVE  Cardinality(Matching) = Len(listed)
  BY DEF SummaryMatchesList, AreaInv, SummaryInv
<1>1. listed \in Seq(Incident) /\ DOMAIN listed = 1 .. Len(listed) /\ Len(listed) \in Nat
  BY DEF AreaInv, AreaType
<1>2. \A i \in Incident : Seen(i) <=> i \in Matching
  <2>1. ASSUME NEW i \in Incident PROVE ~Behind(i)
    <3>1. table[i].at \in Nat /\ cursor.at = -2 /\ cursor # Start
      BY DEF AreaInv, AreaType, End, Start
    <3> QED
      BY <3>1 DEF Behind
  <2> QED
    BY <2>1 DEF AreaInv, ListInv, Matching
<1>3. listed \in [1 .. Len(listed) -> Matching]
  <2>1. \A n \in 1 .. Len(listed) : listed[n] \in Matching
    BY <1>1, <1>2 DEF Seen
  <2> QED
    BY <2>1, <1>1
<1>4. \A m, n \in 1 .. Len(listed) : listed[m] = listed[n] => m = n
  <2>1. ASSUME NEW m \in 1 .. Len(listed), NEW n \in 1 .. Len(listed), m < n, listed[m] = listed[n]
        PROVE  FALSE
    <3>1. Newer(listed[m], listed[n]) /\ listed[m] \in Incident
      BY <2>1, <1>1 DEF AreaInv, ListInv
    <3> QED
      BY <3>1, <2>1, AreaAssumption DEF Newer, AreaInv, AreaType
  <2> QED
    BY <2>1
<1>5. \A i \in Matching : \E n \in 1 .. Len(listed) : listed[n] = i
  BY <1>1, <1>2, MatchingIsFinite DEF Seen
<1>6. ExistsBijection(1 .. Len(listed), Matching)
  BY <1>3, <1>4, <1>5 DEF ExistsBijection, Bijection, Injection, Surjection, IsInjective
<1>7. IsFiniteSet(1 .. Len(listed)) /\ Cardinality(1 .. Len(listed)) = Len(listed)
  BY <1>1, FS_Interval
<1> QED
  BY <1>6, <1>7, FS_Bijection

-----------------------------------------------------------------------------

LEMMA NewerIsAnOrder ==
  ASSUME AreaType, NEW i \in Incident, NEW j \in Incident
  PROVE  /\ ~Newer(i, i) /\ ~(Newer(i, j) /\ Newer(j, i)) /\ (i # j => Newer(i, j) \/ Newer(j, i))
         /\ \A k \in Incident : Newer(i, j) /\ Newer(j, k) => Newer(i, k)
<1>1. \A x \in Incident : x \in Nat /\ table[x].at \in Nat
  BY AreaAssumption DEF AreaType
<1> QED
  BY <1>1 DEF Newer

LEMMA NewerOrders ==
  ASSUME AreaType, NEW S \in SUBSET Matching
  PROVE  Orders(NewerPairs, S) /\ IsFiniteSet(S)
<1>1. S \subseteq Incident /\ IsFiniteSet(S)
  BY MatchingIsFinite, FS_Subset
<1>2. \A i, j \in S : <<i, j>> \in NewerPairs <=> Newer(i, j)
  BY DEF NewerPairs
<1>3. \A i \in S : <<i, i>> \notin NewerPairs
  BY <1>1, <1>2, NewerIsAnOrder
<1>4. \A i, j \in S : i # j => <<i, j>> \in NewerPairs \/ <<j, i>> \in NewerPairs
  BY <1>1, <1>2, NewerIsAnOrder
<1>5. \A i, j, k \in S :
        <<i, j>> \in NewerPairs /\ <<j, k>> \in NewerPairs => <<i, k>> \in NewerPairs
  BY <1>1, <1>2, NewerIsAnOrder
<1> QED
  BY <1>1, <1>3, <1>4, <1>5 DEF Orders

LEMMA RecordsHaveTimes == \A r \in Record \cup {Outside} : r.at \in Nat
<1>1. \A r \in Record : r.at \in Time
  BY DEF Record
<1>2. Outside.at = 0
  BY DEF Outside
<1>3. \A t \in Time : t \in Nat
  BY AreaAssumption
<1>4. ASSUME NEW r \in Record \cup {Outside} PROVE r.at \in Nat
  <2>1. CASE r \in Record
    BY <2>1, <1>1, <1>3
  <2>2. CASE r = Outside
    BY <2>2, <1>2
  <2> QED
    BY <2>1, <2>2
<1> QED
  BY <1>4

LEMMA AreaInvInit == AreaInit => AreaInv
<1>. SUFFICES ASSUME AreaInit PROVE AreaInv
  OBVIOUS
<1>1. cursor = Start /\ listed = <<>> /\ summary = Unread /\ touched = {}
  BY DEF AreaInit
<1>2. AreaType
  <2>1. ASSUME NEW i \in Incident PROVE table[i].at \in Nat
    <3>1. table[i] \in Record \cup {Outside}
      BY DEF AreaInit
    <3> QED
      BY <3>1, RecordsHaveTimes
  <2>2. table = [i \in Incident |-> table[i]]
    BY DEF AreaInit
  <2> QED
    BY <2>1, <2>2, <1>1 DEF AreaType, Cursor
<1>3. ListInv
  BY <1>1 DEF ListInv, Seen, Behind
<1> QED
  BY <1>1, <1>2, <1>3 DEF AreaInv, SummaryInv

LEMMA AheadIsNewer ==
  ASSUME AreaType, NEW i \in Incident, NEW j \in Incident, ~Behind(i), Behind(j)
  PROVE  Newer(i, j)
<1>1. cursor # Start /\ cursor # End
  BY DEF Behind, Start, End, AreaType
<1>2. cursor.at \in Nat /\ cursor.id \in Nat
  BY <1>1 DEF AreaType, Cursor
<1>3. table[i].at \in Nat /\ table[j].at \in Nat /\ i \in Nat /\ j \in Nat
  BY AreaAssumption DEF AreaType
<1> QED
  BY <1>1, <1>2, <1>3 DEF Behind, Newer

LEMMA PageStep == AreaInv /\ Page => AreaInv'
<1>. SUFFICES ASSUME AreaInv, Page PROVE AreaInv'
  OBVIOUS
<1>. DEFINE behind == {i \in Matching : Behind(i)}
            order == Ranked(behind, NewerPairs)
            size == Min({Len(order), PageSize})
            page == SubSeq(order, 1, size)
<1>1. /\ cursor # End /\ listed' = listed \o page
      /\ cursor' = IF Len(order) > PageSize
                   THEN [at |-> table[Last(page)].at, id |-> Last(page)] ELSE End
      /\ UNCHANGED <<table, filter, summary, touched>>
  BY DEF Page
<1>2. /\ behind \in SUBSET Incident /\ Len(order) \in Nat /\ order \in Seq(behind)
      /\ \A i \in behind : \E n \in 1 .. Len(order) : order[n] = i
      /\ \A n \in 1 .. Len(order) : order[n] \in behind
      /\ \A m, n \in 1 .. Len(order) : m < n <=> Newer(order[m], order[n])
  <2>1. Orders(NewerPairs, behind) /\ IsFiniteSet(behind)
    BY NewerOrders DEF AreaInv
  <2>2. behind \in SUBSET Matching
    OBVIOUS
  <2>. HIDE DEF behind
  <2>3. /\ order \in Seq(behind) /\ Len(order) = Cardinality(behind) /\ Len(order) \in Nat
        /\ \A i \in behind : \E n \in 1 .. Len(order) : order[n] = i
        /\ \A m, n \in 1 .. Len(order) : m < n <=> <<order[m], order[n]>> \in NewerPairs
    BY <2>1, RankedInOrder
  <2>. HIDE DEF order
  <2>4. \A n \in 1 .. Len(order) : order[n] \in behind
    BY <2>3
  <2>5. \A m, n \in 1 .. Len(order) : <<order[m], order[n]>> \in NewerPairs <=> Newer(order[m], order[n])
    BY <2>2, <2>4 DEF NewerPairs
  <2> QED
    BY <2>2, <2>3, <2>4, <2>5, MatchingIsFinite
<1>. HIDE DEF order
<1>3. size \in Nat /\ size <= Len(order) /\ (Len(order) <= PageSize => size = Len(order))
      /\ (Len(order) > PageSize => size = PageSize) /\ PageSize \in Nat \ {0}
  <2>. DEFINE c == Len(order)
  <2>1. c \in Nat /\ PageSize \in Nat \ {0}
    BY <1>2, AreaAssumption
  <2>2. \A x \in {c, PageSize} : \E y \in {c, PageSize} : \A z \in {c, PageSize} : y <= z
    BY <2>1
  <2>3. Min({c, PageSize}) \in {c, PageSize} /\ \A z \in {c, PageSize} : Min({c, PageSize}) <= z
    <3>. HIDE DEF c
    <3> QED
      BY <2>2 DEF Min
  <2> QED
    BY <2>1, <2>3
<1>. HIDE DEF size
<1>5. /\ page \in Seq(Incident) /\ Len(page) = size /\ DOMAIN page = 1 .. size
      /\ \A n \in 1 .. size : page[n] = order[n]
  <2>1. \A n \in 1 .. size : order[n] \in Incident
    BY <1>2, <1>3
  <2>2. /\ page \in Seq(Incident) /\ Len(page) = IF 1 <= size THEN size - 1 + 1 ELSE 0
        /\ \A n \in 1 .. size - 1 + 1 : page[n] = order[1 + n - 1]
    BY <2>1, <1>3, SubSeqProperties
  <2>. HIDE DEF page
  <2>3. Len(page) = size
    BY <2>2, <1>3
  <2>4. DOMAIN page = 1 .. Len(page)
    BY <2>2, LenProperties
  <2>5. size - 1 + 1 = size /\ \A n \in 1 .. size : 1 + n - 1 = n
    BY <1>3
  <2>6. \A n \in 1 .. size : page[n] = order[n]
    BY <2>2, <2>5
  <2> QED
    BY <2>2, <2>3, <2>4, <2>6
<1>4. \A n \in 1 .. size : page[n] \in behind
  BY <1>2, <1>3, <1>5
<1>. HIDE DEF page, behind
<1>6. /\ listed' \in Seq(Incident) /\ Len(listed) \in Nat /\ DOMAIN listed = 1 .. Len(listed)
      /\ Len(listed') = Len(listed) + size /\ DOMAIN listed' = 1 .. (Len(listed) + size)
      /\ \A n \in DOMAIN listed : listed'[n] = listed[n]
      /\ \A n \in 1 .. size : listed'[Len(listed) + n] = page[n]
  <2>1. listed \in Seq(Incident) /\ page \in Seq(Incident) /\ Len(page) = size /\ size \in Nat
    BY <1>3, <1>5 DEF AreaInv, AreaType
  <2>2. listed' = listed \o page
    BY <1>1
  <2>3. /\ listed' \in Seq(Incident) /\ Len(listed) \in Nat /\ DOMAIN listed = 1 .. Len(listed)
        /\ Len(listed') = Len(listed) + size /\ DOMAIN listed' = 1 .. (Len(listed) + size)
    <3>5. listed \o page \in Seq(Incident)
      BY <2>1
    <3>1. listed' \in Seq(Incident) /\ Len(listed) \in Nat /\ DOMAIN listed = 1 .. Len(listed)
      BY <3>5, <2>1, <2>2
    <3>4. Len(listed \o page) = Len(listed) + Len(page)
      BY <2>1
    <3>2. Len(listed') = Len(listed) + size
      BY <3>4, <2>1, <2>2
    <3>3. DOMAIN listed' = 1 .. Len(listed')
      BY <3>1
    <3> QED
      BY <3>1, <3>2, <3>3
  <2>4. \A n \in DOMAIN listed : listed'[n] = listed[n]
    BY <2>1, <2>2
  <2>5. \A n \in 1 .. size : listed'[Len(listed) + n] = page[n]
    BY <2>1, <2>2
  <2> QED
    BY <2>3, <2>4, <2>5
<1>7. \A n \in DOMAIN listed' :
        \/ n \in DOMAIN listed /\ listed'[n] = listed[n]
        \/ \E k \in 1 .. size : n = Len(listed) + k /\ listed'[n] = page[k]
  <2>1. ASSUME NEW n \in DOMAIN listed', n \notin DOMAIN listed
        PROVE  n - Len(listed) \in 1 .. size /\ n = Len(listed) + (n - Len(listed))
    BY <2>1, <1>3, <1>6
  <2> QED
    BY <2>1, <1>6
<1>8. \A i \in Incident : Seen(i)' <=> Seen(i) \/ \E k \in 1 .. size : page[k] = i
  <2>1. ASSUME NEW i \in Incident, Seen(i) PROVE Seen(i)'
    BY <2>1, <1>3, <1>6 DEF Seen
  <2>2. ASSUME NEW i \in Incident, NEW k \in 1 .. size, page[k] = i PROVE Seen(i)'
    <3>1. Len(listed) + k \in DOMAIN listed' /\ listed'[Len(listed) + k] = i
      BY <2>2, <1>3, <1>6
    <3> QED
      BY <3>1 DEF Seen
  <2>3. ASSUME NEW i \in Incident, Seen(i)' PROVE Seen(i) \/ \E k \in 1 .. size : page[k] = i
    BY <2>3, <1>7 DEF Seen
  <2> QED
    BY <2>1, <2>2, <2>3
(* What is on the page, by its place in the order.                           *)
<1>9. ASSUME NEW n \in 1 .. Len(order)
      PROVE  (\E k \in 1 .. size : page[k] = order[n]) <=> n <= size
  <2>1. ASSUME n <= size PROVE n \in 1 .. size /\ page[n] = order[n]
    BY <2>1, <1>2, <1>3, <1>5
  <2>2. ASSUME NEW k \in 1 .. size, page[k] = order[n] PROVE n <= size
    <3>1. k \in 1 .. Len(order) /\ order[k] = order[n]
      <4>1. k \in 1 .. Len(order)
        BY <1>2, <1>3
      <4>2. page[k] = order[k]
        BY <1>5
      <4> QED
        BY <4>1, <4>2, <2>2
    <3>2. ~(k < n)
      <4>1. order[n] \in Incident
        BY <1>2
      <4>2. ~Newer(order[n], order[n])
        BY <4>1, NewerIsAnOrder DEF AreaInv
      <4> QED
        BY <3>1, <4>2, <1>2
    <3> QED
      BY <3>2, <1>3
  <2> QED
    BY <2>1, <2>2
<1>10. \A i \in Incident : i \in behind <=> Matches(table[i]) /\ Behind(i)
  BY DEF behind, Matching
<1>11. ASSUME NEW i \in Incident, Matches(table[i])
       PROVE  Behind(i)' <=> Behind(i) /\ ~(\E k \in 1 .. size : page[k] = i)
  <2>0. ASSUME Behind(i) PROVE \E n \in 1 .. Len(order) : order[n] = i
    BY <2>0, <1>2, <1>10, <1>11
  <2>1. CASE Len(order) > PageSize
    <3>. DEFINE last == order[size]
    <3>1. size \in 1 .. size /\ size \in 1 .. Len(order)
      BY <2>1, <1>3
    <3>2. last \in behind /\ last \in Incident
      BY <3>1, <1>2
    <3>3. Last(page) = last
      BY <3>1, <1>5 DEF Last
    <3>4. cursor' = [at |-> table[last].at, id |-> last] /\ cursor' # Start
      <4>1. table[last].at # -1
        BY <3>2 DEF AreaInv, AreaType
      <4> QED
        BY <2>1, <3>3, <4>1, <1>1 DEF Start
    <3>5. Behind(i)' <=> Newer(last, i)
      <4>1. cursor'.at = table[last].at /\ cursor'.id = last
        BY <3>4
      <4>2. \A x \in Incident : x \in Nat /\ table[x].at \in Nat
        BY AreaAssumption DEF AreaInv, AreaType
      <4> QED
        BY <3>2, <3>4, <4>1, <4>2, <1>1 DEF Behind, Newer
    <3>6. CASE Behind(i)
      <4>1. PICK n \in 1 .. Len(order) : order[n] = i
        BY <3>6, <2>0
      <4>2. Newer(last, i) <=> size < n
        BY <3>1, <4>1, <1>2
      <4>3. Newer(last, i) <=> ~(n <= size)
        BY <4>2, <1>2, <1>3
      <4> QED
        BY <3>5, <3>6, <4>1, <4>3, <1>9
    <3>7. CASE ~Behind(i)
      <4>1. Behind(last)
        BY <3>2, <1>10
      <4>2. Newer(i, last)
        BY <3>2, <3>7, <4>1, AheadIsNewer DEF AreaInv
      <4>3. ~Newer(last, i)
        BY <3>2, <4>2, NewerIsAnOrder DEF AreaInv
      <4> QED
        BY <3>5, <3>7, <4>3
    <3> QED
      BY <3>6, <3>7
  <2>2. CASE ~(Len(order) > PageSize)
    <3>1. cursor' = End /\ size = Len(order)
      BY <2>2, <1>1, <1>2, <1>3
    <3>2. ~Behind(i)'
      <4>1. cursor'.at = -2 /\ cursor' # Start /\ table'[i].at \in Nat
        BY <3>1, <1>1 DEF End, Start, AreaInv, AreaType
      <4> QED
        BY <4>1 DEF Behind
    <3>3. ASSUME Behind(i) PROVE \E k \in 1 .. size : page[k] = i
      <4>1. PICK n \in 1 .. Len(order) : order[n] = i
        BY <3>3, <2>0
      <4>2. n <= size
        BY <3>1, <1>2
      <4> QED
        BY <4>1, <4>2, <1>9
    <3> QED
      BY <3>2, <3>3
  <2> QED
    BY <2>1, <2>2
<1>12. AreaType'
  <2>1. cursor' \in Cursor /\ cursor' # Start
    <3>1. CASE Len(order) > PageSize
      <4>1. page[size] \in Incident /\ Last(page) = page[size]
        BY <3>1, <1>2, <1>3, <1>4, <1>5 DEF Last
      <4>2. table[page[size]].at \in Nat /\ page[size] \in Nat
        BY <4>1, AreaAssumption DEF AreaInv, AreaType
      <4> QED
        BY <3>1, <4>1, <4>2, <1>1 DEF Cursor, Start
    <3>2. CASE ~(Len(order) > PageSize)
      BY <3>2, <1>1 DEF Cursor, Start, End
    <3> QED
      BY <3>1, <3>2
  <2> QED
    BY <2>1, <1>1, <1>6 DEF AreaInv, AreaType
<1>13. ASSUME NEW i \in Incident \ touched
       PROVE  Seen(i)' <=> Matches(table[i]) /\ ~Behind(i)'
  <2>1. Seen(i) <=> Matches(table[i]) /\ ~Behind(i)
    BY DEF AreaInv, ListInv
  <2>2. ASSUME NEW k \in 1 .. size, page[k] = i PROVE Matches(table[i]) /\ Behind(i)
    BY <2>2, <1>4, <1>10
  <2>3. CASE Matches(table[i])
    BY <2>1, <2>3, <1>8, <1>11, <2>2
  <2>4. CASE ~Matches(table[i])
    BY <2>1, <2>2, <2>4, <1>8
  <2> QED
    BY <2>3, <2>4
<1>14. ASSUME NEW m \in DOMAIN listed', NEW n \in DOMAIN listed', m < n,
              listed'[m] \notin touched, listed'[n] \notin touched
       PROVE  Newer(listed'[m], listed'[n])
  <2>1. CASE n \in DOMAIN listed
    <3>1. m \in DOMAIN listed
      BY <2>1, <1>6, <1>14
    <3> QED
      BY <2>1, <3>1, <1>6, <1>14 DEF AreaInv, ListInv
  <2>2. ASSUME NEW k \in 1 .. size, n = Len(listed) + k PROVE Newer(listed'[m], listed'[n])
    <3>1. listed'[n] = page[k] /\ page[k] \in behind /\ page[k] \in Incident /\ Behind(page[k])
      BY <2>2, <1>2, <1>4, <1>6, <1>10
    <3>2. CASE m \in DOMAIN listed
      <4>1. listed'[m] = listed[m] /\ listed[m] \in Incident \ touched
        BY <3>2, <1>6, <1>14 DEF AreaInv, AreaType
      <4>2. ~Behind(listed[m])
        BY <3>2, <4>1 DEF AreaInv, ListInv, Seen
      <4> QED
        BY <3>1, <4>1, <4>2, AheadIsNewer DEF AreaInv
    <3>3. ASSUME NEW l \in 1 .. size, m = Len(listed) + l PROVE Newer(listed'[m], listed'[n])
      <4>1. listed'[m] = page[l] /\ page[l] \in behind /\ l < k
        BY <2>2, <3>3, <1>3, <1>4, <1>6, <1>14
      <4>2. l \in 1 .. Len(order) /\ k \in 1 .. Len(order)
        BY <1>2, <1>3
      <4>3. order[l] = page[l] /\ order[k] = page[k]
        BY <1>5
      <4> QED
        BY <3>1, <4>1, <4>2, <4>3, <1>2
    <3> QED
      BY <3>2, <3>3, <1>7
  <2> QED
    BY <2>1, <2>2, <1>7
<1>15. ListInv'
  <2>1. \A i \in Incident \ touched' : Seen(i)' <=> Matches(table[i])' /\ ~Behind(i)'
    BY <1>1, <1>13 DEF Matches
  <2>2. \A m, n \in DOMAIN listed' :
         m < n /\ listed'[m] \notin touched' /\ listed'[n] \notin touched' =>
            Newer(listed[m], listed[n])'
    BY <1>1, <1>14 DEF Newer
  <2> QED
    BY <2>1, <2>2 DEF ListInv
<1>16. SummaryInv'
  BY <1>1 DEF AreaInv, SummaryInv, Matching, Matches
<1> QED
  BY <1>12, <1>15, <1>16 DEF AreaInv

LEMMA ListStays ==
  ASSUME ListInv, UNCHANGED <<table, filter, cursor, listed, touched>>
  PROVE  ListInv'
<1>1. \A i \in Incident \ touched' : Seen(i)' <=> Matches(table[i])' /\ ~Behind(i)'
  BY DEF ListInv, Seen, Matches, Behind
<1>2. \A m, n \in DOMAIN listed' :
        m < n /\ listed'[m] \notin touched' /\ listed'[n] \notin touched' =>
           Newer(listed[m], listed[n])'
  BY DEF ListInv, Newer
<1> QED
  BY <1>1, <1>2 DEF ListInv

LEMMA SummariseStep == AreaInv /\ Summarise => AreaInv'
<1>. SUFFICES ASSUME AreaInv, Summarise PROVE AreaInv'
  OBVIOUS
<1>1. UNCHANGED <<table, filter, cursor, listed, touched>>
  BY DEF Summarise
<1>. DEFINE yes == {i \in Matching : table[i].started}
            no == {i \in Matching : ~table[i].started}
<1>2. summary'.count = Cardinality(Matching) /\ summary'.withTime = Cardinality(yes)
      /\ summary'.withoutTime = Cardinality(no)
  BY DEF Summarise
<1>3. Cardinality(yes) + Cardinality(no) = Cardinality(Matching)
  <2>1. yes \cup no = Matching /\ yes \cap no = {}
    OBVIOUS
  <2>2. IsFiniteSet(yes) /\ IsFiniteSet(no) /\ Cardinality(yes) \in Nat /\ Cardinality(no) \in Nat
    BY MatchingIsFinite, FS_Subset, FS_CardinalityType
  <2>3. Cardinality(yes \cup no) = Cardinality(yes) + Cardinality(no) - Cardinality(yes \cap no)
    <3>. HIDE DEF yes, no
    <3> QED
      BY <2>2, FS_Union
  <2>4. Cardinality(yes \cap no) = 0
    BY <2>1, FS_EmptySet
  <2> QED
    BY <2>1, <2>2, <2>3, <2>4
<1>4. Matching' = Matching
  BY <1>1 DEF Matching, Matches
<1>5. SummaryInv'
  BY <1>1, <1>2, <1>3, <1>4 DEF SummaryInv
<1>6. AreaType' /\ ListInv'
  <2>1. AreaType'
    BY <1>1 DEF AreaInv, AreaType
  <2>2. ListInv'
    BY <1>1, ListStays DEF AreaInv
  <2> QED
    BY <2>1, <2>2
<1> QED
  BY <1>5, <1>6 DEF AreaInv

LEMMA ChangeStep ==
  ASSUME AreaInv, NEW x \in Incident, Change(x)
  PROVE  AreaInv'
<1>1. PICK r \in Record \cup {Outside} : table' = [table EXCEPT ![x] = r]
  BY DEF Change
<1>2. UNCHANGED <<filter, cursor, listed, summary>>
  BY DEF Change
<1>3. r.at \in Nat
  BY RecordsHaveTimes
<1>4. /\ table' = [i \in Incident |-> table'[i]] /\ \A i \in Incident : table'[i].at \in Nat
      /\ \A i \in Incident \ {x} : table'[i] = table[i]
  BY <1>1, <1>3 DEF AreaInv, AreaType
<1>5. CASE cursor = Start /\ summary = Unread
  <2>1. listed' = <<>> /\ cursor' = Start /\ summary' = Unread /\ touched' \subseteq Incident
    BY <1>2, <1>5 DEF Change, AreaInv, AreaType
  <2>2. AreaType'
    BY <2>1, <1>4 DEF AreaType, Cursor
  <2>3. ListInv'
    BY <2>1 DEF ListInv, Seen, Behind
  <2> QED
    BY <2>1, <2>2, <2>3 DEF AreaInv, SummaryInv
<1>6. CASE ~(cursor = Start /\ summary = Unread)
  <2>1. touched' = touched \cup {x}
    BY <1>6 DEF Change
  <2>2. AreaType'
    BY <2>1, <1>2, <1>4 DEF AreaInv, AreaType
  <2>3. \A i \in Incident \ touched' : i \in Incident \ touched /\ table'[i] = table[i]
    BY <2>1, <1>4
  <2>4. ListInv'
    <3>1. \A i \in Incident \ touched' : Seen(i)' <=> Matches(table[i])' /\ ~Behind(i)'
      BY <2>3, <1>2 DEF AreaInv, ListInv, Seen, Matches, Behind
    <3>2. ASSUME NEW m \in DOMAIN listed', NEW n \in DOMAIN listed', m < n,
                 listed'[m] \notin touched', listed'[n] \notin touched'
          PROVE  Newer(listed[m], listed[n])'
      <4>1. listed[m] \in Incident \ touched' /\ listed[n] \in Incident \ touched'
        BY <3>2, <1>2 DEF AreaInv, AreaType
      <4>2. Newer(listed[m], listed[n])
        BY <3>2, <4>1, <2>3, <1>2 DEF AreaInv, ListInv
      <4> QED
        BY <4>1, <4>2, <2>3, <1>2 DEF Newer
    <3> QED
      BY <3>1, <3>2 DEF ListInv
  <2>5. SummaryInv'
    BY <2>1, <1>2 DEF AreaInv, SummaryInv
  <2> QED
    BY <2>2, <2>4, <2>5 DEF AreaInv
<1> QED
  BY <1>5, <1>6

LEMMA AreaInvStep == AreaInv /\ [AreaNext]_areaVars => AreaInv'
<1>. SUFFICES ASSUME AreaInv, [AreaNext]_areaVars PROVE AreaInv'
  OBVIOUS
<1>1. CASE Page
  BY <1>1, PageStep
<1>2. CASE Summarise
  BY <1>2, SummariseStep
<1>3. CASE \E i \in Incident : Change(i)
  BY <1>3, ChangeStep
<1>4. CASE UNCHANGED areaVars
  <2>1. UNCHANGED <<table, filter, cursor, listed, summary, touched>>
    BY <1>4 DEF areaVars
  <2>2. AreaType'
    BY <2>1 DEF AreaInv, AreaType
  <2>3. ListInv'
    BY <2>1, ListStays DEF AreaInv
  <2>4. Matching' = Matching
    BY <2>1 DEF Matching, Matches
  <2>5. SummaryInv'
    BY <2>1, <2>4 DEF AreaInv, SummaryInv
  <2> QED
    BY <2>2, <2>3, <2>5 DEF AreaInv
<1> QED
  BY <1>1, <1>2, <1>3, <1>4 DEF AreaNext

(* Records outside have no label; the others have one that is a number.      *)
Labelled == \A i \in Incident : table[i] # Outside => table[i].label \in Nat

LEMMA MoreFrequentOrders ==
  ASSUME NEW records, IsFiniteSet(records), NEW T, T \subseteq Nat
  PROVE  Orders({p \in T \X T : MoreFrequent(p[1], p[2], records)}, T)
  <1> DEFINE R == {p \in T \X T : MoreFrequent(p[1], p[2], records)}
  <1>1. \A l \in T : l \in Nat /\ Count(l, records) \in Nat
    BY FS_Subset, FS_CardinalityType DEF Count
  <1>2. \A k, l \in T : <<k, l>> \in R <=> MoreFrequent(k, l, records)
    OBVIOUS
  <1>3. \A k \in T : ~MoreFrequent(k, k, records)
    BY <1>1 DEF MoreFrequent
  <1>4. \A k, l \in T : k # l => MoreFrequent(k, l, records) \/ MoreFrequent(l, k, records)
    BY <1>1 DEF MoreFrequent
  <1>5. \A k, l, m \in T : MoreFrequent(k, l, records) /\ MoreFrequent(l, m, records)
                             => MoreFrequent(k, m, records)
    BY <1>1 DEF MoreFrequent
  <1> HIDE DEF R
  <1>6. Orders(R, T)
    BY <1>2, <1>3, <1>4, <1>5 DEF Orders
  <1> QED BY <1>6 DEF R

(* The types of a summary, the rare ones folded into one.                    *)
LEMMA MixOf ==
  ASSUME Labelled, NEW records \in SUBSET Matching
  PROVE  Len(TypeMix(records)) <= TypeLimit /\ Total(TypeMix(records)) = Cardinality(records)
  <1> DEFINE labels == {table[i].label : i \in records}
             R == {p \in labels \X labels : MoreFrequent(p[1], p[2], records)}
             ordered == Ranked(labels, R)
             k == Len(ordered)
             v == [i \in records |-> table[i].label]
             tally == [n \in DOMAIN ordered |-> Count(ordered[n], records)]
             front == SubSeq(tally, 1, TypeLimit - 1)
             back == SubSeq(tally, TypeLimit, k)
  <1>1. IsFiniteSet(records) /\ records \subseteq Incident /\ \A i \in records : table[i] # Outside
    BY MatchingIsFinite, FS_Subset DEF Matching, Matches
  <1>2. labels \subseteq Nat
    BY <1>1 DEF Labelled
  <1>3. Orders(R, labels)
    <2> HIDE DEF labels
    <2> QED BY <1>1, <1>2, MoreFrequentOrders
  <1>4. v \in Surjection(records, labels)
    BY DEF Surjection
  <1>5. Covers(records, v, ordered, k) /\ ordered \in Seq(labels) /\ k \in Nat
    <2> HIDE DEF labels, v, R
    <2> QED BY <1>1, <1>3, <1>4, RankedCovers
  <1>6. DOMAIN ordered = 1 .. k
    BY <1>5, LenProperties
  <1>7. tally = CountsOf(records, v, ordered, k)
    <2>1. \A l : Count(l, records) = Cardinality(Having(records, v, l))
      BY DEF Count, Having
    <2> HIDE DEF ordered, v, k
    <2> QED BY <1>6, <2>1 DEF CountsOf
  <1>8. TypeLimit \in Nat \ {0} /\ TypeLimit - 1 \in Nat /\ (TypeLimit - 1) + 1 = TypeLimit
    BY AreaAssumption
  <1> HIDE DEF tally, v, ordered, labels, R
  <1>9. tally \in Seq(Nat) /\ Len(tally) = k
    BY <1>1, <1>5, <1>7, CountsAreCounts
  <1>10. TypeMix(records) = IF k > TypeLimit THEN Append(front, Total(back)) ELSE tally
    BY <1>9 DEF TypeMix, labels, R, ordered, tally
  <1>11. CASE k > TypeLimit
    <2>1. TypeLimit - 1 \in 0 .. k
      BY <1>5, <1>8, <1>11
    <2>2. /\ Total(front) \in Nat /\ Total(back) \in Nat
          /\ Total(front) + Total(back) = Cardinality(records)
      <3>1. /\ Total(SubSeq(tally, 1, TypeLimit - 1)) \in Nat
            /\ Total(SubSeq(tally, (TypeLimit - 1) + 1, k)) \in Nat
            /\ Total(SubSeq(tally, 1, TypeLimit - 1)) + Total(SubSeq(tally, (TypeLimit - 1) + 1, k))
                 = Cardinality(records)
        BY <1>1, <1>5, <1>7, <2>1, HistogramAddsUp
      <3> QED BY <1>8, <3>1
    <2>3. front \in Seq(Nat) /\ Len(front) = TypeLimit - 1
      BY <1>9, <2>1, CutInTwo
    <2> HIDE DEF front, back
    <2>4. Total(Append(front, Total(back))) = Total(front) + Total(back)
      BY <2>2, <2>3, OneMoreCount
    <2>5. Len(Append(front, Total(back))) = TypeLimit
      BY <1>8, <2>2, <2>3, AppendProperties
    <2> QED BY <1>8, <1>10, <1>11, <2>2, <2>4, <2>5
  <1>12. CASE ~(k > TypeLimit)
    <2>1. 0 \in 0 .. k
      BY <1>5
    <2>2. Total(tally) = Cardinality(records)
      BY <1>1, <1>5, <1>7, <2>1, HistogramAddsUp
    <2> QED BY <1>5, <1>8, <1>9, <1>10, <1>12, <2>2
  <1> QED BY <1>11, <1>12

MixInv == Labelled /\ MixAddsUp

LEMMA MixInvInit == AreaInit => MixInv
  <1> SUFFICES ASSUME AreaInit PROVE MixInv
    OBVIOUS
  <1>1. table \in [Incident -> Record \cup {Outside}] /\ summary = Unread
    BY DEF AreaInit
  <1>2. \A r \in Record : r.label \in Nat
    BY AreaAssumption DEF Record
  <1> QED BY <1>1, <1>2 DEF MixInv, Labelled, MixAddsUp

LEMMA MixInvStep == AreaInv /\ MixInv /\ [AreaNext]_areaVars => MixInv'
  <1> SUFFICES ASSUME AreaInv, MixInv, [AreaNext]_areaVars PROVE MixInv'
    OBVIOUS
  <1>1. ASSUME UNCHANGED <<table, summary>> PROVE MixInv'
    BY <1>1 DEF MixInv, Labelled, MixAddsUp
  <1>2. CASE Summarise
    <2>1. /\ table' = table /\ summary'.count = Cardinality(Matching)
          /\ summary'.mix = TypeMix(Matching)
      BY <1>2 DEF Summarise
    <2>2. Len(TypeMix(Matching)) <= TypeLimit /\ Total(TypeMix(Matching)) = Cardinality(Matching)
      BY MixOf DEF MixInv
    <2> QED BY <2>1, <2>2 DEF MixInv, Labelled, MixAddsUp
  <1>3. ASSUME NEW x \in Incident, Change(x) PROVE MixInv'
    <2>1. PICK r \in Record \cup {Outside} : table' = [table EXCEPT ![x] = r]
      BY <1>3 DEF Change
    <2>2. summary' = summary
      BY <1>3 DEF Change
    <2>3. \A q \in Record : q.label \in Nat
      BY AreaAssumption DEF Record
    <2>4. r # Outside => r.label \in Nat
      BY <2>3
    <2>5. table'[x] = r /\ \A i \in Incident \ {x} : table'[i] = table[i]
      BY <2>1 DEF AreaInv, AreaType
    <2>6. Labelled'
      BY <2>4, <2>5 DEF MixInv, Labelled
    <2> QED BY <2>2, <2>6 DEF MixInv, MixAddsUp
  <1>4. CASE Page
    BY <1>1, <1>4 DEF Page
  <1>5. CASE UNCHANGED areaVars
    BY <1>1, <1>5 DEF areaVars
  <1> QED BY <1>2, <1>3, <1>4, <1>5 DEF AreaNext

(* Pages read one by one, while ingestion writes, repeat and skip no record  *)
(* it leaves alone and keep the order of the list; what the summary counts   *)
(* is what they list, and its types, the rare ones in one, add up to it      *)
(* (area_selection_service.py).                                              *)
THEOREM PagesAreAList == AreaSpec => []AreaAnswersAgree
<1>1. AreaInit => AreaInv /\ MixInv
  BY AreaInvInit, MixInvInit
<1>2. AreaInv /\ MixInv /\ [AreaNext]_areaVars => (AreaInv /\ MixInv)'
  BY AreaInvStep, MixInvStep
<1>3. AreaInv /\ MixInv => AreaAnswersAgree
  BY ListsOnce, SummaryMatches DEF AreaAnswersAgree, PagesAgree, MixInv
<1> QED
  BY <1>1, <1>2, <1>3, PTL DEF AreaSpec

-----------------------------------------------------------------------------
(* Report.  The rows of the memberships, and what the overview says of them. *)

(* The tables, whatever ingestion and the visitor make of them.              *)
TablesType ==
    /\ pin = [p \in Pin |-> pin[p]] /\ recorded = [i \in SourceRecord |-> recorded[i]]
    /\ \A p \in Pin :
         /\ pin[p] = [at |-> pin[p].at, normal |-> pin[p].normal, gone |-> pin[p].gone]
         /\ pin[p].at \in Int
    /\ \A i \in SourceRecord : recorded[i].at \in Int /\ recorded[i].day \in Nat

Clustered(clusters, ids) ==
    /\ Len(clusters) \in Nat /\ DOMAIN clusters = 1 .. Len(clusters)
    /\ ids = {clusters[n].id : n \in DOMAIN clusters}
    /\ \A n \in DOMAIN clusters : clusters[n].id \in Nat /\ clusters[n].at \in Int
    /\ \A m, n \in DOMAIN clusters : clusters[m].id = clusters[n].id => m = n

(* A row for each record of each place, flagged if another place has it too. *)
RowsFit(rows, ids) ==
    /\ Len(rows) \in Nat /\ DOMAIN rows = 1 .. Len(rows)
    /\ \A n \in DOMAIN rows :
         rows[n].pin \in ids /\ rows[n].id \in SourceRecord /\ rows[n].day \in Nat
    /\ \A m, n \in DOMAIN rows : rows[m].pin = rows[n].pin /\ rows[m].id = rows[n].id => m = n
    /\ \A n \in DOMAIN rows :
         rows[n].duplicate <=> \E m \in DOMAIN rows \ {n} : rows[m].id = rows[n].id

LEMMA IdsAreFinite ==
  ASSUME NEW clusters, NEW ids, Clustered(clusters, ids)
  PROVE  IsFiniteSet(ids) /\ Cardinality(ids) = Len(clusters)
<1>. DEFINE f == [n \in DOMAIN clusters |-> clusters[n].id]
<1>1. f \in Bijection(DOMAIN clusters, ids)
  BY DEF Clustered, Bijection, Injection, Surjection, IsInjective
<1>2. IsFiniteSet(DOMAIN clusters) /\ Cardinality(DOMAIN clusters) = Len(clusters)
  BY FS_Interval DEF Clustered
<1>3. ExistsBijection(DOMAIN clusters, ids)
  BY <1>1 DEF ExistsBijection
<1> QED
  BY <1>2, <1>3, FS_Bijection

LEMMA MembershipsFit ==
  ASSUME TablesType, NEW clusters, NEW ids, Clustered(clusters, ids), NEW from, NEW to,
         NEW rows, rows = Memberships(clusters, from, to)
  PROVE  /\ RowsFit(rows, ids)
         /\ \A n \in DOMAIN rows :
              /\ recorded[rows[n].id] # NotYet /\ rows[n].day = recorded[rows[n].id].day
              /\ rows[n].type = recorded[rows[n].id].type
<1>. DEFINE around(n) ==
              {i \in Within(from, to) : Gap(clusters[n].at, recorded[i].at) <= Reach}
            more(n, i) == \E m \in DOMAIN clusters \ {n} : i \in around(m)
            member(n, i) == [pin |-> clusters[n].id, id |-> i, type |-> recorded[i].type,
                          day |-> recorded[i].day, timed |-> recorded[i].timed,
                          away |-> Gap(clusters[n].at, recorded[i].at),
                          duplicate |-> more(n, i)]
            held == UNION {{member(n, i) : i \in around(n)} : n \in DOMAIN clusters}
            R == {p \in held \X held : Nearer(p[1], p[2])}
<1>1. rows = Ranked(held, R)
  BY DEF Memberships
<1>2. ASSUME NEW n \in DOMAIN clusters, NEW i \in around(n)
      PROVE  /\ i \in SourceRecord /\ i \in Nat /\ recorded[i] # NotYet
             /\ recorded[i].day \in Nat /\ Gap(clusters[n].at, recorded[i].at) \in Int
             /\ member(n, i) \in held
  <2>1. i \in SourceRecord /\ recorded[i] # NotYet
    BY DEF Within, Filed
  <2>2. i \in Nat /\ recorded[i].day \in Nat /\ recorded[i].at \in Int /\ clusters[n].at \in Int
    BY <2>1, ReportAssumption DEF TablesType, Clustered
  <2>3. Gap(clusters[n].at, recorded[i].at) \in Int
    BY <2>2 DEF Gap
  <2>4. member(n, i) \in held
    <3>. HIDE DEF member, around
    <3>1. member(n, i) \in {member(n, j) : j \in around(n)}
      OBVIOUS
    <3> QED
      BY <3>1
  <2>. HIDE DEF member, held, around
  <2> QED
    BY <2>1, <2>2, <2>3, <2>4
<1>3. \A r \in held :
        \E n \in DOMAIN clusters, i \in SourceRecord : i \in around(n) /\ r = member(n, i)
  BY DEF Within, Filed
<1>4. ASSUME NEW n \in DOMAIN clusters, NEW i \in around(n)
      PROVE  /\ member(n, i).pin = clusters[n].id /\ member(n, i).id = i
             /\ member(n, i).day = recorded[i].day /\ member(n, i).type = recorded[i].type
             /\ member(n, i).away = Gap(clusters[n].at, recorded[i].at)
             /\ member(n, i).duplicate = more(n, i)
  <2>. HIDE DEF around, more
  <2> QED
    OBVIOUS
<1>. HIDE DEF member, held, R, around, more
(* The rows of different places or records differ.                           *)
<1>5. ASSUME NEW q \in held, NEW r \in held, q.pin = r.pin, q.id = r.id PROVE q = r
  <2>1. PICK m \in DOMAIN clusters, i \in SourceRecord : i \in around(m) /\ q = member(m, i)
    BY <1>3
  <2>2. PICK n \in DOMAIN clusters, j \in SourceRecord : j \in around(n) /\ r = member(n, j)
    BY <1>3
  <2>3. m = n /\ i = j
    BY <2>1, <2>2, <1>4, <1>5 DEF Clustered
  <2> QED
    BY <2>1, <2>2, <2>3
<1>6. ASSUME NEW r \in held
      PROVE  /\ r.pin \in ids /\ r.pin \in Nat /\ r.id \in SourceRecord /\ r.id \in Nat
             /\ r.away \in Int /\ r.day \in Nat
             /\ recorded[r.id] # NotYet /\ r.day = recorded[r.id].day
             /\ r.type = recorded[r.id].type
  <2>1. PICK n \in DOMAIN clusters, i \in SourceRecord : i \in around(n) /\ r = member(n, i)
    BY <1>3
  <2> QED
    BY <2>1, <1>2, <1>4 DEF Clustered
<1>7. IsFiniteSet(held)
  <2>. DEFINE f == [r \in held |-> <<r.pin, r.id>>]
  <2>1. f \in Injection(held, ids \X SourceRecord)
    <3>1. f \in [held -> ids \X SourceRecord]
      BY <1>6
    <3>2. \A q, r \in held : f[q] = f[r] => q = r
      BY <1>5
    <3> QED
      BY <3>1, <3>2 DEF Injection, IsInjective
  <2>2. IsFiniteSet(ids \X SourceRecord)
    BY IdsAreFinite, ReportAssumption, FS_Product
  <2> QED
    BY <2>1, <2>2, FS_Injection
<1>8. \A q, r \in held : <<q, r>> \in R <=> Nearer(q, r)
  BY DEF R
<1>9. Orders(R, held)
  <2>1. \A q \in held : <<q, q>> \notin R
    BY <1>6, <1>8 DEF Nearer
  <2>2. ASSUME NEW q \in held, NEW r \in held, q # r PROVE <<q, r>> \in R \/ <<r, q>> \in R
    <3>1. q.pin # r.pin \/ q.id # r.id
      BY <2>2, <1>5
    <3>2. Nearer(q, r) \/ Nearer(r, q)
      BY <3>1, <1>6 DEF Nearer
    <3> QED
      BY <3>2, <1>8
  <2>3. ASSUME NEW q \in held, NEW r \in held, NEW s \in held, <<q, r>> \in R, <<r, s>> \in R
        PROVE  <<q, s>> \in R
    <3>1. Nearer(q, r) /\ Nearer(r, s)
      BY <2>3, <1>8
    <3>2. Nearer(q, s)
      BY <3>1, <1>6 DEF Nearer
    <3> QED
      BY <3>2, <1>8
  <2> QED
    BY <2>1, <2>2, <2>3 DEF Orders
<1>10. /\ rows \in Seq(held) /\ Len(rows) \in Nat /\ DOMAIN rows = 1 .. Len(rows)
       /\ \A r \in held : \E n \in DOMAIN rows : rows[n] = r
       /\ \A m, n \in DOMAIN rows : m < n <=> <<rows[m], rows[n]>> \in R
  <2>1. /\ rows \in Seq(held) /\ Len(rows) = Cardinality(held) /\ Cardinality(held) \in Nat
        /\ \A r \in held : \E n \in 1 .. Cardinality(held) : rows[n] = r
        /\ \A m, n \in 1 .. Cardinality(held) : m < n <=> <<rows[m], rows[n]>> \in R
    BY <1>1, <1>7, <1>9, RankedInOrder
  <2> QED
    BY <2>1
<1>11. \A n \in DOMAIN rows : rows[n] \in held
  BY <1>10
<1>12. \A m, n \in DOMAIN rows : rows[m].pin = rows[n].pin /\ rows[m].id = rows[n].id => m = n
  <2>1. ASSUME NEW m \in DOMAIN rows, NEW n \in DOMAIN rows, rows[m] = rows[n] PROVE m = n
    <3>1. <<rows[m], rows[n]>> \notin R /\ <<rows[n], rows[m]>> \notin R
      BY <2>1, <1>9, <1>11 DEF Orders
    <3>2. ~(m < n) /\ ~(n < m)
      BY <3>1, <1>10
    <3> QED
      BY <3>2, <1>10
  <2> QED
    BY <2>1, <1>5, <1>11
<1>13. ASSUME NEW n \in DOMAIN rows
       PROVE  rows[n].duplicate <=> \E m \in DOMAIN rows \ {n} : rows[m].id = rows[n].id
  <2>1. PICK k \in DOMAIN clusters, i \in SourceRecord : i \in around(k) /\ rows[n] = member(k, i)
    BY <1>3, <1>11
  <2>2. rows[n].duplicate = more(k, i) /\ rows[n].id = i /\ rows[n].pin = clusters[k].id
    BY <2>1, <1>4
  <2>3. ASSUME more(k, i) PROVE \E m \in DOMAIN rows \ {n} : rows[m].id = rows[n].id
    <3>1. PICK l \in DOMAIN clusters \ {k} : i \in around(l)
      BY <2>3 DEF more
    <3>2. member(l, i) \in held /\ member(l, i).id = i /\ member(l, i).pin = clusters[l].id
      BY <3>1, <1>2, <1>4
    <3>3. PICK m \in DOMAIN rows : rows[m] = member(l, i)
      BY <3>2, <1>10
    <3>4. clusters[l].id # clusters[k].id
      BY <3>1 DEF Clustered
    <3> QED
      BY <3>2, <3>3, <3>4, <2>2
  <2>4. ASSUME NEW m \in DOMAIN rows \ {n}, rows[m].id = rows[n].id PROVE more(k, i)
    <3>1. PICK l \in DOMAIN clusters, j \in SourceRecord : j \in around(l) /\ rows[m] = member(l, j)
      BY <1>3, <1>11
    <3>2. j = i
      BY <3>1, <2>2, <2>4, <1>4
    <3>3. l # k
      BY <3>1, <3>2, <2>1, <2>4, <1>12
    <3> QED
      BY <3>1, <3>2, <3>3 DEF more
  <2> QED
    BY <2>2, <2>3, <2>4
<1>14. \A n \in DOMAIN rows :
         rows[n].pin \in ids /\ rows[n].id \in SourceRecord /\ rows[n].day \in Nat
  BY <1>6, <1>11
<1>15. \A n \in DOMAIN rows :
         /\ recorded[rows[n].id] # NotYet /\ rows[n].day = recorded[rows[n].id].day
         /\ rows[n].type = recorded[rows[n].id].type
  BY <1>6, <1>11
<1> QED
  BY <1>10, <1>12, <1>13, <1>14, <1>15 DEF RowsFit

(* A record has several holders when its rows are flagged, and never more    *)
(* than there are places.                                                    *)
LEMMA HoldersOfARow ==
  ASSUME NEW ids, IsFiniteSet(ids), NEW rows, RowsFit(rows, ids), NEW n \in DOMAIN rows
  PROVE  LET c == Cardinality(Holders(rows, rows[n].id))
         IN  /\ c \in Nat /\ c >= 1 /\ c <= Cardinality(ids)
             /\ c > 1 <=> \E m \in DOMAIN rows \ {n} : rows[m].id = rows[n].id
<1>. DEFINE H == Holders(rows, rows[n].id)
            again == \E m \in DOMAIN rows \ {n} : rows[m].id = rows[n].id
<1>1. n \in H /\ H \in SUBSET DOMAIN rows /\ \A m \in H : rows[m].id = rows[n].id
  BY DEF Holders
<1>2. IsFiniteSet(DOMAIN rows)
  <2>1. Len(rows) \in Int /\ DOMAIN rows = 1 .. Len(rows)
    BY DEF RowsFit
  <2>2. IsFiniteSet(1 .. Len(rows)) /\ Cardinality(1 .. Len(rows)) = IF 1 > Len(rows) THEN 0 ELSE Len(rows) - 1 + 1
    BY <2>1, FS_Interval
  <2>3. Cardinality(1 .. Len(rows)) = Len(rows)
    BY <2>1, <2>2
  <2> QED
    BY <2>1, <2>2, <2>3
<1>3. IsFiniteSet(H) /\ Cardinality(H) \in Nat
  BY <1>1, <1>2, FS_Subset, FS_CardinalityType
<1>4. Cardinality(H) <= Cardinality(ids)
  <2>. DEFINE f == [m \in H |-> rows[m].pin]
  <2>1. f \in [H -> ids]
    BY <1>1 DEF RowsFit
  <2>2. \A l, m \in H : f[l] = f[m] => l = m
    BY <1>1 DEF RowsFit
  <2>3. f \in Injection(H, ids)
    <3>. HIDE DEF f, H
    <3> QED
      BY <2>1, <2>2 DEF Injection, IsInjective
  <2> QED
    BY <2>3, FS_Injection
<1>5. Cardinality({n}) = 1 /\ IsFiniteSet({n})
  BY FS_Singleton
<1>6. Cardinality(H) >= 1
  BY <1>1, <1>3, <1>5, FS_Subset
<1>7. ASSUME again PROVE Cardinality(H) > 1
  <2>1. PICK m \in DOMAIN rows \ {n} : rows[m].id = rows[n].id
    BY <1>7
  <2>2. m \in H /\ m # n
    BY <2>1 DEF Holders
  <2>3. Cardinality({n}) # Cardinality(H)
    <3>1. {n} \in SUBSET H /\ {n} # H
      BY <1>1, <2>2
    <3>. HIDE DEF H
    <3> QED
      BY <3>1, <1>3, FS_Subset
  <2> QED
    BY <2>3, <1>3, <1>5, <1>6
<1>8. ASSUME Cardinality(H) > 1 PROVE again
  <2>1. H # {n}
    BY <1>5, <1>8
  <2>2. PICK m \in H : m # n
    BY <1>1, <2>1
  <2> QED
    BY <1>1, <2>2
<1>. HIDE DEF again
<1> QED
  BY <1>3, <1>4, <1>6, <1>7, <1>8 DEF again

LEMMA ShownIsAPrefix ==
  ASSUME NEW ids, NEW rows, RowsFit(rows, ids), NEW limit \in Nat
  PROVE  /\ Len(Shown(rows, limit)) = IF limit < Len(rows) THEN limit ELSE Len(rows)
         /\ DOMAIN Shown(rows, limit) = 1 .. Len(Shown(rows, limit))
         /\ \A n \in DOMAIN Shown(rows, limit) :
              n \in DOMAIN rows /\ Shown(rows, limit)[n] = rows[n]
<1>. DEFINE L == Len(rows) size == Min({limit, L})
<1>1. L \in Nat /\ DOMAIN rows = 1 .. L
  BY DEF RowsFit
<1>. HIDE DEF L
<1>2. size \in Nat /\ size = (IF limit < L THEN limit ELSE L)
  <2>1. \A x \in {limit, L} : \E y \in {limit, L} : \A z \in {limit, L} : y <= z
    BY <1>1
  <2>2. size \in {limit, L} /\ \A z \in {limit, L} : size <= z
    BY <2>1 DEF Min
  <2>. HIDE DEF size
  <2> QED
    BY <1>1, <2>2
<1>3. Shown(rows, limit) = SubSeq(rows, 1, size)
  BY DEF Shown, L
<1>. HIDE DEF size
<1>4. \A n \in 1 .. size : rows[n] \in {rows[m] : m \in DOMAIN rows}
  BY <1>1, <1>2
<1>5. /\ SubSeq(rows, 1, size) \in Seq({rows[m] : m \in DOMAIN rows})
      /\ Len(SubSeq(rows, 1, size)) = IF 1 <= size THEN size - 1 + 1 ELSE 0
      /\ \A n \in 1 .. size - 1 + 1 : SubSeq(rows, 1, size)[n] = rows[1 + n - 1]
  BY <1>2, <1>4, SubSeqProperties
<1>. DEFINE s == SubSeq(rows, 1, size)
<1>6. Len(s) = size /\ DOMAIN s = 1 .. size /\ \A n \in 1 .. size : s[n] = rows[n]
  <2>. HIDE DEF s
  <2> QED
    BY <1>2, <1>5 DEF s
<1>. HIDE DEF s
<1>7. \A n \in 1 .. size : n \in DOMAIN rows
  BY <1>1, <1>2
<1> QED
  BY <1>2, <1>3, <1>6, <1>7 DEF s, L

(* The numbers of the overview and the flags of the table.                   *)
Reconciled(rows, limit, records, overview, number) ==
    LET flagged == {r.id : r \in {s \in ToSet(records) : s.duplicate}}
        single == {r.id : r \in {s \in ToSet(records) : ~s.duplicate}}
    IN  /\ flagged \cap single = {}
        /\ Cardinality(flagged) <= overview.shared
        /\ Cardinality(single) <= overview.unique - overview.shared
        /\ ~(Len(rows) > limit) =>
             /\ Cardinality(flagged) = overview.shared
             /\ Len(records) = overview.memberships
        /\ overview.shared = 0 <=> overview.additional = 0
        /\ overview.most <= number

LEMMA RowsReconcile ==
  ASSUME NEW ids, IsFiniteSet(ids), NEW rows, RowsFit(rows, ids), NEW limit \in Nat
  PROVE  Reconciled(rows, limit, Shown(rows, limit), Overview(rows), Cardinality(ids))
<1>. DEFINE records == Shown(rows, limit)
            overview == Overview(rows)
            flagged == {r.id : r \in {s \in ToSet(records) : s.duplicate}}
            single == {r.id : r \in {s \in ToSet(records) : ~s.duplicate}}
<1>. DEFINE all == {rows[n].id : n \in DOMAIN rows}
            many == {i \in all : Cardinality(Holders(rows, i)) > 1}
            held == {Cardinality(Holders(rows, i)) : i \in all}
<1>1. /\ overview.unique = Cardinality(all) /\ overview.memberships = Len(rows)
      /\ overview.shared = Cardinality(many)
      /\ overview.additional = Len(rows) - Cardinality(all)
      /\ overview.most = IF held = {} THEN 0 ELSE Max(held)
  BY DEF Overview
<1>2. /\ Len(rows) \in Nat /\ DOMAIN rows = 1 .. Len(rows)
      /\ IsFiniteSet(DOMAIN rows) /\ Cardinality(DOMAIN rows) = Len(rows)
  <2>1. Len(rows) \in Nat /\ Len(rows) \in Int /\ 1 \in Int /\ DOMAIN rows = 1 .. Len(rows)
    BY DEF RowsFit
  <2>2. IsFiniteSet(1 .. Len(rows)) /\ Cardinality(1 .. Len(rows)) = IF 1 > Len(rows) THEN 0 ELSE Len(rows) - 1 + 1
    BY <2>1, FS_Interval
  <2>3. Cardinality(1 .. Len(rows)) = Len(rows)
    BY <2>1, <2>2
  <2> QED
    BY <2>1, <2>2, <2>3
<1>3. \A n \in DOMAIN rows : rows[n].id \in many <=> rows[n].duplicate
  <2>1. ASSUME NEW n \in DOMAIN rows
        PROVE  Cardinality(Holders(rows, rows[n].id)) > 1 <=>
                 \E m \in DOMAIN rows \ {n} : rows[m].id = rows[n].id
    BY HoldersOfARow
  <2>2. ASSUME NEW n \in DOMAIN rows
        PROVE  rows[n].duplicate <=> \E m \in DOMAIN rows \ {n} : rows[m].id = rows[n].id
    BY DEF RowsFit
  <2> QED
    BY <2>1, <2>2
<1>4. /\ DOMAIN records = 1 .. Len(records) /\ \A n \in DOMAIN records : n \in DOMAIN rows /\ records[n] = rows[n]
      /\ Len(records) = IF limit < Len(rows) THEN limit ELSE Len(rows)
  BY ShownIsAPrefix
<1>5. /\ flagged = {rows[n].id : n \in {m \in DOMAIN records : rows[m].duplicate}}
      /\ single = {rows[n].id : n \in {m \in DOMAIN records : ~rows[m].duplicate}}
  BY <1>4 DEF ToSet
<1>. DEFINE f == [n \in DOMAIN rows |-> rows[n].id]
<1>6. f \in Surjection(DOMAIN rows, all)
  <2>1. f \in [DOMAIN rows -> all] /\ \A i \in all : \E n \in DOMAIN rows : f[n] = i
    OBVIOUS
  <2>. HIDE DEF f, all
  <2> QED
    BY <2>1 DEF Surjection
<1>7. IsFiniteSet(all) /\ Cardinality(all) \in Nat /\ Cardinality(all) <= Len(rows)
      /\ (Cardinality(all) = Len(rows) <=> f \in Injection(DOMAIN rows, all))
  <2>. HIDE DEF f, all
  <2> QED
    BY <1>2, <1>6, FS_Surjection, FS_CardinalityType
<1>8. flagged \subseteq many /\ single \subseteq all \ many
  BY <1>3, <1>4, <1>5
<1>9. many \subseteq all /\ IsFiniteSet(many) /\ Cardinality(many) \in Nat
  <2>1. many \in SUBSET all
    OBVIOUS
  <2>. HIDE DEF many, all
  <2> QED
    BY <2>1, <1>7, FS_Subset, FS_CardinalityType
<1>10. Cardinality(all \ many) = Cardinality(all) - Cardinality(many) /\ IsFiniteSet(all \ many)
  <2>1. all \cap many = many
    BY <1>9
  <2>. HIDE DEF many, all
  <2>2. IsFiniteSet(all)
    BY <1>7
  <2>3. IsFiniteSet(all \ many) /\ Cardinality(all \ many) = Cardinality(all) - Cardinality(all \cap many)
    BY <2>2, FS_Difference
  <2> QED
    BY <2>1, <2>3
<1>11. Cardinality(flagged) <= Cardinality(many)
  <2>. HIDE DEF many, all
  <2> QED
    BY <1>8, <1>9, FS_Subset
<1>12. Cardinality(single) <= Cardinality(all) - Cardinality(many)
  <2>. HIDE DEF many, all
  <2> QED
    BY <1>8, <1>10, FS_Subset
<1>13. ASSUME ~(Len(rows) > limit)
       PROVE  Cardinality(flagged) = Cardinality(many) /\ Len(records) = Len(rows)
  <2>1. Len(records) = Len(rows) /\ DOMAIN records = DOMAIN rows
    BY <1>2, <1>4, <1>13
  <2>2. many \subseteq flagged
    BY <1>3, <1>5, <2>1
  <2>3. many = flagged
    BY <1>8, <2>2
  <2> QED
    BY <2>1, <2>3
<1>14. Cardinality(many) = 0 <=> Len(rows) - Cardinality(all) = 0
  <2>1. Cardinality(many) = 0 <=> many = {}
    <3>. HIDE DEF many
    <3> QED
      BY <1>9, FS_EmptySet
  <2>2. Len(rows) - Cardinality(all) = 0 <=> f \in Injection(DOMAIN rows, all)
    <3>. HIDE DEF f, all
    <3> QED
      BY <1>2, <1>7
  <2>3. ASSUME many = {}, NEW m \in DOMAIN rows, NEW n \in DOMAIN rows, rows[m].id = rows[n].id
        PROVE  m = n
    <3>1. ~rows[n].duplicate
      BY <2>3, <1>3
    <3> QED
      BY <3>1, <2>3 DEF RowsFit
  <2>4. ASSUME f \in Injection(DOMAIN rows, all) PROVE many = {}
    <3>1. \A m, n \in DOMAIN rows : rows[m].id = rows[n].id => m = n
      BY <2>4 DEF Injection, IsInjective
    <3>2. \A n \in DOMAIN rows : ~rows[n].duplicate
      BY <3>1 DEF RowsFit
    <3> QED
      BY <3>2, <1>3
  <2>5. ASSUME many = {} PROVE f \in Injection(DOMAIN rows, all)
    <3>1. \A m, n \in DOMAIN rows : f[m] = f[n] => m = n
      BY <2>3, <2>5
    <3>2. f \in [DOMAIN rows -> all]
      OBVIOUS
    <3>. HIDE DEF f, all
    <3> QED
      BY <3>1, <3>2 DEF Injection, IsInjective
  <2>. HIDE DEF many, f
  <2> QED
    BY <2>1, <2>2, <2>4, <2>5
<1>15. overview.most <= Cardinality(ids)
  <2>1. \A c \in held : c \in Nat /\ c <= Cardinality(ids)
    <3>1. ASSUME NEW n \in DOMAIN rows
          PROVE  LET c == Cardinality(Holders(rows, rows[n].id)) IN c \in Nat /\ c <= Cardinality(ids)
      BY HoldersOfARow
    <3> QED
      BY <3>1
  <2>2. Cardinality(ids) \in Nat
    BY FS_CardinalityType
  <2>3. held \in SUBSET Nat /\ IsFiniteSet(held)
    <3>. HIDE DEF held
    <3>1. held \in SUBSET Nat
      BY <2>1
    <3> QED
      BY <3>1, <2>1, <2>2, FS_BoundedSetOfNaturals
  <2>4. CASE held = {}
    BY <2>2, <2>4, <1>1
  <2>5. CASE held # {}
    <3>1. Max(held) \in held
      <4>. HIDE DEF held
      <4> QED
        BY <2>3, <2>5, MaxIsLargest
    <3> QED
      BY <3>1, <2>1, <2>5, <1>1
  <2> QED
    BY <2>4, <2>5
<1>. HIDE DEF all, many, held, f, records, overview
<1>16. flagged \cap single = {}
  BY <1>8
<1>17. Reconciled(rows, limit, records, overview, Cardinality(ids))
  BY <1>1, <1>11, <1>12, <1>13, <1>14, <1>15, <1>16 DEF Reconciled
<1> QED
  BY <1>17 DEF records, overview

(* Times of a place's records.                                               *)
LEMMA TimesAddUp ==
  ASSUME NEW ids, NEW rows, RowsFit(rows, ids), NEW clusters,
         NEW n \in DOMAIN PlaceContext(clusters, rows)
  PROVE  LET place == PlaceContext(clusters, rows)[n]
         IN  place.count = place.timed + place.untimed
<1>. DEFINE own == {m \in DOMAIN rows : rows[m].pin = clusters[n].id}
            yes == {m \in own : rows[m].timed}
            no == {m \in own : ~rows[m].timed}
<1>1. /\ PlaceContext(clusters, rows)[n].count = Cardinality(own)
      /\ PlaceContext(clusters, rows)[n].timed = Cardinality(yes)
      /\ PlaceContext(clusters, rows)[n].untimed = Cardinality(no)
  BY DEF PlaceContext
<1>2. IsFiniteSet(own)
  <2>1. Len(rows) \in Int /\ DOMAIN rows = 1 .. Len(rows)
    BY DEF RowsFit
  <2>2. IsFiniteSet(DOMAIN rows)
    BY <2>1, FS_Interval
  <2> QED
    BY <2>2, FS_Subset
<1>3. yes \cup no = own /\ yes \cap no = {} /\ yes \in SUBSET own /\ no \in SUBSET own
  OBVIOUS
<1>. HIDE DEF own, yes, no
<1>4. IsFiniteSet(yes) /\ IsFiniteSet(no) /\ Cardinality(yes) \in Nat /\ Cardinality(no) \in Nat
  BY <1>2, <1>3, FS_Subset, FS_CardinalityType
<1>5. Cardinality(yes \cup no) = Cardinality(yes) + Cardinality(no) - Cardinality(yes \cap no)
  BY <1>4, FS_Union
<1>6. Cardinality(yes \cap no) = 0
  BY <1>3, FS_EmptySet
<1>7. Cardinality(own) = Cardinality(yes) + Cardinality(no)
  BY <1>3, <1>4, <1>5, <1>6
<1> QED
  BY <1>1, <1>7

(* Which places a report is about does not depend on where they are.         *)
SectionIds(asked) ==
    IF asked.points # <<>> THEN DOMAIN asked.points ELSE ToSet(asked.pins)

LEMMA SequenceOf ==
  ASSUME NEW k \in Nat, NEW s, s = [n \in 1 .. k |-> s[n]]
  PROVE  Len(s) = k /\ DOMAIN s = 1 .. k
<1>1. s \in [1 .. k -> {s[n] : n \in 1 .. k}]
  OBVIOUS
<1>2. s \in Seq({s[n] : n \in 1 .. k})
  BY <1>1
<1> QED
  BY <1>1, <1>2

LEMMA ClustersFit ==
  ASSUME TablesType, NEW asked \in ReportAsked
  PROVE  Clustered(Clusters(asked), SectionIds(asked))
<1>. DEFINE c == Clusters(asked)
<1>1. CASE asked.points # <<>>
  <2>. DEFINE k == Len(asked.points)
  <2>1. k \in Nat /\ DOMAIN asked.points = 1 .. k /\ \A n \in 1 .. k : asked.points[n] \in Int
    <3>1. asked.points \in Seq(Int)
      BY ReportAssumption
    <3> QED
      BY <3>1
  <2>2. c = [n \in 1 .. k |-> [id |-> n, at |-> asked.points[n]]]
    BY <1>1, <2>1 DEF Clusters
  <2>. HIDE DEF c, k
  <2>3. Len(c) = k /\ DOMAIN c = 1 .. k
    BY <2>1, <2>2, SequenceOf
  <2>4. \A n \in 1 .. k : c[n].id = n /\ c[n].at = asked.points[n]
    BY <2>2
  <2>5. SectionIds(asked) = 1 .. k
    BY <1>1, <2>1 DEF SectionIds
  <2>6. SectionIds(asked) = {c[n].id : n \in DOMAIN c}
    BY <2>3, <2>4, <2>5
  <2>7. \A n \in DOMAIN c : c[n].id \in Nat /\ c[n].at \in Int
    BY <2>1, <2>3, <2>4
  <2>8. \A m, n \in DOMAIN c : c[m].id = c[n].id => m = n
    BY <2>3, <2>4
  <2>9. Clustered(c, SectionIds(asked))
    BY <2>1, <2>3, <2>6, <2>7, <2>8 DEF Clustered
  <2> QED
    BY <2>9 DEF c
<1>2. CASE ~(asked.points # <<>>)
  <2>. DEFINE k == Len(asked.pins)
  <2>1. /\ k \in Nat /\ DOMAIN asked.pins = 1 .. k /\ \A n \in 1 .. k : asked.pins[n] \in Pin
        /\ \A m, n \in 1 .. k : asked.pins[m] = asked.pins[n] => m = n
    <3>1. /\ asked.pins \in Seq(Pin)
          /\ \A m, n \in DOMAIN asked.pins : asked.pins[m] = asked.pins[n] => m = n
      BY ReportAssumption
    <3> QED
      BY <3>1
  <2>2. c = [n \in 1 .. k |-> [id |-> asked.pins[n], at |-> pin[asked.pins[n]].at]]
    BY <1>2, <2>1 DEF Clusters
  <2>. HIDE DEF c, k
  <2>3. Len(c) = k /\ DOMAIN c = 1 .. k
    BY <2>1, <2>2, SequenceOf
  <2>4. \A n \in 1 .. k : c[n].id = asked.pins[n] /\ c[n].at = pin[asked.pins[n]].at
    BY <2>2
  <2>5. SectionIds(asked) = {c[n].id : n \in DOMAIN c}
    BY <1>2, <2>1, <2>3, <2>4 DEF SectionIds, ToSet
  <2>6. \A n \in 1 .. k : c[n].id \in Nat /\ c[n].at \in Int
    BY <2>1, <2>4, ReportAssumption DEF TablesType
  <2> QED
    BY <2>1, <2>3, <2>4, <2>5, <2>6 DEF Clustered, c
<1> QED
  BY <1>1, <1>2

(* The newest day is no older than any recorded one.                         *)
LEMMA NewestCoversFiled ==
  ASSUME TablesType, NEW i \in SourceRecord, recorded[i] # NotYet
  PROVE  /\ recorded[i].day <= Max({0} \cup {recorded[j].day : j \in Filed})
         /\ Max({0} \cup {recorded[j].day : j \in Filed}) \in Nat
<1>. DEFINE D == {recorded[j].day : j \in Filed} f == [j \in Filed |-> recorded[j].day]
<1>1. Filed \in SUBSET SourceRecord /\ i \in Filed
  BY DEF Filed
<1>2. IsFiniteSet(Filed)
  BY <1>1, ReportAssumption, FS_Subset
<1>3. D \in SUBSET Nat /\ recorded[i].day \in D
  BY <1>1 DEF TablesType
<1>4. f \in Surjection(Filed, D)
  <2>1. f \in [Filed -> D] /\ \A d \in D : \E j \in Filed : f[j] = d
    OBVIOUS
  <2>. HIDE DEF f, D
  <2> QED
    BY <2>1 DEF Surjection
<1>. HIDE DEF f, D
<1>5. IsFiniteSet(D)
  BY <1>2, <1>4, FS_Surjection
<1>6. IsFiniteSet(D \cup {0})
  BY <1>5, FS_AddElement
<1>7. D \cup {0} = {0} \cup D
  OBVIOUS
<1>8. {0} \cup D \in SUBSET Nat /\ {0} \cup D # {} /\ IsFiniteSet({0} \cup D)
  BY <1>3, <1>6, <1>7
<1>9. Max({0} \cup D) \in {0} \cup D /\ \A y \in {0} \cup D : Max({0} \cup D) >= y
  BY <1>8, MaxIsLargest
<1>10. Max({0} \cup D) \in Nat /\ recorded[i].day <= Max({0} \cup D)
  BY <1>3, <1>8, <1>9
<1> QED
  BY <1>10 DEF D

Reading == {"memberships", "reference", "comparison", "freshness"}

DraftShape ==
    draft = [step |-> draft.step, asked |-> draft.asked, from |-> draft.from,
             chosen |-> draft.chosen, rows |-> draft.rows, reference |-> draft.reference,
             options |-> draft.options, touched |-> draft.touched, report |-> draft.report]

(* The places chosen, which nothing has happened to since.                   *)
ChosenInv ==
    /\ draft.step \in Reading \cup {"select", "done"} => draft.asked \in ReportAsked
    /\ draft.step \in Reading \cup {"done"} =>
         /\ Clustered(draft.chosen, SectionIds(draft.asked))
         /\ "place" \notin draft.touched => Retrievable(ToSet(draft.asked.pins))

(* The rows read, which say what is recorded unless that was corrected.      *)
RowInv ==
    /\ draft.step \in (Reading \ {"memberships"}) \cup {"done"} =>
         RowsFit(draft.rows, SectionIds(draft.asked))
    /\ draft.step \in Reading \ {"memberships"} /\ "record" \notin draft.touched =>
         \A n \in DOMAIN draft.rows :
           /\ recorded[draft.rows[n].id] # NotYet
           /\ draft.rows[n].day = recorded[draft.rows[n].id].day

(* The sections read so far are about the places chosen.                     *)
SectionInv ==
    LET ids == SectionIds(draft.asked)
        reported == draft.asked.layer = "reported"
        several == Len(draft.chosen) > 1
    IN  /\ draft.step \in {"none", "select", "memberships", "reference"} =>
             draft.reference = {} /\ draft.options = {}
        /\ draft.step = "reference" => reported
        /\ draft.step = "comparison" =>
             reported /\ several /\ draft.reference = ids /\ draft.options = {}
        /\ draft.step \in {"freshness", "done"} =>
             /\ draft.reference = IF reported THEN ids ELSE {}
             /\ draft.options = IF reported /\ several THEN ids ELSE {}

DoneInv ==
    draft.step = "done" =>
      /\ draft.report.overview = Overview(draft.rows)
      /\ draft.report.places = PlaceContext(draft.chosen, draft.rows)
      /\ draft.report.records = Shown(draft.rows, draft.asked.limit)
      /\ draft.report.truncated = (Len(draft.rows) > draft.asked.limit)
      /\ NewestIsNewest

ReportInv == TablesType /\ DraftShape /\ ChosenInv /\ RowInv /\ SectionInv /\ DoneInv

LEMMA RecordingsHaveDays == \A r \in Recording \cup {NotYet} : r.at \in Int /\ r.day \in Nat
  BY ReportAssumption DEF NotYet

LEMMA ReportInvInit == ReportInit => ReportInv
<1>. SUFFICES ASSUME ReportInit PROVE ReportInv
  OBVIOUS
<1>1. TablesType
  <2>1. ASSUME NEW p \in Pin
        PROVE  /\ pin[p] = [at |-> pin[p].at, normal |-> pin[p].normal, gone |-> pin[p].gone]
               /\ pin[p].at \in Int
    <3>1. pin[p] \in [at : Position, normal : BOOLEAN, gone : {FALSE}]
      BY DEF ReportInit
    <3>2. pin[p] = [at |-> pin[p].at, normal |-> pin[p].normal, gone |-> pin[p].gone]
      BY <3>1, Zenon
    <3>3. pin[p].at \in Position
      BY <3>1, Zenon
    <3> QED
      BY <3>2, <3>3, ReportAssumption
  <2>2. \A i \in SourceRecord : recorded[i].at \in Int /\ recorded[i].day \in Nat
    BY RecordingsHaveDays DEF ReportInit
  <2>3. pin = [p \in Pin |-> pin[p]] /\ recorded = [i \in SourceRecord |-> recorded[i]]
    BY DEF ReportInit
  <2> QED
    BY <2>1, <2>2, <2>3 DEF TablesType
<1>2. draft = NoDraft
  BY DEF ReportInit
<1>3. DraftShape
  BY <1>2 DEF DraftShape, NoDraft
<1>4. draft.step = "none" /\ draft.reference = {} /\ draft.options = {}
  BY <1>2 DEF NoDraft
<1> QED
  BY <1>1, <1>3, <1>4 DEF ReportInv, ChosenInv, RowInv, SectionInv, DoneInv, Reading

(* An action of the report leaves the tables alone.                          *)
LEMMA TablesStay ==
  ASSUME TablesType, UNCHANGED <<pin, recorded>> PROVE TablesType'
  BY DEF TablesType

LEMMA AskStep == ReportInv /\ Ask => ReportInv'
<1>. SUFFICES ASSUME ReportInv, Ask PROVE ReportInv'
  OBVIOUS
<1>1. draft.step = "none" /\ UNCHANGED <<pin, recorded>>
  BY DEF Ask
<1>2. PICK asked \in ReportAsked :
        draft' = [draft EXCEPT !.asked = asked, !.from = EffectiveStart(asked),
           !.step = CASE Unavailable(asked) -> "date_range_unavailable"
                      [] ~Unavailable(asked) /\ NeedsConsent(asked) -> "adjustment_required"
                      [] OTHER -> "select"]
  BY DEF Ask
<1>. DEFINE next == CASE Unavailable(asked) -> "date_range_unavailable"
                      [] ~Unavailable(asked) /\ NeedsConsent(asked) -> "adjustment_required"
                      [] OTHER -> "select"
<1>3. next \in {"date_range_unavailable", "adjustment_required", "select"}
  OBVIOUS
<1>. HIDE DEF next
<1>4. /\ draft'.step = next /\ draft'.asked = asked
      /\ draft'.reference = draft.reference /\ draft'.options = draft.options /\ DraftShape'
  <2>1. draft' = [draft EXCEPT !.asked = asked, !.from = EffectiveStart(asked), !.step = next]
    BY <1>2 DEF next
  <2> QED
    BY <2>1 DEF ReportInv, DraftShape
<1>5. ChosenInv' /\ RowInv' /\ DoneInv'
  BY <1>3, <1>4 DEF ChosenInv, RowInv, DoneInv, Reading
<1>6. SectionInv'
  BY <1>1, <1>3, <1>4 DEF ReportInv, SectionInv
<1>7. TablesType'
  BY <1>1, TablesStay DEF ReportInv
<1> QED
  BY <1>4, <1>5, <1>6, <1>7 DEF ReportInv

LEMMA StopStep ==
  ASSUME ReportInv, NEW why \in {"blocked", "not_found"}, Stop(why)
  PROVE  ReportInv'
<1>1. draft'.step = why /\ DraftShape' /\ UNCHANGED <<pin, recorded>>
  BY DEF Stop, ReportInv, DraftShape
<1>2. ChosenInv' /\ RowInv' /\ DoneInv' /\ SectionInv'
  BY <1>1 DEF ChosenInv, RowInv, DoneInv, SectionInv, Reading
<1>3. TablesType'
  BY <1>1, TablesStay DEF ReportInv
<1> QED
  BY <1>1, <1>2, <1>3 DEF ReportInv

LEMMA SelectStep == ReportInv /\ SelectPlaces => ReportInv'
<1>. SUFFICES ASSUME ReportInv, SelectPlaces PROVE ReportInv'
  OBVIOUS
<1>1. /\ draft.step = "select" /\ UNCHANGED <<pin, recorded>>
      /\ Retrievable(ToSet(draft.asked.pins))
  BY DEF SelectPlaces, AllFound, Retrievable
<1>2. /\ draft'.step = "memberships" /\ draft'.chosen = Clusters(draft.asked)
      /\ draft'.asked = draft.asked
      /\ draft'.reference = draft.reference /\ draft'.options = draft.options /\ DraftShape'
  BY DEF SelectPlaces, ReportInv, DraftShape
<1>3. draft.asked \in ReportAsked
  BY <1>1 DEF ReportInv, ChosenInv
<1>4. Clustered(draft'.chosen, SectionIds(draft.asked))
  BY <1>2, <1>3, ClustersFit DEF ReportInv
<1>5. Retrievable(ToSet(draft.asked.pins))'
  BY <1>1, <1>2 DEF Retrievable
<1>6. ChosenInv'
  BY <1>2, <1>3, <1>4, <1>5 DEF ChosenInv
<1>7. RowInv' /\ DoneInv'
  BY <1>2 DEF RowInv, DoneInv, Reading
<1>8. SectionInv'
  BY <1>1, <1>2 DEF ReportInv, SectionInv
<1>9. TablesType'
  BY <1>1, TablesStay DEF ReportInv
<1> QED
  BY <1>2, <1>6, <1>7, <1>8, <1>9 DEF ReportInv

LEMMA RetrievableStays ==
  ASSUME NEW pins, UNCHANGED pin, Retrievable(pins) PROVE Retrievable(pins)'
  BY DEF Retrievable

(* A query of the report that finds the places reads on.                     *)
LEMMA PlacesStay ==
  ASSUME ChosenInv, draft.step \in Reading, UNCHANGED pin,
         draft'.step \in Reading \cup {"done"}, draft'.asked = draft.asked,
         draft'.chosen = draft.chosen, "place" \in draft'.touched <=> "place" \in draft.touched
  PROVE  ChosenInv'
<1>1. /\ draft.asked \in ReportAsked /\ Clustered(draft.chosen, SectionIds(draft.asked))
      /\ "place" \notin draft.touched => Retrievable(ToSet(draft.asked.pins))
  BY DEF ChosenInv
<1>2. "place" \notin draft'.touched => Retrievable(ToSet(draft.asked.pins))'
  BY <1>1 DEF Retrievable
<1> QED
  BY <1>1, <1>2 DEF ChosenInv

LEMMA MembershipsStep == ReportInv /\ ReadMemberships => ReportInv'
<1>. SUFFICES ASSUME ReportInv, ReadMemberships PROVE ReportInv'
  OBVIOUS
<1>. DEFINE rows == Memberships(Clusters(draft.asked), draft.from, draft.asked.to)
            next == IF draft.asked.layer = "reported" THEN "reference" ELSE "freshness"
<1>1. draft.step = "memberships" /\ UNCHANGED <<pin, recorded>>
  BY DEF ReadMemberships
<1>2. After("memberships") = next
  BY DEF After
<1>3. /\ draft'.step = next /\ draft'.rows = rows /\ draft'.asked = draft.asked
      /\ draft'.chosen = draft.chosen /\ draft'.touched = draft.touched \ {"record"}
      /\ draft'.reference = draft.reference /\ draft'.options = draft.options /\ DraftShape'
  <2>1. draft' = [draft EXCEPT !.step = next, !.touched = @ \ {"record"}, !.rows = rows]
    BY <1>2 DEF ReadMemberships
  <2>. HIDE DEF next, rows
  <2> QED
    BY <2>1 DEF ReportInv, DraftShape
<1>4. next \in {"reference", "freshness"}
  OBVIOUS
<1>5. draft.asked \in ReportAsked
  BY <1>1 DEF ReportInv, ChosenInv, Reading
<1>6. /\ RowsFit(rows, SectionIds(draft.asked))
      /\ \A n \in DOMAIN rows :
           recorded[rows[n].id] # NotYet /\ rows[n].day = recorded[rows[n].id].day
  BY <1>5, ClustersFit, MembershipsFit DEF ReportInv
<1>. HIDE DEF rows
<1>7. RowInv'
  BY <1>1, <1>3, <1>6 DEF RowInv
<1>8. ChosenInv'
  <2>1. draft'.step \in Reading /\ draft.step \in Reading
    BY <1>1, <1>3, <1>4 DEF Reading
  <2> QED
    BY <2>1, <1>1, <1>3, PlacesStay DEF ReportInv
<1>9. SectionInv'
  BY <1>1, <1>3 DEF ReportInv, SectionInv
<1>10. DoneInv'
  BY <1>3, <1>4 DEF DoneInv
<1>11. TablesType'
  BY <1>1, TablesStay DEF ReportInv
<1> QED
  BY <1>3, <1>7, <1>8, <1>9, <1>10, <1>11 DEF ReportInv

(* The rows stay what they are while the other queries read.                 *)
LEMMA RowsStay ==
  ASSUME RowInv, draft.step \in Reading \ {"memberships"}, UNCHANGED recorded,
         draft'.step \in Reading \cup {"done"}, draft'.asked = draft.asked,
         draft'.rows = draft.rows, draft'.touched = draft.touched
  PROVE  RowInv'
  BY DEF RowInv

LEMMA ReferenceStep == ReportInv /\ ReadReference => ReportInv'
<1>. SUFFICES ASSUME ReportInv, ReadReference PROVE ReportInv'
  OBVIOUS
<1>. DEFINE ids == {c.id : c \in ToSet(Clusters(draft.asked))}
            next == IF Len(draft.chosen) > 1 THEN "comparison" ELSE "freshness"
<1>1. draft.step = "reference" /\ UNCHANGED <<pin, recorded>>
  BY DEF ReadReference
<1>2. After("reference") = next
  BY DEF After
<1>3. /\ draft'.step = next /\ draft'.rows = draft.rows /\ draft'.asked = draft.asked
      /\ draft'.chosen = draft.chosen /\ draft'.touched = draft.touched
      /\ draft'.reference = ids /\ draft'.options = draft.options /\ DraftShape'
  <2>1. draft' = [draft EXCEPT !.step = next, !.reference = ids]
    BY <1>2 DEF ReadReference
  <2>. HIDE DEF next, ids
  <2> QED
    BY <2>1 DEF ReportInv, DraftShape
<1>4. next \in {"comparison", "freshness"}
  OBVIOUS
<1>5. ids = SectionIds(draft.asked)
  <2>1. draft.asked \in ReportAsked
    BY <1>1 DEF ReportInv, ChosenInv, Reading
  <2>2. Clustered(Clusters(draft.asked), SectionIds(draft.asked))
    BY <2>1, ClustersFit DEF ReportInv
  <2> QED
    BY <2>2 DEF Clustered, ToSet
<1>. HIDE DEF ids
<1>6. draft.step \in Reading \ {"memberships"} /\ draft'.step \in Reading
  BY <1>1, <1>3, <1>4 DEF Reading
<1>7. ChosenInv' /\ RowInv'
  BY <1>1, <1>3, <1>6, PlacesStay, RowsStay DEF ReportInv
<1>8. SectionInv'
  BY <1>1, <1>3, <1>5 DEF ReportInv, SectionInv
<1>9. DoneInv'
  BY <1>3, <1>4 DEF DoneInv
<1>10. TablesType'
  BY <1>1, TablesStay DEF ReportInv
<1> QED
  BY <1>3, <1>7, <1>8, <1>9, <1>10 DEF ReportInv

LEMMA ComparisonReadStep == ReportInv /\ ReadComparison => ReportInv'
<1>. SUFFICES ASSUME ReportInv, ReadComparison PROVE ReportInv'
  OBVIOUS
<1>. DEFINE ids == {c.id : c \in ToSet(Clusters(draft.asked))}
<1>1. draft.step = "comparison" /\ UNCHANGED <<pin, recorded>>
  BY DEF ReadComparison
<1>2. After("comparison") = "freshness"
  BY DEF After
<1>3. /\ draft'.step = "freshness" /\ draft'.rows = draft.rows /\ draft'.asked = draft.asked
      /\ draft'.chosen = draft.chosen /\ draft'.touched = draft.touched
      /\ draft'.reference = draft.reference /\ draft'.options = ids /\ DraftShape'
  <2>1. draft' = [draft EXCEPT !.step = "freshness", !.options = ids]
    BY <1>2 DEF ReadComparison
  <2>. HIDE DEF ids
  <2> QED
    BY <2>1 DEF ReportInv, DraftShape
<1>5. ids = SectionIds(draft.asked)
  <2>1. draft.asked \in ReportAsked
    BY <1>1 DEF ReportInv, ChosenInv, Reading
  <2>2. Clustered(Clusters(draft.asked), SectionIds(draft.asked))
    BY <2>1, ClustersFit DEF ReportInv
  <2> QED
    BY <2>2 DEF Clustered, ToSet
<1>. HIDE DEF ids
<1>6. draft.step \in Reading \ {"memberships"} /\ draft'.step \in Reading
  BY <1>1, <1>3 DEF Reading
<1>7. ChosenInv' /\ RowInv'
  BY <1>1, <1>3, <1>6, PlacesStay, RowsStay DEF ReportInv
<1>8. SectionInv'
  BY <1>1, <1>3, <1>5 DEF ReportInv, SectionInv
<1>9. DoneInv'
  BY <1>3 DEF DoneInv
<1>10. TablesType'
  BY <1>1, TablesStay DEF ReportInv
<1> QED
  BY <1>3, <1>7, <1>8, <1>9, <1>10 DEF ReportInv

LEMMA AssembleStep == ReportInv /\ Assemble => ReportInv'
<1>. SUFFICES ASSUME ReportInv, Assemble PROVE ReportInv'
  OBVIOUS
<1>. DEFINE rows == draft.rows
            newest == Max({0} \cup {recorded[i].day : i \in Filed})
            report == [overview |-> Overview(rows), places |-> PlaceContext(draft.chosen, rows),
                       records |-> Shown(rows, draft.asked.limit),
                       truncated |-> Len(rows) > draft.asked.limit,
                       complete |-> Overview(rows).unique > 0, newest |-> newest]
<1>1. draft.step = "freshness" /\ UNCHANGED <<pin, recorded>>
  BY DEF Assemble
<1>2. /\ draft'.step = "done" /\ draft'.rows = rows /\ draft'.asked = draft.asked
      /\ draft'.chosen = draft.chosen /\ draft'.touched = draft.touched
      /\ draft'.reference = draft.reference /\ draft'.options = draft.options
      /\ draft'.report = report /\ DraftShape'
  <2>1. draft' = [draft EXCEPT !.step = "done", !.report = report]
    BY DEF Assemble
  <2>. HIDE DEF report
  <2> QED
    BY <2>1 DEF ReportInv, DraftShape
<1>3. /\ report.overview = Overview(rows) /\ report.places = PlaceContext(draft.chosen, rows)
      /\ report.records = Shown(rows, draft.asked.limit) /\ report.newest = newest
      /\ report.truncated = (Len(rows) > draft.asked.limit)
  <2>. HIDE DEF newest
  <2> QED
    OBVIOUS
<1>. HIDE DEF report
<1>4. draft.step \in Reading \ {"memberships"} /\ draft'.step \in {"done"}
  BY <1>1, <1>2 DEF Reading
<1>5. draft.asked \in ReportAsked /\ RowsFit(rows, SectionIds(draft.asked))
  BY <1>4 DEF ReportInv, ChosenInv, RowInv
<1>6. ASSUME NEW r \in ToSet(report.records)
      PROVE  r.day <= newest \/ "record" \in draft.touched
  <2>1. draft.asked.limit \in Nat
    BY <1>5, ReportAssumption
  <2>2. PICK n \in DOMAIN rows : r = rows[n]
    BY <2>1, <1>3, <1>5, ShownIsAPrefix DEF ToSet
  <2>3. CASE "record" \notin draft.touched
    <3>1. recorded[r.id] # NotYet /\ r.day = recorded[r.id].day /\ r.id \in SourceRecord
      BY <2>2, <2>3, <1>4, <1>5 DEF ReportInv, RowInv, RowsFit
    <3> QED
      BY <3>1, NewestCoversFiled DEF ReportInv
  <2> QED
    BY <2>3
<1>7. NewestIsNewest'
  BY <1>2, <1>3, <1>6 DEF NewestIsNewest
<1>8. DoneInv'
  BY <1>2, <1>3, <1>7 DEF DoneInv
<1>9. ChosenInv' /\ RowInv'
  BY <1>1, <1>2, <1>4, PlacesStay, RowsStay DEF ReportInv
<1>10. SectionInv'
  BY <1>1, <1>2 DEF ReportInv, SectionInv
<1>11. TablesType'
  BY <1>1, TablesStay DEF ReportInv
<1> QED
  BY <1>2, <1>8, <1>9, <1>10, <1>11 DEF ReportInv

(* A commit of another only marks the draft.                                 *)
LEMMA MarkedDraft ==
  ASSUME DraftShape, NEW marks, draft' = [draft EXCEPT !.touched = marks]
  PROVE  /\ draft'.step = draft.step /\ draft'.asked = draft.asked
         /\ draft'.chosen = draft.chosen /\ draft'.rows = draft.rows
         /\ draft'.reference = draft.reference /\ draft'.options = draft.options
         /\ draft'.report = draft.report /\ draft'.touched = marks /\ DraftShape'
  BY DEF DraftShape

LEMMA SectionsStay ==
  ASSUME SectionInv, draft'.step = draft.step, draft'.asked = draft.asked,
         draft'.chosen = draft.chosen, draft'.reference = draft.reference,
         draft'.options = draft.options
  PROVE  SectionInv'
  BY DEF SectionInv

LEMMA DoneStays ==
  ASSUME DoneInv, draft'.step = draft.step, draft'.asked = draft.asked,
         draft'.chosen = draft.chosen, draft'.rows = draft.rows,
         draft'.report = draft.report,
         "record" \in draft.touched => "record" \in draft'.touched
  PROVE  DoneInv'
<1>1. NewestIsNewest => NewestIsNewest'
  BY DEF NewestIsNewest
<1> QED
  BY <1>1 DEF DoneInv

LEMMA IngestReportStep ==
  ASSUME ReportInv, NEW i \in SourceRecord, IngestReport(i)
  PROVE  ReportInv'
<1>. DEFINE marks == IF recorded[i] = NotYet THEN draft.touched ELSE draft.touched \cup {"record"}
<1>1. PICK r \in Recording : recorded' = [recorded EXCEPT ![i] = r]
  BY DEF IngestReport
<1>2. UNCHANGED pin
  BY DEF IngestReport
<1>3. draft' = [draft EXCEPT !.touched = marks]
  BY DEF IngestReport
<1>4. /\ draft'.step = draft.step /\ draft'.asked = draft.asked
      /\ draft'.chosen = draft.chosen /\ draft'.rows = draft.rows
      /\ draft'.reference = draft.reference /\ draft'.options = draft.options
      /\ draft'.report = draft.report /\ draft'.touched = marks /\ DraftShape'
  <2>. HIDE DEF marks
  <2> QED
    BY <1>3, MarkedDraft DEF ReportInv
<1>5. /\ "record" \notin marks => recorded[i] = NotYet /\ "record" \notin draft.touched
      /\ "place" \in marks <=> "place" \in draft.touched
      /\ "record" \in draft.touched => "record" \in marks
  OBVIOUS
<1>. HIDE DEF marks
<1>6. r.at \in Int /\ r.day \in Nat
  BY RecordingsHaveDays
<1>7. \A j \in SourceRecord : recorded'[j] = IF j = i THEN r ELSE recorded[j]
  BY <1>1 DEF ReportInv, TablesType
<1>8. TablesType'
  <2>1. recorded' = [j \in SourceRecord |-> recorded'[j]]
    BY <1>1 DEF ReportInv, TablesType
  <2>2. \A j \in SourceRecord : recorded'[j].at \in Int /\ recorded'[j].day \in Nat
    BY <1>6, <1>7 DEF ReportInv, TablesType
  <2> QED
    BY <2>1, <2>2, <1>2 DEF ReportInv, TablesType
<1>9. ChosenInv'
  <2>1. Retrievable(ToSet(draft.asked.pins)) => Retrievable(ToSet(draft.asked.pins))'
    BY <1>2, <1>4 DEF Retrievable
  <2> QED
    BY <2>1, <1>4, <1>5 DEF ReportInv, ChosenInv
<1>10. RowInv'
  <2>1. draft.step \in (Reading \ {"memberships"}) \cup {"done"} =>
          RowsFit(draft.rows, SectionIds(draft.asked))
    BY DEF ReportInv, RowInv
  <2>2. ASSUME draft.step \in Reading \ {"memberships"}, "record" \notin marks,
               NEW n \in DOMAIN draft.rows
        PROVE  /\ recorded'[draft.rows[n].id] # NotYet
               /\ draft.rows[n].day = recorded'[draft.rows[n].id].day
    <3>1. /\ recorded[draft.rows[n].id] # NotYet
          /\ draft.rows[n].day = recorded[draft.rows[n].id].day
      BY <2>2, <1>5 DEF ReportInv, RowInv
    <3>2. draft.rows[n].id \in SourceRecord
      BY <2>1, <2>2 DEF RowsFit
    <3>3. draft.rows[n].id # i
      BY <3>1, <2>2, <1>5
    <3> QED
      BY <3>1, <3>2, <3>3, <1>7
  <2> QED
    BY <2>1, <2>2, <1>4 DEF RowInv
<1>11. SectionInv' /\ DoneInv'
  BY <1>4, <1>5, SectionsStay, DoneStays DEF ReportInv
<1> QED
  BY <1>4, <1>8, <1>9, <1>10, <1>11 DEF ReportInv

LEMMA ChangePinStep ==
  ASSUME ReportInv, NEW p \in Pin, ChangePin(p)
  PROVE  ReportInv'
<1>1. UNCHANGED recorded /\ draft' = [draft EXCEPT !.touched = draft.touched \cup {"place"}]
  BY DEF ChangePin
<1>2. /\ draft'.step = draft.step /\ draft'.asked = draft.asked
      /\ draft'.chosen = draft.chosen /\ draft'.rows = draft.rows
      /\ draft'.reference = draft.reference /\ draft'.options = draft.options
      /\ draft'.report = draft.report /\ draft'.touched = draft.touched \cup {"place"}
      /\ DraftShape'
  BY <1>1, MarkedDraft DEF ReportInv
<1>3. pin[p] = [at |-> pin[p].at, normal |-> pin[p].normal, gone |-> pin[p].gone] /\ pin[p].at \in Int
  BY DEF ReportInv, TablesType
<1>4. \E at \in Int : \E normal, gone :
        pin' = [pin EXCEPT ![p] = [at |-> at, normal |-> normal, gone |-> gone]]
  <2>1. CASE \E at \in Position \ {pin[p].at} : pin' = [pin EXCEPT ![p].at = at]
    <3>1. PICK at \in Position : pin' = [pin EXCEPT ![p].at = at]
      BY <2>1
    <3>2. [pin[p] EXCEPT !.at = at] = [at |-> at, normal |-> pin[p].normal, gone |-> pin[p].gone]
      BY <1>3
    <3>3. pin' = [pin EXCEPT ![p] = [at |-> at, normal |-> pin[p].normal, gone |-> pin[p].gone]]
      BY <3>1, <3>2
    <3>4. at \in Int
      BY ReportAssumption
    <3> QED
      BY <3>3, <3>4
  <2>2. CASE pin' = [pin EXCEPT ![p].normal = ~@]
    <3>. DEFINE other == ~pin[p].normal
    <3>1. pin' = [pin EXCEPT ![p].normal = other]
      BY <2>2
    <3>. HIDE DEF other
    <3>2. [pin[p] EXCEPT !.normal = other] = [at |-> pin[p].at, normal |-> other, gone |-> pin[p].gone]
      BY <1>3
    <3>3. pin' = [pin EXCEPT ![p] = [at |-> pin[p].at, normal |-> other, gone |-> pin[p].gone]]
      BY <3>1, <3>2
    <3> QED
      BY <3>3, <1>3, Zenon
  <2>3. CASE pin' = [pin EXCEPT ![p].gone = TRUE]
    <3>. DEFINE other == TRUE
    <3>1. pin' = [pin EXCEPT ![p].gone = other]
      BY <2>3
    <3>. HIDE DEF other
    <3>2. [pin[p] EXCEPT !.gone = other] = [at |-> pin[p].at, normal |-> pin[p].normal, gone |-> other]
      BY <1>3
    <3>3. pin' = [pin EXCEPT ![p] = [at |-> pin[p].at, normal |-> pin[p].normal, gone |-> other]]
      BY <3>1, <3>2
    <3> QED
      BY <3>3, <1>3, Zenon
  <2> QED
    BY <2>1, <2>2, <2>3 DEF ChangePin
<1>5. TablesType'
  <2>0. PICK at \in Int :
          \E normal, gone :
            pin' = [pin EXCEPT ![p] = [at |-> at, normal |-> normal, gone |-> gone]]
    BY <1>4
  <2>1. PICK normal, gone :
          pin' = [pin EXCEPT ![p] = [at |-> at, normal |-> normal, gone |-> gone]]
    BY <2>0
  <2>2. /\ pin' = [q \in Pin |-> pin'[q]]
        /\ \A q \in Pin : pin'[q] = IF q = p THEN [at |-> at, normal |-> normal, gone |-> gone] ELSE pin[q]
    BY <2>1 DEF ReportInv, TablesType
  <2>3. ASSUME NEW q \in Pin
        PROVE  /\ pin'[q] = [at |-> pin'[q].at, normal |-> pin'[q].normal, gone |-> pin'[q].gone]
               /\ pin'[q].at \in Int
    <3>1. CASE q = p
      BY <2>2, <3>1
    <3>2. CASE q # p
      BY <2>2, <3>2 DEF ReportInv, TablesType
    <3> QED
      BY <3>1, <3>2
  <2> QED
    BY <2>2, <2>3, <1>1 DEF ReportInv, TablesType
<1>6. ChosenInv'
  BY <1>2 DEF ReportInv, ChosenInv
<1>7. RowInv'
  BY <1>1, <1>2 DEF ReportInv, RowInv
<1>8. SectionInv' /\ DoneInv'
  BY <1>2, SectionsStay, DoneStays DEF ReportInv
<1> QED
  BY <1>2, <1>5, <1>6, <1>7, <1>8 DEF ReportInv

LEMMA ReportStays ==
  ASSUME ReportInv, UNCHANGED <<pin, recorded, draft>> PROVE ReportInv'
<1>1. TablesType' /\ DraftShape'
  BY DEF ReportInv, TablesType, DraftShape
<1>2. ChosenInv' /\ RowInv'
  BY DEF ReportInv, ChosenInv, RowInv, Retrievable
<1>3. SectionInv' /\ DoneInv'
  BY SectionsStay, DoneStays DEF ReportInv
<1> QED
  BY <1>1, <1>2, <1>3 DEF ReportInv

LEMMA ReportInvStep == ReportInv /\ [ReportNext]_reportVars => ReportInv'
<1>. SUFFICES ASSUME ReportInv, [ReportNext]_reportVars PROVE ReportInv'
  OBVIOUS
<1>1. CASE Ask \/ SelectPlaces
  BY <1>1, AskStep, SelectStep
<1>2. CASE PrivacyBlocks \/ PlaceNotFound
  BY <1>2, StopStep DEF PrivacyBlocks, PlaceNotFound
<1>3. CASE ReadMemberships \/ ReadReference \/ ReadComparison \/ Assemble
  BY <1>3, MembershipsStep, ReferenceStep, ComparisonReadStep, AssembleStep
<1>4. CASE \E i \in SourceRecord : IngestReport(i)
  BY <1>4, IngestReportStep
<1>5. CASE \E p \in Pin : ChangePin(p)
  BY <1>5, ChangePinStep
<1>6. CASE DeleteReports \/ UNCHANGED reportVars
  BY <1>6, ReportStays DEF DeleteReports, reportVars
<1> QED
  BY <1>1, <1>2, <1>3, <1>4, <1>5, <1>6 DEF ReportNext

LEMMA ReportInvHolds == ReportInv => ReportHolds
<1>. SUFFICES ASSUME ReportInv, draft.step = "done"
              PROVE  OverlapReconciles /\ SectionsAgree /\ NewestIsNewest /\ KeptCanBeOpened
  BY DEF ReportHolds
<1>. DEFINE ids == SectionIds(draft.asked)
            rows == draft.rows
            report == draft.report
<1>1. /\ draft.asked \in ReportAsked /\ Clustered(draft.chosen, ids) /\ RowsFit(rows, ids)
      /\ report.overview = Overview(rows) /\ report.places = PlaceContext(draft.chosen, rows)
      /\ report.records = Shown(rows, draft.asked.limit)
      /\ report.truncated = (Len(rows) > draft.asked.limit)
      /\ NewestIsNewest
      /\ "place" \notin draft.touched => Retrievable(ToSet(draft.asked.pins))
  BY DEF ReportInv, ChosenInv, RowInv, DoneInv
<1>2. IsFiniteSet(ids) /\ Cardinality(ids) = Len(draft.chosen) /\ draft.asked.limit \in Nat
  BY <1>1, IdsAreFinite, ReportAssumption
<1>3. DOMAIN report.places = DOMAIN draft.chosen /\ Len(report.places) = Len(draft.chosen)
  <2>1. Len(draft.chosen) \in Nat /\ DOMAIN draft.chosen = 1 .. Len(draft.chosen)
    BY <1>1 DEF Clustered
  <2>2. report.places = [n \in 1 .. Len(draft.chosen) |-> report.places[n]]
    BY <1>1, <2>1 DEF PlaceContext
  <2> QED
    BY <2>1, <2>2, SequenceOf
<1>4. OverlapReconciles
  <2>1. Reconciled(rows, draft.asked.limit, report.records, report.overview, Len(report.places))
    <3>1. Reconciled(rows, draft.asked.limit, Shown(rows, draft.asked.limit), Overview(rows),
                     Cardinality(ids))
      BY <1>1, <1>2, RowsReconcile
    <3> QED
      BY <3>1, <1>1, <1>2, <1>3
  <2>2. \A n \in DOMAIN report.places :
          report.places[n].count = report.places[n].timed + report.places[n].untimed
    BY <1>1, TimesAddUp
  <2>3. ~report.truncated => ~(Len(rows) > draft.asked.limit)
    BY <1>1
  <2> QED
    BY <2>1, <2>2, <2>3 DEF OverlapReconciles, Reconciled
<1>5. SectionsAgree
  <2>1. {c.id : c \in ToSet(draft.chosen)} = ids
    BY <1>1 DEF Clustered, ToSet
  <2>2. {r.pin : r \in ToSet(report.records)} \subseteq ids
    <3>1. \A r \in ToSet(report.records) : \E n \in DOMAIN rows : r = rows[n]
      BY <1>1, <1>2, ShownIsAPrefix DEF ToSet
    <3>2. \A n \in DOMAIN rows : rows[n].pin \in ids
      BY <1>1 DEF RowsFit
    <3> QED
      BY <3>1, <3>2
  <2>3. /\ draft.reference = IF draft.asked.layer = "reported" THEN ids ELSE {}
        /\ draft.options = IF draft.asked.layer = "reported" /\ Len(draft.chosen) > 1
                           THEN ids ELSE {}
    BY DEF ReportInv, SectionInv
  <2> QED
    BY <2>1, <2>2, <2>3 DEF SectionsAgree
<1>6. KeptCanBeOpened
  BY <1>1 DEF KeptCanBeOpened
<1> QED
  BY <1>1, <1>4, <1>5, <1>6

-----------------------------------------------------------------------------
(* Report.  The types of a place, the rare ones folded into one, add up to   *)
(* its count, and the places to the memberships.                             *)

LEMMA CommonerOrders ==
  ASSUME NEW rows, NEW own, IsFiniteSet(own), NEW T, T \subseteq Nat
  PROVE  Orders({p \in T \X T : Commoner(rows, own, p[1], p[2])}, T)
  <1> DEFINE R == {p \in T \X T : Commoner(rows, own, p[1], p[2])}
  <1>1. \A t \in T : t \in Nat /\ OfType(rows, own, t) \in Nat
    BY FS_Subset, FS_CardinalityType DEF OfType
  <1>2. \A t, u \in T : <<t, u>> \in R <=> Commoner(rows, own, t, u)
    OBVIOUS
  <1>3. \A t \in T : ~Commoner(rows, own, t, t)
    BY <1>1 DEF Commoner
  <1>4. \A t, u \in T : t # u => Commoner(rows, own, t, u) \/ Commoner(rows, own, u, t)
    BY <1>1 DEF Commoner
  <1>5. \A t, u, w \in T : Commoner(rows, own, t, u) /\ Commoner(rows, own, u, w)
                             => Commoner(rows, own, t, w)
    BY <1>1 DEF Commoner
  <1> HIDE DEF R
  <1>6. Orders(R, T)
    BY <1>2, <1>3, <1>4, <1>5 DEF Orders
  <1> QED BY <1>6 DEF R

(* The counts of the first t rows of a mix, and of one row more.             *)
LEMMA CountedMix ==
  ASSUME NEW tally \in Seq(Nat), NEW t \in 0 .. Len(tally), NEW types, NEW other \in Nat,
         NEW shown, shown = [n \in 1 .. t |-> [type |-> types[n], count |-> tally[n]]]
  PROVE  /\ Len(shown) = t
         /\ Counted(shown) = Total(SubSeq(tally, 1, t))
         /\ Counted(Append(shown, [type |-> 0, count |-> other]))
              = Total(Append(SubSeq(tally, 1, t), other))
  <1> DEFINE front == SubSeq(tally, 1, t)
             last == [type |-> 0, count |-> other]
             more == Append(shown, last)
             all == Append(front, other)
  <1>1. t \in Nat
    BY LenProperties
  <1>2. front \in Seq(Nat) /\ Len(front) = t /\ \A n \in 1 .. t : front[n] = tally[n]
    BY CutInTwo
  <1>3. front = [n \in 1 .. t |-> front[n]]
    <2> HIDE DEF front
    <2> QED BY <1>1, <1>2, LenProperties
  <1>4. /\ all \in Seq(Nat) /\ Len(all) = t + 1 /\ all[t + 1] = other
        /\ \A n \in 1 .. t : all[n] = front[n]
    <2> HIDE DEF front
    <2> QED BY <1>2, AppendProperties
  <1>5. all = [n \in 1 .. t + 1 |-> all[n]]
    <2> HIDE DEF all
    <2> QED BY <1>1, <1>4, LenProperties
  <1>6. shown \in Seq({shown[n] : n \in 1 .. t} \cup {last}) /\ Len(shown) = t /\ DOMAIN shown = 1 .. t
    <2>1. shown \in [1 .. t -> {shown[n] : n \in 1 .. t} \cup {last}]
      OBVIOUS
    <2> HIDE DEF last
    <2> QED BY <1>1, <2>1
  <1>7. \A n \in 1 .. t : shown[n].count = tally[n]
    OBVIOUS
  <1>8. /\ Len(more) = t + 1 /\ DOMAIN more = 1 .. t + 1 /\ more[t + 1] = last
        /\ \A n \in 1 .. t : more[n] = shown[n]
    <2> HIDE DEF last
    <2>1. /\ more \in Seq({shown[n] : n \in 1 .. t} \cup {last}) /\ Len(more) = t + 1
          /\ more[t + 1] = last /\ \A n \in 1 .. t : more[n] = shown[n]
      BY <1>6, AppendProperties
    <2> QED BY <1>1, <2>1, LenProperties
  <1>9. last.count = other
    OBVIOUS
  <1> HIDE DEF front, last, more, all
  <1>10. [n \in DOMAIN shown |-> shown[n].count] = front
    BY <1>2, <1>3, <1>6, <1>7
  <1>11. [n \in DOMAIN more |-> more[n].count] = all
    <2>1. ASSUME NEW n \in 1 .. t + 1 PROVE more[n].count = all[n]
      <3>1. n \in 1 .. t \/ n = t + 1
        BY <1>1
      <3> QED BY <3>1, <1>2, <1>4, <1>7, <1>8, <1>9
    <2> QED BY <2>1, <1>5, <1>8
  <1> QED BY <1>6, <1>10, <1>11 DEF Counted, front, last, more, all

LEMMA TypesAddUp ==
  ASSUME NEW rows, NEW own, IsFiniteSet(own), \A n \in own : rows[n].type \in Nat
  PROVE  Counted(PlaceTypes(rows, own)) = Cardinality(own)
  <1> DEFINE types == {rows[n].type : n \in own}
             R == {p \in types \X types : Commoner(rows, own, p[1], p[2])}
             ordered == Ranked(types, R)
             k == Len(ordered)
             v == [n \in own |-> rows[n].type]
             tally == [n \in DOMAIN ordered |-> OfType(rows, own, ordered[n])]
             t == Min({TopN, Len(tally)})
             shown == [n \in 1 .. t |-> [type |-> ordered[n], count |-> tally[n]]]
             front == SubSeq(tally, 1, t)
             back == SubSeq(tally, t + 1, k)
  <1>1. types \subseteq Nat
    OBVIOUS
  <1>2. Orders(R, types)
    <2> HIDE DEF types
    <2> QED BY <1>1, CommonerOrders
  <1>3. v \in Surjection(own, types)
    BY DEF Surjection
  <1>4. Covers(own, v, ordered, k) /\ ordered \in Seq(types) /\ k \in Nat
    <2> HIDE DEF types, v, R
    <2> QED BY <1>2, <1>3, RankedCovers
  <1>5. DOMAIN ordered = 1 .. k
    BY <1>4, LenProperties
  <1>6. tally = CountsOf(own, v, ordered, k)
    <2>1. \A u : OfType(rows, own, u) = Cardinality(Having(own, v, u))
      BY DEF OfType, Having
    <2> HIDE DEF ordered, v, k
    <2> QED BY <1>5, <2>1 DEF CountsOf
  <1> HIDE DEF tally, v, ordered, types, R
  <1>7. tally \in Seq(Nat) /\ Len(tally) = k
    BY <1>4, <1>6, CountsAreCounts
  <1>8. t \in 0 .. k
    <2>1. {TopN, k} \subseteq Nat /\ {TopN, k} # {}
      BY <1>4, ReportAssumption
    <2>2. Min({TopN, k}) \in Nat /\ \A y \in {TopN, k} : Min({TopN, k}) <= y
      BY <2>1, MinOfNat
    <2> QED BY <1>4, <1>7, <2>2
  <1>9. /\ Total(tally) = Cardinality(own) /\ Total(front) \in Nat /\ Total(back) \in Nat
        /\ Total(front) + Total(back) = Cardinality(own)
    <2> HIDE DEF t
    <2> QED BY <1>4, <1>6, <1>8, HistogramAddsUp
  <1>10. /\ Len(shown) = t /\ Counted(shown) = Total(front)
         /\ Counted(Append(shown, [type |-> 0, count |-> Total(back)]))
              = Total(Append(front, Total(back)))
    <2>1. t \in 0 .. Len(tally) /\ Total(back) \in Nat
      BY <1>7, <1>8, <1>9
    <2>2. shown = [n \in 1 .. t |-> [type |-> ordered[n], count |-> tally[n]]]
      OBVIOUS
    <2> HIDE DEF t, back, shown
    <2>3. /\ Len(shown) = t
          /\ Counted(shown) = Total(SubSeq(tally, 1, t))
          /\ Counted(Append(shown, [type |-> 0, count |-> Total(back)]))
               = Total(Append(SubSeq(tally, 1, t), Total(back)))
      BY <1>7, <2>1, <2>2, CountedMix
    <2> QED BY <2>3
  <1>11. PlaceTypes(rows, own) =
           IF Total(back) > 0 THEN Append(shown, [type |-> 0, count |-> Total(back)]) ELSE shown
    <2>1. PlaceTypes(rows, own) =
            LET remainder == Total(SubSeq(tally, Len(shown) + 1, Len(tally)))
            IN  IF remainder > 0 THEN Append(shown, [type |-> 0, count |-> remainder]) ELSE shown
      BY DEF PlaceTypes, types, R, ordered, tally
    <2>2. SubSeq(tally, Len(shown) + 1, Len(tally)) = back
      BY <1>7, <1>10
    <2> HIDE DEF shown, back, t
    <2> QED BY <2>1, <2>2
  <1>12. front \in Seq(Nat)
    BY <1>7, <1>8, CutInTwo
  <1> HIDE DEF t, shown, front, back
  <1>13. CASE Total(back) > 0
    <2>1. Total(Append(front, Total(back))) = Total(front) + Total(back)
      BY <1>9, <1>12, OneMoreCount
    <2> QED BY <1>9, <1>10, <1>11, <1>13, <2>1
  <1>14. CASE ~(Total(back) > 0)
    BY <1>9, <1>10, <1>11, <1>14
  <1> QED BY <1>13, <1>14

LEMMA PlacesCounted ==
  ASSUME NEW clusters, NEW ids, Clustered(clusters, ids), NEW rows, RowsFit(rows, ids)
  PROVE  Counted(PlaceContext(clusters, rows)) = Len(rows)
  <1> DEFINE L == Len(clusters)
             own(n) == {m \in DOMAIN rows : rows[m].pin = clusters[n].id}
             part == [n \in 1 .. L |-> own(n)]
             s == [n \in 1 .. L |-> Cardinality(own(n))]
             listing == PlaceContext(clusters, rows)
  <1>1. L \in Nat /\ DOMAIN clusters = 1 .. L
    BY DEF Clustered
  <1>2. Len(rows) \in Nat /\ DOMAIN rows = 1 .. Len(rows)
    BY DEF RowsFit
  <1>3. IsFiniteSet(DOMAIN rows) /\ Cardinality(DOMAIN rows) = Len(rows)
    <2>1. 1 \in Int /\ Len(rows) \in Int
      BY <1>2
    <2>2. IsFiniteSet(1 .. Len(rows)) /\ Cardinality(1 .. Len(rows)) = IF 1 > Len(rows) THEN 0 ELSE Len(rows) - 1 + 1
      BY <2>1, FS_Interval
    <2> QED BY <1>2, <2>2
  <1>4. \A n \in 1 .. L : IsFiniteSet(own(n)) /\ Cardinality(own(n)) \in Nat
    BY <1>3, FS_Subset, FS_CardinalityType
  <1>5. DOMAIN listing = 1 .. L /\ \A n \in 1 .. L : listing[n].count = Cardinality(own(n))
    BY <1>1 DEF PlaceContext
  <1>6. \A m, n \in 1 .. L : m # n => part[m] \cap part[n] = {}
    BY <1>1 DEF Clustered
  <1>7. Together(part, L) = DOMAIN rows
    <2>1. ASSUME NEW m \in DOMAIN rows PROVE \E n \in 1 .. L : m \in part[n]
      <3>1. PICK n \in 1 .. L : rows[m].pin = clusters[n].id
        BY <1>1 DEF RowsFit, Clustered
      <3> QED BY <3>1
    <2> QED BY <2>1 DEF Together
  <1>8. \A n \in 1 .. L : part[n] = own(n) /\ s[n] = Cardinality(own(n))
    OBVIOUS
  <1>9. Counted(listing) = Total(s)
    <2>1. [n \in DOMAIN listing |-> listing[n].count] = s
      <3> HIDE DEF listing, own
      <3> QED BY <1>5
    <2> QED BY <2>1 DEF Counted
  <1>10. s \in Seq(Nat) /\ Len(s) = L
    <2>1. s \in [1 .. L -> Nat]
      BY <1>4
    <2> HIDE DEF s
    <2> QED BY <1>1, <2>1
  <1> HIDE DEF s, part, listing, own, L
  <1>11. Total(s) = Cardinality(Together(part, Len(s)))
    BY <1>4, <1>6, <1>8, <1>10, PartsAddUp
  <1> QED BY <1>3, <1>7, <1>9, <1>10, <1>11 DEF listing

(* What is recorded of an incident, and a row about it, has a type.          *)
TypedInv ==
    /\ \A i \in SourceRecord : recorded[i] # NotYet => recorded[i].type \in Nat
    /\ \A n \in DOMAIN draft.rows : draft.rows[n].type \in Nat

LEMMA ReportAddsUp == ReportInv /\ TypedInv /\ draft.step = "done" => PlacesAddUp
  <1> SUFFICES ASSUME ReportInv, TypedInv, draft.step = "done" PROVE PlacesAddUp
    OBVIOUS
  <1> DEFINE ids == SectionIds(draft.asked)
             rows == draft.rows
             listing == PlaceContext(draft.chosen, rows)
             own(n) == {m \in DOMAIN rows : rows[m].pin = draft.chosen[n].id}
  <1>1. /\ Clustered(draft.chosen, ids) /\ RowsFit(rows, ids)
        /\ draft.report.overview = Overview(rows) /\ draft.report.places = listing
    BY DEF ReportInv, ChosenInv, RowInv, DoneInv
  <1>2. Counted(listing) = draft.report.overview.memberships
    <2>1. Overview(rows).memberships = Len(rows)
      BY DEF Overview
    <2>2. Counted(listing) = Len(rows)
      BY <1>1, PlacesCounted
    <2> QED BY <1>1, <2>1, <2>2
  <1>3. ASSUME NEW n \in DOMAIN listing PROVE Counted(listing[n].mix) = listing[n].count
    <2>1. listing[n].mix = PlaceTypes(rows, own(n)) /\ listing[n].count = Cardinality(own(n))
      BY DEF PlaceContext
    <2>2. IsFiniteSet(own(n))
      <3>1. Len(rows) \in Int /\ DOMAIN rows = 1 .. Len(rows)
        BY <1>1 DEF RowsFit
      <3>2. IsFiniteSet(DOMAIN rows)
        <4> HIDE DEF rows
        <4>1. 1 \in Int
          OBVIOUS
        <4>2. IsFiniteSet(1 .. Len(rows))
          BY <3>1, <4>1, FS_Interval
        <4> QED BY <3>1, <4>2
      <3> QED BY <3>2, FS_Subset
    <2>3. \A m \in own(n) : rows[m].type \in Nat
      BY DEF TypedInv
    <2> HIDE DEF listing, own, rows
    <2> QED BY <2>1, <2>2, <2>3, TypesAddUp
  <1> QED BY <1>1, <1>2, <1>3 DEF PlacesAddUp

LEMMA TypedInvInit == ReportInit => TypedInv
  <1> SUFFICES ASSUME ReportInit PROVE TypedInv
    OBVIOUS
  <1>1. recorded \in [SourceRecord -> Recording \cup {NotYet}] /\ draft.rows = <<>>
    BY DEF ReportInit, NoDraft
  <1>2. \A r \in Recording : r.type \in Nat
    BY ReportAssumption
  <1> QED BY <1>1, <1>2 DEF TypedInv

LEMMA TypedInvStep == ReportInv /\ TypedInv /\ [ReportNext]_reportVars => TypedInv'
  <1> SUFFICES ASSUME ReportInv, TypedInv, [ReportNext]_reportVars PROVE TypedInv'
    OBVIOUS
  <1>0. DraftShape
    BY DEF ReportInv
  <1>1. ASSUME recorded' = recorded, draft'.rows = draft.rows PROVE TypedInv'
    BY <1>1 DEF TypedInv
  <1>2. CASE Ask
    <2>1. draft'.rows = draft.rows
      BY <1>0, <1>2 DEF Ask, DraftShape
    <2> QED BY <1>1, <1>2, <2>1 DEF Ask
  <1>3. CASE SelectPlaces \/ ReadReference \/ ReadComparison
    <2>1. draft'.rows = draft.rows
      BY <1>0, <1>3 DEF SelectPlaces, ReadReference, ReadComparison, DraftShape
    <2>2. recorded' = recorded
      BY <1>3 DEF SelectPlaces, ReadReference, ReadComparison
    <2> QED BY <1>1, <2>1, <2>2
  <1>4. CASE PrivacyBlocks \/ PlaceNotFound
    <2>1. draft'.rows = draft.rows /\ recorded' = recorded
      BY <1>0, <1>4 DEF PrivacyBlocks, PlaceNotFound, Stop, DraftShape
    <2> QED BY <1>1, <2>1
  <1>5. CASE Assemble
    <2>1. draft'.rows = draft.rows /\ recorded' = recorded
      BY <1>0, <1>5 DEF Assemble, DraftShape
    <2> QED BY <1>1, <2>1
  <1>6. CASE ReadMemberships
    <2> DEFINE rows == Memberships(Clusters(draft.asked), draft.from, draft.asked.to)
    <2>1. recorded' = recorded /\ draft.step = "memberships"
      BY <1>6 DEF ReadMemberships
    <2>2. draft'.rows = rows
      BY <1>0, <1>6 DEF ReadMemberships, DraftShape
    <2>3. draft.asked \in ReportAsked
      BY <2>1 DEF ReportInv, ChosenInv, Reading
    <2>4. /\ RowsFit(rows, SectionIds(draft.asked))
          /\ \A n \in DOMAIN rows :
               recorded[rows[n].id] # NotYet /\ rows[n].type = recorded[rows[n].id].type
      BY <2>3, ClustersFit, MembershipsFit DEF ReportInv
    <2> HIDE DEF rows
    <2> QED BY <2>1, <2>2, <2>4 DEF TypedInv, RowsFit
  <1>7. ASSUME NEW i \in SourceRecord, IngestReport(i) PROVE TypedInv'
    <2>1. PICK r \in Recording : recorded' = [recorded EXCEPT ![i] = r]
      BY <1>7 DEF IngestReport
    <2>2. draft'.rows = draft.rows
      BY <1>0, <1>7 DEF IngestReport, DraftShape
    <2>3. r.type \in Nat
      BY ReportAssumption
    <2>4. \A j \in SourceRecord : recorded'[j] = IF j = i THEN r ELSE recorded[j]
      BY <2>1 DEF ReportInv, TablesType
    <2> QED BY <2>2, <2>3, <2>4 DEF TypedInv
  <1>8. ASSUME NEW p \in Pin, ChangePin(p) PROVE TypedInv'
    <2>1. draft'.rows = draft.rows /\ recorded' = recorded
      BY <1>0, <1>8 DEF ChangePin, DraftShape
    <2> QED BY <1>1, <2>1
  <1>9. CASE DeleteReports \/ UNCHANGED reportVars
    BY <1>1, <1>9 DEF DeleteReports, reportVars
  <1> QED BY <1>2, <1>3, <1>4, <1>5, <1>6, <1>7, <1>8, <1>9 DEF ReportNext

-----------------------------------------------------------------------------
(* A finished report, however the tables changed while it was made: the      *)
(* overlap its overview counts is the one its table flags, the types of a    *)
(* place add up to its count and the places to the memberships, its sections *)
(* are about the places it was asked for, its newest day is no older than    *)
(* its records, and it can be opened again (app/reports/service.py).         *)
THEOREM ReportsHold == ReportSpec => []ReportReconciles
<1>1. ReportInit => ReportInv /\ TypedInv
  BY ReportInvInit, TypedInvInit
<1>2. ReportInv /\ TypedInv /\ [ReportNext]_reportVars => (ReportInv /\ TypedInv)'
  BY ReportInvStep, TypedInvStep
<1>3. ReportInv /\ TypedInv => ReportReconciles
  BY ReportInvHolds, ReportAddsUp DEF ReportReconciles
<1> QED
  BY <1>1, <1>2, <1>3, PTL DEF ReportSpec

-----------------------------------------------------------------------------
(* Normalization.  The loop that looks for stops, on points in time order.   *)

InTime(points) == \A m, n \in 1 .. Len(points) : m < n => points[m].at <= points[n].at

LEMMA RowsAreNumbers == \A f \in Fix : f.at \in Int /\ f.pos \in Int
  BY NormalizationAssumption

LEMMA SortedInTime ==
  ASSUME NEW rows \in Seq(Fix)
  PROVE  ByTime(rows) \in Seq(Fix) /\ Len(ByTime(rows)) = Len(rows) /\ InTime(ByTime(rows))
  <1> DEFINE L == Len(rows)
             S == DOMAIN rows
             R == {p \in S \X S : Earlier(rows, p[1], p[2])}
             order == Ranked(S, R)
             sorted == ByTime(rows)
  <1>1. L \in Nat /\ S = 1 .. L /\ \A i \in 1 .. L : rows[i] \in Fix
    BY LenProperties, ElementOfSeq
  <1>2. \A i \in S : i \in Nat /\ rows[i].at \in Int
    BY <1>1, RowsAreNumbers
  <1>3. \A i, j \in S : <<i, j>> \in R <=> Earlier(rows, i, j)
    OBVIOUS
  <1>4. sorted = [i \in 1 .. L |-> rows[order[i]]]
    BY DEF ByTime
  <1> HIDE DEF R, sorted
  <1>5. Orders(R, S)
    <2>1. \A i \in S : ~Earlier(rows, i, i)
      BY <1>2 DEF Earlier
    <2>2. \A i, j \in S : i # j => Earlier(rows, i, j) \/ Earlier(rows, j, i)
      BY <1>2 DEF Earlier
    <2>3. \A i, j, k \in S : Earlier(rows, i, j) /\ Earlier(rows, j, k) => Earlier(rows, i, k)
      BY <1>2 DEF Earlier
    <2> HIDE DEF S
    <2> QED BY <1>3, <2>1, <2>2, <2>3 DEF Orders
  <1>6. IsFiniteSet(S) /\ Cardinality(S) = L
    <2>1. 1 \in Int /\ L \in Int
      BY <1>1
    <2>2. IsFiniteSet(1 .. L) /\ Cardinality(1 .. L) = IF 1 > L THEN 0 ELSE L - 1 + 1
      BY <2>1, FS_Interval
    <2> QED BY <1>1, <2>2
  <1>7. order \in Seq(S) /\ \A m, n \in 1 .. L : m < n <=> <<order[m], order[n]>> \in R
    <2> HIDE DEF S
    <2> QED BY <1>5, <1>6, RankedInOrder
  <1>8. Len(order) = L
    <2> HIDE DEF S
    <2> QED BY <1>5, <1>6, RankedInOrder
  <1> HIDE DEF order
  <1>9. \A n \in 1 .. L : order[n] \in S
    <2> HIDE DEF S
    <2> QED BY <1>7, <1>8, ElementOfSeq
  <1>10. sorted \in Seq(Fix) /\ Len(sorted) = L
    <2>1. \A n \in 1 .. L : rows[order[n]] \in Fix
      BY <1>1, <1>9
    <2>2. sorted \in [1 .. L -> Fix]
      BY <1>4, <2>1
    <2> QED BY <1>1, <2>2
  <1>11. ASSUME NEW m \in 1 .. L, NEW n \in 1 .. L, m < n PROVE sorted[m].at <= sorted[n].at
    <2>1. Earlier(rows, order[m], order[n])
      BY <1>3, <1>7, <1>9, <1>11
    <2>2. rows[order[m]].at <= rows[order[n]].at
      BY <1>2, <1>9, <2>1 DEF Earlier
    <2> QED BY <1>4, <2>2
  <1> QED BY <1>10, <1>11 DEF InTime, sorted

(* What the filter has kept after n rows is in order, and no later than what *)
(* is still to come.                                                         *)
KeptInTime(sorted, taken, n) ==
    /\ taken \in Seq(Fix) /\ InTime(taken)
    /\ \A m \in 1 .. Len(taken), l \in n + 1 .. Len(sorted) : taken[m].at <= sorted[l].at

LEMMA KeepStep ==
  ASSUME NEW sorted \in Seq(Fix), InTime(sorted), NEW n \in 1 .. Len(sorted),
         NEW taken, KeptInTime(sorted, taken, n - 1)
  PROVE  KeptInTime(sorted, Keep(sorted, taken, n), n)
  <1> DEFINE more == Append(taken, sorted[n])
             N == Len(sorted)
             k == Len(taken)
  <1>1. N \in Nat /\ \A l \in 1 .. N : sorted[l] \in Fix /\ sorted[l].at \in Int
    BY LenProperties, ElementOfSeq, RowsAreNumbers
  <1>2. taken \in Seq(Fix) /\ k \in Nat
    BY LenProperties DEF KeptInTime
  <1>3. \A m \in 1 .. k : taken[m].at \in Int
    BY <1>2, ElementOfSeq, RowsAreNumbers
  <1>4. /\ more \in Seq(Fix) /\ Len(more) = k + 1 /\ more[k + 1] = sorted[n]
        /\ \A m \in 1 .. k : more[m] = taken[m]
    BY <1>1, <1>2, AppendProperties
  <1>5. \A l \in n + 1 .. N : l \in (n - 1) + 1 .. N /\ l \in 1 .. N /\ n < l
    BY <1>1
  <1>6. n \in (n - 1) + 1 .. N
    BY <1>1
  <1>7. \A m \in 1 .. k, l \in (n - 1) + 1 .. N : taken[m].at <= sorted[l].at
    BY DEF KeptInTime
  <1>8. KeptInTime(sorted, taken, n)
    BY <1>5, <1>7 DEF KeptInTime
  <1> HIDE DEF more
  <1>9. KeptInTime(sorted, more, n)
    <2>1. ASSUME NEW m \in 1 .. k + 1 PROVE m = k + 1 \/ (m \in 1 .. k /\ more[m] = taken[m])
      BY <1>2, <1>4
    <2>2. ASSUME NEW m \in 1 .. k + 1, NEW l \in n + 1 .. N PROVE more[m].at <= sorted[l].at
      <3>1. sorted[n].at <= sorted[l].at
        BY <1>5 DEF InTime
      <3> QED BY <1>4, <1>5, <1>7, <2>1, <3>1
    <2>3. ASSUME NEW m \in 1 .. k + 1, NEW l \in 1 .. k + 1, m < l PROVE more[m].at <= more[l].at
      <3>1. m \in 1 .. k
        BY <1>2, <2>3
      <3>2. CASE l = k + 1
        BY <1>4, <1>6, <1>7, <3>1, <3>2
      <3>3. CASE l # k + 1
        <4>1. l \in 1 .. k
          BY <1>2, <3>3
        <4>2. taken[m].at <= taken[l].at
          BY <2>3, <3>1, <4>1 DEF KeptInTime, InTime
        <4> QED BY <1>4, <3>1, <4>1, <4>2
      <3> QED BY <3>2, <3>3
    <2>4. InTime(more)
      BY <1>4, <2>3 DEF InTime
    <2> QED BY <1>4, <2>2, <2>4 DEF KeptInTime
  <1>10. Keep(sorted, taken, n) \in {taken, more}
    BY DEF Keep, more
  <1> QED BY <1>8, <1>9, <1>10

LEMMA FilteredInTime ==
  ASSUME NEW rows \in Seq(Fix)
  PROVE  Filtered(rows) \in Seq(Fix) /\ InTime(Filtered(rows))
  <1> DEFINE L == Len(rows)
             sorted == ByTime(rows)
             V == Seq(Fix)
             step == [p \in (1 .. L) \X V |-> Keep(sorted, p[2], p[1])]
             Body(f) == [n \in 0 .. L |-> IF n = 0 THEN <<>> ELSE Keep(sorted, f[n - 1], n)]
             taken == CHOOSE f : f = Body(f)
  <1>1. L \in Nat
    BY LenProperties
  <1>2. sorted \in Seq(Fix) /\ Len(sorted) = L /\ InTime(sorted)
    BY SortedInTime
  <1>3. Filtered(rows) = taken[L]
    BY DEF Filtered
  <1> HIDE DEF L, sorted
  <1>4. \A n \in 1 .. L, v \in V : Keep(sorted, v, n) \in V
    <2>1. ASSUME NEW n \in 1 .. L, NEW v \in V PROVE Keep(sorted, v, n) \in V
      <3>1. sorted[n] \in Fix
        BY <1>2, ElementOfSeq
      <3>2. Append(v, sorted[n]) \in V
        BY <3>1, AppendProperties
      <3> QED BY <3>2 DEF Keep
    <2> QED BY <2>1
  <1>5. step \in [(1 .. L) \X V -> V]
    <2> HIDE DEF V
    <2> QED BY <1>4
  <1>6. \A n \in 1 .. L : \A v \in V : step[<<n, v>>] = Keep(sorted, v, n)
    OBVIOUS
  <1>7. <<>> \in V
    BY EmptySeq
  <1> HIDE DEF step, V
  <1>8. PICK f : Follows(f, <<>>, L, step) /\ \A n \in 0 .. L : f[n] \in V
    BY <1>1, <1>5, <1>7, RecursionExists
  <1>9. f = Body(f)
    <2>1. ASSUME NEW n \in 1 .. L PROVE f[n - 1] \in V
      BY <1>1, <1>8
    <2>2. \A n \in 1 .. L : step[<<n, f[n - 1]>>] = Keep(sorted, f[n - 1], n)
      BY <1>6, <2>1
    <2>3. \A n \in 0 .. L : n # 0 => n \in 1 .. L
      BY <1>1
    <2> QED BY <1>8, <2>2, <2>3 DEF Follows
  <1>10. taken = Body(taken)
    <2> HIDE DEF Body
    <2> QED BY <1>9
  <1>11. taken[0] = <<>> /\ \A n \in 1 .. L : taken[n] = Keep(sorted, taken[n - 1], n)
    <2>1. 0 \in 0 .. L /\ \A n \in 1 .. L : n \in 0 .. L /\ n # 0
      BY <1>1
    <2> HIDE DEF taken
    <2> QED BY <1>10, <2>1
  <1> HIDE DEF taken
  <1> DEFINE D == {n \in 0 .. L : KeptInTime(sorted, taken[n], n)}
  <1>12. 0 \in D
    <2>1. taken[0] \in Seq(Fix) /\ Len(taken[0]) = 0
      BY <1>11, EmptySeq
    <2> QED BY <1>1, <2>1 DEF KeptInTime, InTime
  <1>13. ASSUME NEW n \in 1 .. L, n - 1 \in D PROVE n \in D
    <2>1. KeptInTime(sorted, Keep(sorted, taken[n - 1], n), n)
      BY <1>2, <1>13, KeepStep
    <2> QED BY <1>1, <1>11, <2>1
  <1>14. L \in D
    <2>1. L \in 0 .. L
      BY <1>1
    <2> HIDE DEF D
    <2> QED BY <1>1, <1>12, <1>13, <2>1, StepByStep
  <1> QED BY <1>3, <1>14 DEF KeptInTime

LEMMA RunEndIs ==
  ASSUME NEW points \in Seq(Fix), NEW i \in 1 .. Len(points)
  PROVE  RunEnd(points, i) \in i .. Len(points)
  <1> DEFINE L == Len(points)
             S == {j \in i .. L :
                     \A k \in i .. j : Distance(points[i].pos, points[k].pos) <= StopRadius}
  <1>1. L \in Nat /\ i \in Nat /\ i \in i .. L /\ points[i].pos \in Int
    BY LenProperties, ElementOfSeq, RowsAreNumbers
  <1>2. Distance(points[i].pos, points[i].pos) <= StopRadius
    BY <1>1, NormalizationAssumption DEF Distance
  <1>3. i \in S
    <2>1. \A k \in i .. i : k = i
      BY <1>1
    <2> QED BY <1>1, <1>2, <2>1
  <1>4. S \in SUBSET Nat /\ S \subseteq i .. L
    BY <1>1
  <1>5. IsFiniteSet(S)
    <2>1. i \in Int /\ L \in Int
      BY <1>1
    <2>2. IsFiniteSet(i .. L)
      BY <2>1, FS_Interval
    <2> HIDE DEF S
    <2> QED BY <1>4, <2>2, FS_Subset
  <1>6. RunEnd(points, i) = Max(S)
    BY DEF RunEnd
  <1> HIDE DEF S
  <1>7. Max(S) \in S
    BY <1>3, <1>4, <1>5, MaxIsLargest
  <1> QED BY <1>4, <1>6, <1>7

Interval == [first : Nat, last : Nat]
Around(points, i, j) == j <= RunEnd(points, i) /\ Stay(points, i, j)

(* What the search has found after n rounds: stays, one after the other, and *)
(* one that meets every stay around a point before its anchor.               *)
Scanned(points, scan, n) ==
    /\ scan.anchor \in Nat /\ n < scan.anchor /\ scan.anchor <= Len(points) + 1
    /\ scan.stops \in Seq(Interval)
    /\ \A s \in 1 .. Len(scan.stops) :
         /\ scan.stops[s].first \in 1 .. Len(points) /\ scan.stops[s].last \in 1 .. Len(points)
         /\ Around(points, scan.stops[s].first, scan.stops[s].last)
         /\ scan.stops[s].last < scan.anchor
    /\ \A s \in 1 .. Len(scan.stops) - 1 : scan.stops[s].last < scan.stops[s + 1].first
    /\ \A i \in 1 .. Len(points), j \in 1 .. Len(points) :
         i < scan.anchor /\ i <= j /\ Around(points, i, j) =>
           \E s \in 1 .. Len(scan.stops) : scan.stops[s].first <= j /\ i <= scan.stops[s].last

(* A round that finds a stop.                                                *)
LEMMA StopFound ==
  ASSUME NEW points \in Seq(Fix), NEW n \in Nat, NEW scan, Scanned(points, scan, n - 1),
         scan.anchor \in 1 .. Len(points),
         Stay(points, scan.anchor, RunEnd(points, scan.anchor)),
         NEW next, next.anchor = RunEnd(points, scan.anchor) + 1,
         next.stops = Append(scan.stops, [first |-> scan.anchor, last |-> RunEnd(points, scan.anchor)])
  PROVE  Scanned(points, next, n)
  <1> DEFINE L == Len(points)
             a == scan.anchor
             e == RunEnd(points, a)
             old == scan.stops
             k == Len(old)
             stop == [first |-> a, last |-> e]
  <1>1. L \in Nat /\ a \in Nat /\ a \in 1 .. L /\ n - 1 < a
    BY LenProperties DEF Scanned
  <1>2. e \in a .. L /\ e \in Nat /\ e \in 1 .. L
    <2>1. e \in a .. L
      BY RunEndIs
    <2> QED BY <1>1, <2>1
  <1>3. old \in Seq(Interval) /\ k \in Nat
    BY LenProperties DEF Scanned
  <1>4. stop \in Interval /\ stop.first = a /\ stop.last = e
    BY <1>1, <1>2 DEF Interval
  <1>5. Around(points, a, e)
    BY <1>2 DEF Around
  <1>6. \A s \in 1 .. k :
          /\ old[s].first \in 1 .. L /\ old[s].last \in 1 .. L
          /\ Around(points, old[s].first, old[s].last) /\ old[s].last < a
    BY DEF Scanned
  <1>7. \A s \in 1 .. k - 1 : old[s].last < old[s + 1].first
    BY DEF Scanned
  <1>8. \A i, j \in 1 .. L : i < a /\ i <= j /\ Around(points, i, j) =>
          \E s \in 1 .. k : old[s].first <= j /\ i <= old[s].last
    BY DEF Scanned
  <1> DEFINE new == next.stops
  <1>9. /\ new \in Seq(Interval) /\ Len(new) = k + 1 /\ new[k + 1] = stop
        /\ \A s \in 1 .. k : new[s] = old[s]
    <2> HIDE DEF stop
    <2>1. new = Append(old, stop)
      BY DEF stop
    <2> HIDE DEF new
    <2> QED BY <1>3, <1>4, <2>1, AppendProperties
  <1>10. next.anchor = e + 1
    OBVIOUS
  <1> HIDE DEF a, e, stop, old, k, new, L
  <1>11. \A s \in 1 .. k + 1 : s = k + 1 \/ (s \in 1 .. k /\ new[s] = old[s])
    BY <1>3, <1>9
  <1>12. ASSUME NEW s \in 1 .. k + 1
         PROVE  /\ new[s].first \in 1 .. L /\ new[s].last \in 1 .. L
                /\ Around(points, new[s].first, new[s].last) /\ new[s].last < e + 1
    <2>1. CASE s = k + 1
      BY <1>1, <1>2, <1>4, <1>5, <1>9, <2>1
    <2>2. CASE s # k + 1
      <3>1. s \in 1 .. k /\ new[s] = old[s]
        BY <1>11, <2>2
      <3>2. old[s].last \in 1 .. L /\ old[s].last < a
        BY <1>6, <3>1
      <3>3. old[s].last < e + 1
        BY <1>1, <1>2, <3>2
      <3> QED BY <1>6, <3>1, <3>3
    <2> QED BY <2>1, <2>2
  <1>13. ASSUME NEW s \in 1 .. (k + 1) - 1 PROVE new[s].last < new[s + 1].first
    <2>1. s \in 1 .. k /\ new[s] = old[s]
      BY <1>3, <1>9
    <2>2. CASE s = k
      BY <1>4, <1>6, <1>9, <2>1, <2>2
    <2>3. CASE s # k
      <3>1. s \in 1 .. k - 1 /\ s + 1 \in 1 .. k
        BY <1>3, <2>1, <2>3
      <3> QED BY <1>7, <1>9, <2>1, <3>1
    <2> QED BY <2>2, <2>3
  <1>14. ASSUME NEW i \in 1 .. L, NEW j \in 1 .. L, i < e + 1, i <= j, Around(points, i, j)
         PROVE  \E s \in 1 .. k + 1 : new[s].first <= j /\ i <= new[s].last
    <2>1. CASE i < a
      <3>1. PICK s \in 1 .. k : old[s].first <= j /\ i <= old[s].last
        BY <1>8, <1>14, <2>1
      <3>2. s \in 1 .. k + 1 /\ new[s] = old[s]
        BY <1>3, <1>9
      <3> QED BY <3>1, <3>2
    <2>2. CASE ~(i < a)
      <3>1. a <= j /\ i <= e
        BY <1>1, <1>2, <1>14, <2>2
      <3>2. k + 1 \in 1 .. k + 1
        BY <1>3
      <3> QED BY <1>4, <1>9, <3>1, <3>2
    <2> QED BY <2>1, <2>2
  <1>15. e + 1 \in Nat /\ n < e + 1 /\ e + 1 <= L + 1
    BY <1>1, <1>2
  <1> QED BY <1>9, <1>10, <1>12, <1>13, <1>14, <1>15 DEF Scanned, new, L

(* A round that goes on to the next point: nobody stayed around this one,    *)
(* since a part of a run takes no longer than the run.                       *)
LEMMA NoStopFound ==
  ASSUME NEW points \in Seq(Fix), InTime(points), NEW n \in Nat,
         NEW scan, Scanned(points, scan, n - 1), scan.anchor \in 1 .. Len(points),
         ~Stay(points, scan.anchor, RunEnd(points, scan.anchor)),
         NEW next, next.anchor = scan.anchor + 1, next.stops = scan.stops
  PROVE  Scanned(points, next, n)
  <1> DEFINE L == Len(points)
             a == scan.anchor
             e == RunEnd(points, a)
             stops == scan.stops
  <1>1. L \in Nat /\ a \in Nat /\ a \in 1 .. L /\ n - 1 < a
    BY LenProperties DEF Scanned
  <1>2. e \in a .. L /\ e \in Nat /\ e \in 1 .. L
    <2>1. e \in a .. L
      BY RunEndIs
    <2> QED BY <1>1, <2>1
  <1>3. \A i \in 1 .. L : points[i].at \in Int
    BY ElementOfSeq, RowsAreNumbers
  <1>4. ASSUME NEW j \in 1 .. L, Around(points, a, j) PROVE FALSE
    <2>1. j <= e /\ j > a /\ points[j].at - points[a].at >= MinStay
      BY <1>4 DEF Around, Stay
    <2>2. points[j].at <= points[e].at
      BY <1>2, <1>3, <2>1 DEF InTime
    <2>3. e > a /\ points[e].at - points[a].at >= MinStay
      BY <1>1, <1>2, <1>3, <2>1, <2>2, NormalizationAssumption
    <2> QED BY <2>3 DEF Stay
  <1>5. ASSUME NEW i \in 1 .. L, NEW j \in 1 .. L, i < a + 1, i <= j, Around(points, i, j)
        PROVE  \E s \in 1 .. Len(stops) : stops[s].first <= j /\ i <= stops[s].last
    <2>1. i # a
      BY <1>4, <1>5
    <2>2. i < a
      BY <1>1, <1>5, <2>1
    <2> QED BY <1>5, <2>2 DEF Scanned
  <1>6. a + 1 \in Nat /\ n < a + 1 /\ a + 1 <= L + 1
    BY <1>1
  <1>7. \A s \in 1 .. Len(stops) : stops[s].last \in 1 .. L /\ stops[s].last < a
    BY DEF Scanned
  <1>8. \A s \in 1 .. Len(stops) : stops[s].last < a + 1
    BY <1>1, <1>7
  <1> HIDE DEF e
  <1> QED BY <1>5, <1>6, <1>8 DEF Scanned

LEMMA ScanStep ==
  ASSUME NEW points \in Seq(Fix), InTime(points), NEW n \in 1 .. Len(points),
         NEW scan, Scanned(points, scan, n - 1)
  PROVE  Scanned(points, ScanOn(points, scan), n)
  <1> DEFINE L == Len(points)
             a == scan.anchor
             e == RunEnd(points, a)
             next == ScanOn(points, scan)
  <1>1. L \in Nat /\ a \in Nat /\ n - 1 < a /\ a <= L + 1 /\ n \in Nat
    BY LenProperties DEF Scanned
  <1>2. CASE a > L
    <2>1. next = scan
      BY <1>2 DEF ScanOn
    <2>2. n < a
      BY <1>1, <1>2
    <2> QED BY <2>1, <2>2 DEF Scanned
  <1>3. CASE ~(a > L)
    <2>1. a \in 1 .. L
      BY <1>1, <1>3
    <2> DEFINE more == Append(scan.stops, [first |-> a, last |-> e])
    <2>2. next = [anchor |-> NextAnchor(points, a),
                  stops |-> IF Stay(points, a, e) THEN more ELSE scan.stops]
      BY <1>3 DEF ScanOn
    <2>3. CASE Stay(points, a, e)
      <3>1. next.anchor = e + 1 /\ next.stops = more
        BY <2>2, <2>3 DEF NextAnchor
      <3> HIDE DEF next
      <3>2. Scanned(points, next, n)
        BY <1>1, <2>1, <2>3, <3>1, StopFound
      <3> QED BY <3>2 DEF next
    <2>4. CASE ~Stay(points, a, e)
      <3>1. next.anchor = a + 1 /\ next.stops = scan.stops
        BY <2>2, <2>4 DEF NextAnchor
      <3> HIDE DEF next
      <3>2. Scanned(points, next, n)
        BY <1>1, <2>1, <2>4, <3>1, NoStopFound
      <3> QED BY <3>2 DEF next
    <2> QED BY <2>3, <2>4
  <1> QED BY <1>2, <1>3

ScanState == [anchor : Nat \ {0}, stops : Seq(Interval)]

LEMMA ScanIsTyped ==
  ASSUME NEW points \in Seq(Fix), NEW scan \in ScanState
  PROVE  ScanOn(points, scan) \in ScanState
  <1> DEFINE L == Len(points)
             a == scan.anchor
             e == RunEnd(points, a)
             more == Append(scan.stops, [first |-> a, last |-> e])
  <1>1. a \in Nat \ {0} /\ scan.stops \in Seq(Interval) /\ L \in Nat
    BY LenProperties DEF ScanState
  <1>2. CASE a \in 1 .. L
    <2>1. e \in a .. L
      BY <1>2, RunEndIs
    <2>2. e \in Nat \ {0}
      BY <1>1, <2>1
    <2>3. NextAnchor(points, a) \in Nat \ {0}
      BY <1>1, <2>2 DEF NextAnchor
    <2>4. [first |-> a, last |-> e] \in Interval
      BY <1>1, <2>2 DEF Interval
    <2>5. more \in Seq(Interval)
      <3> DEFINE stop == [first |-> a, last |-> e]
      <3> HIDE DEF stop
      <3>1. Append(scan.stops, stop) \in Seq(Interval)
        BY <1>1, <2>4, AppendProperties DEF stop
      <3> QED BY <3>1 DEF stop
    <2>6. ScanOn(points, scan) \in
            {scan, [anchor |-> NextAnchor(points, a), stops |-> more],
                   [anchor |-> NextAnchor(points, a), stops |-> scan.stops]}
      BY DEF ScanOn
    <2> HIDE DEF more, e, a
    <2> QED BY <1>1, <2>3, <2>5, <2>6 DEF ScanState
  <1>3. CASE a > L
    BY <1>3 DEF ScanOn
  <1> QED BY <1>1, <1>2, <1>3

LEMMA StopsAreScanned ==
  ASSUME NEW points \in Seq(Fix), InTime(points)
  PROVE  \E scan : Scanned(points, scan, Len(points)) /\ Stops(points) = scan.stops
  <1> DEFINE L == Len(points)
             V == ScanState
             first == [anchor |-> 1, stops |-> <<>>]
             step == [p \in (1 .. L) \X V |-> ScanOn(points, p[2])]
             Body(f) == [n \in 0 .. L |-> IF n = 0 THEN [anchor |-> 1, stops |-> <<>>]
                                          ELSE ScanOn(points, f[n - 1])]
             round == CHOOSE f : f = Body(f)
  <1>1. L \in Nat
    BY LenProperties
  <1>2. Stops(points) = round[L].stops
    BY DEF Stops
  <1>3. \A v \in V : ScanOn(points, v) \in V
    BY ScanIsTyped
  <1>4. first \in V
    <2>1. <<>> \in Seq(Interval)
      BY EmptySeq
    <2> QED BY <2>1 DEF ScanState
  <1>5. first.anchor = 1 /\ first.stops = <<>> /\ first = [anchor |-> 1, stops |-> <<>>]
    OBVIOUS
  <1> HIDE DEF V, L, first
  <1>6. step \in [(1 .. L) \X V -> V]
    BY <1>3
  <1>7. \A n \in 1 .. L : \A v \in V : step[<<n, v>>] = ScanOn(points, v)
    OBVIOUS
  <1> HIDE DEF step
  <1>8. PICK f : Follows(f, first, L, step) /\ \A n \in 0 .. L : f[n] \in V
    BY <1>1, <1>4, <1>6, RecursionExists
  <1>9. f = Body(f)
    <2>1. ASSUME NEW n \in 1 .. L PROVE f[n - 1] \in V
      BY <1>1, <1>8
    <2>2. \A n \in 1 .. L : step[<<n, f[n - 1]>>] = ScanOn(points, f[n - 1])
      BY <1>7, <2>1
    <2>3. \A n \in 0 .. L : n # 0 => n \in 1 .. L
      BY <1>1
    <2> QED BY <1>5, <1>8, <2>2, <2>3 DEF Follows
  <1>10. round = Body(round)
    <2> HIDE DEF Body
    <2> QED BY <1>9
  <1>11. round[0] = first /\ \A n \in 1 .. L : round[n] = ScanOn(points, round[n - 1])
    <2>1. 0 \in 0 .. L /\ \A n \in 1 .. L : n \in 0 .. L /\ n # 0
      BY <1>1
    <2> HIDE DEF round
    <2> QED BY <1>5, <1>10, <2>1
  <1> HIDE DEF round
  <1> DEFINE D == {n \in 0 .. L : Scanned(points, round[n], n)}
  <1>12. 0 \in D
    <2>1. first.stops \in Seq(Interval) /\ Len(first.stops) = 0
      BY <1>5, EmptySeq
    <2>2. \A i \in 1 .. L : ~(i < 1)
      BY <1>1
    <2>3. Scanned(points, first, 0)
      BY <1>1, <1>5, <2>1, <2>2 DEF Scanned, L
    <2> QED BY <1>1, <1>11, <2>3
  <1>13. ASSUME NEW n \in 1 .. L, n - 1 \in D PROVE n \in D
    <2>1. Scanned(points, ScanOn(points, round[n - 1]), n)
      BY <1>13, ScanStep DEF L
    <2> QED BY <1>1, <1>11, <2>1
  <1>14. L \in D
    <2>1. L \in 0 .. L
      BY <1>1
    <2> HIDE DEF D
    <2> QED BY <1>1, <1>12, <1>13, <2>1, StepByStep
  <1> QED BY <1>2, <1>14 DEF L

LEMMA StaysAreFound == NormalizationInit => StaysFound
  <1> SUFFICES ASSUME NormalizationInit PROVE StaysFound
    OBVIOUS
  <1> DEFINE points == Filtered(fixes)
             stops == Stops(points)
             L == Len(points)
             k == Len(stops)
  <1>1. fixes \in Seq(Fix)
    <2>1. PICK n \in 0 .. MaxFixes : fixes \in [1 .. n -> Fix]
      BY DEF NormalizationInit
    <2>2. n \in Nat
      BY <2>1, NormalizationAssumption
    <2> QED BY <2>1, <2>2
  <1>2. points \in Seq(Fix) /\ InTime(points)
    BY <1>1, FilteredInTime
  <1> HIDE DEF points
  <1>3. L \in Nat /\ DOMAIN points = 1 .. L /\ \A i \in 1 .. L : points[i].at \in Int
    BY <1>2, LenProperties, ElementOfSeq, RowsAreNumbers
  <1>4. PICK scan : Scanned(points, scan, L) /\ stops = scan.stops
    BY <1>2, StopsAreScanned
  <1> HIDE DEF stops
  <1>5. stops \in Seq(Interval)
    BY <1>4 DEF Scanned
  <1>6. k \in Nat /\ DOMAIN stops = 1 .. k
    BY <1>5, LenProperties
  <1>7. \A s \in 1 .. k :
          /\ stops[s].first \in 1 .. L /\ stops[s].last \in 1 .. L
          /\ stops[s].last <= RunEnd(points, stops[s].first)
          /\ Stay(points, stops[s].first, stops[s].last)
    BY <1>4 DEF Scanned, Around
  <1>8. ASSUME NEW s \in 1 .. k - 1
        PROVE  /\ stops[s].last < stops[s + 1].first
               /\ points[stops[s].last].at <= points[stops[s + 1].first].at
    <2>1. stops[s].last < stops[s + 1].first
      BY <1>4 DEF Scanned
    <2>2. s \in 1 .. k /\ s + 1 \in 1 .. k
      BY <1>6
    <2>3. stops[s].last \in 1 .. L /\ stops[s + 1].first \in 1 .. L
      BY <1>7, <2>2
    <2> QED BY <1>2, <2>1, <2>3 DEF InTime
  <1>9. ASSUME NEW i \in 1 .. L, NEW j \in i .. L, j <= RunEnd(points, i), Stay(points, i, j)
        PROVE  \E s \in 1 .. k : stops[s].first <= j /\ i <= stops[s].last
    <2>1. Around(points, i, j)
      BY <1>9 DEF Around
    <2>2. j \in 1 .. L /\ i <= j
      BY <1>3
    <2>3. scan.anchor \in Nat /\ L < scan.anchor
      BY <1>4 DEF Scanned
    <2>4. i < scan.anchor
      BY <1>3, <2>3
    <2> QED BY <1>4, <2>1, <2>2, <2>4 DEF Scanned
  <1> HIDE DEF L, k
  <1>10. StaysFound <=>
           /\ \A s \in DOMAIN stops : stops[s].last <= RunEnd(points, stops[s].first)
                                        /\ Stay(points, stops[s].first, stops[s].last)
           /\ \A s \in 1 .. Len(stops) - 1 :
                /\ stops[s].last < stops[s + 1].first
                /\ points[stops[s].last].at <= points[stops[s + 1].first].at
           /\ \A i \in DOMAIN points : \A j \in i .. Len(points) :
                j <= RunEnd(points, i) /\ Stay(points, i, j) =>
                  \E s \in DOMAIN stops : stops[s].first <= j /\ i <= stops[s].last
    BY DEF StaysFound, points, stops
  <1> QED BY <1>3, <1>6, <1>7, <1>8, <1>9, <1>10 DEF L, k

(* Places.  The seeds are the stops that no earlier seed has in reach, and   *)
(* the loop that groups the rest around the first stop left finds just them. *)

Close(u, v) == Distance(visits[u].pos, visits[v].pos) <= PlaceRadius
InReach(v) == {u \in Seeds : u <= v /\ Close(u, v)}
Group(u) == {v \in DOMAIN visits : Min(InReach(v)) = u}

VisitsTyped ==
    Len(visits) \in Nat /\ DOMAIN visits = 1 .. Len(visits)
      /\ \A v \in 1 .. Len(visits) : visits[v].pos \in Int

LEMMA CloseToItself ==
  ASSUME VisitsTyped, NEW v \in 1 .. Len(visits) PROVE Close(v, v)
  BY NormalizationAssumption DEF VisitsTyped, Close, Distance

LEMMA SeedsAre ==
  ASSUME VisitsTyped
  PROVE  /\ Seeds \subseteq 1 .. Len(visits)
         /\ \A v \in 1 .. Len(visits) :
              v \in Seeds <=> \A u \in Seeds : u < v => ~Close(u, v)
  <1> DEFINE L == Len(visits)
             V == SUBSET (1 .. L)
             Round(n, X) == X \cup {v \in {n} : \A u \in X : ~Close(u, v)}
             step == [p \in (1 .. L) \X V |-> Round(p[1], p[2])]
             Body(s) == [n \in 0 .. L |-> IF n = 0 THEN {}
                           ELSE s[n - 1] \cup {v \in {n} : \A u \in s[n - 1] : ~Close(u, v)}]
             found == CHOOSE s : s = Body(s)
  <1>1. L \in Nat
    BY DEF VisitsTyped
  <1>2. Seeds = found[L]
    BY DEF Seeds, Close
  <1> HIDE DEF L
  <1>3. \A n \in 1 .. L, X \in V : Round(n, X) \in V
    OBVIOUS
  <1>4. step \in [(1 .. L) \X V -> V]
    <2> HIDE DEF Round, V
    <2> QED BY <1>3
  <1>5. \A n \in 1 .. L : \A X \in V : step[<<n, X>>] = Round(n, X)
    <2> HIDE DEF Round, V
    <2> QED OBVIOUS
  <1>6. {} \in V
    OBVIOUS
  <1> HIDE DEF step
  <1>7. PICK f : Follows(f, {}, L, step) /\ \A n \in 0 .. L : f[n] \in V
    <2> HIDE DEF V
    <2> QED BY <1>1, <1>4, <1>6, RecursionExists
  <1>8. f = Body(f)
    <2>1. ASSUME NEW n \in 1 .. L PROVE f[n - 1] \in V
      BY <1>1, <1>7
    <2>2. \A n \in 1 .. L : step[<<n, f[n - 1]>>] = Round(n, f[n - 1])
      <3> HIDE DEF V, Round
      <3> QED BY <1>5, <2>1
    <2>3. \A n \in 0 .. L : n # 0 => n \in 1 .. L
      BY <1>1
    <2> HIDE DEF V
    <2> QED BY <1>7, <2>2, <2>3 DEF Follows
  <1>9. found = Body(found)
    <2> HIDE DEF Body
    <2> QED BY <1>8
  <1>10. found[0] = {} /\ \A n \in 1 .. L : found[n] = Round(n, found[n - 1])
    <2>1. 0 \in 0 .. L /\ \A n \in 1 .. L : n \in 0 .. L /\ n # 0
      BY <1>1
    <2> HIDE DEF found
    <2> QED BY <1>9, <2>1
  <1> HIDE DEF found
  <1> DEFINE D == {n \in 0 .. L :
                     /\ found[n] \subseteq 1 .. n
                     /\ \A v \in 1 .. n :
                          v \in found[n] <=> \A u \in found[n] : u < v => ~Close(u, v)}
  <1>11. 0 \in D
    BY <1>1, <1>10
  <1>12. ASSUME NEW n \in 1 .. L, n - 1 \in D PROVE n \in D
    <2> DEFINE X == found[n - 1]
               Y == found[n]
    <2>1. n \in 0 .. L /\ n \in Nat /\ n - 1 \in Nat
      BY <1>1
    <2>2. /\ X \subseteq 1 .. n - 1
          /\ \A v \in 1 .. n - 1 : v \in X <=> \A u \in X : u < v => ~Close(u, v)
      BY <1>12
    <2>3. Y \subseteq X \cup {n} /\ X \subseteq Y /\ (n \in Y <=> n \in X \/ \A u \in X : ~Close(u, n))
      BY <1>10
    <2> HIDE DEF X, Y
    <2>4. \A u \in X : u < n /\ u \in 1 .. n - 1
      BY <2>1, <2>2
    <2>5. n \in Y <=> \A u \in Y : u < n => ~Close(u, n)
      <3>1. n \notin X /\ ~(n < n)
        BY <2>1, <2>4
      <3>2. \A u \in Y : u \in X \/ u = n
        BY <2>3
      <3> QED BY <2>3, <2>4, <3>1, <3>2
    <2>6. ASSUME NEW v \in 1 .. n - 1
          PROVE  v \in Y <=> \A u \in Y : u < v => ~Close(u, v)
      <3>1. v # n /\ ~(n < v)
        BY <2>1
      <3>2. \A u \in Y : u \in X \/ u = n
        BY <2>3
      <3> QED BY <2>2, <2>3, <3>1, <3>2
    <2>7. Y \subseteq 1 .. n
      BY <2>1, <2>3, <2>4
    <2>8. \A v \in 1 .. n : v = n \/ v \in 1 .. n - 1
      BY <2>1
    <2>9. \A v \in 1 .. n : v \in Y <=> \A u \in Y : u < v => ~Close(u, v)
      BY <2>5, <2>6, <2>8
    <2> QED BY <2>1, <2>7, <2>9 DEF Y
  <1>13. L \in D
    <2>1. L \in 0 .. L
      BY <1>1
    <2> HIDE DEF D
    <2> QED BY <1>1, <1>11, <1>12, <2>1, StepByStep
  <1> QED BY <1>2, <1>13 DEF L

(* Every stop is in reach of a seed, so each is in the group of one.         *)
LEMMA GroupIs ==
  ASSUME VisitsTyped, NEW u \in Seeds, NEW v
  PROVE  v \in Group(u) <=> /\ v \in 1 .. Len(visits)
                            /\ u <= v /\ Close(u, v)
                            /\ \A w \in Seeds : w <= v /\ Close(w, v) => u <= w
  <1> DEFINE L == Len(visits)
             S == InReach(v)
  <1>1. L \in Nat /\ DOMAIN visits = 1 .. L
    BY DEF VisitsTyped
  <1>2. Seeds \subseteq 1 .. L
    BY SeedsAre
  <1>3. \A w : w \in S <=> w \in Seeds /\ w <= v /\ Close(w, v)
    BY DEF InReach
  <1>4. S \subseteq Nat
    <2>1. \A w \in 1 .. L : w \in Nat
      BY <1>1
    <2> HIDE DEF S, L
    <2> QED BY <1>2, <1>3, <2>1
  <1> u \in Nat
    BY <1>1, <1>2
  <1>5. v \in Group(u) <=> v \in 1 .. L /\ Min(S) = u
    BY <1>1 DEF Group
  <1>6. ASSUME v \in 1 .. L PROVE S # {}
    <2>1. CASE v \in Seeds
      <3>1. Close(v, v) /\ v <= v
        BY <1>1, <1>6, CloseToItself
      <3> QED BY <1>3, <2>1, <3>1
    <2>2. CASE v \notin Seeds
      <3>1. PICK w \in Seeds : w < v /\ Close(w, v)
        BY <1>6, <2>2, SeedsAre
      <3>2. w <= v
        BY <1>1, <1>2, <1>6, <3>1
      <3> QED BY <1>3, <3>1, <3>2
    <2> QED BY <2>1, <2>2
  <1> HIDE DEF S, L
  <1>7. ASSUME v \in 1 .. L PROVE Min(S) = u <=> u \in S /\ \A w \in S : u <= w
    <2>1. Min(S) \in S /\ \A w \in S : Min(S) <= w
      BY <1>4, <1>6, <1>7, MinOfNat
    <2>2. Min(S) \in Nat
      BY <1>4, <2>1
    <2> QED BY <2>1, <2>2
  <1> QED BY <1>3, <1>5, <1>7 DEF L

(* What the loop over the stops has sorted after n rounds: a stop has left   *)
(* the unassigned ones exactly if a seed that has left has it in reach.      *)
SortState(L) == [unassigned : SUBSET (1 .. L), places : Seq(SUBSET (1 .. L))]

Gone(sort, L) ==
    \A v \in 1 .. L : v \notin sort.unassigned <=>
      \E u \in Seeds : u \notin sort.unassigned /\ u <= v /\ Close(u, v)

SeedsInOrder(sort) ==
    \A u \in Seeds, w \in sort.unassigned : u \notin sort.unassigned => u < w

GroupsPlaced(sort) ==
    /\ \A p \in 1 .. Len(sort.places) : \E u \in Seeds :
         u \notin sort.unassigned /\ sort.places[p] = Group(u) /\ Recurring(Group(u))
    /\ \A u \in Seeds : u \notin sort.unassigned /\ Recurring(Group(u)) =>
         \E p \in 1 .. Len(sort.places) : sort.places[p] = Group(u)

PlacedOnce(sort) ==
    /\ \A p, q \in 1 .. Len(sort.places) : p # q => sort.places[p] \cap sort.places[q] = {}
    /\ \A p \in 1 .. Len(sort.places) : sort.places[p] \cap sort.unassigned = {}

Sorted(sort, n, L) ==
    /\ sort \in SortState(L) /\ sort.unassigned \subseteq n + 1 .. L
    /\ Gone(sort, L) /\ SeedsInOrder(sort) /\ GroupsPlaced(sort) /\ PlacedOnce(sort)

(* The first stop that is left is a seed, and takes its own group.           *)
LEMMA FirstLeftIsSeed ==
  ASSUME VisitsTyped, NEW sort, NEW n \in Nat, Sorted(sort, n, Len(visits)),
         NEW s \in sort.unassigned, \A w \in sort.unassigned : s <= w
  PROVE  /\ s \in Seeds
         /\ Members(s, sort.unassigned) = Group(s)
         /\ s \in Group(s)
         /\ \A t \in Seeds : t \in Group(s) => t = s
  <1> DEFINE L == Len(visits)
             U == sort.unassigned
  <1>1. L \in Nat /\ DOMAIN visits = 1 .. L /\ Seeds \subseteq 1 .. L
    BY SeedsAre DEF VisitsTyped
  <1>2. U \subseteq 1 .. L /\ s \in 1 .. L
    BY DEF Sorted, SortState
  <1>3. \A v \in 1 .. L : v \notin U <=> \E u \in Seeds : u \notin U /\ u <= v /\ Close(u, v)
    BY DEF Sorted, Gone
  <1>4. \A u \in Seeds, w \in U : u \notin U => u < w
    BY DEF Sorted, SeedsInOrder
  <1>5. \A w \in U : s <= w
    OBVIOUS
  <1>6. Close(s, s)
    BY <1>2, CloseToItself
  <1>7. \A v : v \in Members(s, U) <=> v \in U /\ Close(s, v)
    BY DEF Members, Close
  <1>8. s \in U
    OBVIOUS
  <1>9. \A u \in 1 .. L, w \in 1 .. L : u < w => ~(w <= u) /\ u <= w
    BY <1>1
  <1>10. \A u \in 1 .. L, w \in 1 .. L : u < w \/ w <= u
    BY <1>1
  <1>11. s <= s
    BY <1>1, <1>2
  <1> HIDE DEF L, U
  <1>12. s \in Seeds
    <2>1. ASSUME NEW u \in Seeds, u < s, Close(u, s) PROVE FALSE
      <3>1. u \in 1 .. L /\ u <= s
        BY <1>1, <1>2, <1>9, <2>1
      <3>2. u \notin U
        BY <1>2, <1>5, <1>9, <2>1, <3>1
      <3> QED BY <1>2, <1>3, <1>8, <2>1, <3>1, <3>2
    <2> QED BY <1>2, <2>1, SeedsAre DEF L
  <1>13. \A v : v \in Group(s) <=> /\ v \in 1 .. L /\ s <= v /\ Close(s, v)
                                   /\ \A w \in Seeds : w <= v /\ Close(w, v) => s <= w
    BY <1>12, GroupIs DEF L
  <1>14. ASSUME NEW v \in Members(s, U) PROVE v \in Group(s)
    <2>1. v \in U /\ v \in 1 .. L /\ s <= v /\ Close(s, v)
      BY <1>2, <1>5, <1>7
    <2>2. ASSUME NEW w \in Seeds, w <= v, Close(w, v) PROVE s <= w
      <3>1. w \in U
        BY <1>3, <2>1, <2>2
      <3> QED BY <1>5, <3>1
    <2> QED BY <1>13, <2>1, <2>2
  <1>15. ASSUME NEW v \in Group(s) PROVE v \in Members(s, U)
    <2>1. /\ v \in 1 .. L /\ Close(s, v)
          /\ \A w \in Seeds : w <= v /\ Close(w, v) => s <= w
      BY <1>13
    <2>2. ASSUME v \notin U PROVE FALSE
      <3>1. PICK u \in Seeds : u \notin U /\ u <= v /\ Close(u, v)
        BY <1>3, <2>1, <2>2
      <3>2. s <= u /\ u < s
        BY <1>4, <1>8, <2>1, <3>1
      <3> QED BY <1>1, <1>2, <1>9, <3>2
    <2> QED BY <1>7, <2>1, <2>2
  <1>16. s \in Group(s)
    BY <1>6, <1>7, <1>8, <1>14
  <1>17. ASSUME NEW t \in Seeds, t \in Group(s) PROVE t = s
    <2>1. s <= t /\ Close(s, t) /\ t \in 1 .. L
      BY <1>13, <1>17
    <2>2. ~(s < t)
      BY <1>12, <1>17, <2>1, SeedsAre DEF L
    <2> QED BY <1>1, <1>2, <2>1, <2>2
  <1> QED BY <1>12, <1>14, <1>15, <1>16, <1>17 DEF U

LEMMA AssignIsTyped ==
  ASSUME NEW L \in Nat, NEW sort \in SortState(L), DOMAIN visits = 1 .. L
  PROVE  Assign(sort) \in SortState(L)
  <1> DEFINE group == Members(Min(sort.unassigned), sort.unassigned)
  <1>1. sort.unassigned \subseteq 1 .. L /\ sort.places \in Seq(SUBSET (1 .. L))
    BY DEF SortState
  <1>2. group \in SUBSET (1 .. L)
    BY <1>1 DEF Members
  <1>3. Append(sort.places, group) \in Seq(SUBSET (1 .. L))
    <2> HIDE DEF group
    <2> QED BY <1>1, <1>2, AppendProperties
  <1>4. Assign(sort) = IF sort.unassigned = {} THEN sort
                       ELSE [unassigned |-> sort.unassigned \ group,
                             places |-> IF Recurring(group) THEN Append(sort.places, group)
                                        ELSE sort.places]
    BY DEF Assign
  <1> HIDE DEF group
  <1>5. sort.unassigned \ group \in SUBSET (1 .. L)
    BY <1>1
  <1>6. (IF Recurring(group) THEN Append(sort.places, group) ELSE sort.places)
          \in Seq(SUBSET (1 .. L))
    BY <1>1, <1>3
  <1> QED BY <1>4, <1>5, <1>6 DEF SortState

LEMMA SortStep ==
  ASSUME VisitsTyped, NEW n \in 1 .. Len(visits), NEW sort, Sorted(sort, n - 1, Len(visits))
  PROVE  Sorted(Assign(sort), n, Len(visits))
  <1> DEFINE L == Len(visits)
             U == sort.unassigned
             P == sort.places
             s == Min(U)
             G == Group(s)
  <1>1. L \in Nat /\ DOMAIN visits = 1 .. L /\ Seeds \subseteq 1 .. L /\ n \in Nat /\ n - 1 \in Nat
    BY SeedsAre DEF VisitsTyped
  <1>2. sort \in SortState(L) /\ Assign(sort) \in SortState(L)
    BY <1>1, AssignIsTyped DEF Sorted
  <1>3. U \subseteq 1 .. L /\ U \subseteq n .. L /\ P \in Seq(SUBSET (1 .. L))
    <2>1. (n - 1) + 1 = n
      BY <1>1
    <2> QED BY <1>2, <2>1 DEF Sorted, SortState
  <1>4. Gone(sort, L) /\ SeedsInOrder(sort) /\ GroupsPlaced(sort) /\ PlacedOnce(sort)
    BY DEF Sorted
  <1>5. CASE U = {}
    <2>1. Assign(sort) = sort
      BY <1>5 DEF Assign
    <2>2. U \subseteq n + 1 .. L
      BY <1>5
    <2> QED BY <1>2, <1>4, <2>1, <2>2 DEF Sorted
  <1>6. CASE U # {}
    <2> DEFINE new == Assign(sort)
               k == Len(P)
               more == Append(P, G)
    <2>1. s \in U /\ \A w \in U : s <= w
      <3>1. U \subseteq Nat
        BY <1>1, <1>3
      <3> HIDE DEF U
      <3> QED BY <1>6, <3>1, MinOfNat
    <2> HIDE DEF s
    <2>2. s \in Seeds /\ Members(s, U) = G /\ s \in G /\ \A t \in Seeds : t \in G => t = s
      BY <1>1, <2>1, FirstLeftIsSeed
    <2>3. new.unassigned = U \ G /\ new.places = IF Recurring(G) THEN more ELSE P
      BY <1>6, <2>2 DEF Assign, s
    <2> HIDE DEF G, U, P, L, new
    <2>4. G \subseteq U
      BY <2>2 DEF Members
    <2>5. new.unassigned \subseteq n + 1 .. L
      <3>1. ASSUME NEW w \in U, w \notin G PROVE w \in n + 1 .. L
        <4>1. s <= w /\ w # s /\ s \in n .. L /\ w \in n .. L
          BY <1>3, <2>1, <2>2, <3>1
        <4> QED BY <1>1, <4>1
      <3> QED BY <2>3, <3>1
    <2>6. \A u \in Seeds : u \notin new.unassigned <=> u \notin U \/ u = s
      BY <2>1, <2>2, <2>3
    <2>7. Gone(new, L)
      <3> SUFFICES ASSUME NEW v \in 1 .. L
                   PROVE  v \notin new.unassigned <=>
                            \E u \in Seeds : u \notin new.unassigned /\ u <= v /\ Close(u, v)
        BY DEF Gone
      <3>1. v \notin U <=> \E u \in Seeds : u \notin U /\ u <= v /\ Close(u, v)
        BY <1>4 DEF Gone, U
      <3>2. v \in G => s <= v /\ Close(s, v)
        BY <2>1, <2>2, GroupIs DEF G
      <3>3. v \in U /\ Close(s, v) => v \in G
        BY <2>2 DEF Members, Close
      <3> QED BY <2>2, <2>3, <2>4, <2>6, <3>1, <3>2, <3>3
    <2>8. SeedsInOrder(new)
      <3> SUFFICES ASSUME NEW u \in Seeds, NEW w \in new.unassigned, u \notin new.unassigned
                   PROVE  u < w
        BY DEF SeedsInOrder
      <3>1. w \in U /\ w # s
        BY <2>2, <2>3
      <3>2. CASE u = s
        <4>1. s <= w /\ s \in 1 .. L /\ w \in 1 .. L
          BY <1>3, <2>1, <3>1
        <4> QED BY <1>1, <3>1, <3>2, <4>1
      <3>3. CASE u \notin U
        BY <1>4, <3>1, <3>3 DEF SeedsInOrder, U
      <3> QED BY <2>6, <3>2, <3>3
    <2>9. k \in Nat
      BY <1>3, LenProperties
    <2>10. G \in SUBSET (1 .. L)
      BY <1>3, <2>4
    <2>11. /\ Len(more) = k + 1 /\ more[k + 1] = G
           /\ \A p \in 1 .. k : more[p] = P[p]
      BY <1>3, <2>10, AppendProperties
    <2>12. \A p \in 1 .. k : \E u \in Seeds : u \notin U /\ P[p] = Group(u) /\ Recurring(Group(u))
      BY <1>4 DEF GroupsPlaced, U, P
    <2>13. \A u \in Seeds : u \notin U /\ Recurring(Group(u)) => \E p \in 1 .. k : P[p] = Group(u)
      BY <1>4 DEF GroupsPlaced, U, P
    <2>14. /\ \A p, q \in 1 .. k : p # q => P[p] \cap P[q] = {}
           /\ \A p \in 1 .. k : P[p] \cap U = {}
      BY <1>4 DEF PlacedOnce, U, P
    <2> HIDE DEF more
    <2>15. k \in Nat /\ k + 1 \in 1 .. k + 1 /\ \A p \in 1 .. k + 1 : p = k + 1 \/ p \in 1 .. k
      BY <2>9
    <2>16. \A p \in 1 .. k : p \in 1 .. k + 1 /\ p # k + 1
      BY <2>9
    <2>17. G = Group(s)
      BY DEF G
    <2> HIDE DEF k
    <2>18. CASE Recurring(G)
      <3>1. new.places = more
        BY <2>3, <2>18
      <3>2. GroupsPlaced(new)
        <4>1. ASSUME NEW p \in 1 .. k + 1
              PROVE  \E u \in Seeds : u \notin new.unassigned /\ more[p] = Group(u)
                                        /\ Recurring(Group(u))
          <5>1. CASE p = k + 1
            BY <2>2, <2>6, <2>11, <2>17, <2>18, <5>1
          <5>2. CASE p \in 1 .. k
            BY <2>6, <2>11, <2>12, <5>2
          <5> QED BY <2>15, <5>1, <5>2
        <4>2. ASSUME NEW u \in Seeds, u \notin new.unassigned, Recurring(Group(u))
              PROVE  \E p \in 1 .. k + 1 : more[p] = Group(u)
          <5>1. CASE u = s
            BY <2>11, <2>15, <2>17, <5>1
          <5>2. CASE u \notin U
            <6>1. PICK p \in 1 .. k : P[p] = Group(u)
              BY <2>13, <4>2, <5>2
            <6> QED BY <2>11, <2>16, <6>1
          <5> QED BY <2>6, <4>2, <5>1, <5>2
        <4> QED BY <2>11, <3>1, <4>1, <4>2 DEF GroupsPlaced
      <3>3. PlacedOnce(new)
        <4>1. ASSUME NEW p \in 1 .. k + 1, NEW q \in 1 .. k + 1, p # q
              PROVE  more[p] \cap more[q] = {}
          <5>1. CASE p = k + 1
            <6>1. q \in 1 .. k
              BY <2>15, <4>1, <5>1
            <6> QED BY <2>4, <2>11, <2>14, <5>1, <6>1
          <5>2. CASE q = k + 1
            <6>1. p \in 1 .. k
              BY <2>15, <4>1, <5>2
            <6> QED BY <2>4, <2>11, <2>14, <5>2, <6>1
          <5>3. CASE p \in 1 .. k /\ q \in 1 .. k
            BY <2>11, <2>14, <4>1, <5>3
          <5> QED BY <2>15, <5>1, <5>2, <5>3
        <4>2. ASSUME NEW p \in 1 .. k + 1 PROVE more[p] \cap (U \ G) = {}
          <5>1. CASE p = k + 1
            BY <2>11, <5>1
          <5>2. CASE p \in 1 .. k
            BY <2>11, <2>14, <5>2
          <5> QED BY <2>15, <5>1, <5>2
        <4> QED BY <2>3, <2>11, <3>1, <4>1, <4>2 DEF PlacedOnce
      <3> QED BY <1>2, <2>5, <2>7, <2>8, <3>2, <3>3 DEF Sorted, L, new
    <2>19. CASE ~Recurring(G)
      <3>1. new.places = P
        BY <2>3, <2>19
      <3>2. GroupsPlaced(new)
        <4>1. \A p \in 1 .. k : \E u \in Seeds :
                u \notin new.unassigned /\ P[p] = Group(u) /\ Recurring(Group(u))
          BY <2>6, <2>12
        <4>2. \A u \in Seeds : u \notin new.unassigned /\ Recurring(Group(u)) =>
                \E p \in 1 .. k : P[p] = Group(u)
          BY <2>6, <2>13, <2>17, <2>19
        <4> QED BY <3>1, <4>1, <4>2 DEF GroupsPlaced, k
      <3>3. PlacedOnce(new)
        BY <2>3, <2>14, <3>1 DEF PlacedOnce, k
      <3> QED BY <1>2, <2>5, <2>7, <2>8, <3>2, <3>3 DEF Sorted, L, new
    <2> QED BY <2>18, <2>19
  <1> QED BY <1>5, <1>6

LEMMA AllAreSorted ==
  ASSUME VisitsTyped
  PROVE  \E sort : Sorted(sort, Len(visits), Len(visits)) /\ Places = sort.places
  <1> DEFINE L == Len(visits)
             V == SortState(L)
             first == [unassigned |-> DOMAIN visits, places |-> <<>>]
             step == [p \in (1 .. L) \X V |-> Assign(p[2])]
             Body(f) == [n \in 0 .. L |-> IF n = 0 THEN [unassigned |-> DOMAIN visits, places |-> <<>>]
                                          ELSE Assign(f[n - 1])]
             round == CHOOSE f : f = Body(f)
  <1>1. L \in Nat /\ DOMAIN visits = 1 .. L
    BY DEF VisitsTyped
  <1>2. Places = round[L].places
    BY DEF Places
  <1>3. \A v \in V : Assign(v) \in V
    BY <1>1, AssignIsTyped
  <1>4. first \in V
    <2>1. <<>> \in Seq(SUBSET (1 .. L))
      BY EmptySeq
    <2> QED BY <1>1, <2>1 DEF SortState
  <1>5. /\ first.unassigned = 1 .. L /\ first.places = <<>>
        /\ first = [unassigned |-> DOMAIN visits, places |-> <<>>]
    BY <1>1
  <1> HIDE DEF V, L, first
  <1>6. step \in [(1 .. L) \X V -> V]
    BY <1>3
  <1>7. \A n \in 1 .. L : \A v \in V : step[<<n, v>>] = Assign(v)
    OBVIOUS
  <1> HIDE DEF step
  <1>8. PICK f : Follows(f, first, L, step) /\ \A n \in 0 .. L : f[n] \in V
    BY <1>1, <1>4, <1>6, RecursionExists
  <1>9. f = Body(f)
    <2>1. ASSUME NEW n \in 1 .. L PROVE f[n - 1] \in V
      BY <1>1, <1>8
    <2>2. \A n \in 1 .. L : step[<<n, f[n - 1]>>] = Assign(f[n - 1])
      BY <1>7, <2>1
    <2>3. \A n \in 0 .. L : n # 0 => n \in 1 .. L
      BY <1>1
    <2> QED BY <1>5, <1>8, <2>2, <2>3 DEF Follows
  <1>10. round = Body(round)
    <2> HIDE DEF Body
    <2> QED BY <1>9
  <1>11. round[0] = first /\ \A n \in 1 .. L : round[n] = Assign(round[n - 1])
    <2>1. 0 \in 0 .. L /\ \A n \in 1 .. L : n \in 0 .. L /\ n # 0
      BY <1>1
    <2> HIDE DEF round
    <2> QED BY <1>5, <1>10, <2>1
  <1> HIDE DEF round
  <1> DEFINE D == {n \in 0 .. L : Sorted(round[n], n, L)}
  <1>12. 0 \in D
    <2>1. Len(first.places) = 0
      BY <1>5, EmptySeq
    <2>2. Seeds \subseteq 1 .. L
      BY SeedsAre DEF L
    <2>3. Gone(first, L) /\ SeedsInOrder(first)
      BY <1>5, <2>2 DEF Gone, SeedsInOrder
    <2>4. GroupsPlaced(first) /\ PlacedOnce(first)
      BY <1>5, <2>1, <2>2 DEF GroupsPlaced, PlacedOnce
    <2>5. first.unassigned \subseteq 0 + 1 .. L
      BY <1>5
    <2>6. Sorted(first, 0, L)
      BY <1>4, <2>3, <2>4, <2>5 DEF Sorted, V
    <2> QED BY <1>1, <1>11, <2>6
  <1>13. ASSUME NEW n \in 1 .. L, n - 1 \in D PROVE n \in D
    <2>1. Sorted(Assign(round[n - 1]), n, L)
      BY <1>13, SortStep DEF L
    <2> QED BY <1>1, <1>11, <2>1
  <1>14. L \in D
    <2>1. L \in 0 .. L
      BY <1>1
    <2> HIDE DEF D
    <2> QED BY <1>1, <1>12, <1>13, <2>1, StepByStep
  <1> QED BY <1>2, <1>14 DEF L

LEMMA PlacesAreFound == NormalizationInit => PlacesAreGroups
  <1> SUFFICES ASSUME NormalizationInit PROVE PlacesAreGroups
    OBVIOUS
  <1> DEFINE L == Len(visits)
  <1>1. VisitsTyped
    <2>1. PICK n \in 0 .. MaxVisits : visits \in [1 .. n -> Visit]
      BY DEF NormalizationInit
    <2>2. n \in Nat
      BY <2>1, NormalizationAssumption
    <2>3. Len(visits) = n /\ DOMAIN visits = 1 .. n
      BY <2>1, <2>2
    <2>4. \A v \in 1 .. n : visits[v].pos \in Int
      BY <2>1, NormalizationAssumption
    <2> QED BY <2>2, <2>3, <2>4 DEF VisitsTyped
  <1>2. PICK sort : Sorted(sort, L, L) /\ Places = sort.places
    BY <1>1, AllAreSorted
  <1>3. L \in Nat /\ Seeds \subseteq 1 .. L
    BY <1>1, SeedsAre DEF VisitsTyped
  <1> HIDE DEF L
  <1>4. sort.unassigned = {}
    <2>1. L + 1 .. L = {}
      BY <1>3
    <2> QED BY <1>2, <2>1 DEF Sorted
  <1>5. Places \in Seq(SUBSET (1 .. L))
    BY <1>2 DEF Sorted, SortState
  <1>6. DOMAIN Places = 1 .. Len(Places)
    BY <1>5, LenProperties
  <1>7. /\ \A p \in DOMAIN Places : \E u \in Seeds : Places[p] = Group(u) /\ Recurring(Group(u))
        /\ \A u \in Seeds : Recurring(Group(u)) => \E p \in DOMAIN Places : Places[p] = Group(u)
    BY <1>2, <1>4, <1>6 DEF Sorted, GroupsPlaced
  <1>8. \A p, q \in DOMAIN Places : p # q => Places[p] \cap Places[q] = {}
    BY <1>2, <1>6 DEF Sorted, PlacedOnce
  <1>9. ToSet(Places) = {Group(u) : u \in {w \in Seeds : Recurring(Group(w))}}
    BY <1>7 DEF ToSet
  <1> QED BY <1>8, <1>9 DEF PlacesAreGroups, Group, InReach, Close

(* The normalisation of an import: whatever the order of its rows, every     *)
(* stay is covered by a stop and no visit is counted in two places.          *)
THEOREM ImportsAreNormalised == NormalizationInit => StaysAndPlaces
  BY StaysAreFound, PlacesAreFound DEF StaysAndPlaces
=============================================================================
