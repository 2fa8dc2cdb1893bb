----------------------- MODULE SessionRetentionProofs -----------------------
(***************************************************************************)
(* What holds of sessions and the retention sweep for every number of       *)
(* identities, every window and every batch size, under the assumption      *)
(* Slack of SessionRetention.                                               *)
(***************************************************************************)
EXTENDS SessionRetention, FiniteSetTheorems, TLAPS

(* The statements are numbered 1 to 10 and session_activity is the 11th.     *)
LEMMA StepCount == Len(SweepOrder) = 10 /\ ActivityStep = 11
BY DEF SweepOrder, ActivityStep

(* A fresh row is well typed.                                                *)
LEMMA NewRowType ==
  ASSUME NEW i \in Identity, NEW t \in Nat, NEW k \in Nat, NEW r \in Nat
  PROVE  NewRow(i, t, k, r) \in Row
BY DEF NewRow, Row

(* A writing request leaves rows that were there, rows edited in place (same *)
(* owner and id), or rows of its own under a fresh id.                       *)
Fresh(i) == {r \in Row : r.owner = i /\ r.id = NewId}
Kept(R) == {r \in Row : \E q \in R : q.id = r.id /\ q.owner = r.owner}

LEMMA WriteRows ==
  ASSUME TypeOK, NEW i \in Identity, Write(i)
  PROVE  /\ db' \in [Table -> SUBSET Row]
         /\ \A u \in Table : db'[u] \subseteq Kept(db[u]) \cup Fresh(i)
<1>1. NewId \in Nat /\ Stamp(i) \subseteq Nat
  BY DEF NewId, Stamp, TypeOK
<1>2. \A t \in Nat, k \in Nat : NewRow(i, t, NewId, k) \in Fresh(i)
  BY <1>1 DEF NewRow, Row, Fresh
<1>3. \A u \in Table : db[u] \subseteq Row /\ db[u] \subseteq Kept(db[u])
  BY DEF TypeOK, Kept
<1>4. Fresh(i) \subseteq Row /\ \A u \in Table : Kept(db[u]) \subseteq Row
  BY DEF Fresh, Kept
<1>5. db \in [Table -> SUBSET Row]
  BY DEF TypeOK
<1> SUFFICES /\ db' \in [Table -> SUBSET Row]
             /\ \A u \in Table : db'[u] \subseteq Kept(db[u]) \cup Fresh(i)
  OBVIOUS
<1>6. CASE CreatePlace(i)
  <2>1. PICK t \in Stamp(i) :
          db' = [db EXCEPT !["place_clusters"] = @ \cup {NewRow(i, t, NewId, 0)}]
    BY <1>6 DEF CreatePlace
  <2>2. NewRow(i, t, NewId, 0) \in Fresh(i)
    BY <1>1, <1>2
  <2> QED
    BY <2>1, <2>2, <1>3, <1>4, <1>5
<1>7. CASE EditPlace(i)
  <2>1. PICK c \in Own("place_clusters", i), t \in Stamp(i) :
          db' = [db EXCEPT !["place_clusters"] =
                   (@ \ {c}) \cup {[c EXCEPT !.touched = t]}]
    BY <1>7 DEF EditPlace
  <2>2. [c EXCEPT !.touched = t] \in Kept(db["place_clusters"])
    BY <1>1, <1>3 DEF Own, Kept, Row, Table
  <2> QED
    BY <2>1, <2>2, <1>3, <1>4, <1>5
<1>8. CASE Analyze(i)
  <2>1. PICK places \in SUBSET Own("place_clusters", i), t \in Stamp(i) :
          db' = [db EXCEPT
              !["analysis_runs"] = @ \cup {NewRow(i, t, NewId, 0)},
              !["place_crime_summaries"] =
                 @ \cup {NewRow(i, t, NewId, c.id) : c \in places}]
    BY <1>8 DEF Analyze
  <2>2. NewRow(i, t, NewId, 0) \in Fresh(i)
    BY <1>1, <1>2
  <2>3. \A c \in places : c.id \in Nat
    BY <1>3 DEF Own, Row, Table
  <2>4. {NewRow(i, t, NewId, c.id) : c \in places} \subseteq Fresh(i)
    BY <1>1, <1>2, <2>3
  <2> QED
    BY <2>1, <2>2, <2>4, <1>3, <1>4, <1>5
<1>9. CASE Compare(i)
  <2>1. PICK t \in Stamp(i) :
          db' = [db EXCEPT
           !["statistical_comparisons"] = @ \cup {NewRow(i, t, NewId, 0)},
           !["statistical_comparison_options"] =
              @ \cup {NewRow(i, t, NewId, slot) : slot \in {1, 2}},
           !["statistical_pairwise_results"] = @ \cup {NewRow(i, t, NewId, 1)}]
    BY <1>9 DEF Compare
  <2>2. NewRow(i, t, NewId, 0) \in Fresh(i) /\ NewRow(i, t, NewId, 1) \in Fresh(i)
        /\ {NewRow(i, t, NewId, slot) : slot \in {1, 2}} \subseteq Fresh(i)
    BY <1>1, <1>2
  <2> QED
    BY <2>1, <2>2, <1>3, <1>4, <1>5
<1>10. CASE CreateReport(i)
  <2>1. PICK t \in Stamp(i) :
          db' = [db EXCEPT !["analysis_report_snapshots"] =
                   @ \cup {NewRow(i, t, NewId, 0)}]
    BY <1>10 DEF CreateReport
  <2>2. NewRow(i, t, NewId, 0) \in Fresh(i)
    BY <1>1, <1>2
  <2> QED
    BY <2>1, <2>2, <1>3, <1>4, <1>5
<1>11. CASE Upload(i)
  <2>a. PICK t \in Stamp(i) : \E raw \in SUBSET {NewRow(i, t, NewId, NewId)} :
            db' = [db EXCEPT
               !["place_clusters"] = @ \cup {NewRow(i, t, NewId, NewId)},
               !["stop_visits"] = @ \cup raw,
               !["staging_location_observations"] = @ \cup raw,
               !["import_batches"] = @ \cup raw]
    BY <1>11, Zenon DEF Upload
  <2>1. PICK raw \in SUBSET {NewRow(i, t, NewId, NewId)} :
            db' = [db EXCEPT
               !["place_clusters"] = @ \cup {NewRow(i, t, NewId, NewId)},
               !["stop_visits"] = @ \cup raw,
               !["staging_location_observations"] = @ \cup raw,
               !["import_batches"] = @ \cup raw]
    BY <2>a
  <2>2. NewRow(i, t, NewId, NewId) \in Fresh(i) /\ raw \subseteq Fresh(i)
    BY <1>1, <1>2, <2>1
  <2>3. \A u \in Table : db'[u] \subseteq db[u] \cup Fresh(i)
    BY <2>1, <2>2, <1>5
  <2>4. db' \in [Table -> SUBSET Row]
    BY <2>1, <2>2, <1>4, <1>5
  <2> QED
    BY <2>3, <2>4, <1>3
<1>12. CASE Import(i)
  <2>1. PICK t \in Stamp(i) :
          db' = [db EXCEPT
               !["import_batches"] = @ \cup {NewRow(i, t, NewId, NewId)},
               !["staging_location_observations"] =
                  @ \cup {NewRow(i, t, NewId, NewId)}]
    BY <1>12 DEF Import
  <2>2. NewRow(i, t, NewId, NewId) \in Fresh(i)
    BY <1>1, <1>2
  <2> QED
    BY <2>1, <2>2, <1>3, <1>4, <1>5
<1>13. CASE Normalize(i)
  <2>a. PICK b \in Own("import_batches", i), t \in Stamp(i) : \E old, new :
            /\ new \subseteq {NewRow(i, t, NewId, b.id)}
            /\ db' = [db EXCEPT
               !["place_crime_summaries"] = {s \in @ : s.ref \notin old},
               !["stop_visits"] = {s \in @ : s.ref # b.id} \cup new,
               !["place_clusters"] =
                  {c \in @ : ~(c.id \in old /\ c.owner = i)} \cup new]
    <3>1. PICK b \in Own("import_batches", i), t \in Stamp(i) :
            LET old == {s.id : s \in {s \in Own("stop_visits", i) : s.ref = b.id}}
                new == IF \E s \in db["staging_location_observations"] : s.ref = b.id
                       THEN {NewRow(i, t, NewId, b.id)} ELSE {}
            IN  db' = [db EXCEPT
                  !["place_crime_summaries"] = {s \in @ : s.ref \notin old},
                  !["stop_visits"] = {s \in @ : s.ref # b.id} \cup new,
                  !["place_clusters"] =
                     {c \in @ : ~(c.id \in old /\ c.owner = i)} \cup new]
      BY <1>13 DEF Normalize
    <3> DEFINE old == {s.id : s \in {s \in Own("stop_visits", i) : s.ref = b.id}}
               new == IF \E s \in db["staging_location_observations"] : s.ref = b.id
                      THEN {NewRow(i, t, NewId, b.id)} ELSE {}
    <3>2. new \subseteq {NewRow(i, t, NewId, b.id)}
      OBVIOUS
    <3>3. db' = [db EXCEPT
                  !["place_crime_summaries"] = {s \in @ : s.ref \notin old},
                  !["stop_visits"] = {s \in @ : s.ref # b.id} \cup new,
                  !["place_clusters"] =
                     {c \in @ : ~(c.id \in old /\ c.owner = i)} \cup new]
      BY <3>1
    <3> HIDE DEF old, new
    <3> QED
      BY <3>2, <3>3
  <2>1. PICK old, new :
            /\ new \subseteq {NewRow(i, t, NewId, b.id)}
            /\ db' = [db EXCEPT
               !["place_crime_summaries"] = {s \in @ : s.ref \notin old},
               !["stop_visits"] = {s \in @ : s.ref # b.id} \cup new,
               !["place_clusters"] =
                  {c \in @ : ~(c.id \in old /\ c.owner = i)} \cup new]
    BY <2>a
  <2>2. b.id \in Nat
    BY <1>3 DEF Own, Row, Table
  <2>3. new \subseteq Fresh(i)
    BY <1>1, <1>2, <2>1, <2>2
  <2>4. \A u \in Table : db'[u] \subseteq db[u] \cup Fresh(i)
    BY <2>1, <2>3, <1>5
  <2>5. db' \in [Table -> SUBSET Row]
    BY <2>1, <2>3, <1>4, <1>5
  <2> QED
    BY <2>4, <2>5, <1>3
<1> QED
  BY <1>6, <1>7, <1>8, <1>9, <1>10, <1>11, <1>12, <1>13 DEF Write

(* The rest of what a writing request does.                                  *)
LEMMA WriteCommits ==
  ASSUME NEW i \in Identity, Write(i)
  PROVE  /\ InFlight(i)
         /\ writes' = writes + 1
         /\ \E t \in Stamp(i) : Ends(i, t)
         /\ UNCHANGED <<now, issued, expires, lastSeen, sweep, crashes>>
<1>1. \E t \in Stamp(i) : Commit(i, t)
  BY DEF Write, CreatePlace, EditPlace, Analyze, Compare, CreateReport, Upload,
         Import, Normalize
<1>2. PICK t \in Stamp(i) : Commit(i, t)
  BY <1>1
<1> QED
  BY <1>2 DEF Commit, Ends, InFlight, session

(* The instants of a request in flight.                                      *)
LEMMA StampType ==
  ASSUME TypeOK, NEW i \in Identity, NEW t \in Stamp(i)
  PROVE  /\ InFlight(i)
         /\ t \in Nat \ {0} /\ t <= now
         /\ \E s \in since[i] : s <= t
<1>1. PICK s \in since[i] : t \in s .. now
  BY DEF Stamp
<1>2. s \in Nat \ {0} /\ now \in Nat
  BY <1>1 DEF TypeOK
<1> QED
  BY <1>1, <1>2 DEF InFlight

(* Whatever request ends, the ones left were in flight before.               *)
LEMMA EndsType ==
  ASSUME TypeOK, NEW i \in Identity, NEW t, Ends(i, t)
  PROVE  /\ InFlight(i)
         /\ since' \in [Identity -> SUBSET (Nat \ {0})]
         /\ \A j \in Identity : since'[j] \subseteq since[j]
BY DEF Ends, InFlight, TypeOK

LEMMA RequestEnds ==
  ASSUME TypeOK, NEW i \in Identity, Resume(i) \/ Fail(i) \/ Write(i)
  PROVE  /\ InFlight(i)
         /\ since' \in [Identity -> SUBSET (Nat \ {0})]
         /\ \A j \in Identity : since'[j] \subseteq since[j]
         /\ UNCHANGED <<now, issued, sweep, crashes>>
<1>1. \E t : Ends(i, t)
  BY WriteCommits DEF Resume, Fail
<1>2. UNCHANGED <<now, issued, sweep, crashes>>
  BY WriteCommits DEF Resume, Fail, session
<1> QED
  BY <1>1, <1>2, EndsType

(* A resume stamps the activity row with an instant between its              *)
(* authentication and its commit, and signs no later than that.              *)
LEMMA ResumeShape ==
  ASSUME TypeOK, NEW i \in Identity, Resume(i)
  PROVE  /\ i \in Public /\ UNCHANGED <<db, writes>>
         /\ \E signed \in Stamp(i), seen \in Stamp(i) :
              /\ signed <= seen
              /\ lastSeen' = [lastSeen EXCEPT ![i] = seen]
              /\ \/ expires' = [expires EXCEPT ![i] = TokenExpiry(signed, issued[i])]
                 \/ expires' = expires
<1>1. PICK signed \in Stamp(i) : \E seen \in signed .. now :
              /\ lastSeen' = [lastSeen EXCEPT ![i] = seen]
              /\ \/ expires' = [expires EXCEPT ![i] = TokenExpiry(signed, issued[i])]
                 \/ expires' = expires
  BY DEF Resume
<1>2. PICK seen \in signed .. now :
              /\ lastSeen' = [lastSeen EXCEPT ![i] = seen]
              /\ \/ expires' = [expires EXCEPT ![i] = TokenExpiry(signed, issued[i])]
                 \/ expires' = expires
  BY <1>1
<1>3. PICK s \in since[i] : signed \in s .. now
  BY DEF Stamp
<1>4. s \in Nat /\ now \in Nat
  BY <1>3 DEF TypeOK
<1>5. seen \in s .. now /\ signed <= seen
  BY <1>2, <1>3, <1>4
<1>6. seen \in Stamp(i)
  BY <1>5 DEF Stamp
<1> QED
  BY <1>2, <1>5, <1>6 DEF Resume

(* A batch takes rows out of one table and leaves the others alone.          *)
LEMMA BatchShape ==
  ASSUME TypeOK, SweepBatch
  PROVE  /\ db' \in [Table -> SUBSET Row]
         /\ \A t \in Table : db'[t] \subseteq db[t]
         /\ \A t \in Table : \A r \in db[t] \ db'[t] : r \in Victims(t, sweep.cutoff)
         /\ sweep' \in [step : 0 .. ActivityStep, cutoff : Int]
         /\ Sweeping /\ sweep'.cutoff = sweep.cutoff
         /\ UNCHANGED <<now, issued, expires, lastSeen, since, writes, crashes>>
<1>1. sweep.step \in 1 .. Len(SweepOrder)
  BY DEF SweepBatch
<1> DEFINE t0 == SweepOrder[sweep.step]
<1>2. PICK gone \in SUBSET Victims(t0, sweep.cutoff) :
        /\ db' = [db EXCEPT ![t0] = @ \ gone]
        /\ sweep' = IF Cardinality(gone) < BatchSize
                    THEN [sweep EXCEPT !.step = @ + 1] ELSE sweep
  BY DEF SweepBatch
<1> HIDE DEF t0
<1>3. sweep' \in [step : 0 .. ActivityStep, cutoff : Int] /\ Sweeping
      /\ sweep'.cutoff = sweep.cutoff
  BY <1>1, <1>2, StepCount DEF TypeOK, Sweeping
<1>4. /\ db' \in [Table -> SUBSET Row]
      /\ \A t \in Table : db'[t] \subseteq db[t]
      /\ \A t \in Table : \A r \in db[t] \ db'[t] : r \in Victims(t, sweep.cutoff)
  BY <1>2 DEF TypeOK
<1> QED
  BY <1>3, <1>4 DEF SweepBatch, session

-----------------------------------------------------------------------------
(* Every step keeps the types.                                               *)
LEMMA TypeStep == TypeOK /\ [Next]_vars => TypeOK'
<1> SUFFICES ASSUME TypeOK, [Next]_vars PROVE TypeOK'
  OBVIOUS
<1> USE TimingAssumption DEF TypeOK, session
<1>1. ASSUME NEW i \in Identity, CreateSession(i) PROVE TypeOK'
  BY <1>1 DEF CreateSession, TokenExpiry, Earlier
<1>2. ASSUME NEW i \in Identity, DeleteSession(i) PROVE TypeOK'
  BY <1>2 DEF DeleteSession
<1>3. ASSUME NEW i \in Identity, Begin(i) PROVE TypeOK'
  BY <1>3 DEF Begin
<1>4. ASSUME NEW i \in Identity, Resume(i) PROVE TypeOK'
  <2>1. PICK signed \in Stamp(i), seen \in Stamp(i) :
              /\ lastSeen' = [lastSeen EXCEPT ![i] = seen]
              /\ \/ expires' = [expires EXCEPT ![i] = TokenExpiry(signed, issued[i])]
                 \/ expires' = expires
    BY <1>4, ResumeShape
  <2>2. signed \in Nat /\ seen \in Nat
    BY StampType
  <2>3. TokenExpiry(signed, issued[i]) \in Nat
    BY <2>2 DEF TokenExpiry, Earlier
  <2>4. lastSeen' \in [Identity -> Nat] /\ expires' \in [Identity -> Nat]
    BY <2>1, <2>2, <2>3
  <2> QED
    BY <1>4, <2>4, ResumeShape, RequestEnds
<1>5. ASSUME NEW i \in Identity, Fail(i) PROVE TypeOK'
  BY <1>5, RequestEnds DEF Fail
<1>6. ASSUME NEW i \in Identity, Write(i) PROVE TypeOK'
  BY <1>6, WriteRows, WriteCommits, RequestEnds
<1>7. CASE SweepStart
  BY <1>7, StepCount DEF SweepStart
<1>8. CASE SweepBatch
  BY <1>8, BatchShape
<1>9. CASE SweepActivity
  BY <1>9, StepCount DEF SweepActivity
<1>10. CASE SweepCrash
  BY <1>10, StepCount DEF SweepCrash
<1>11. CASE Tick
  BY <1>11 DEF Tick
<1>12. CASE UNCHANGED vars
  BY <1>12 DEF vars
<1> QED
  BY <1>1, <1>2, <1>3, <1>4, <1>5, <1>6, <1>7, <1>8, <1>9, <1>10, <1>11, <1>12
  DEF Next, Sweep

(* TypeOK is an invariant.                                                   *)
THEOREM TypeCorrect == Spec => []TypeOK
<1>1. Init => TypeOK
  BY StepCount DEF Init, TypeOK
<1>2. TypeOK /\ [Next]_vars => TypeOK'
  BY TypeStep
<1> QED
  BY <1>1, <1>2, PTL DEF Spec

-----------------------------------------------------------------------------
(* Why no reachable identity is ever swept: a cookie or a request in flight  *)
(* goes back to an activity row less than TTL + RequestBound, or one more    *)
(* RequestBound, old, and a sweep's cutoff is at least Retention in the past. *)
(* A resume stamps the row with an instant at most RequestBound before its   *)
(* commit, and no cookie was signed after that commit.                       *)

CookieInv ==
    \A i \in Public :
        /\ expires[i] <= now + TTL
        /\ expires[i] > now =>
             /\ issued[i] # 0 /\ lastSeen[i] # 0
             /\ expires[i] <= lastSeen[i] + TTL + RequestBound

RequestInv ==
    \A i \in Public : \A s \in since[i] :
        /\ issued[i] # 0
        /\ lastSeen[i] # 0 /\ s < lastSeen[i] + TTL + RequestBound
        /\ s <= now /\ now <= s + RequestBound

ClockInv ==
    /\ \A i \in Identity : lastSeen[i] <= now
    /\ Sweeping => sweep.cutoff + Retention <= now

SessionInv == TypeOK /\ CookieInv /\ RequestInv /\ ClockInv

LEMMA LiveIsActive ==
  ASSUME SessionInv, Sweeping, NEW i \in Public, expires[i] > now \/ InFlight(i)
  PROVE  lastSeen[i] # 0 /\ lastSeen[i] >= sweep.cutoff
<1>1. /\ TTL \in Nat \ {0} /\ Retention \in Nat /\ RequestBound \in Nat
      /\ Retention >= TTL + 2 * RequestBound
  BY TimingAssumption, Slack
<1>2. /\ now \in Nat /\ lastSeen[i] \in Nat /\ expires[i] \in Nat
      /\ sweep.cutoff \in Int /\ sweep.cutoff + Retention <= now
  BY DEF SessionInv, TypeOK, ClockInv, Identity
<1>3. CASE expires[i] > now
  BY <1>1, <1>2, <1>3 DEF SessionInv, CookieInv
<1>4. CASE InFlight(i)
  <2>1. PICK s \in since[i] : TRUE
    BY <1>4 DEF InFlight
  <2>2. s \in Nat
    BY DEF SessionInv, TypeOK, Identity
  <2>3. lastSeen[i] # 0 /\ s < lastSeen[i] + TTL + RequestBound /\ now <= s + RequestBound
    BY DEF SessionInv, RequestInv
  <2> QED
    BY <1>1, <1>2, <2>2, <2>3
<1> QED
  BY <1>3, <1>4

LEMMA SessionInvInit == Init => SessionInv
<1> SUFFICES ASSUME Init PROVE SessionInv
  OBVIOUS
<1>1. TypeOK
  BY StepCount DEF Init, TypeOK
<1> QED
  BY <1>1, TimingAssumption
  DEF Init, SessionInv, CookieInv, RequestInv, ClockInv, Sweeping, Identity

LEMMA SessionInvStep == SessionInv /\ [Next]_vars => SessionInv'
<1> SUFFICES ASSUME SessionInv, [Next]_vars PROVE SessionInv'
  OBVIOUS
<1>0. TypeOK'
  BY TypeStep DEF SessionInv
<1> SUFFICES CookieInv' /\ RequestInv' /\ ClockInv'
  BY <1>0 DEF SessionInv
<1> USE TimingAssumption
    DEF SessionInv, TypeOK, CookieInv, RequestInv, ClockInv, InFlight, Sweeping,
        Identity, session
<1>1. ASSUME NEW i \in Identity, CreateSession(i)
      PROVE CookieInv' /\ RequestInv' /\ ClockInv'
  BY <1>1 DEF CreateSession, TokenExpiry, Earlier
<1>2. ASSUME NEW i \in Identity, DeleteSession(i)
      PROVE CookieInv' /\ RequestInv' /\ ClockInv'
  BY <1>2 DEF DeleteSession
<1>3. ASSUME NEW i \in Identity, Begin(i)
      PROVE CookieInv' /\ RequestInv' /\ ClockInv'
  BY <1>3, IdentitiesDisjoint DEF Begin, Authenticated, HoldsToken
<1>4. ASSUME NEW i \in Identity, Resume(i)
      PROVE CookieInv' /\ RequestInv' /\ ClockInv'
  <2>1. PICK signed \in Stamp(i), seen \in Stamp(i) :
              /\ signed <= seen
              /\ lastSeen' = [lastSeen EXCEPT ![i] = seen]
              /\ \/ expires' = [expires EXCEPT ![i] = TokenExpiry(signed, issued[i])]
                 \/ expires' = expires
    BY <1>4, ResumeShape
  <2>2. i \in Public /\ issued[i] # 0
    BY <1>4, ResumeShape, RequestEnds
  <2>3. /\ signed \in Nat /\ seen \in Nat \ {0} /\ signed <= now /\ seen <= now
        /\ now \in Nat /\ issued[i] \in Nat
    BY StampType
  <2>4. now <= seen + RequestBound
    <3>1. PICK s \in since[i] : s <= seen
      BY StampType
    <3>2. s \in Nat /\ now <= s + RequestBound
      BY <2>2, <3>1
    <3> QED
      BY <2>3, <3>1, <3>2
  <2>5. UNCHANGED <<now, issued, sweep>>
    BY <1>4, RequestEnds
  <2>6. /\ expires'[i] \in Nat /\ expires'[i] <= now + TTL
        /\ lastSeen'[i] = seen
        /\ \A j \in Identity \ {i} : expires'[j] = expires[j] /\ lastSeen'[j] = lastSeen[j]
    <3>1. TokenExpiry(signed, issued[i]) \in Nat
          /\ TokenExpiry(signed, issued[i]) <= signed + TTL
      BY <2>3 DEF TokenExpiry, Earlier
    <3>2. expires[i] \in Nat /\ expires[i] <= now + TTL
      BY <2>2
    <3>3. expires'[i] \in {expires[i], TokenExpiry(signed, issued[i])}
      BY <2>1
    <3>4. expires'[i] <= now + TTL /\ expires'[i] \in Nat
      <4> HIDE DEF SessionInv, TypeOK, CookieInv, RequestInv, ClockInv
      <4> QED
        BY <2>3, <3>1, <3>2, <3>3
    <3>5. lastSeen'[i] = seen
      BY <2>1
    <3>6. \A j \in Identity \ {i} : expires'[j] = expires[j] /\ lastSeen'[j] = lastSeen[j]
      BY <2>1
    <3> QED
      BY <3>4, <3>5, <3>6
  <2>7. CookieInv'
    BY <2>2, <2>3, <2>4, <2>5, <2>6
  <2>8. RequestInv'
    <3> SUFFICES ASSUME NEW j \in Public, NEW s \in since'[j]
                 PROVE  (/\ issued[j] # 0
                         /\ lastSeen[j] # 0 /\ s < lastSeen[j] + TTL + RequestBound
                         /\ s <= now /\ now <= s + RequestBound)'
      BY DEF RequestInv
    <3>1. s \in since[j]
      BY <1>4, RequestEnds
    <3> QED
      BY <2>3, <2>4, <2>5, <2>6, <3>1
  <2>9. ClockInv'
    BY <2>3, <2>5, <2>6
  <2> QED
    BY <2>7, <2>8, <2>9
<1>5. ASSUME NEW i \in Identity, Fail(i)
      PROVE CookieInv' /\ RequestInv' /\ ClockInv'
  BY <1>5, RequestEnds DEF Fail
<1>6. ASSUME NEW i \in Identity, Write(i)
      PROVE CookieInv' /\ RequestInv' /\ ClockInv'
  BY <1>6, WriteCommits, RequestEnds
<1>7. CASE SweepStart
  BY <1>7 DEF SweepStart
<1>8. CASE SweepBatch
  BY <1>8, BatchShape
<1>9. CASE SweepActivity
  <2>1. Sweeping
    BY <1>9, StepCount DEF SweepActivity
  <2>2. ASSUME NEW i \in Public, expires[i] > now \/ InFlight(i)
        PROVE  lastSeen'[i] = lastSeen[i]
    <3>1. lastSeen[i] >= sweep.cutoff
      BY <2>1, <2>2, LiveIsActive
    <3> QED
      BY <1>9, <3>1 DEF SweepActivity
  <2>3. \A i \in Identity : lastSeen'[i] <= lastSeen[i]
    BY <1>9 DEF SweepActivity
  <2> QED
    BY <1>9, <2>2, <2>3 DEF SweepActivity
<1>10. CASE SweepCrash
  BY <1>10 DEF SweepCrash
<1>11. CASE Tick
  BY <1>11 DEF Tick
<1>12. CASE UNCHANGED vars
  BY <1>12 DEF vars
<1> QED
  BY <1>1, <1>2, <1>3, <1>4, <1>5, <1>6, <1>7, <1>8, <1>9, <1>10, <1>11, <1>12
  DEF Next, Sweep

LEMMA SessionInvariant == Spec => []SessionInv
<1> QED
  BY SessionInvInit, SessionInvStep, PTL DEF Spec

(* The activity row that protects an identity outlives its cookie.           *)
THEOREM CookieBacked == Spec => []CookieBackedByActivity
<1>1. SessionInv => CookieBackedByActivity
  BY DEF SessionInv, CookieInv, CookieBackedByActivity, HoldsToken, TypeOK, Identity
<1> QED
  BY <1>1, SessionInvariant, PTL

-----------------------------------------------------------------------------
(* Rows that share an id were written by one request, hence by one owner,    *)
(* and only an identity that has had a session owns rows.                    *)

IdInv ==
    /\ \A t \in Table : \A r \in db[t] : r.id <= writes
    /\ \A t, u \in Table : \A r \in db[t], q \in db[u] :
         r.id = q.id => r.owner = q.owner

OwnerInv ==
    /\ \A i \in Public : issued[i] <= now
    /\ \A t \in Table : \A r \in db[t] :
         r.owner \in Public => issued[r.owner] # 0

RowInv == SessionInv /\ IdInv /\ OwnerInv

LEMMA RowInvInit == Init => RowInv
<1> SUFFICES ASSUME Init PROVE RowInv
  OBVIOUS
<1>1. SessionInv
  BY SessionInvInit
<1> QED
  BY <1>1 DEF Init, RowInv, IdInv, OwnerInv, Identity

LEMMA WriteIdInv ==
  ASSUME RowInv, NEW i \in Identity, Write(i)
  PROVE  (IdInv /\ OwnerInv)'
<1> USE DEF RowInv, IdInv, OwnerInv
<1>1. writes \in Nat /\ writes' = writes + 1 /\ NewId = writes + 1
      /\ UNCHANGED <<now, issued>>
  BY WriteCommits DEF SessionInv, TypeOK, NewId
<1>2. i \in Public => issued[i] # 0
  BY WriteCommits DEF SessionInv, RequestInv, InFlight
<1>3. \A t \in Table : \A r \in db'[t] :
        \/ r.owner = i /\ r.id = writes + 1
        \/ \E q \in db[t] : q.id = r.id /\ q.owner = r.owner
  BY <1>1, WriteRows DEF SessionInv, Kept, Fresh
<1>4. \A t \in Table : \A r \in db[t] : r.id \in Nat /\ r.id <= writes
  BY DEF SessionInv, TypeOK, Row
<1>5. \A t \in Table : \A r \in db'[t] : r.id <= writes'
  BY <1>1, <1>3, <1>4
<1>6. ASSUME NEW t \in Table, NEW u \in Table, NEW r \in db'[t], NEW q \in db'[u],
             r.id = q.id
      PROVE  r.owner = q.owner
  BY <1>1, <1>3, <1>4, <1>6
<1>7. \A t \in Table : \A r \in db'[t] : r.owner \in Public => issued'[r.owner] # 0
  BY <1>1, <1>2, <1>3
<1> QED
  BY <1>1, <1>5, <1>6, <1>7

LEMMA RowInvStep == RowInv /\ [Next]_vars => RowInv'
<1> SUFFICES ASSUME RowInv, [Next]_vars PROVE RowInv'
  OBVIOUS
<1>0. SessionInv'
  BY SessionInvStep DEF RowInv
<1> SUFFICES IdInv' /\ OwnerInv'
  BY <1>0 DEF RowInv
<1>1. CASE \E i \in Identity : Write(i)
  BY <1>1, WriteIdInv
<1>2. CASE SweepBatch
  BY <1>2, BatchShape DEF RowInv, SessionInv, IdInv, OwnerInv
<1>3. ASSUME NEW i \in Identity, CreateSession(i) PROVE IdInv' /\ OwnerInv'
  BY <1>3 DEF CreateSession, RowInv, SessionInv, TypeOK, IdInv, OwnerInv, Identity
<1>4. ASSUME UNCHANGED <<issued, db, writes>>, now' = now \/ now' = now + 1
      PROVE  IdInv' /\ OwnerInv'
  BY <1>4 DEF RowInv, SessionInv, TypeOK, IdInv, OwnerInv, Identity
<1>5. ASSUME NEW i \in Identity,
             DeleteSession(i) \/ Begin(i) \/ Resume(i) \/ Fail(i)
      PROVE  UNCHANGED <<issued, db, writes, now>>
  BY <1>5 DEF DeleteSession, Begin, Resume, Fail, session
<1>6. ASSUME SweepStart \/ SweepActivity \/ SweepCrash \/ Tick \/ UNCHANGED vars
      PROVE  UNCHANGED <<issued, db, writes>> /\ (now' = now \/ now' = now + 1)
  BY <1>6 DEF SweepStart, SweepActivity, SweepCrash, Tick, vars, session
<1> QED
  BY <1>1, <1>2, <1>3, <1>4, <1>5, <1>6 DEF Next, Sweep

LEMMA RowInvariant == Spec => []RowInv
<1> QED
  BY RowInvInit, RowInvStep, PTL DEF Spec

-----------------------------------------------------------------------------
(* A sweep step spares every reachable identity.                             *)

Spares == \A i \in Public : Reachable(i) =>
            /\ \A t \in Table : Own(t, i) \subseteq db'[t]
            /\ lastSeen'[i] = lastSeen[i]

LEMMA SweepStepSpares == RowInv /\ Sweep => Spares
<1> SUFFICES ASSUME RowInv, Sweep, NEW i \in Public, Reachable(i)
             PROVE  /\ \A t \in Table : Own(t, i) \subseteq db'[t]
                    /\ lastSeen'[i] = lastSeen[i]
  BY DEF Spares
<1>1. expires[i] > now \/ InFlight(i)
  BY DEF Reachable, HoldsToken, RowInv, SessionInv, TypeOK, Identity
<1>2. CASE SweepStart
  BY <1>2 DEF SweepStart, session, Own
<1>3. CASE SweepBatch
  <2>1. Active(i, sweep.cutoff)
    BY <1>1, <1>3, BatchShape, LiveIsActive DEF RowInv, SessionInv, Active
  <2>2. SUFFICES ASSUME NEW t \in Table, NEW r \in db[t], r.owner = i
                 PROVE  r \notin Victims(t, sweep.cutoff)
    BY <1>3, BatchShape DEF RowInv, SessionInv, Own
  <2>3. ~Abandoned(r, sweep.cutoff)
    BY <2>1, <2>2 DEF Abandoned
  <2>4. \A c \in db["statistical_comparisons"] :
          c.id = r.id => ~Abandoned(c, sweep.cutoff)
    BY <2>1, <2>2 DEF Abandoned, RowInv, IdInv, Table
  <2> QED
    BY <2>3, <2>4 DEF Victims
<1>4. CASE SweepActivity
  <2>1. Sweeping
    BY <1>4, StepCount DEF SweepActivity, Sweeping
  <2>2. lastSeen[i] >= sweep.cutoff
    BY <1>1, <2>1, LiveIsActive DEF RowInv
  <2> QED
    BY <1>4, <2>2 DEF SweepActivity, Own, Identity, RowInv, SessionInv, TypeOK
<1> QED
  BY <1>2, <1>3, <1>4 DEF Sweep

(* No sweep step takes a row, or the activity record, of an identity that    *)
(* holds a valid cookie or has a request in flight.                          *)
THEOREM SweepSpares == Spec => SweepSparesReachable
<1>1. RowInv /\ [Next]_vars =>
        [Sweep => \A i \in Public : Reachable(i) =>
           /\ \A t \in Table : Own(t, i) \subseteq db'[t]
           /\ lastSeen'[i] = lastSeen[i]]_vars
  BY SweepStepSpares DEF Spares
<1> QED
  BY <1>1, RowInvariant, PTL DEF Spec, SweepSparesReachable

-----------------------------------------------------------------------------
(* No one reachable owns a half-deleted comparison or a summary without run. *)

(* A public identity that has become unreachable stays so: a cookie is only  *)
(* renewed by a request in flight, and a request needs a cookie.             *)
LEMMA UnreachableStays ==
  ASSUME RowInv, [Next]_vars, NEW i \in Public, issued[i] # 0, Reachable(i)'
  PROVE  Reachable(i)
<1> USE DEF RowInv, SessionInv, TypeOK, OwnerInv, Reachable, HoldsToken,
            InFlight, Identity, session
<1>1. ASSUME NEW j \in Identity, CreateSession(j) PROVE Reachable(i)
  BY <1>1 DEF CreateSession
<1>2. ASSUME NEW j \in Identity, DeleteSession(j) PROVE Reachable(i)
  BY <1>2 DEF DeleteSession
<1>3. ASSUME NEW j \in Identity, Begin(j) PROVE Reachable(i)
  BY <1>3, IdentitiesDisjoint DEF Begin, Authenticated
<1>4. ASSUME NEW j \in Identity, Resume(j) PROVE Reachable(i)
  <2>1. CASE i = j
    BY <1>4, <2>1, RequestEnds
  <2>2. CASE i # j
    <3>1. expires'[i] = expires[i]
      BY <1>4, <2>2, ResumeShape
    <3> QED
      BY <1>4, <3>1, RequestEnds
  <2> QED
    BY <2>1, <2>2
<1>5. ASSUME NEW j \in Identity, Fail(j) PROVE Reachable(i)
  BY <1>5, RequestEnds DEF Fail
<1>6. ASSUME NEW j \in Identity, Write(j) PROVE Reachable(i)
  BY <1>6, WriteCommits, RequestEnds
<1>7. CASE Sweep \/ SweepCrash \/ UNCHANGED vars
  <2>1. CASE SweepBatch
    BY <2>1, BatchShape
  <2>2. CASE SweepStart
    BY <2>2 DEF SweepStart
  <2>3. CASE SweepActivity
    BY <2>3 DEF SweepActivity
  <2>4. CASE SweepCrash
    BY <2>4 DEF SweepCrash
  <2>5. CASE UNCHANGED vars
    BY <2>5 DEF vars
  <2> QED
    BY <1>7, <2>1, <2>2, <2>3, <2>4, <2>5 DEF Sweep
<1>8. CASE Tick
  BY <1>8, TimingAssumption DEF Tick
<1> QED
  BY <1>1, <1>2, <1>3, <1>4, <1>5, <1>6, <1>7, <1>8 DEF Next

(* What HalfDeletedIsUnreachable asks of one comparison and one summary.     *)
HasRun(s) == \E r \in db["analysis_runs"] : r.id = s.id

(* A writing request adds whole comparisons and summaries that have a run,   *)
(* and takes nothing from the ones there are.                                *)
LEMMA WriteKeepsUnits ==
  ASSUME TypeOK, NEW i \in Identity, Write(i)
  PROVE  /\ \A c \in db'["statistical_comparisons"] :
              \/ c \in db["statistical_comparisons"] /\ (Whole(c) => Whole(c)')
              \/ Whole(c)'
         /\ \A s \in db'["place_crime_summaries"] :
              \/ s \in db["place_crime_summaries"] /\ (HasRun(s) => HasRun(s)')
              \/ HasRun(s)'
<1> USE DEF TypeOK, Table
<1> DEFINE Untouched ==
             \A t \in {"statistical_comparisons", "statistical_comparison_options",
                       "statistical_pairwise_results", "analysis_runs"} :
                db'[t] = db[t]
<1>1. ASSUME CreatePlace(i) \/ EditPlace(i) \/ CreateReport(i) \/ Upload(i)
             \/ Import(i) \/ Normalize(i)
      PROVE  Untouched /\ db'["place_crime_summaries"] \subseteq db["place_crime_summaries"]
  <2>1. CASE CreatePlace(i)
    BY <2>1 DEF CreatePlace
  <2>2. CASE EditPlace(i)
    BY <2>2 DEF EditPlace
  <2>3. CASE CreateReport(i)
    BY <2>3 DEF CreateReport
  <2>4. CASE Upload(i)
    BY <2>4 DEF Upload
  <2>5. CASE Import(i)
    BY <2>5 DEF Import
  <2>6. CASE Normalize(i)
    BY <2>6 DEF Normalize
  <2> QED
    BY <1>1, <2>1, <2>2, <2>3, <2>4, <2>5, <2>6
<1>2. CASE Untouched /\ db'["place_crime_summaries"] \subseteq db["place_crime_summaries"]
  BY <1>2 DEF Whole, HasRun
<1>3. CASE Analyze(i)
  <2>1. PICK places \in SUBSET Own("place_clusters", i), t \in Stamp(i) :
          db' = [db EXCEPT
              !["analysis_runs"] = @ \cup {NewRow(i, t, NewId, 0)},
              !["place_crime_summaries"] =
                 @ \cup {NewRow(i, t, NewId, c.id) : c \in places}]
    BY <1>3 DEF Analyze
  <2>2. \A k : NewRow(i, t, NewId, k).id = NewId
    BY DEF NewRow
  <2>3. \A s \in db'["place_crime_summaries"] :
          s \in db["place_crime_summaries"] \/ s.id = NewId
    BY <2>1, <2>2
  <2>4. /\ db["analysis_runs"] \subseteq db'["analysis_runs"]
        /\ NewRow(i, t, NewId, 0) \in db'["analysis_runs"]
    BY <2>1
  <2>5. \A u \in {"statistical_comparisons", "statistical_comparison_options",
                  "statistical_pairwise_results"} : db'[u] = db[u]
    BY <2>1
  <2> QED
    BY <2>2, <2>3, <2>4, <2>5 DEF Whole, HasRun
<1>4. CASE Compare(i)
  <2>1. PICK t \in Stamp(i) :
          db' = [db EXCEPT
           !["statistical_comparisons"] = @ \cup {NewRow(i, t, NewId, 0)},
           !["statistical_comparison_options"] =
              @ \cup {NewRow(i, t, NewId, slot) : slot \in {1, 2}},
           !["statistical_pairwise_results"] = @ \cup {NewRow(i, t, NewId, 1)}]
    BY <1>4 DEF Compare
  <2>2. \A k : NewRow(i, t, NewId, k).id = NewId /\ NewRow(i, t, NewId, k).ref = k
    BY DEF NewRow
  <2>3. \A c \in db'["statistical_comparisons"] :
          c \in db["statistical_comparisons"] \/ c.id = NewId
    BY <2>1, <2>2
  <2>4. /\ db["statistical_comparison_options"] \subseteq db'["statistical_comparison_options"]
        /\ db["statistical_pairwise_results"] \subseteq db'["statistical_pairwise_results"]
        /\ NewRow(i, t, NewId, 1) \in db'["statistical_pairwise_results"]
        /\ \A slot \in {1, 2} :
             NewRow(i, t, NewId, slot) \in db'["statistical_comparison_options"]
    BY <2>1
  <2>5. /\ db'["analysis_runs"] = db["analysis_runs"]
        /\ db'["place_crime_summaries"] = db["place_crime_summaries"]
    BY <2>1
  <2> QED
    BY <2>2, <2>3, <2>4, <2>5 DEF Whole, HasRun
<1> QED
  BY <1>1, <1>2, <1>3, <1>4 DEF Write

UnitInv == RowInv /\ HalfDeletedIsUnreachable

(* A sweep step halves only what belongs to an identity it does not spare.   *)
LEMMA SweepKeepsUnits ==
  ASSUME UnitInv, Sweep
  PROVE  HalfDeletedIsUnreachable'
<1> USE DEF UnitInv
<1>1. /\ Spares
      /\ \A t \in Table : db'[t] \subseteq db[t]
      /\ \A i : Reachable(i)' => Reachable(i)
  BY SweepStepSpares, BatchShape
  DEF Sweep, SweepStart, SweepActivity, session, RowInv, SessionInv, Reachable,
      HoldsToken, InFlight
<1>2. \A t, u \in Table : \A r \in db[t], q \in db[u] : r.id = q.id => r.owner = q.owner
  BY DEF RowInv, IdInv
<1>3. ASSUME NEW c \in db'["statistical_comparisons"], Reachable(c.owner)'
      PROVE  Whole(c)'
  <2>1. Reachable(c.owner) /\ c.owner \in Public /\ c \in db["statistical_comparisons"]
    BY <1>1, <1>3 DEF Table, Reachable
  <2>2. Whole(c)
    BY <2>1 DEF HalfDeletedIsUnreachable
  <2>3. \A t \in Table : \A r \in db[t] : r.id = c.id => r \in db'[t]
    BY <1>1, <1>2, <2>1 DEF Spares, Own, Table
  <2> QED
    BY <2>2, <2>3 DEF Whole, Table
<1>4. ASSUME NEW s \in db'["place_crime_summaries"], Reachable(s.owner)'
      PROVE  \E r \in db'["analysis_runs"] : r.id = s.id
  <2>1. Reachable(s.owner) /\ s.owner \in Public /\ s \in db["place_crime_summaries"]
    BY <1>1, <1>4 DEF Table, Reachable
  <2>2. PICK r \in db["analysis_runs"] : r.id = s.id
    BY <2>1 DEF HalfDeletedIsUnreachable
  <2>3. r.owner = s.owner
    BY <1>2, <2>1, <2>2 DEF Table
  <2> QED
    BY <1>1, <2>1, <2>2, <2>3 DEF Spares, Own, Table
<1> QED
  BY <1>3, <1>4 DEF HalfDeletedIsUnreachable

LEMMA UnitInvStep == UnitInv /\ [Next]_vars => UnitInv'
<1> SUFFICES ASSUME UnitInv, [Next]_vars PROVE HalfDeletedIsUnreachable'
  BY RowInvStep DEF UnitInv
<1> USE DEF UnitInv
<1>1. CASE Sweep
  BY <1>1, SweepKeepsUnits
<1>2. \A t \in Table : \A r \in db[t] : Reachable(r.owner)' => Reachable(r.owner)
  <2> SUFFICES ASSUME NEW t \in Table, NEW r \in db[t], Reachable(r.owner)'
               PROVE  Reachable(r.owner)
    OBVIOUS
  <2>1. r.owner \in Public
    BY DEF Reachable
  <2>2. issued[r.owner] # 0
    BY <2>1 DEF RowInv, OwnerInv
  <2> QED
    BY <2>1, <2>2, UnreachableStays
<1>3. CASE \E i \in Identity : Write(i)
  <2>1. PICK i \in Identity : Write(i)
    BY <1>3
  <2>2. /\ \A c \in db'["statistical_comparisons"] :
             \/ c \in db["statistical_comparisons"] /\ (Whole(c) => Whole(c)')
             \/ Whole(c)'
        /\ \A s \in db'["place_crime_summaries"] :
             \/ s \in db["place_crime_summaries"] /\ (HasRun(s) => HasRun(s)')
             \/ HasRun(s)'
    BY <2>1, WriteKeepsUnits DEF RowInv, SessionInv
  <2>3. ASSUME NEW c \in db'["statistical_comparisons"], Reachable(c.owner)'
        PROVE  Whole(c)'
    BY <2>2, <2>3, <1>2 DEF HalfDeletedIsUnreachable, Table
  <2>4. ASSUME NEW s \in db'["place_crime_summaries"], Reachable(s.owner)'
        PROVE  HasRun(s)'
    BY <2>2, <2>4, <1>2 DEF HalfDeletedIsUnreachable, HasRun, Table
  <2> QED
    BY <2>3, <2>4 DEF HalfDeletedIsUnreachable, HasRun
<1>4. CASE UNCHANGED db
  BY <1>2, <1>4 DEF HalfDeletedIsUnreachable, Whole, Table
<1>5. ASSUME NEW i \in Identity,
             CreateSession(i) \/ DeleteSession(i) \/ Begin(i) \/ Resume(i) \/ Fail(i)
      PROVE  UNCHANGED db
  BY <1>5 DEF CreateSession, DeleteSession, Begin, Resume, Fail
<1>6. ASSUME SweepCrash \/ Tick \/ UNCHANGED vars PROVE UNCHANGED db
  BY <1>6 DEF SweepCrash, Tick, vars
<1> QED
  BY <1>1, <1>3, <1>4, <1>5, <1>6 DEF Next

(* A comparison that lost its halves, or a summary that lost its run, to a   *)
(* sweep belongs to nobody who can look at it.                               *)
THEOREM HalfDeletedUnreachable == Spec => []HalfDeletedIsUnreachable
<1>1. Init => UnitInv
  BY RowInvInit DEF Init, UnitInv, HalfDeletedIsUnreachable, Table
<1>2. UnitInv => HalfDeletedIsUnreachable
  BY DEF UnitInv
<1> QED
  BY <1>1, <1>2, UnitInvStep, PTL DEF Spec

-----------------------------------------------------------------------------
(***************************************************************************)
(* No step of a sweep, and no request between two of its batches, leaves a  *)
(* row that refers to a row that is gone, for any number of identities and  *)
(* any batch size.                                                          *)
(*                                                                          *)
(* The sweep deletes children before parents, each statement judging        *)
(* activity anew.  That is enough because, at the cutoff of a running       *)
(* sweep, an identity never turns from active to abandoned: what a          *)
(* statement has spared stays spared by the statements after it.            *)
(***************************************************************************)

ChildTable == {"statistical_pairwise_results", "statistical_comparison_options"}

(* A request commits within RequestBound of its authentication.              *)
FlightInv ==
    \A i \in Identity : \A s \in since[i] : s <= now /\ now <= s + RequestBound

FiniteInv == \A t \in Table : IsFiniteSet(db[t])

(* The references themselves, with what the sweep needs to know of them.     *)
ChildInv ==
    \A t \in ChildTable : \A r \in db[t] :
      \E c \in db["statistical_comparisons"] : c.id = r.id

SummaryInv ==
    \A s \in db["place_crime_summaries"] : \E c \in db["place_clusters"] : c.id = s.ref

(* A staging row is as old as its import.                                    *)
StagingInv ==
    \A g \in db["staging_location_observations"] :
      /\ g.ref = g.id
      /\ \E b \in db["import_batches"] : b.id = g.ref /\ b.at = g.at

(* A stop belongs to the owner of its import, whose staging rows are there.  *)
StopInv ==
    \A s \in db["stop_visits"] :
      /\ \E c \in db["place_clusters"] : c.id = s.id
      /\ \E b \in db["import_batches"] : b.id = s.ref /\ b.owner = s.owner
      /\ \E g \in db["staging_location_observations"] : g.ref = s.ref
      /\ \A q \in db["stop_visits"] : q.id = s.id => q.ref = s.ref

(* What a statement has left behind is not abandoned.                        *)
Spared(r) == ~Abandoned(r, sweep.cutoff)

PhaseInv ==
    /\ sweep.step > 2 =>
         \A r \in db["statistical_pairwise_results"], c \in db["statistical_comparisons"] :
           r.id = c.id => Spared(c)
    /\ sweep.step > 3 =>
         \A r \in db["statistical_comparison_options"], c \in db["statistical_comparisons"] :
           r.id = c.id => Spared(c)
    /\ sweep.step > 7 => \A s \in db["stop_visits"] : Spared(s)
    /\ sweep.step > 8 => \A g \in db["staging_location_observations"] : Spared(g)

ReferenceInv ==
    /\ RowInv /\ FlightInv /\ FiniteInv
    /\ ChildInv /\ SummaryInv /\ StagingInv /\ StopInv /\ PhaseInv

-----------------------------------------------------------------------------
(* Requests.                                                                 *)

LEMMA FlightStep ==
  ASSUME SessionInv, FlightInv, [Next]_vars
  PROVE  FlightInv'
<1> USE TimingAssumption DEF SessionInv, TypeOK, FlightInv, InFlight, session
<1>1. ASSUME NEW i \in Identity, CreateSession(i) \/ DeleteSession(i) PROVE FlightInv'
  BY <1>1 DEF CreateSession, DeleteSession
<1>2. ASSUME NEW i \in Identity, Begin(i) PROVE FlightInv'
  BY <1>2 DEF Begin
<1>3. ASSUME NEW i \in Identity, Resume(i) \/ Fail(i) PROVE FlightInv'
  BY <1>3, RequestEnds
<1>4. ASSUME NEW i \in Identity, Write(i) PROVE FlightInv'
  BY <1>4, RequestEnds
<1>5. CASE SweepBatch
  BY <1>5, BatchShape
<1>6. CASE SweepStart \/ SweepActivity \/ SweepCrash \/ UNCHANGED vars
  BY <1>6 DEF SweepStart, SweepActivity, SweepCrash, vars
<1>7. CASE Tick
  BY <1>7 DEF Tick
<1> QED
  BY <1>1, <1>2, <1>3, <1>4, <1>5, <1>6, <1>7 DEF Next, Sweep

(* What a request writes is never older than the cutoff of a running sweep.  *)
LEMMA StampIsRecent ==
  ASSUME SessionInv, FlightInv, Sweeping, NEW i \in Identity, InFlight(i), NEW t \in Stamp(i)
  PROVE  t \in Nat /\ sweep.cutoff \in Int /\ sweep.cutoff <= t
<1>1. PICK s \in since[i] : t \in s .. now
  BY DEF Stamp
<1>2. /\ s \in Nat /\ now \in Nat /\ sweep.cutoff \in Int
      /\ sweep.cutoff + Retention <= now /\ now <= s + RequestBound
      /\ t \in Nat /\ s <= t
  BY <1>1 DEF SessionInv, TypeOK, ClockInv, FlightInv
<1> QED
  BY <1>2, Slack, TimingAssumption

(* What a request adds that takes nothing away.                              *)
Adds(i, add) ==
    /\ add \in [Table -> SUBSET Row] /\ \A u \in Table : IsFiniteSet(add[u])
    /\ db' = [u \in Table |-> db[u] \cup add[u]]
    /\ \A u \in Table : \A r \in add[u] : r.owner = i /\ r.id = NewId /\ r.at \in Stamp(i)
    /\ \A u \in ChildTable : \A r \in add[u] :
         /\ add["statistical_comparisons"] # {}
         /\ \A c \in add["statistical_comparisons"] : c.at = r.at
    /\ \A s \in add["place_crime_summaries"] :
         /\ \E c \in db["place_clusters"] : c.id = s.ref /\ c.owner = i
         /\ \E r \in add["analysis_runs"] : r.at = s.at
    /\ \A g \in add["staging_location_observations"] :
         g.ref = NewId /\ \E b \in add["import_batches"] : b.at = g.at
    /\ \A s \in add["stop_visits"] :
         /\ s.ref = NewId
         /\ \A u \in {"place_clusters", "import_batches", "staging_location_observations"} :
              add[u] # {}

Nothing == [u \in Table |-> {}]

LEMMA SmallSets ==
  /\ IsFiniteSet({})
  /\ \A x : IsFiniteSet({x})
  /\ \A x, y : IsFiniteSet({x, y})
<1>1. IsFiniteSet({}) /\ \A x : IsFiniteSet({x})
  BY FS_EmptySet, FS_Singleton
<1>2. ASSUME NEW x, NEW y PROVE IsFiniteSet({x, y})
  <2>1. IsFiniteSet({x} \cup {y})
    BY <1>1, FS_AddElement
  <2>2. {x} \cup {y} = {x, y}
    OBVIOUS
  <2> QED
    BY <2>1, <2>2
<1> QED
  BY <1>1, <1>2

LEMMA WriteAdds ==
  ASSUME TypeOK, FiniteInv, NEW i \in Identity,
         CreatePlace(i) \/ Analyze(i) \/ Compare(i) \/ CreateReport(i) \/ Upload(i) \/ Import(i)
  PROVE  \E add : Adds(i, add)
<1>1. NewId \in Nat /\ Stamp(i) \subseteq Nat
  BY DEF NewId, Stamp, TypeOK
<1>2. ASSUME NEW t \in Stamp(i), NEW k \in Nat
      PROVE  /\ NewRow(i, t, NewId, k) \in Row
             /\ NewRow(i, t, NewId, k).owner = i /\ NewRow(i, t, NewId, k).id = NewId
             /\ NewRow(i, t, NewId, k).at = t /\ NewRow(i, t, NewId, k).ref = k
  BY <1>1 DEF NewRow, Row
<1>3. db \in [Table -> SUBSET Row]
  BY DEF TypeOK
<1>4. CASE CreatePlace(i)
  <2>1. PICK t \in Stamp(i) :
          db' = [db EXCEPT !["place_clusters"] = @ \cup {NewRow(i, t, NewId, 0)}]
    BY <1>4 DEF CreatePlace
  <2> DEFINE add == [Nothing EXCEPT !["place_clusters"] = {NewRow(i, t, NewId, 0)}]
  <2>2. /\ add["place_clusters"] = {NewRow(i, t, NewId, 0)}
        /\ \A u \in Table \ {"place_clusters"} : add[u] = {}
        /\ add \in [Table -> SUBSET Row]
    BY <1>2 DEF Nothing, Table
  <2> HIDE DEF add
  <2>3. db' = [u \in Table |-> db[u] \cup add[u]]
    BY <1>3, <2>1, <2>2
  <2>4. \A u \in Table : IsFiniteSet(add[u])
    BY <2>2, SmallSets
  <2>5. Adds(i, add)
    BY <1>2, <2>2, <2>3, <2>4 DEF Adds, Table, ChildTable
  <2> QED
    BY <2>5
<1>5. CASE CreateReport(i)
  <2>1. PICK t \in Stamp(i) :
          db' = [db EXCEPT !["analysis_report_snapshots"] = @ \cup {NewRow(i, t, NewId, 0)}]
    BY <1>5 DEF CreateReport
  <2> DEFINE add == [Nothing EXCEPT !["analysis_report_snapshots"] = {NewRow(i, t, NewId, 0)}]
  <2>2. /\ add["analysis_report_snapshots"] = {NewRow(i, t, NewId, 0)}
        /\ \A u \in Table \ {"analysis_report_snapshots"} : add[u] = {}
        /\ add \in [Table -> SUBSET Row]
    BY <1>2 DEF Nothing, Table
  <2> HIDE DEF add
  <2>3. db' = [u \in Table |-> db[u] \cup add[u]]
    BY <1>3, <2>1, <2>2
  <2>4. \A u \in Table : IsFiniteSet(add[u])
    BY <2>2, SmallSets
  <2>5. Adds(i, add)
    BY <1>2, <2>2, <2>3, <2>4 DEF Adds, Table, ChildTable
  <2> QED
    BY <2>5
<1>6. CASE Import(i)
  <2>1. PICK t \in Stamp(i) :
          db' = [db EXCEPT
               !["import_batches"] = @ \cup {NewRow(i, t, NewId, NewId)},
               !["staging_location_observations"] = @ \cup {NewRow(i, t, NewId, NewId)}]
    BY <1>6 DEF Import
  <2> DEFINE new == {NewRow(i, t, NewId, NewId)}
             add == [Nothing EXCEPT !["import_batches"] = new,
                                    !["staging_location_observations"] = new]
  <2>2. /\ \A u \in {"import_batches", "staging_location_observations"} : add[u] = new
        /\ \A u \in Table \ {"import_batches", "staging_location_observations"} : add[u] = {}
        /\ add \in [Table -> SUBSET Row]
    BY <1>1, <1>2 DEF Nothing, Table
  <2> HIDE DEF add
  <2>3. db' = [u \in Table |-> db[u] \cup add[u]]
    BY <1>3, <2>1, <2>2
  <2>4. \A u \in Table : IsFiniteSet(add[u])
    BY <2>2, SmallSets
  <2>5. Adds(i, add)
    BY <1>1, <1>2, <2>2, <2>3, <2>4 DEF Adds, Table, ChildTable
  <2> QED
    BY <2>5
<1>7. CASE Upload(i)
  <2>0. PICK t \in Stamp(i) : \E raw \in SUBSET {NewRow(i, t, NewId, NewId)} :
            db' = [db EXCEPT
               !["place_clusters"] = @ \cup {NewRow(i, t, NewId, NewId)},
               !["stop_visits"] = @ \cup raw,
               !["staging_location_observations"] = @ \cup raw,
               !["import_batches"] = @ \cup raw]
    BY <1>7, Zenon DEF Upload
  <2>1. PICK raw \in SUBSET {NewRow(i, t, NewId, NewId)} :
            db' = [db EXCEPT
               !["place_clusters"] = @ \cup {NewRow(i, t, NewId, NewId)},
               !["stop_visits"] = @ \cup raw,
               !["staging_location_observations"] = @ \cup raw,
               !["import_batches"] = @ \cup raw]
    BY <2>0
  <2> DEFINE new == {NewRow(i, t, NewId, NewId)}
             add == [Nothing EXCEPT !["place_clusters"] = new,
                                    !["stop_visits"] = raw,
                                    !["staging_location_observations"] = raw,
                                    !["import_batches"] = raw]
  <2>2. /\ add["place_clusters"] = new /\ (raw = {} \/ raw = new)
        /\ \A u \in {"stop_visits", "import_batches", "staging_location_observations"} :
             add[u] = raw
        /\ \A u \in Table \ {"place_clusters", "stop_visits", "import_batches",
                           "staging_location_observations"} : add[u] = {}
        /\ add \in [Table -> SUBSET Row]
    BY <1>1, <1>2, <2>1 DEF Nothing, Table
  <2> HIDE DEF add
  <2>3. db' = [u \in Table |-> db[u] \cup add[u]]
    BY <1>3, <2>1, <2>2
  <2>4. \A u \in Table : IsFiniteSet(add[u])
    BY <2>2, SmallSets
  <2>5. Adds(i, add)
    BY <1>1, <1>2, <2>2, <2>3, <2>4 DEF Adds, Table, ChildTable
  <2> QED
    BY <2>5
<1>8. CASE Compare(i)
  <2>1. PICK t \in Stamp(i) :
          db' = [db EXCEPT
           !["statistical_comparisons"] = @ \cup {NewRow(i, t, NewId, 0)},
           !["statistical_comparison_options"] =
              @ \cup {NewRow(i, t, NewId, slot) : slot \in {1, 2}},
           !["statistical_pairwise_results"] = @ \cup {NewRow(i, t, NewId, 1)}]
    BY <1>8 DEF Compare
  <2> DEFINE head == {NewRow(i, t, NewId, 0)}
             pair == {NewRow(i, t, NewId, 1)}
             options == {NewRow(i, t, NewId, slot) : slot \in {1, 2}}
             add == [Nothing EXCEPT !["statistical_comparisons"] = head,
                                    !["statistical_comparison_options"] = options,
                                    !["statistical_pairwise_results"] = pair]
  <2>2. options = {NewRow(i, t, NewId, 1), NewRow(i, t, NewId, 2)}
    OBVIOUS
  <2> HIDE DEF options
  <2>3. /\ add["statistical_comparisons"] = head
        /\ add["statistical_comparison_options"] = options
        /\ add["statistical_pairwise_results"] = pair
        /\ \A u \in Table \ {"statistical_comparisons", "statistical_comparison_options",
                           "statistical_pairwise_results"} : add[u] = {}
        /\ add \in [Table -> SUBSET Row]
    BY <1>2, <2>2 DEF Nothing, Table
  <2> HIDE DEF add
  <2>4. db' = [u \in Table |-> db[u] \cup add[u]]
    BY <1>3, <2>1, <2>3 DEF options
  <2>5. \A u \in Table : IsFiniteSet(add[u])
    <3>1. IsFiniteSet({}) /\ IsFiniteSet(head) /\ IsFiniteSet(pair) /\ IsFiniteSet(options)
      BY <2>2, SmallSets
    <3> HIDE DEF head, pair
    <3> QED
      BY <2>3, <3>1
  <2>6. Adds(i, add)
    <3>1. \A r \in head \cup options \cup pair :
            r.owner = i /\ r.id = NewId /\ r.at \in Stamp(i) /\ r.at = t
      BY <1>2, <2>2
    <3>2. head # {}
      OBVIOUS
    <3> HIDE DEF head, pair
    <3>3. \A u \in Table : \A r \in add[u] : r.owner = i /\ r.id = NewId /\ r.at \in Stamp(i)
      BY <2>3, <3>1
    <3>4. /\ add["statistical_comparisons"] # {}
          /\ \A u \in {"place_crime_summaries", "staging_location_observations",
                       "stop_visits"} : add[u] = {}
      BY <2>3, <3>2 DEF Table
    <3>5. \A u \in ChildTable \cup {"statistical_comparisons"} : \A r \in add[u] : r.at = t
      BY <2>3, <3>1 DEF ChildTable
    <3> QED
      BY <2>3, <2>4, <2>5, <3>3, <3>4, <3>5 DEF Adds
  <2> QED
    BY <2>6
<1>9. CASE Analyze(i)
  <2>1. PICK places \in SUBSET Own("place_clusters", i), t \in Stamp(i) :
          db' = [db EXCEPT
              !["analysis_runs"] = @ \cup {NewRow(i, t, NewId, 0)},
              !["place_crime_summaries"] =
                 @ \cup {NewRow(i, t, NewId, c.id) : c \in places}]
    BY <1>9 DEF Analyze
  <2> DEFINE run == {NewRow(i, t, NewId, 0)}
             sums == {NewRow(i, t, NewId, c.id) : c \in places}
             add == [Nothing EXCEPT !["analysis_runs"] = run,
                                    !["place_crime_summaries"] = sums]
  <2>2. places \subseteq db["place_clusters"] /\ \A c \in places : c.id \in Nat
    BY <1>3 DEF Own, Row, Table
  <2>3. IsFiniteSet(sums)
    <3>1. IsFiniteSet(places)
      BY <2>2, FS_Subset DEF FiniteInv, Table
    <3> DEFINE f == [c \in places |-> NewRow(i, t, NewId, c.id)]
    <3>2. f \in [places -> sums] /\ \A s \in sums : \E c \in places : f[c] = s
      OBVIOUS
    <3>3. f \in Surjection(places, sums)
      BY <3>2 DEF Surjection
    <3> HIDE DEF f, sums
    <3> QED
      BY <3>1, <3>3, FS_Surjection
  <2>4. /\ sums \subseteq Row
        /\ \A s \in sums : /\ s.owner = i /\ s.id = NewId /\ s.at \in Stamp(i) /\ s.at = t
                           /\ \E c \in db["place_clusters"] : c.id = s.ref /\ c.owner = i
    BY <1>2, <2>2 DEF Own
  <2> HIDE DEF sums
  <2>5. /\ add["analysis_runs"] = run /\ add["place_crime_summaries"] = sums
        /\ \A u \in Table \ {"analysis_runs", "place_crime_summaries"} : add[u] = {}
        /\ add \in [Table -> SUBSET Row]
    BY <1>2, <2>4 DEF Nothing, Table
  <2> HIDE DEF add
  <2>6. db' = [u \in Table |-> db[u] \cup add[u]]
    BY <1>3, <2>1, <2>5 DEF sums
  <2>7. \A u \in Table : IsFiniteSet(add[u])
    BY <2>3, <2>5, SmallSets
  <2>8. Adds(i, add)
    BY <1>2, <2>4, <2>5, <2>6, <2>7 DEF Adds, Table, ChildTable
  <2> QED
    BY <2>8
<1> QED
  BY <1>4, <1>5, <1>6, <1>7, <1>8, <1>9

(* At the cutoff of a running sweep, whoever is active remains so.           *)
StaysActive == \A j \in Identity : Active(j, sweep.cutoff) => Active(j, sweep.cutoff)'

LEMMA MoreIsActive ==
  ASSUME \A u \in Table : db[u] \subseteq db'[u], UNCHANGED <<lastSeen, sweep>>
  PROVE  StaysActive
<1>1. db["analysis_runs"] \subseteq db'["analysis_runs"]
      /\ db["analysis_report_snapshots"] \subseteq db'["analysis_report_snapshots"]
      /\ db["import_batches"] \subseteq db'["import_batches"]
      /\ db["staging_location_observations"] \subseteq db'["staging_location_observations"]
      /\ db["stop_visits"] \subseteq db'["stop_visits"]
      /\ db["place_clusters"] \subseteq db'["place_clusters"]
  BY DEF Table
<1> QED
  BY <1>1 DEF StaysActive, Active

LEMMA SparedStays ==
  ASSUME StaysActive, sweep'.cutoff = sweep.cutoff, NEW r \in Row, Spared(r)
  PROVE  Spared(r)'
BY DEF StaysActive, Spared, Abandoned, Row

LEMMA RecentIsSpared ==
  ASSUME TypeOK, NEW r, r.at \in Nat, sweep'.cutoff = sweep.cutoff, sweep.cutoff <= r.at
  PROVE  Spared(r)'
<1>1. sweep.cutoff \in Int
  BY DEF TypeOK
<1>2. ~(r.at < sweep.cutoff)
  BY <1>1
<1> QED
  BY <1>2 DEF Spared, Abandoned

LEMMA OldIds ==
  ASSUME RowInv
  PROVE  /\ writes \in Nat /\ NewId = writes + 1
         /\ \A u \in Table : \A r \in db[u] : r \in Row /\ r.id # NewId
<1>1. writes \in Nat /\ \A u \in Table : \A r \in db[u] : r \in Row /\ r.id \in Nat /\ r.id <= writes
  BY DEF RowInv, SessionInv, IdInv, TypeOK, Row
<1> QED
  BY <1>1 DEF NewId

LEMMA AddsKeepsReferences ==
  ASSUME ReferenceInv, NEW i \in Identity, NEW add, Adds(i, add)
  PROVE  (FiniteInv /\ ChildInv /\ SummaryInv /\ StagingInv /\ StopInv)'
<1>1. /\ \A u \in Table : db'[u] = db[u] \cup add[u]
      /\ \A u \in Table : \A r \in add[u] : r.owner = i /\ r.id = NewId
  BY DEF Adds
<1>2. \A u \in Table : \A r \in db[u] : r.id # NewId
  BY OldIds DEF ReferenceInv
<1> USE DEF Table
<1>3. FiniteInv'
  BY <1>1, FS_Union DEF ReferenceInv, FiniteInv, Adds
<1>4. ChildInv'
  BY <1>1 DEF ReferenceInv, ChildInv, ChildTable, Adds
<1>5. SummaryInv'
  BY <1>1 DEF ReferenceInv, SummaryInv, Adds
<1>6. StagingInv'
  BY <1>1 DEF ReferenceInv, StagingInv, Adds
<1>7. StopInv'
  <2>1. ASSUME NEW s \in db["stop_visits"]
        PROVE  /\ \E c \in db'["place_clusters"] : c.id = s.id
               /\ \E b \in db'["import_batches"] : b.id = s.ref /\ b.owner = s.owner
               /\ \E g \in db'["staging_location_observations"] : g.ref = s.ref
               /\ \A q \in db'["stop_visits"] : q.id = s.id => q.ref = s.ref
    BY <1>1, <1>2 DEF ReferenceInv, StopInv
  <2>2. ASSUME NEW s \in add["stop_visits"]
        PROVE  /\ \E c \in db'["place_clusters"] : c.id = s.id
               /\ \E b \in db'["import_batches"] : b.id = s.ref /\ b.owner = s.owner
               /\ \E g \in db'["staging_location_observations"] : g.ref = s.ref
               /\ \A q \in db'["stop_visits"] : q.id = s.id => q.ref = s.ref
    <3>1. s.id = NewId /\ s.ref = NewId /\ s.owner = i
      BY <1>1 DEF Adds
    <3>2. PICK c \in add["place_clusters"] : TRUE
      BY DEF Adds
    <3>3. PICK b \in add["import_batches"] : TRUE
      BY DEF Adds
    <3>4. PICK g \in add["staging_location_observations"] : TRUE
      BY DEF Adds
    <3>5. g.ref = NewId
      BY DEF Adds
    <3>6. ASSUME NEW q \in db'["stop_visits"], q.id = s.id PROVE q.ref = s.ref
      <4>1. q \in add["stop_visits"]
        BY <1>1, <1>2, <3>1, <3>6
      <4> QED
        BY <3>1, <4>1 DEF Adds
    <3> QED
      BY <1>1, <3>1, <3>2, <3>3, <3>4, <3>5, <3>6
  <2> QED
    BY <1>1, <2>1, <2>2 DEF StopInv
<1> QED
  BY <1>3, <1>4, <1>5, <1>6, <1>7

LEMMA AddsKeepsPhases ==
  ASSUME ReferenceInv, NEW i \in Identity, InFlight(i), UNCHANGED <<lastSeen, sweep>>,
         NEW add, Adds(i, add)
  PROVE  PhaseInv'
<1>1. CASE ~Sweeping
  BY <1>1 DEF PhaseInv, Sweeping
<1>2. CASE Sweeping
  <2>1. /\ \A u \in Table : db'[u] = db[u] \cup add[u]
        /\ \A u \in Table : \A r \in add[u] : r.id = NewId /\ r.at \in Stamp(i)
    BY DEF Adds
  <2>2. StaysActive
    BY <2>1, MoreIsActive
  <2>3. \A u \in Table : \A r \in db[u] : r \in Row /\ r.id # NewId
    BY OldIds DEF ReferenceInv
  <2>4. \A u \in Table : \A r \in db[u] : Spared(r) => Spared(r)'
    BY <2>2, <2>3, SparedStays
  <2>5. \A u \in Table : \A r \in add[u] : Spared(r)'
    <3> SUFFICES ASSUME NEW u \in Table, NEW r \in add[u] PROVE Spared(r)'
      OBVIOUS
    <3>1. r.at \in Nat /\ sweep.cutoff <= r.at
      BY <1>2, <2>1, StampIsRecent DEF ReferenceInv, RowInv
    <3> QED
      BY <3>1, RecentIsSpared DEF ReferenceInv, RowInv, SessionInv
  <2>6. ASSUME NEW u \in ChildTable, NEW n \in Nat, sweep.step > n =>
                  \A r \in db[u], c \in db["statistical_comparisons"] : r.id = c.id => Spared(c)
        PROVE  sweep.step > n =>
                  \A r \in db'[u], c \in db'["statistical_comparisons"] : r.id = c.id => Spared(c)'
    BY <2>1, <2>3, <2>4, <2>5, <2>6 DEF Table, ChildTable
  <2>7. sweep' = sweep
    OBVIOUS
  <2> QED
    BY <2>1, <2>4, <2>5, <2>6, <2>7 DEF ReferenceInv, PhaseInv, ChildTable, Table
<1> QED
  BY <1>1, <1>2

-----------------------------------------------------------------------------
(* The sweep.                                                                *)

(* One batch takes rows of the table of its statement only; a statement that *)
(* ends has left no victim.                                                  *)
LEMMA BatchProgress ==
  ASSUME TypeOK, FiniteInv, SweepBatch
  PROVE  /\ \A t \in Table : \A r \in db[t] \ db'[t] : t = SweepOrder[sweep.step]
         /\ sweep.step \in 1 .. 10
         /\ \/ /\ sweep'.step = sweep.step
               /\ \E t \in Table : db[t] \ db'[t] # {}
            \/ /\ sweep'.step = sweep.step + 1
               /\ \A r \in db'[SweepOrder[sweep.step]] :
                    r \notin Victims(SweepOrder[sweep.step], sweep.cutoff)
<1>1. sweep.step \in 1 .. 10
  BY StepCount DEF SweepBatch
<1> DEFINE t0 == SweepOrder[sweep.step]
           victims == Victims(t0, sweep.cutoff)
<1>2. PICK gone \in SUBSET victims :
        /\ Cardinality(gone) = Earlier(Cardinality(victims), BatchSize)
        /\ db' = [db EXCEPT ![t0] = @ \ gone]
        /\ sweep' = IF Cardinality(gone) < BatchSize
                    THEN [sweep EXCEPT !.step = @ + 1] ELSE sweep
  BY DEF SweepBatch
<1>3. t0 \in Table
  BY <1>1 DEF SweepOrder, Table
<1>4. victims \subseteq db[t0]
  BY DEF Victims
<1>5. IsFiniteSet(victims) /\ IsFiniteSet(gone)
  BY <1>2, <1>3, <1>4, FS_Subset DEF FiniteInv
<1> HIDE DEF victims, t0
<1>6. Cardinality(gone) < BatchSize => gone = victims
  <2>1. Cardinality(gone) \in Nat /\ Cardinality(victims) \in Nat
    BY <1>5, FS_CardinalityType
  <2>2. Cardinality(gone) < BatchSize => Cardinality(gone) = Cardinality(victims)
    BY <1>2, <2>1, TimingAssumption DEF Earlier
  <2> QED
    BY <1>2, <1>5, <2>2, FS_Subset
<1>7. \A t \in Table : \A r \in db[t] \ db'[t] : t = t0
  BY <1>2 DEF TypeOK
<1>8. sweep.step \in Nat
  BY <1>1
<1>9. \/ sweep'.step = sweep.step /\ ~(Cardinality(gone) < BatchSize)
      \/ sweep'.step = sweep.step + 1 /\ \A r \in db'[t0] : r \notin victims
  BY <1>2, <1>3, <1>6 DEF TypeOK
<1>10. ~(Cardinality(gone) < BatchSize) => db[t0] \ db'[t0] # {}
  <2>1. gone = {} => Cardinality(gone) < BatchSize
    BY FS_EmptySet, TimingAssumption
  <2>2. gone \subseteq db[t0] \ db'[t0]
    BY <1>2, <1>3, <1>4 DEF TypeOK
  <2> QED
    BY <2>1, <2>2
<1> QED
  BY <1>1, <1>3, <1>7, <1>9, <1>10 DEF t0, victims

(* A batch takes nothing that makes its owner active.                        *)
LEMMA BatchKeepsActive ==
  ASSUME TypeOK, SweepBatch
  PROVE  StaysActive
<1> SUFFICES ASSUME NEW j \in Identity, Active(j, sweep.cutoff)
             PROVE  Active(j, sweep.cutoff)'
  BY DEF StaysActive
<1>1. /\ \A t \in Table : \A r \in db[t] \ db'[t] : r \in Victims(t, sweep.cutoff)
      /\ sweep'.cutoff = sweep.cutoff /\ UNCHANGED lastSeen
  BY BatchShape
<1>2. ASSUME NEW t \in Table \ ChildTable, NEW r \in db[t], r.owner = j
      PROVE  r \in db'[t]
  BY <1>1, <1>2 DEF Victims, Abandoned, ChildTable
<1>3. \A t \in {"analysis_runs", "analysis_report_snapshots", "import_batches",
                "staging_location_observations", "stop_visits", "place_clusters"} :
        \A r \in db[t] : r.owner = j => r \in db'[t]
  BY <1>2 DEF Table, ChildTable
<1> QED
  BY <1>1, <1>3 DEF Active

LEMMA BatchKeepsReferences ==
  ASSUME ReferenceInv, SweepBatch
  PROVE  (FiniteInv /\ ChildInv /\ SummaryInv /\ StagingInv /\ StopInv)'
<1>1. /\ \A t \in Table : db'[t] \subseteq db[t]
      /\ \A t \in Table : \A r \in db[t] \ db'[t] :
           r \in Victims(t, sweep.cutoff) /\ t = SweepOrder[sweep.step]
      /\ sweep.step \in 1 .. 10
  BY BatchShape, BatchProgress DEF ReferenceInv, RowInv, SessionInv
<1>2. \A t, u \in Table : \A r \in db[t], q \in db[u] : r.id = q.id => r.owner = q.owner
  BY DEF ReferenceInv, RowInv, IdInv
<1>3. FiniteInv'
  BY <1>1, FS_Subset DEF ReferenceInv, FiniteInv
<1>4. ASSUME NEW c \in db["statistical_comparisons"], c \notin db'["statistical_comparisons"]
      PROVE  sweep.step = 4 /\ ~Spared(c)
  BY <1>1, <1>4 DEF SweepOrder, Victims, Spared, Table
<1>5. ASSUME NEW b \in db["import_batches"], b \notin db'["import_batches"]
      PROVE  sweep.step = 10 /\ ~Spared(b)
  BY <1>1, <1>5 DEF SweepOrder, Victims, Spared, Table
<1>6. ASSUME NEW g \in db["staging_location_observations"],
             g \notin db'["staging_location_observations"]
      PROVE  sweep.step = 8 /\ ~Spared(g)
  BY <1>1, <1>6 DEF SweepOrder, Victims, Spared, Table
<1>7. ASSUME NEW c \in db["place_clusters"], c \notin db'["place_clusters"]
      PROVE  /\ \A s \in db["place_crime_summaries"] : s.ref # c.id
             /\ \A s \in db["stop_visits"] : s.id # c.id
  BY <1>1, <1>7 DEF Victims, Table
<1>8. ChildInv'
  <2> SUFFICES ASSUME NEW t \in ChildTable, NEW r \in db'[t]
               PROVE  \E c \in db'["statistical_comparisons"] : c.id = r.id
    BY DEF ChildInv
  <2>1. r \in db[t]
    BY <1>1 DEF ChildTable, Table
  <2>2. PICK c \in db["statistical_comparisons"] : c.id = r.id
    BY <2>1 DEF ReferenceInv, ChildInv
  <2>3. sweep.step = 4 => Spared(c)
    BY <2>1, <2>2 DEF ReferenceInv, PhaseInv, ChildTable
  <2> QED
    BY <1>4, <2>2, <2>3
<1>9. SummaryInv'
  <2> SUFFICES ASSUME NEW s \in db'["place_crime_summaries"]
               PROVE  \E c \in db'["place_clusters"] : c.id = s.ref
    BY DEF SummaryInv
  <2>1. s \in db["place_crime_summaries"]
    BY <1>1 DEF Table
  <2> QED
    BY <1>7, <2>1 DEF ReferenceInv, SummaryInv
<1>10. StagingInv'
  <2> SUFFICES ASSUME NEW g \in db'["staging_location_observations"]
               PROVE  /\ g.ref = g.id
                      /\ \E b \in db'["import_batches"] : b.id = g.ref /\ b.at = g.at
    BY DEF StagingInv
  <2>1. g \in db["staging_location_observations"]
    BY <1>1 DEF Table
  <2>2. PICK b \in db["import_batches"] : b.id = g.ref /\ b.at = g.at
    BY <2>1 DEF ReferenceInv, StagingInv
  <2>3. g.ref = g.id /\ b.owner = g.owner
    BY <1>2, <2>1, <2>2 DEF ReferenceInv, StagingInv, Table
  <2>4. sweep.step = 10 => Spared(b)
    BY <2>1, <2>2, <2>3 DEF ReferenceInv, PhaseInv, Spared, Abandoned
  <2> QED
    BY <1>5, <2>2, <2>3, <2>4
<1>11. StopInv'
  <2> SUFFICES ASSUME NEW s \in db'["stop_visits"]
               PROVE  /\ \E c \in db'["place_clusters"] : c.id = s.id
                      /\ \E b \in db'["import_batches"] : b.id = s.ref /\ b.owner = s.owner
                      /\ \E g \in db'["staging_location_observations"] : g.ref = s.ref
                      /\ \A q \in db'["stop_visits"] : q.id = s.id => q.ref = s.ref
    BY DEF StopInv
  <2>1. s \in db["stop_visits"] /\ \A q \in db'["stop_visits"] : q \in db["stop_visits"]
    BY <1>1 DEF Table
  <2>2. PICK b \in db["import_batches"] : b.id = s.ref /\ b.owner = s.owner
    BY <2>1 DEF ReferenceInv, StopInv
  <2>3. PICK g \in db["staging_location_observations"] : g.ref = s.ref
    BY <2>1 DEF ReferenceInv, StopInv
  <2>4. g.owner = s.owner
    BY <1>2, <2>2, <2>3 DEF ReferenceInv, StagingInv, Table
  <2>5. sweep.step > 7 => Active(s.owner, sweep.cutoff)
    <3>1. s.at \in Nat /\ sweep.cutoff \in Int
      BY <2>1 DEF ReferenceInv, RowInv, SessionInv, TypeOK, Row, Table
    <3> QED
      BY <2>1, <3>1 DEF ReferenceInv, PhaseInv, Spared, Abandoned, Active
  <2>6. b \in db'["import_batches"]
    BY <1>5, <2>2, <2>5 DEF Spared, Abandoned
  <2>7. g \in db'["staging_location_observations"]
    BY <1>6, <2>3, <2>4, <2>5 DEF Spared, Abandoned
  <2>8. \E c \in db'["place_clusters"] : c.id = s.id
    BY <1>7, <2>1 DEF ReferenceInv, StopInv
  <2> QED
    BY <2>1, <2>2, <2>3, <2>6, <2>7, <2>8 DEF ReferenceInv, StopInv
<1> QED
  BY <1>3, <1>8, <1>9, <1>10, <1>11

LEMMA BatchKeepsPhases ==
  ASSUME ReferenceInv, SweepBatch
  PROVE  PhaseInv'
<1>1. /\ \A t \in Table : db'[t] \subseteq db[t]
      /\ sweep'.cutoff = sweep.cutoff
      /\ db \in [Table -> SUBSET Row]
  BY BatchShape DEF ReferenceInv, RowInv, SessionInv, TypeOK
<1>2. /\ sweep.step \in 1 .. 10
      /\ \/ sweep'.step = sweep.step
         \/ /\ sweep'.step = sweep.step + 1
            /\ \A r \in db'[SweepOrder[sweep.step]] :
                 r \notin Victims(SweepOrder[sweep.step], sweep.cutoff)
  BY BatchProgress DEF ReferenceInv, RowInv, SessionInv
<1>3. \A t \in Table : \A r \in db[t] : Spared(r) => Spared(r)'
  BY <1>1, BatchKeepsActive, SparedStays DEF ReferenceInv, RowInv, SessionInv
<1>4. ASSUME NEW k \in 1 .. 10, sweep'.step > k
      PROVE  \/ sweep.step > k
             \/ \A r \in db'[SweepOrder[k]] : r \notin Victims(SweepOrder[k], sweep.cutoff)
  BY <1>2, <1>4
<1>5. /\ SweepOrder[2] = "statistical_pairwise_results"
      /\ SweepOrder[3] = "statistical_comparison_options"
      /\ SweepOrder[7] = "stop_visits"
      /\ SweepOrder[8] = "staging_location_observations"
  BY DEF SweepOrder
<1>6. ASSUME NEW k \in {2, 3}, sweep'.step > k,
             NEW r \in db'[SweepOrder[k]], NEW c \in db'["statistical_comparisons"],
             r.id = c.id
      PROVE  Spared(c)'
  <2>1. r \in db[SweepOrder[k]] /\ c \in db["statistical_comparisons"]
    BY <1>1, <1>5 DEF Table
  <2>2. \/ sweep.step > k
        \/ r \notin Victims(SweepOrder[k], sweep.cutoff)
    BY <1>4, <1>6
  <2>3. Spared(c)
    <3>1. CASE sweep.step > k
      BY <1>5, <1>6, <2>1, <3>1 DEF ReferenceInv, PhaseInv
    <3>2. CASE r \notin Victims(SweepOrder[k], sweep.cutoff)
      BY <1>5, <1>6, <2>1, <3>2 DEF Victims, Spared
    <3> QED
      BY <2>2, <3>1, <3>2
  <2> QED
    BY <1>3, <2>1, <2>3 DEF Table
<1>7. ASSUME NEW k \in {7, 8}, sweep'.step > k, NEW r \in db'[SweepOrder[k]]
      PROVE  Spared(r)'
  <2>1. r \in db[SweepOrder[k]] /\ SweepOrder[k] \in Table
    BY <1>1, <1>5 DEF Table
  <2>2. \/ sweep.step > k
        \/ r \notin Victims(SweepOrder[k], sweep.cutoff)
    BY <1>4, <1>7
  <2>3. Spared(r)
    <3>1. CASE sweep.step > k
      BY <1>5, <1>7, <2>1, <3>1 DEF ReferenceInv, PhaseInv
    <3>2. CASE r \notin Victims(SweepOrder[k], sweep.cutoff)
      BY <1>5, <1>7, <2>1, <3>2 DEF Victims, Spared
    <3> QED
      BY <2>2, <3>1, <3>2
  <2> QED
    BY <1>3, <2>1, <2>3
<1> QED
  BY <1>5, <1>6, <1>7 DEF PhaseInv

-----------------------------------------------------------------------------
(* The two requests that take rows away.                                     *)

LEMMA PhasesStay ==
  ASSUME ReferenceInv, StaysActive, UNCHANGED sweep,
         \A u \in ChildTable \cup {"statistical_comparisons", "staging_location_observations"} :
           db'[u] = db[u],
         \A s \in db'["stop_visits"] : s \in db["stop_visits"] \/ Spared(s)'
  PROVE  PhaseInv'
<1>1. \A t \in Table : \A r \in db[t] : Spared(r) => Spared(r)'
  BY SparedStays DEF ReferenceInv, RowInv, SessionInv, TypeOK
<1> QED
  BY <1>1 DEF ReferenceInv, PhaseInv, ChildTable, Table

LEMMA IdlePhases ==
  ASSUME ~Sweeping, sweep' = sweep
  PROVE  PhaseInv'
BY DEF PhaseInv, Sweeping

(* What an edit of c does: e is c but for its updated_at.                    *)
Edits(i, c, e) ==
    /\ e.id = c.id /\ e.owner = c.owner /\ e.at = c.at /\ e.touched \in Stamp(i)
    /\ \A u \in Table \ {"place_clusters"} : db'[u] = db[u]
    /\ db'["place_clusters"] = (db["place_clusters"] \ {c}) \cup {e}

LEMMA EditEffect ==
  ASSUME TypeOK, NEW i \in Identity, EditPlace(i)
  PROVE  \E c \in Own("place_clusters", i) : \E e : Edits(i, c, e)
<1>1. PICK c \in Own("place_clusters", i), t \in Stamp(i) :
        db' = [db EXCEPT !["place_clusters"] = (@ \ {c}) \cup {[c EXCEPT !.touched = t]}]
  BY DEF EditPlace
<1>2. PICK e : e = [c EXCEPT !.touched = t]
  OBVIOUS
<1>3. c \in Row
  BY DEF TypeOK, Own, Table
<1>4. e.id = c.id /\ e.owner = c.owner /\ e.at = c.at /\ e.touched = t
  BY <1>2, <1>3 DEF Row
<1>5. /\ \A u \in Table \ {"place_clusters"} : db'[u] = db[u]
      /\ db'["place_clusters"] = (db["place_clusters"] \ {c}) \cup {e}
  BY <1>1, <1>2 DEF TypeOK, Table
<1> QED
  BY <1>4, <1>5 DEF Edits

LEMMA EditKeepsReferences ==
  ASSUME ReferenceInv, NEW i \in Identity, EditPlace(i)
  PROVE  /\ (FiniteInv /\ ChildInv /\ SummaryInv /\ StagingInv /\ StopInv /\ PhaseInv)'
         /\ Sweeping => StaysActive
<1>a. PICK c \in Own("place_clusters", i) : \E e : Edits(i, c, e)
  BY EditEffect DEF ReferenceInv, RowInv, SessionInv
<1>1. PICK edited : Edits(i, c, edited)
  BY <1>a
<1>2. InFlight(i) /\ lastSeen' = lastSeen /\ sweep' = sweep
  BY WriteCommits DEF Write
<1>3. PICK t \in Stamp(i) : t = edited.touched
  BY <1>1 DEF Edits
<1>4. /\ c \in db["place_clusters"]
      /\ edited.id = c.id /\ edited.owner = c.owner /\ edited.at = c.at /\ edited.touched = t
  BY <1>1, <1>3 DEF Own, Edits
<1>5. /\ \A u \in Table \ {"place_clusters"} : db'[u] = db[u]
      /\ db'["place_clusters"] = (db["place_clusters"] \ {c}) \cup {edited}
  BY <1>1 DEF Edits
<1>6. \A k : (\E d \in db["place_clusters"] : d.id = k) => \E d \in db'["place_clusters"] : d.id = k
  BY <1>4, <1>5
<1> USE DEF Table
<1>7. FiniteInv'
  <2>1. IsFiniteSet(db["place_clusters"] \ {c})
    BY FS_Subset DEF ReferenceInv, FiniteInv
  <2>2. IsFiniteSet(db'["place_clusters"])
    BY <1>5, <2>1, FS_AddElement
  <2> QED
    BY <1>5, <2>2 DEF ReferenceInv, FiniteInv
<1>8. (ChildInv /\ SummaryInv /\ StagingInv /\ StopInv)'
  <2>1. (ChildInv /\ StagingInv)'
    BY <1>5 DEF ReferenceInv, ChildInv, ChildTable, StagingInv
  <2>2. SummaryInv'
    BY <1>5, <1>6 DEF ReferenceInv, SummaryInv
  <2>3. StopInv'
    BY <1>5, <1>6 DEF ReferenceInv, StopInv
  <2> QED
    BY <2>1, <2>2, <2>3
<1>9. CASE ~Sweeping
  BY <1>2, <1>9, <1>7, <1>8, IdlePhases
<1>10. CASE Sweeping
  <2>1. sweep.cutoff <= t
    BY <1>2, <1>10, StampIsRecent DEF ReferenceInv, RowInv
  <2>2. StaysActive
    BY <1>2, <1>4, <1>5, <2>1 DEF StaysActive, Active
  <2>3. /\ \A u \in ChildTable \cup {"statistical_comparisons",
                                   "staging_location_observations"} : db'[u] = db[u]
        /\ \A s \in db'["stop_visits"] : s \in db["stop_visits"]
    BY <1>5 DEF ChildTable
  <2>4. PhaseInv'
    BY <1>2, <2>2, <2>3, PhasesStay
  <2> QED
    BY <1>7, <1>8, <2>2, <2>4
<1> QED
  BY <1>7, <1>8, <1>9, <1>10

(* What a normalisation of b does, given what it finds of an earlier one.    *)
Normalizes(i, b, t, old, new) ==
    /\ \A k : k \in old <=> \E s \in db["stop_visits"] : s.owner = i /\ s.ref = b.id /\ s.id = k
    /\ IF \E s \in db["staging_location_observations"] : s.ref = b.id
       THEN new = {NewRow(i, t, NewId, b.id)} ELSE new = {}
    /\ \A u \in Table \ {"place_crime_summaries", "stop_visits", "place_clusters"} :
         db'[u] = db[u]
    /\ db'["place_crime_summaries"] = {s \in db["place_crime_summaries"] : s.ref \notin old}
    /\ db'["stop_visits"] = {s \in db["stop_visits"] : s.ref # b.id} \cup new
    /\ db'["place_clusters"] =
         {c \in db["place_clusters"] : ~(c.id \in old /\ c.owner = i)} \cup new

LEMMA NormalizeEffect ==
  ASSUME TypeOK, NEW i \in Identity, Normalize(i)
  PROVE  \E b \in Own("import_batches", i), t \in Stamp(i) :
           \E old, new : Normalizes(i, b, t, old, new)
<1>1. PICK b \in Own("import_batches", i), t \in Stamp(i) :
        LET old == {s.id : s \in {s \in Own("stop_visits", i) : s.ref = b.id}}
            new == IF \E s \in db["staging_location_observations"] : s.ref = b.id
                   THEN {NewRow(i, t, NewId, b.id)} ELSE {}
        IN  db' = [db EXCEPT
              !["place_crime_summaries"] = {s \in @ : s.ref \notin old},
              !["stop_visits"] = {s \in @ : s.ref # b.id} \cup new,
              !["place_clusters"] =
                 {c \in @ : ~(c.id \in old /\ c.owner = i)} \cup new]
  BY DEF Normalize
<1> DEFINE old == {s.id : s \in {s \in Own("stop_visits", i) : s.ref = b.id}}
           new == IF \E s \in db["staging_location_observations"] : s.ref = b.id
                  THEN {NewRow(i, t, NewId, b.id)} ELSE {}
<1>2. db' = [db EXCEPT
              !["place_crime_summaries"] = {s \in @ : s.ref \notin old},
              !["stop_visits"] = {s \in @ : s.ref # b.id} \cup new,
              !["place_clusters"] =
                 {c \in @ : ~(c.id \in old /\ c.owner = i)} \cup new]
  BY <1>1
<1>3. \A k : k \in old <=> \E s \in db["stop_visits"] : s.owner = i /\ s.ref = b.id /\ s.id = k
  BY DEF Own
<1>4. IF \E s \in db["staging_location_observations"] : s.ref = b.id
      THEN new = {NewRow(i, t, NewId, b.id)} ELSE new = {}
  OBVIOUS
<1> HIDE DEF old, new
<1>5. /\ \A u \in Table \ {"place_crime_summaries", "stop_visits", "place_clusters"} :
           db'[u] = db[u]
      /\ db'["place_crime_summaries"] = {s \in db["place_crime_summaries"] : s.ref \notin old}
      /\ db'["stop_visits"] = {s \in db["stop_visits"] : s.ref # b.id} \cup new
      /\ db'["place_clusters"] =
           {c \in db["place_clusters"] : ~(c.id \in old /\ c.owner = i)} \cup new
  BY <1>2 DEF TypeOK, Table
<1>6. Normalizes(i, b, t, old, new)
  BY <1>3, <1>4, <1>5 DEF Normalizes
<1> QED
  BY <1>6

LEMMA NormalizeKeepsReferences ==
  ASSUME ReferenceInv, NEW i \in Identity, Normalize(i)
  PROVE  /\ (FiniteInv /\ ChildInv /\ SummaryInv /\ StagingInv /\ StopInv /\ PhaseInv)'
         /\ Sweeping => StaysActive
<1>0. TypeOK /\ InFlight(i) /\ lastSeen' = lastSeen /\ sweep' = sweep
  BY WriteCommits DEF Write, ReferenceInv, RowInv, SessionInv
<1>a0. PICK b \in Own("import_batches", i), t \in Stamp(i) :
        \E old, new : Normalizes(i, b, t, old, new)
  BY <1>0, NormalizeEffect
<1>a. PICK old, new : Normalizes(i, b, t, old, new)
  BY <1>a0
<1>1. /\ \A k : k \in old <=> \E s \in db["stop_visits"] : s.owner = i /\ s.ref = b.id /\ s.id = k
      /\ IF \E s \in db["staging_location_observations"] : s.ref = b.id
         THEN new = {NewRow(i, t, NewId, b.id)} ELSE new = {}
      /\ \A u \in Table \ {"place_crime_summaries", "stop_visits", "place_clusters"} :
           db'[u] = db[u]
      /\ db'["place_crime_summaries"] = {s \in db["place_crime_summaries"] : s.ref \notin old}
      /\ db'["stop_visits"] = {s \in db["stop_visits"] : s.ref # b.id} \cup new
      /\ db'["place_clusters"] =
           {c \in db["place_clusters"] : ~(c.id \in old /\ c.owner = i)} \cup new
  BY <1>a DEF Normalizes
<1>2. b \in db["import_batches"] /\ b.owner = i
  BY DEF Own
<1>3. /\ \A u \in Table : \A r \in db[u] : r \in Row /\ r.id # NewId
      /\ \A u, w \in Table : \A r \in db[u], q \in db[w] : r.id = q.id => r.owner = q.owner
  BY OldIds DEF ReferenceInv, RowInv, IdInv
<1>4. ASSUME NEW s \in db["stop_visits"], s.ref = b.id
      PROVE  s.owner = i /\ s.id \in old /\ new # {}
  <2>1. s.owner = i
    BY <1>2, <1>3, <1>4 DEF ReferenceInv, StopInv, Table
  <2> QED
    BY <1>1, <1>4, <2>1 DEF ReferenceInv, StopInv
<1> USE DEF Table
(* Nothing to read again: nothing was there from an earlier reading either.  *)
<1>5. CASE new = {}
  <2>1. old = {}
    BY <1>1, <1>4, <1>5
  <2>2. \A u \in Table : db'[u] = db[u]
    BY <1>1, <1>4, <1>5, <2>1
  <2>3. StaysActive
    BY <1>0, <2>2, MoreIsActive
  <2>4. PhaseInv'
    BY <1>0, <2>2, <2>3, PhasesStay DEF ChildTable
  <2> QED
    BY <2>2, <2>3, <2>4
    DEF ReferenceInv, FiniteInv, ChildInv, ChildTable, SummaryInv, StagingInv, StopInv
<1>6. CASE new # {}
  <2>0. PICK n : n = NewRow(i, t, NewId, b.id)
    OBVIOUS
  <2>1. new = {n} /\ \E g \in db["staging_location_observations"] : g.ref = b.id
    BY <1>1, <1>6, <2>0
  <2>2. n.id = NewId /\ n.ref = b.id /\ n.owner = i /\ n.at = t
    BY <2>0 DEF NewRow
  <2>3. FiniteInv'
    <3> DEFINE stops == {s \in db["stop_visits"] : s.ref # b.id}
               clusters == {c \in db["place_clusters"] : ~(c.id \in old /\ c.owner = i)}
    <3>0. db'["stop_visits"] = stops \cup {n} /\ db'["place_clusters"] = clusters \cup {n}
      BY <1>1, <2>1
    <3>1. IsFiniteSet(stops) /\ IsFiniteSet(clusters) /\ IsFiniteSet(db'["place_crime_summaries"])
      BY <1>1, FS_Subset DEF ReferenceInv, FiniteInv
    <3> HIDE DEF stops, clusters
    <3>2. IsFiniteSet(db'["stop_visits"]) /\ IsFiniteSet(db'["place_clusters"])
      BY <3>0, <3>1, FS_AddElement
    <3> QED
      BY <1>1, <3>1, <3>2 DEF ReferenceInv, FiniteInv
  <2>4. (ChildInv /\ StagingInv)'
    BY <1>1 DEF ReferenceInv, ChildInv, ChildTable, StagingInv
  <2>5. SummaryInv'
    BY <1>1 DEF ReferenceInv, SummaryInv
  <2>6. StopInv'
    <3>1. /\ db'["import_batches"] = db["import_batches"]
          /\ db'["staging_location_observations"] = db["staging_location_observations"]
      BY <1>1
    <3>2. n \in db'["place_clusters"] /\ \A q \in db'["stop_visits"] :
            q = n \/ (q \in db["stop_visits"] /\ q.ref # b.id)
      BY <1>1, <2>1
    <3>3. ASSUME NEW s \in db["stop_visits"], s.ref # b.id
          PROVE  \E c \in db'["place_clusters"] : c.id = s.id
      <4>1. s.id \notin old
        BY <1>1, <3>3 DEF ReferenceInv, StopInv
      <4> QED
        BY <1>1, <4>1 DEF ReferenceInv, StopInv
    <3>4. ASSUME NEW s \in db["stop_visits"], s.ref # b.id, NEW q \in db'["stop_visits"],
                 q.id = s.id
          PROVE  q.ref = s.ref
      BY <1>3, <2>2, <3>2, <3>4 DEF ReferenceInv, StopInv
    <3>5. ASSUME NEW q \in db'["stop_visits"], q.id = n.id PROVE q.ref = n.ref
      BY <1>3, <2>2, <3>2, <3>5
    <3> QED
      BY <1>2, <2>1, <2>2, <3>1, <3>2, <3>3, <3>4, <3>5 DEF ReferenceInv, StopInv
  <2>7. CASE ~Sweeping
    BY <1>0, <2>3, <2>4, <2>5, <2>6, <2>7, IdlePhases
  <2>8. CASE Sweeping
    <3>1. t \in Nat /\ sweep.cutoff \in Int /\ sweep.cutoff <= t
      BY <1>0, <2>8, StampIsRecent DEF ReferenceInv, RowInv
    <3>2. Spared(n)'
      BY <1>0, <2>2, <3>1, RecentIsSpared
    <3>3. StaysActive
      <4> SUFFICES ASSUME NEW j \in Identity, Active(j, sweep.cutoff)
                   PROVE  Active(j, sweep.cutoff)'
        BY DEF StaysActive
      <4>1. CASE j = i
        BY <1>0, <1>1, <2>1, <2>2, <3>1, <4>1 DEF Active
      <4>2. CASE j # i
        <5>1. \A u \in Table \ {"place_crime_summaries"} : \A r \in db[u] :
                r.owner = j => r \in db'[u]
          BY <1>1, <1>4, <4>2
        <5> QED
          BY <1>0, <5>1 DEF Active
      <4> QED
        BY <4>1, <4>2
    <3>4. \A s \in db'["stop_visits"] : s \in db["stop_visits"] \/ Spared(s)'
      BY <1>1, <2>1, <3>2
    <3> QED
      BY <1>0, <1>1, <2>3, <2>4, <2>5, <2>6, <3>3, <3>4, PhasesStay DEF ChildTable
  <2> QED
    BY <2>7, <2>8
<1> QED
  BY <1>5, <1>6

-----------------------------------------------------------------------------
(* Every other step leaves the rows alone.                                   *)

LEMMA UntouchedRows ==
  ASSUME ReferenceInv, db' = db
  PROVE  (FiniteInv /\ ChildInv /\ SummaryInv /\ StagingInv /\ StopInv)'
BY DEF ReferenceInv, FiniteInv, ChildInv, SummaryInv, StagingInv, StopInv

(* A new session or a resumed one is more recent than any cutoff.            *)
LEMMA SessionKeepsActive ==
  ASSUME ReferenceInv, Sweeping, NEW i \in Identity, CreateSession(i) \/ Resume(i)
  PROVE  StaysActive
<1>1. /\ db' = db /\ sweep' = sweep
      /\ \A j \in Identity \ {i} : lastSeen'[j] = lastSeen[j]
      /\ \/ lastSeen'[i] = now
         \/ InFlight(i) /\ lastSeen'[i] \in Stamp(i)
  <2>1. TypeOK
    BY DEF ReferenceInv, RowInv, SessionInv
  <2>2. CASE CreateSession(i)
    BY <2>1, <2>2 DEF CreateSession, TypeOK
  <2>3. CASE Resume(i)
    <3>1. PICK seen \in Stamp(i) : lastSeen' = [lastSeen EXCEPT ![i] = seen]
      BY <2>1, <2>3, ResumeShape
    <3>2. db' = db /\ sweep' = sweep /\ InFlight(i)
      BY <2>1, <2>3, ResumeShape, RequestEnds
    <3> QED
      BY <2>1, <3>1, <3>2 DEF TypeOK
  <2> QED
    BY <2>2, <2>3
<1>2. now # 0 /\ now \in Nat /\ sweep.cutoff \in Int /\ sweep.cutoff <= now
  BY TimingAssumption DEF ReferenceInv, RowInv, SessionInv, TypeOK, ClockInv
<1>3. lastSeen'[i] # 0 /\ lastSeen'[i] >= sweep.cutoff
  <2>1. CASE lastSeen'[i] = now
    BY <1>2, <2>1
  <2>2. CASE InFlight(i) /\ lastSeen'[i] \in Stamp(i)
    <3>1. lastSeen'[i] \in Nat /\ sweep.cutoff <= lastSeen'[i]
      BY <2>2, StampIsRecent DEF ReferenceInv, RowInv
    <3>2. lastSeen'[i] # 0
      BY <2>2, StampType DEF ReferenceInv, RowInv, SessionInv
    <3> QED
      BY <1>2, <3>1, <3>2
  <2> QED
    BY <1>1, <2>1, <2>2
<1> QED
  BY <1>1, <1>3 DEF StaysActive, Active

LEMMA ReferenceInvInit == Init => ReferenceInv
<1> SUFFICES ASSUME Init PROVE ReferenceInv
  OBVIOUS
<1>1. RowInv
  BY RowInvInit
<1>2. FlightInv /\ PhaseInv
  BY DEF Init, FlightInv, InFlight, PhaseInv
<1>3. \A t \in Table : db[t] = {}
  BY DEF Init
<1>4. FiniteInv
  BY <1>3, FS_EmptySet DEF FiniteInv
<1>5. ChildInv /\ SummaryInv /\ StagingInv /\ StopInv
  BY <1>3 DEF ChildInv, ChildTable, SummaryInv, StagingInv, StopInv, Table
<1> QED
  BY <1>1, <1>2, <1>4, <1>5 DEF ReferenceInv

LEMMA ReferenceInvStep == ReferenceInv /\ [Next]_vars => ReferenceInv'
<1> SUFFICES ASSUME ReferenceInv, [Next]_vars PROVE ReferenceInv'
  OBVIOUS
<1>0. RowInv' /\ FlightInv'
  BY RowInvStep, FlightStep DEF ReferenceInv, RowInv
<1> SUFFICES (FiniteInv /\ ChildInv /\ SummaryInv /\ StagingInv /\ StopInv /\ PhaseInv)'
  BY <1>0 DEF ReferenceInv
<1>1. ASSUME NEW i \in Identity, Write(i)
      PROVE  (FiniteInv /\ ChildInv /\ SummaryInv /\ StagingInv /\ StopInv /\ PhaseInv)'
  <2>1. CASE EditPlace(i)
    BY <2>1, EditKeepsReferences
  <2>2. CASE Normalize(i)
    BY <2>2, NormalizeKeepsReferences
  <2>3. CASE CreatePlace(i) \/ Analyze(i) \/ Compare(i) \/ CreateReport(i)
             \/ Upload(i) \/ Import(i)
    <3>1. PICK add : Adds(i, add)
      BY <2>3, WriteAdds DEF ReferenceInv, RowInv, SessionInv
    <3>2. InFlight(i) /\ UNCHANGED <<lastSeen, sweep>>
      BY <1>1, WriteCommits
    <3> QED
      BY <3>1, <3>2, AddsKeepsReferences, AddsKeepsPhases
  <2> QED
    BY <1>1, <2>1, <2>2, <2>3 DEF Write
<1>2. CASE SweepBatch
  BY <1>2, BatchKeepsReferences, BatchKeepsPhases
<1>3. CASE SweepStart \/ SweepActivity \/ SweepCrash
  <2>1. db' = db /\ sweep'.step \in {0, 1}
    BY <1>3 DEF SweepStart, SweepActivity, SweepCrash
  <2>2. PhaseInv'
    BY <2>1 DEF PhaseInv
  <2> QED
    BY <2>1, <2>2, UntouchedRows
<1>4. ASSUME db' = db, sweep' = sweep, Sweeping => StaysActive PROVE PhaseInv'
  <2>1. /\ \A u \in ChildTable \cup {"statistical_comparisons",
                                   "staging_location_observations"} : db'[u] = db[u]
        /\ \A s \in db'["stop_visits"] : s \in db["stop_visits"]
    BY <1>4
  <2> QED
    BY <1>4, <2>1, IdlePhases, PhasesStay
<1>5. ASSUME NEW i \in Identity, CreateSession(i) \/ Resume(i)
      PROVE  (FiniteInv /\ ChildInv /\ SummaryInv /\ StagingInv /\ StopInv /\ PhaseInv)'
  <2>1. db' = db /\ sweep' = sweep
    BY <1>5 DEF CreateSession, Resume
  <2> QED
    BY <1>4, <1>5, <2>1, SessionKeepsActive, UntouchedRows
<1>6. ASSUME db' = db, UNCHANGED <<lastSeen, sweep>>
      PROVE  (FiniteInv /\ ChildInv /\ SummaryInv /\ StagingInv /\ StopInv /\ PhaseInv)'
  <2>1. StaysActive
    BY <1>6, MoreIsActive
  <2> QED
    BY <1>4, <1>6, <2>1, UntouchedRows
<1>7. ASSUME NEW i \in Identity, DeleteSession(i) \/ Begin(i) \/ Fail(i)
      PROVE  db' = db /\ UNCHANGED <<lastSeen, sweep>>
  BY <1>7 DEF DeleteSession, Begin, Fail, session
<1>8. ASSUME Tick \/ UNCHANGED vars
      PROVE  db' = db /\ UNCHANGED <<lastSeen, sweep>>
  BY <1>8 DEF Tick, vars, session
<1> QED
  BY <1>1, <1>2, <1>3, <1>5, <1>6, <1>7, <1>8 DEF Next, Sweep

(* Whatever a sweep has deleted so far, and whatever commits in between, no  *)
(* row refers to a row that is gone.                                         *)
THEOREM NothingDangles == Spec => []NoDanglingReference
<1>1. ReferenceInv => NoDanglingReference
  BY DEF ReferenceInv, ChildInv, ChildTable, SummaryInv, StagingInv, StopInv,
         NoDanglingReference
<1> QED
  BY <1>1, ReferenceInvInit, ReferenceInvStep, PTL DEF Spec

-----------------------------------------------------------------------------
(***************************************************************************)
(* A sweep that comes to its last statement has left nothing that it was to *)
(* delete, although requests have gone on writing and every statement has   *)
(* judged activity anew; and of a public identity that had fallen silent    *)
(* before it began, it has left nothing at all.                             *)
(*                                                                          *)
(* Two kinds of rows are judged by another row.  The children of a          *)
(* comparison go when it goes, so they must be of its age; a cluster is     *)
(* kept while a summary refers to it, so a summary that is kept must keep   *)
(* its owner active, although a summary is no activity: its run is, of the  *)
(* same age and owner.                                                      *)
(***************************************************************************)

AgeInv ==
    \A u \in ChildTable : \A r \in db[u], c \in db["statistical_comparisons"] :
      r.id = c.id => r.at = c.at

PlaceInv ==
    \A s \in db["place_crime_summaries"], c \in db["place_clusters"] :
      s.ref = c.id => s.owner = c.owner

RunInv ==
    \A s \in db["place_crime_summaries"] :
      \/ \E r \in db["analysis_runs"] : r.owner = s.owner /\ r.at = s.at
      \/ s.at + Retention < now /\ (Sweeping => s.at < sweep.cutoff)

(* A statement that has ended has spared what it has left, and what has come *)
(* since.                                                                    *)
SweptInv ==
    \A k \in 1 .. 10 : sweep.step > k => \A r \in db[SweepOrder[k]] : Spared(r)

SweepInv == ReferenceInv /\ AgeInv /\ PlaceInv /\ RunInv /\ SweptInv

(* What a request leaves, whichever it is.                                   *)
Alike(r, q) == r.owner = q.owner /\ r.id = q.id /\ r.at = q.at

Leaves(i) ==
    /\ \A u \in Table : \A r \in db'[u] :
         \/ r.owner = i /\ r.id = NewId /\ r.at \in Stamp(i)
         \/ \E q \in db[u] :
              /\ Alike(r, q)
              /\ q = r \/ (u = "place_clusters" /\ r.owner = i /\ r.touched \in Stamp(i))
    /\ \A u \in ChildTable : \A r \in db'[u], c \in db'["statistical_comparisons"] :
         r.id = c.id => r.at = c.at \/ (r \in db[u] /\ c \in db["statistical_comparisons"])
    /\ db["analysis_runs"] \subseteq db'["analysis_runs"]
    /\ \A s \in db'["place_crime_summaries"] :
         \/ s \in db["place_crime_summaries"]
         \/ /\ s.owner = i
            /\ \E c \in db["place_clusters"] : c.id = s.ref /\ c.owner = i
            /\ \E r \in db'["analysis_runs"] : r.owner = i /\ r.at = s.at

LEMMA AddsLeaves ==
  ASSUME ReferenceInv, NEW i \in Identity, NEW add, Adds(i, add)
  PROVE  Leaves(i)
<1>1. /\ \A u \in Table : db'[u] = db[u] \cup add[u]
      /\ \A u \in Table : \A r \in add[u] : r.owner = i /\ r.id = NewId /\ r.at \in Stamp(i)
  BY DEF Adds
<1>2. \A u \in Table : \A r \in db[u] : r.id # NewId
  BY OldIds DEF ReferenceInv
<1>3. \A u \in Table : \A r \in db'[u] :
        \/ r.owner = i /\ r.id = NewId /\ r.at \in Stamp(i)
        \/ \E q \in db[u] : Alike(r, q) /\ q = r
  BY <1>1 DEF Alike
<1>4. ASSUME NEW u \in ChildTable, NEW r \in db'[u], NEW c \in db'["statistical_comparisons"],
             r.id = c.id
      PROVE  r.at = c.at \/ (r \in db[u] /\ c \in db["statistical_comparisons"])
  <2>1. u \in Table /\ "statistical_comparisons" \in Table
    BY DEF ChildTable, Table
  <2>2. CASE r \in add[u]
    <3>1. c \in add["statistical_comparisons"]
      BY <1>1, <1>2, <1>4, <2>1, <2>2
    <3> QED
      BY <2>2, <3>1 DEF Adds
  <2>3. CASE r \in db[u]
    BY <1>1, <1>2, <1>4, <2>1, <2>3
  <2> QED
    BY <1>1, <2>1, <2>2, <2>3
<1>5. \A s \in db'["place_crime_summaries"] :
         \/ s \in db["place_crime_summaries"]
         \/ /\ s.owner = i
            /\ \E c \in db["place_clusters"] : c.id = s.ref /\ c.owner = i
            /\ \E r \in db'["analysis_runs"] : r.owner = i /\ r.at = s.at
  <2> SUFFICES ASSUME NEW s \in add["place_crime_summaries"]
               PROVE  /\ s.owner = i
                      /\ \E c \in db["place_clusters"] : c.id = s.ref /\ c.owner = i
                      /\ \E r \in db'["analysis_runs"] : r.owner = i /\ r.at = s.at
    BY <1>1 DEF Table
  <2>1. PICK r \in add["analysis_runs"] : r.at = s.at
    BY DEF Adds
  <2>2. r \in db'["analysis_runs"] /\ r.owner = i /\ s.owner = i
    BY <1>1, <2>1 DEF Table
  <2> QED
    BY <2>1, <2>2 DEF Adds
<1>6. db["analysis_runs"] \subseteq db'["analysis_runs"]
  BY <1>1 DEF Table
<1> QED
  BY <1>3, <1>4, <1>5, <1>6 DEF Leaves

LEMMA EditLeaves ==
  ASSUME ReferenceInv, NEW i \in Identity, EditPlace(i)
  PROVE  Leaves(i)
<1>a. PICK c \in Own("place_clusters", i) : \E e : Edits(i, c, e)
  BY EditEffect DEF ReferenceInv, RowInv, SessionInv
<1>1. PICK e : Edits(i, c, e)
  BY <1>a
<1>2. /\ c \in db["place_clusters"] /\ c.owner = i /\ Alike(e, c) /\ e.owner = i
      /\ e.touched \in Stamp(i)
      /\ \A u \in Table \ {"place_clusters"} : db'[u] = db[u]
      /\ db'["place_clusters"] = (db["place_clusters"] \ {c}) \cup {e}
  BY <1>1 DEF Edits, Own, Alike
<1>3. \A u \in Table : \A r \in db'[u] : \E q \in db[u] :
        /\ Alike(r, q)
        /\ q = r \/ (u = "place_clusters" /\ r.owner = i /\ r.touched \in Stamp(i))
  <2> SUFFICES ASSUME NEW u \in Table, NEW r \in db'[u]
               PROVE  \E q \in db[u] :
                        /\ Alike(r, q)
                        /\ q = r \/ (u = "place_clusters" /\ r.owner = i /\ r.touched \in Stamp(i))
    OBVIOUS
  <2>1. CASE r \in db[u]
    BY <2>1 DEF Alike
  <2>2. CASE r \notin db[u]
    <3>1. u = "place_clusters" /\ r = e
      BY <1>2, <2>2
    <3> QED
      BY <1>2, <3>1
  <2> QED
    BY <2>1, <2>2
<1>4. \A u \in ChildTable \cup {"statistical_comparisons", "analysis_runs",
                              "place_crime_summaries"} : db'[u] = db[u]
  BY <1>2 DEF ChildTable, Table
<1> QED
  BY <1>3, <1>4 DEF Leaves

LEMMA NormalizeLeaves ==
  ASSUME ReferenceInv, NEW i \in Identity, Normalize(i)
  PROVE  Leaves(i)
<1>a. PICK b \in Own("import_batches", i), t \in Stamp(i) :
        \E old, new : Normalizes(i, b, t, old, new)
  BY NormalizeEffect DEF ReferenceInv, RowInv, SessionInv
<1>b. PICK old, new : Normalizes(i, b, t, old, new)
  BY <1>a
<1>1. /\ \A u \in Table \ {"place_crime_summaries", "stop_visits", "place_clusters"} :
           db'[u] = db[u]
      /\ db'["place_crime_summaries"] \subseteq db["place_crime_summaries"]
      /\ db'["stop_visits"] \subseteq db["stop_visits"] \cup new
      /\ db'["place_clusters"] \subseteq db["place_clusters"] \cup new
      /\ new \subseteq {NewRow(i, t, NewId, b.id)}
  BY <1>b DEF Normalizes
<1>2. \A r \in new : r.owner = i /\ r.id = NewId /\ r.at \in Stamp(i)
  BY <1>1 DEF NewRow
<1>3. \A u \in Table : \A r \in db'[u] : r \in db[u] \/ r \in new
  BY <1>1
<1>4. \A u \in Table : \A r \in db'[u] :
        \/ r.owner = i /\ r.id = NewId /\ r.at \in Stamp(i)
        \/ \E q \in db[u] : Alike(r, q) /\ q = r
  BY <1>2, <1>3 DEF Alike
<1>5. \A u \in ChildTable \cup {"statistical_comparisons", "analysis_runs"} : db'[u] = db[u]
  BY <1>1 DEF ChildTable, Table
<1> QED
  BY <1>1, <1>4, <1>5 DEF Leaves

LEMMA WriteLeaves ==
  ASSUME ReferenceInv, NEW i \in Identity, Write(i)
  PROVE  Leaves(i) /\ (Sweeping => StaysActive)
<1>1. CASE EditPlace(i)
  BY <1>1, EditLeaves, EditKeepsReferences
<1>2. CASE Normalize(i)
  BY <1>2, NormalizeLeaves, NormalizeKeepsReferences
<1>3. CASE CreatePlace(i) \/ Analyze(i) \/ Compare(i) \/ CreateReport(i)
           \/ Upload(i) \/ Import(i)
  <2>1. PICK add : Adds(i, add)
    BY <1>3, WriteAdds DEF ReferenceInv, RowInv, SessionInv
  <2>2. UNCHANGED <<lastSeen, sweep>> /\ \A u \in Table : db[u] \subseteq db'[u]
    BY <2>1, WriteCommits DEF Adds
  <2> QED
    BY <2>1, <2>2, AddsLeaves, MoreIsActive
<1> QED
  BY <1>1, <1>2, <1>3 DEF Write

LEMMA WriteKeepsSweepInv ==
  ASSUME SweepInv, NEW i \in Identity, Write(i)
  PROVE  (AgeInv /\ PlaceInv /\ RunInv /\ SweptInv)'
<1>0. ReferenceInv /\ AgeInv /\ PlaceInv /\ RunInv /\ SweptInv
  BY DEF SweepInv
<1>1. Leaves(i) /\ (Sweeping => StaysActive)
  BY <1>0, WriteLeaves
<1>2. InFlight(i) /\ UNCHANGED <<now, sweep>>
  BY WriteCommits
<1>3. \A u \in Table : \A r \in db[u] : r \in Row /\ r.id # NewId
  BY <1>0, OldIds DEF ReferenceInv
<1>4. AgeInv'
  BY <1>0, <1>1 DEF Leaves, AgeInv
<1>5. PlaceInv'
  <2> SUFFICES ASSUME NEW s \in db'["place_crime_summaries"], NEW c \in db'["place_clusters"],
                      s.ref = c.id
               PROVE  s.owner = c.owner
    BY DEF PlaceInv
  <2>1. PICK d \in db["place_clusters"] :
          d.id = s.ref /\ (s \in db["place_crime_summaries"] \/ s.owner = d.owner)
    BY <1>0, <1>1 DEF Leaves, ReferenceInv, SummaryInv
  <2>2. s.owner = d.owner
    BY <1>0, <2>1 DEF PlaceInv
  <2>3. c.id # NewId
    BY <1>3, <2>1 DEF Table
  <2>4. PICK q \in db["place_clusters"] : Alike(c, q)
    BY <1>1, <2>3 DEF Leaves, Table
  <2>5. q.owner = d.owner
    BY <1>0, <2>1, <2>4 DEF Alike, ReferenceInv, RowInv, IdInv, Table
  <2> QED
    BY <2>2, <2>4, <2>5 DEF Alike
<1>6. RunInv'
  <2> SUFFICES ASSUME NEW s \in db'["place_crime_summaries"]
               PROVE  \/ \E r \in db'["analysis_runs"] : r.owner = s.owner /\ r.at = s.at
                      \/ s.at + Retention < now /\ (Sweeping => s.at < sweep.cutoff)
    BY <1>2 DEF RunInv, Sweeping
  <2> QED
    BY <1>0, <1>1 DEF Leaves, RunInv
<1>7. CASE ~Sweeping
  <2>1. SweptInv'
    BY <1>2, <1>7 DEF SweptInv, Sweeping
  <2> QED
    BY <1>4, <1>5, <1>6, <2>1
<1>8. CASE Sweeping
  <2> SUFFICES ASSUME NEW k \in 1 .. 10, sweep'.step > k, NEW r \in db'[SweepOrder[k]]
               PROVE  Spared(r)'
    BY <1>4, <1>5, <1>6 DEF SweptInv
  <2>1. PICK u \in Table : u = SweepOrder[k]
    BY DEF SweepOrder, Table
  <2>2. sweep'.cutoff = sweep.cutoff /\ sweep.step > k
    BY <1>2
  <2>3. CASE r.at \in Stamp(i)
    <3>1. r.at \in Nat /\ sweep.cutoff <= r.at
      BY <1>0, <1>2, <1>8, <2>3, StampIsRecent DEF ReferenceInv, RowInv
    <3> QED
      BY <1>0, <2>2, <3>1, RecentIsSpared DEF ReferenceInv, RowInv, SessionInv
  <2>4. CASE \E q \in db[u] : Alike(r, q)
    <3>1. PICK q \in db[u] : Alike(r, q)
      BY <2>4
    <3>2. Spared(q)
      BY <1>0, <2>1, <2>2, <3>1 DEF SweptInv
    <3>3. Spared(q)'
      BY <1>1, <1>3, <1>8, <2>2, <3>2, SparedStays
    <3> QED
      BY <3>1, <3>3 DEF Spared, Abandoned, Alike
  <2> QED
    BY <1>1, <2>1, <2>3, <2>4 DEF Leaves
<1> QED
  BY <1>7, <1>8

LEMMA BatchKeepsSweepInv ==
  ASSUME SweepInv, SweepBatch
  PROVE  (AgeInv /\ PlaceInv /\ RunInv /\ SweptInv)'
<1>0. ReferenceInv /\ AgeInv /\ PlaceInv /\ RunInv /\ SweptInv
  BY DEF SweepInv
<1>1. /\ \A t \in Table : db'[t] \subseteq db[t]
      /\ \A t \in Table : \A r \in db[t] \ db'[t] : r \in Victims(t, sweep.cutoff)
      /\ sweep'.cutoff = sweep.cutoff /\ UNCHANGED <<now, lastSeen>> /\ Sweeping
      /\ db \in [Table -> SUBSET Row]
  BY <1>0, BatchShape DEF ReferenceInv, RowInv, SessionInv, TypeOK
<1>2. /\ sweep.step \in 1 .. 10
      /\ \/ sweep'.step = sweep.step
         \/ /\ sweep'.step = sweep.step + 1
            /\ \A r \in db'[SweepOrder[sweep.step]] :
                 r \notin Victims(SweepOrder[sweep.step], sweep.cutoff)
  BY <1>0, BatchProgress DEF ReferenceInv, RowInv, SessionInv
<1>3. \A t \in Table : \A r \in db[t] : Spared(r) => Spared(r)'
  BY <1>0, <1>1, BatchKeepsActive, SparedStays DEF ReferenceInv, RowInv, SessionInv
<1>4. AgeInv' /\ PlaceInv'
  BY <1>0, <1>1 DEF AgeInv, PlaceInv, ChildTable, Table
<1>5. RunInv'
  <2> SUFFICES ASSUME NEW s \in db'["place_crime_summaries"]
               PROVE  \/ \E r \in db'["analysis_runs"] : r.owner = s.owner /\ r.at = s.at
                      \/ s.at + Retention < now /\ s.at < sweep.cutoff
    BY <1>1 DEF RunInv
  <2>1. s \in db["place_crime_summaries"] /\ s \in Row
    BY <1>1 DEF Table
  <2>2. CASE s.at + Retention < now /\ s.at < sweep.cutoff
    BY <2>2
  <2>3. CASE \E r \in db["analysis_runs"] : r.owner = s.owner /\ r.at = s.at
    <3>1. PICK r \in db["analysis_runs"] : r.owner = s.owner /\ r.at = s.at
      BY <2>3
    <3>2. CASE r \in db'["analysis_runs"]
      BY <3>1, <3>2
    <3>3. CASE r \notin db'["analysis_runs"]
      <4>1. r \in Victims("analysis_runs", sweep.cutoff)
        BY <1>1, <3>3 DEF Table
      <4>2. s.at < sweep.cutoff
        BY <3>1, <4>1 DEF Victims, Abandoned
      <4>3. /\ s.at \in Nat /\ sweep.cutoff \in Int /\ now \in Nat /\ Retention \in Nat
            /\ sweep.cutoff + Retention <= now
        BY <1>0, <1>1, <2>1, TimingAssumption
        DEF Row, ReferenceInv, RowInv, SessionInv, TypeOK, ClockInv
      <4>4. s.at + Retention < now
        BY <4>2, <4>3
      <4> QED
        BY <4>2, <4>4
    <3> QED
      BY <3>2, <3>3
  <2> QED
    BY <1>0, <1>1, <2>1, <2>2, <2>3 DEF RunInv
(* What the statement that has ended has left, was no victim of it.          *)
<1>6. ASSUME NEW r \in db'[SweepOrder[sweep.step]],
             r \notin Victims(SweepOrder[sweep.step], sweep.cutoff),
             \A k \in 1 .. 10 : sweep.step > k => \A q \in db[SweepOrder[k]] : Spared(q)
      PROVE  Spared(r)
  <2>1. PICK t \in Table : t = SweepOrder[sweep.step]
    BY <1>2 DEF SweepOrder, Table
  <2>2. r \in db[t] /\ r \in Row /\ r \notin Victims(t, sweep.cutoff)
    BY <1>1, <1>6, <2>1
  <2>3. CASE t \in ChildTable
    <3>1. PICK c \in db["statistical_comparisons"] : c.id = r.id
      BY <1>0, <2>2, <2>3 DEF ReferenceInv, ChildInv
    <3>2. Spared(c)
      BY <2>2, <2>3, <3>1 DEF Victims, Spared, ChildTable
    <3>3. r.at = c.at /\ r.owner = c.owner
      BY <1>0, <2>2, <2>3, <3>1 DEF AgeInv, ReferenceInv, RowInv, IdInv, Table
    <3> QED
      BY <3>2, <3>3 DEF Spared, Abandoned
  <2>4. CASE t = "place_clusters"
    <3>1. sweep.step = 9
      BY <1>2, <2>1, <2>4 DEF SweepOrder
    <3>2. /\ \A s \in db["place_crime_summaries"] : Spared(s)
          /\ \A s \in db["stop_visits"] : Spared(s)
      <4>1. /\ SweepOrder[6] = "place_crime_summaries" /\ SweepOrder[7] = "stop_visits"
            /\ 6 \in 1 .. 10 /\ 7 \in 1 .. 10 /\ sweep.step > 6 /\ sweep.step > 7
        BY <3>1 DEF SweepOrder
      <4> QED
        BY <1>6, <4>1
    <3>3. SUFFICES ASSUME ~Spared(r) PROVE FALSE
      OBVIOUS
    <3>4. ~Active(r.owner, sweep.cutoff) /\ Abandoned(r, sweep.cutoff)
      BY <3>3 DEF Spared, Abandoned
    <3>5. CASE \E s \in db["stop_visits"] : s.id = r.id
      <4>1. PICK s \in db["stop_visits"] : s.id = r.id
        BY <3>5
      <4>2. s.owner = r.owner /\ s.at \in Nat
        BY <1>0, <1>1, <2>2, <2>4, <4>1 DEF ReferenceInv, RowInv, IdInv, Table, Row
      <4>3. ~(s.at < sweep.cutoff)
        BY <3>2, <3>4, <4>1, <4>2 DEF Spared, Abandoned
      <4>4. sweep.cutoff \in Int
        BY <1>0 DEF ReferenceInv, RowInv, SessionInv, TypeOK
      <4>5. s.at >= sweep.cutoff
        BY <4>2, <4>3, <4>4
      <4> QED
        BY <3>4, <4>1, <4>2, <4>5 DEF Active
    <3>6. CASE \E s \in db["place_crime_summaries"] : s.ref = r.id
      <4>1. PICK s \in db["place_crime_summaries"] : s.ref = r.id
        BY <3>6
      <4>2. s.owner = r.owner /\ s.at \in Nat
        BY <1>0, <1>1, <2>2, <2>4, <4>1 DEF PlaceInv, Table, Row
      <4>3. ~(s.at < sweep.cutoff)
        BY <3>2, <3>4, <4>1, <4>2 DEF Spared, Abandoned
      <4>4. PICK q \in db["analysis_runs"] : q.owner = s.owner /\ q.at = s.at
        BY <1>0, <1>1, <4>1, <4>3 DEF RunInv
      <4>5. sweep.cutoff \in Int
        BY <1>0 DEF ReferenceInv, RowInv, SessionInv, TypeOK
      <4>6. q.at >= sweep.cutoff
        BY <4>2, <4>3, <4>4, <4>5
      <4> QED
        BY <3>4, <4>2, <4>4, <4>6 DEF Active
    <3> QED
      BY <2>2, <2>4, <3>4, <3>5, <3>6 DEF Victims
  <2>5. CASE t \notin ChildTable \cup {"place_clusters"}
    BY <2>2, <2>5 DEF Victims, Spared, ChildTable
  <2> QED
    BY <2>3, <2>4, <2>5
<1>7. SweptInv'
  <2> SUFFICES ASSUME NEW k \in 1 .. 10, sweep'.step > k, NEW r \in db'[SweepOrder[k]]
               PROVE  Spared(r)'
    BY DEF SweptInv
  <2>1. PICK t \in Table : t = SweepOrder[k]
    BY DEF SweepOrder, Table
  <2>2. r \in db[t]
    BY <1>1, <2>1
  <2>3. CASE sweep.step > k
    BY <1>0, <1>3, <2>1, <2>2, <2>3 DEF SweptInv
  <2>4. CASE ~(sweep.step > k)
    <3>1. sweep.step = k /\ sweep'.step # sweep.step
      BY <1>2, <2>4
    <3>2. Spared(r)
      BY <1>0, <1>2, <1>6, <3>1 DEF SweptInv
    <3> QED
      BY <1>3, <2>1, <2>2, <3>2
  <2> QED
    BY <2>3, <2>4
<1> QED
  BY <1>4, <1>5, <1>7

LEMMA RowsKeepSweepInv ==
  ASSUME SweepInv, db' = db, sweep' = sweep, Sweeping => StaysActive,
         now' \in {now, now + 1}
  PROVE  (AgeInv /\ PlaceInv /\ RunInv /\ SweptInv)'
<1>1. (AgeInv /\ PlaceInv)'
  BY DEF SweepInv, AgeInv, PlaceInv
<1>2. RunInv'
  <2> SUFFICES ASSUME NEW s \in db["place_crime_summaries"], s.at + Retention < now
               PROVE  s.at + Retention < now'
    BY DEF SweepInv, RunInv, Sweeping
  <2>1. s \in Row /\ s.at \in Nat /\ now \in Nat /\ Retention \in Nat
    BY TimingAssumption DEF SweepInv, ReferenceInv, RowInv, SessionInv, TypeOK, Row, Table
  <2> QED
    BY <2>1
<1>3. CASE ~Sweeping
  <2>1. SweptInv'
    BY <1>3 DEF SweptInv, Sweeping
  <2> QED
    BY <1>1, <1>2, <2>1
<1>4. CASE Sweeping
  <2>1. \A k \in 1 .. 10 : SweepOrder[k] \in Table
    BY DEF SweepOrder, Table
  <2>2. \A u \in Table : \A r \in db[u] : Spared(r) => Spared(r)'
    BY <1>4, SparedStays DEF SweepInv, ReferenceInv, RowInv, SessionInv, TypeOK
  <2>3. SweptInv'
    BY <2>1, <2>2 DEF SweepInv, SweptInv
  <2> QED
    BY <1>1, <1>2, <2>3
<1> QED
  BY <1>3, <1>4

LEMMA SweepInvStep == SweepInv /\ [Next]_vars => SweepInv'
<1> SUFFICES ASSUME SweepInv, [Next]_vars PROVE SweepInv'
  OBVIOUS
<1>0. ReferenceInv /\ ReferenceInv'
  BY ReferenceInvStep DEF SweepInv
<1> SUFFICES (AgeInv /\ PlaceInv /\ RunInv /\ SweptInv)'
  BY <1>0 DEF SweepInv
<1>1. ASSUME NEW i \in Identity, Write(i)
      PROVE  (AgeInv /\ PlaceInv /\ RunInv /\ SweptInv)'
  BY <1>1, WriteKeepsSweepInv
<1>2. CASE SweepBatch
  BY <1>2, BatchKeepsSweepInv
<1>3. CASE SweepStart \/ SweepActivity \/ SweepCrash
  <2>1. /\ db' = db /\ now' = now /\ sweep'.step \in {0, 1}
        /\ sweep'.step # 0 => sweep'.cutoff = now - Retention
    BY <1>3 DEF SweepStart, SweepActivity, SweepCrash
  <2>2. (AgeInv /\ PlaceInv)'
    BY <2>1 DEF SweepInv, AgeInv, PlaceInv
  <2>3. SweptInv'
    BY <2>1 DEF SweptInv
  <2>4. RunInv'
    <3> SUFFICES ASSUME NEW s \in db["place_crime_summaries"], s.at + Retention < now,
                        sweep'.cutoff = now - Retention
                 PROVE  s.at < sweep'.cutoff
      BY <2>1 DEF SweepInv, RunInv, Sweeping
    <3>1. s \in Row /\ s.at \in Nat /\ now \in Nat /\ Retention \in Nat
      BY TimingAssumption DEF SweepInv, ReferenceInv, RowInv, SessionInv, TypeOK, Row, Table
    <3> QED
      BY <3>1
  <2> QED
    BY <2>2, <2>3, <2>4
<1>4. ASSUME NEW i \in Identity, CreateSession(i) \/ Resume(i)
      PROVE  (AgeInv /\ PlaceInv /\ RunInv /\ SweptInv)'
  <2>1. db' = db /\ sweep' = sweep /\ now' = now
    BY <1>4 DEF CreateSession, Resume
  <2> QED
    BY <1>0, <1>4, <2>1, SessionKeepsActive, RowsKeepSweepInv
<1>5. ASSUME NEW i \in Identity, DeleteSession(i) \/ Begin(i) \/ Fail(i)
      PROVE  db' = db /\ UNCHANGED <<now, lastSeen, sweep>>
  BY <1>5 DEF DeleteSession, Begin, Fail, session
<1>6. ASSUME Tick \/ UNCHANGED vars
      PROVE  db' = db /\ UNCHANGED <<lastSeen, sweep>> /\ now' \in {now, now + 1}
  BY <1>6 DEF Tick, vars, session
<1>7. ASSUME db' = db, UNCHANGED <<lastSeen, sweep>>, now' \in {now, now + 1}
      PROVE  (AgeInv /\ PlaceInv /\ RunInv /\ SweptInv)'
  <2>1. StaysActive
    BY <1>7, MoreIsActive
  <2> QED
    BY <1>7, <2>1, RowsKeepSweepInv
<1> QED
  BY <1>1, <1>2, <1>3, <1>4, <1>5, <1>6, <1>7 DEF Next, Sweep

LEMMA SweepInvariant == Spec => []SweepInv
<1>1. Init => SweepInv
  <2> SUFFICES ASSUME Init PROVE SweepInv
    OBVIOUS
  <2>1. ReferenceInv /\ (\A t \in Table : db[t] = {}) /\ sweep.step = 0
    BY ReferenceInvInit DEF Init
  <2>2. AgeInv /\ PlaceInv /\ RunInv
    BY <2>1 DEF AgeInv, PlaceInv, RunInv, Table
  <2>3. SweptInv
    BY <2>1 DEF SweptInv
  <2> QED
    BY <2>1, <2>2, <2>3 DEF SweepInv
<1> QED
  BY <1>1, SweepInvStep, PTL DEF Spec

(* A sweep that has come to its last statement has left no row that was to   *)
(* be deleted: retention_service.py takes neither a second round nor a look  *)
(* back at the tables it has done.                                           *)
NothingAbandonedIsLeft ==
    sweep.step = ActivityStep =>
      \A t \in Table : \A r \in db[t] : ~Abandoned(r, sweep.cutoff)

LEMMA SweepIsDone == SweepInv => NothingAbandonedIsLeft
<1> SUFFICES ASSUME SweepInv, sweep.step = ActivityStep, NEW t \in Table, NEW r \in db[t]
             PROVE  ~Abandoned(r, sweep.cutoff)
  BY DEF NothingAbandonedIsLeft
<1>1. PICK k \in 1 .. 10 : SweepOrder[k] = t
  <2>1. \E k \in {1, 2, 3, 4, 5, 6, 7, 8, 9, 10} : SweepOrder[k] = t
    BY DEF SweepOrder, Table
  <2> QED
    BY <2>1
<1>2. sweep.step > k
  BY StepCount
<1> QED
  BY <1>1, <1>2 DEF SweepInv, SweptInv, Spared

(* When only the statement about session_activity is left, no table holds a  *)
(* row that the sweep was to delete, whoever wrote what while it ran, for    *)
(* any batch size and any number of identities, internal ones included.      *)
THEOREM SweepIsComplete == Spec => []NothingAbandonedIsLeft
<1> QED
  BY SweepIsDone, SweepInvariant, PTL

-----------------------------------------------------------------------------
(* Silent identities.                                                        *)

(* What a sweep will delete everything of: no cookie and no request is left, *)
(* and nothing is recent enough for the sweep.                               *)
Condemned(i) ==
    /\ Sweeping /\ issued[i] # 0 /\ ~Reachable(i)
    /\ ~Active(i, sweep.cutoff)
    /\ \A t \in Table : \A r \in Own(t, i) : r.at < sweep.cutoff

(* Silence lasts, a sweep that starts in it deletes everything unless the    *)
(* process restarts, and nothing comes back.                                 *)
SilentIsSwept ==
    \A i \in Public :
      /\ SilentFor(i) => SilentFor(i)' /\ (SweepStart => Condemned(i)')
      /\ Condemned(i) /\ ~SweepActivity /\ ~SweepCrash => Condemned(i)'
      /\ Condemned(i) /\ SweepActivity => Gone(i)'
      /\ SilentFor(i) /\ Gone(i) => Gone(i)'

LEMMA SilenceLasts ==
  ASSUME SweepInv, [Next]_vars, NEW i \in Public, issued[i] # 0, ~Reachable(i)
  PROVE  /\ ~Reachable(i)' /\ issued'[i] = issued[i]
         /\ lastSeen'[i] = lastSeen[i] \/ lastSeen'[i] = 0
         /\ \A t \in Table : {r \in db'[t] : r.owner = i} \subseteq Own(t, i)
         /\ now' \in {now, now + 1}
         /\ Sweeping /\ ~SweepActivity /\ ~SweepCrash => Sweeping' /\ sweep'.cutoff = sweep.cutoff
<1>1. ReferenceInv /\ RowInv /\ SessionInv /\ TypeOK /\ i \in Identity /\ ~InFlight(i)
  BY DEF SweepInv, ReferenceInv, RowInv, SessionInv, Identity, Reachable
<1>2. ~Reachable(i)'
  BY <1>1, UnreachableStays
<1> DEFINE SweepsOn == Sweeping /\ ~SweepActivity /\ ~SweepCrash =>
                         Sweeping' /\ sweep'.cutoff = sweep.cutoff
           Holds == /\ issued'[i] = issued[i]
                    /\ lastSeen'[i] = lastSeen[i] \/ lastSeen'[i] = 0
                    /\ \A t \in Table : {r \in db'[t] : r.owner = i} \subseteq Own(t, i)
                    /\ now' \in {now, now + 1}
                    /\ SweepsOn
<1>3. ASSUME NEW j \in Identity, Write(j) PROVE Holds
  <2>1. Leaves(j) /\ UNCHANGED <<now, issued, lastSeen, sweep>> /\ j # i
    BY <1>1, <1>3, WriteLeaves, WriteCommits
  <2>2. ASSUME NEW t \in Table, NEW r \in db'[t], r.owner = i PROVE r \in db[t]
    BY <2>1, <2>2 DEF Leaves, Alike
  <2> QED
    BY <2>1, <2>2 DEF Own, Sweeping
<1>4. ASSUME NEW j \in Identity, CreateSession(j) \/ Resume(j) PROVE Holds
  <2>1. j # i /\ db' = db /\ sweep' = sweep /\ now' = now
    <3>1. CASE CreateSession(j)
      BY <1>1, <3>1 DEF CreateSession
    <3>2. CASE Resume(j)
      BY <1>1, <3>2, ResumeShape, RequestEnds
    <3> QED
      BY <1>4, <3>1, <3>2
  <2>2. issued'[i] = issued[i] /\ lastSeen'[i] = lastSeen[i]
    <3>1. CASE CreateSession(j)
      BY <1>1, <2>1, <3>1 DEF CreateSession, TypeOK
    <3>2. CASE Resume(j)
      BY <1>1, <2>1, <3>2, ResumeShape, RequestEnds DEF TypeOK
    <3> QED
      BY <1>4, <3>1, <3>2
  <2> QED
    BY <2>1, <2>2 DEF Own, Sweeping
<1>5. ASSUME UNCHANGED <<issued, lastSeen, db, sweep>>, now' \in {now, now + 1} PROVE Holds
  BY <1>5 DEF Own, Sweeping
<1>6. ASSUME NEW j \in Identity, DeleteSession(j) \/ Begin(j) \/ Fail(j)
      PROVE  UNCHANGED <<issued, lastSeen, db, sweep, now>>
  BY <1>6 DEF DeleteSession, Begin, Fail, session
<1>7. ASSUME Tick \/ UNCHANGED vars
      PROVE  UNCHANGED <<issued, lastSeen, db, sweep>> /\ now' \in {now, now + 1}
  BY <1>7 DEF Tick, vars, session
<1>8. ASSUME SweepsOn, db' = db, UNCHANGED <<now, issued>>,
             lastSeen'[i] = lastSeen[i] \/ lastSeen'[i] = 0
      PROVE  Holds
  <2>1. \A t \in Table : {r \in db'[t] : r.owner = i} \subseteq Own(t, i)
    BY <1>8 DEF Own
  <2>2. now' \in {now, now + 1}
    BY <1>8
  <2> HIDE DEF SweepsOn
  <2> QED
    BY <1>8, <2>1, <2>2
<1>9. ASSUME SweepStart \/ SweepActivity \/ SweepCrash PROVE Holds
  <2>1. SweepsOn
    BY <1>9 DEF SweepStart
  <2>2. db' = db /\ UNCHANGED <<now, issued>> /\ (lastSeen'[i] = lastSeen[i] \/ lastSeen'[i] = 0)
    BY <1>1, <1>9 DEF SweepStart, SweepActivity, SweepCrash, session
  <2> HIDE DEF SweepsOn, Holds
  <2> QED
    BY <1>8, <2>1, <2>2
<1>11. ASSUME SweepBatch PROVE Holds
  <2>1. /\ \A t \in Table : db'[t] \subseteq db[t]
        /\ Sweeping /\ sweep'.cutoff = sweep.cutoff
        /\ UNCHANGED <<now, issued, lastSeen>>
    BY <1>1, <1>11, BatchShape
  <2>2. sweep.step \in 1 .. 10 /\ (sweep'.step = sweep.step \/ sweep'.step = sweep.step + 1)
    BY <1>1, <1>11, BatchProgress DEF ReferenceInv
  <2>3. Sweeping'
    BY <2>2 DEF Sweeping
  <2>4. \A t \in Table : {r \in db'[t] : r.owner = i} \subseteq Own(t, i)
    BY <2>1 DEF Own
  <2>5. SweepsOn
    BY <2>1, <2>3
  <2>6. now' \in {now, now + 1}
    BY <2>1
  <2> HIDE DEF SweepsOn
  <2> QED
    BY <2>1, <2>4, <2>5, <2>6
<1>12. Holds
  <2>1. CASE \E j \in Identity : \/ CreateSession(j) \/ DeleteSession(j) \/ Begin(j)
                                 \/ Resume(j) \/ Fail(j) \/ Write(j)
    BY <1>3, <1>4, <1>5, <1>6, <2>1
  <2>2. CASE Tick \/ UNCHANGED vars
    BY <1>5, <1>7, <2>2
  <2>3. CASE Sweep \/ SweepCrash
    BY <1>9, <1>11, <2>3 DEF Sweep
  <2> QED
    BY <2>1, <2>2, <2>3 DEF Next
<1> QED
  BY <1>2, <1>12 DEF Holds

(* Whoever has only less than before is no more active than before.          *)
LEMMA LessIsInactive ==
  ASSUME NEW i \in Identity, ~Active(i, sweep.cutoff), sweep'.cutoff = sweep.cutoff,
         lastSeen'[i] = lastSeen[i] \/ lastSeen'[i] = 0,
         \A t \in Table : {r \in db'[t] : r.owner = i} \subseteq Own(t, i)
  PROVE  ~Active(i, sweep.cutoff)'
<1>1. \A t \in {"analysis_runs", "analysis_report_snapshots", "import_batches",
                "staging_location_observations", "stop_visits", "place_clusters"} :
        \A r \in db'[t] : r.owner = i => r \in db[t]
  BY DEF Table, Own
<1> QED
  BY <1>1 DEF Active

(* A public identity that has fallen silent stays silent; a sweep that       *)
(* starts then and is not cut off by a restart ends with none of its rows    *)
(* left; and none comes back.  This is what SilentDataGoes rests on, for any *)
(* number of identities and rows, whatever the others write meanwhile.       *)
THEOREM SilenceIsSwept == Spec => [][SilentIsSwept]_vars
<1>1. SweepInv /\ [Next]_vars => [SilentIsSwept]_vars
  <2> SUFFICES ASSUME SweepInv, [Next]_vars, NEW i \in Public
               PROVE  /\ SilentFor(i) => SilentFor(i)' /\ (SweepStart => Condemned(i)')
                      /\ Condemned(i) /\ ~SweepActivity /\ ~SweepCrash => Condemned(i)'
                      /\ Condemned(i) /\ SweepActivity => Gone(i)'
                      /\ SilentFor(i) /\ Gone(i) => Gone(i)'
    BY DEF SilentIsSwept
  <2>0. /\ ReferenceInv /\ TypeOK /\ i \in Identity
        /\ now \in Nat /\ Retention \in Nat
        /\ lastSeen \in [Identity -> Nat] /\ db \in [Table -> SUBSET Row]
    BY TimingAssumption
    DEF SweepInv, ReferenceInv, RowInv, SessionInv, TypeOK, Identity
  <2>1. ASSUME SilentFor(i) PROVE SilentFor(i)' /\ (SweepStart => Condemned(i)')
    <3>1. /\ issued[i] # 0 /\ ~Reachable(i) /\ lastSeen[i] < now - Retention
          /\ \A t \in Table : \A r \in Own(t, i) :
               r.at < now - Retention /\ r.touched < now - Retention
      BY <2>1 DEF SilentFor
    <3>2. /\ ~Reachable(i)' /\ issued'[i] = issued[i]
          /\ lastSeen'[i] = lastSeen[i] \/ lastSeen'[i] = 0
          /\ \A t \in Table : {r \in db'[t] : r.owner = i} \subseteq Own(t, i)
          /\ now' \in {now, now + 1}
      BY <3>1, SilenceLasts
    <3>3. lastSeen'[i] < now - Retention /\ lastSeen'[i] < now' - Retention
      <4>1. lastSeen[i] \in Nat
        BY <2>0
      <4> QED
        BY <2>0, <3>1, <3>2, <4>1
    <3>4. ASSUME NEW t \in Table, NEW r \in db'[t], r.owner = i
          PROVE  /\ r.at < now - Retention /\ r.touched < now - Retention
                 /\ r.at < now' - Retention /\ r.touched < now' - Retention
                 /\ r.at \in Nat /\ r.touched \in Nat
      <4>1. r \in Own(t, i)
        BY <3>2, <3>4
      <4>2. r.at \in Nat /\ r.touched \in Nat
        BY <2>0, <4>1 DEF Own, Row
      <4>3. r.at < now - Retention /\ r.touched < now - Retention
        BY <3>1, <4>1
      <4> QED
        BY <2>0, <3>2, <4>2, <4>3
    <3>5. SilentFor(i)'
      BY <3>1, <3>2, <3>3, <3>4 DEF SilentFor, Own
    <3>6. ASSUME SweepStart PROVE Condemned(i)'
      <4>1. sweep' = [step |-> 1, cutoff |-> now - Retention] /\ UNCHANGED <<now, lastSeen>>
        BY <3>6 DEF SweepStart, session
      <4>2. lastSeen'[i] \in Nat /\ ~(lastSeen'[i] >= now - Retention)
        BY <2>0, <3>3, <4>1
      <4>3. \A t \in Table : \A r \in db'[t] : r.owner = i =>
              ~(r.at >= now - Retention) /\ ~(r.touched >= now - Retention)
        BY <2>0, <3>4
      <4>4. ~Active(i, sweep.cutoff)'
        BY <4>1, <4>2, <4>3 DEF Active, Table
      <4>5. Sweeping' /\ \A t \in Table : \A r \in Own(t, i)' : r.at < sweep'.cutoff
        BY <3>4, <4>1 DEF Sweeping, Own
      <4> QED
        BY <3>1, <3>2, <4>4, <4>5 DEF Condemned
    <3> QED
      BY <3>5, <3>6
  <2>2. ASSUME Condemned(i), ~SweepActivity, ~SweepCrash PROVE Condemned(i)'
    <3>1. /\ Sweeping /\ issued[i] # 0 /\ ~Reachable(i) /\ ~Active(i, sweep.cutoff)
          /\ \A t \in Table : \A r \in Own(t, i) : r.at < sweep.cutoff
      BY <2>2 DEF Condemned
    <3>2. /\ ~Reachable(i)' /\ issued'[i] = issued[i]
          /\ lastSeen'[i] = lastSeen[i] \/ lastSeen'[i] = 0
          /\ \A t \in Table : {r \in db'[t] : r.owner = i} \subseteq Own(t, i)
          /\ Sweeping' /\ sweep'.cutoff = sweep.cutoff
      BY <2>2, <3>1, SilenceLasts
    <3>3. ~Active(i, sweep.cutoff)'
      BY <2>0, <3>1, <3>2, LessIsInactive
    <3>4. \A t \in Table : \A r \in db'[t] : r.owner = i => r.at < sweep'.cutoff
      BY <3>1, <3>2
    <3> QED
      BY <3>1, <3>2, <3>3, <3>4 DEF Condemned, Own
  <2>3. ASSUME Condemned(i), SweepActivity PROVE Gone(i)'
    <3>1. db' = db /\ sweep.step = ActivityStep
      BY <2>3 DEF SweepActivity
    <3>2. SweepInv => NothingAbandonedIsLeft
      BY SweepIsDone
    <3>3. ASSUME NEW t \in Table, NEW r \in Own(t, i) PROVE FALSE
      <4>1. r \in db[t] /\ r.owner = i
        BY DEF Own
      <4>2. ~Abandoned(r, sweep.cutoff)
        BY <3>1, <3>2, <4>1 DEF NothingAbandonedIsLeft
      <4> QED
        BY <2>3, <4>1, <4>2 DEF Condemned, Abandoned
    <3> QED
      BY <3>1, <3>3 DEF Gone, Own
  <2>4. ASSUME SilentFor(i), Gone(i) PROVE Gone(i)'
    <3>1. \A t \in Table : {r \in db'[t] : r.owner = i} \subseteq Own(t, i)
      BY <2>4, SilenceLasts DEF SilentFor
    <3> QED
      BY <2>4, <3>1 DEF Gone, Own
  <2> QED
    BY <2>1, <2>2, <2>3, <2>4
<1> QED
  BY <1>1, SweepInvariant, PTL DEF Spec

-----------------------------------------------------------------------------
(* A sweep runs down.                                                        *)

(* The rows a running sweep would delete if nothing else happened.           *)
Doomed == {p \in Table \X UNION {db[u] : u \in Table} :
             p[2] \in db[p[1]] /\ Abandoned(p[2], sweep.cutoff)}

(* The most batches it still takes.                                          *)
BatchesLeft == (ActivityStep - sweep.step) + Cardinality(Doomed)

(* Each batch brings a sweep nearer to its end, and nobody else's step sets  *)
(* it back: no request makes a row that it has to delete.                    *)
SweepRunsDown ==
    Sweeping /\ Sweeping' => IF SweepBatch THEN BatchesLeft' < BatchesLeft
                             ELSE BatchesLeft' <= BatchesLeft

LEMMA DoomedRows ==
  ASSUME NEW t \in Table, NEW r
  PROVE  /\ <<t, r>> \in Doomed <=> r \in db[t] /\ Abandoned(r, sweep.cutoff)
         /\ \A p \in Doomed : \E u \in Table : \E q \in db[u] :
              p = <<u, q>> /\ Abandoned(q, sweep.cutoff)
BY DEF Doomed

LEMMA DoomedFinite ==
  ASSUME FiniteInv
  PROVE  IsFiniteSet(Doomed)
<1>1. IsFiniteSet(1 .. 10)
  <2>1. 1 \in Int /\ 10 \in Int
    OBVIOUS
  <2> QED
    BY <2>1, FS_Interval
<1>2. IsFiniteSet(Table)
  <2> DEFINE f == [k \in 1 .. 10 |-> SweepOrder[k]]
  <2>1. \A t \in Table : \E k \in 1 .. 10 : f[k] = t
    <3>1. \A t \in Table : \E k \in {1, 2, 3, 4, 5, 6, 7, 8, 9, 10} : SweepOrder[k] = t
      BY DEF SweepOrder, Table
    <3> QED
      BY <3>1
  <2>2. f \in [1 .. 10 -> Table]
    BY DEF SweepOrder, Table
  <2>3. f \in Surjection(1 .. 10, Table)
    BY <2>1, <2>2 DEF Surjection
  <2> HIDE DEF f
  <2> QED
    BY <1>1, <2>3, FS_Surjection
<1>3. IsFiniteSet(UNION {db[u] : u \in Table})
  <2> DEFINE D == {db[u] : u \in Table}
             f == [u \in Table |-> db[u]]
  <2>1. f \in [Table -> D] /\ \A d \in D : \E u \in Table : f[u] = d
    OBVIOUS
  <2>2. f \in Surjection(Table, D)
    BY <2>1 DEF Surjection
  <2>3. \A d \in D : IsFiniteSet(d)
    BY DEF FiniteInv
  <2> HIDE DEF f, D
  <2>4. IsFiniteSet(D)
    BY <1>2, <2>2, FS_Surjection
  <2>5. IsFiniteSet(UNION D)
    BY <2>3, <2>4, FS_UNION
  <2> QED
    BY <2>5 DEF D
<1>4. PICK R : R = UNION {db[u] : u \in Table}
  OBVIOUS
<1>5. IsFiniteSet(Table \X R)
  BY <1>2, <1>3, <1>4, FS_Product
<1>6. Doomed \in SUBSET (Table \X R)
  BY <1>4 DEF Doomed
<1> QED
  BY <1>5, <1>6, FS_Subset

LEMMA BatchesNatural ==
  ASSUME TypeOK, FiniteInv
  PROVE  /\ BatchesLeft \in Nat /\ Cardinality(Doomed) \in Nat
         /\ sweep.step \in 0 .. 11 /\ BatchesLeft = (11 - sweep.step) + Cardinality(Doomed)
<1>1. Cardinality(Doomed) \in Nat
  BY DoomedFinite, FS_CardinalityType
<1>2. sweep.step \in 0 .. 11
  BY StepCount DEF TypeOK
<1> QED
  BY <1>1, <1>2, StepCount DEF BatchesLeft

LEMMA NoneDoomed ==
  ASSUME TypeOK, StaysActive, sweep'.cutoff = sweep.cutoff,
         \A u \in Table : \A r \in db'[u] : r \in db[u] \/ Spared(r)'
  PROVE  Doomed' \subseteq Doomed
<1> SUFFICES ASSUME NEW p \in Doomed' PROVE p \in Doomed
  OBVIOUS
<1>1. PICK u \in Table : \E q \in db'[u] : p = <<u, q>> /\ Abandoned(q, sweep.cutoff)'
  BY DEF Doomed
<1>a. PICK q \in db'[u] : p = <<u, q>> /\ Abandoned(q, sweep.cutoff)'
  BY <1>1
<1>2. q \in db[u] /\ q \in Row
  BY <1>a DEF Spared, TypeOK
<1>3. Abandoned(q, sweep.cutoff)
  BY <1>a, <1>2 DEF Abandoned, StaysActive, Row
<1> QED
  BY <1>a, <1>2, <1>3, DoomedRows

LEMMA WriteDoomsNone ==
  ASSUME SweepInv, Sweeping, NEW i \in Identity, Write(i)
  PROVE  Doomed' \subseteq Doomed
<1>0. ReferenceInv /\ RowInv /\ SessionInv /\ FlightInv /\ TypeOK
  BY DEF SweepInv, ReferenceInv, RowInv, SessionInv
<1>1. Leaves(i) /\ StaysActive /\ InFlight(i) /\ UNCHANGED sweep
  BY <1>0, WriteLeaves, WriteCommits
<1> SUFFICES ASSUME NEW u \in Table, NEW r \in db'[u], r \notin db[u] PROVE Spared(r)'
  BY <1>0, <1>1, NoneDoomed
<1>2. CASE r.at \in Stamp(i)
  <2>1. r.at \in Nat /\ sweep.cutoff <= r.at
    BY <1>0, <1>1, <1>2, StampIsRecent
  <2> QED
    BY <1>0, <1>1, <2>1, RecentIsSpared
<1>3. CASE u = "place_clusters" /\ r.owner = i /\ r.touched \in Stamp(i)
  <2>1. r.touched \in Nat /\ sweep.cutoff <= r.touched /\ sweep.cutoff \in Int
    BY <1>0, <1>1, <1>3, StampIsRecent
  <2>2. r.touched >= sweep.cutoff
    BY <2>1
  <2>3. Active(r.owner, sweep.cutoff)'
    BY <1>1, <1>3, <2>2 DEF Active
  <2> QED
    BY <2>3 DEF Spared, Abandoned
<1> QED
  BY <1>1, <1>2, <1>3 DEF Leaves

LEMMA BatchRunsDown ==
  ASSUME SweepInv, SweepBatch
  PROVE  BatchesLeft' < BatchesLeft
<1>0. /\ ReferenceInv /\ TypeOK /\ FiniteInv /\ AgeInv /\ IdInv /\ ChildInv
  BY DEF SweepInv, ReferenceInv, RowInv, SessionInv
<1>1. /\ \A t \in Table : db'[t] \subseteq db[t]
      /\ \A t \in Table : \A r \in db[t] \ db'[t] : r \in Victims(t, sweep.cutoff)
      /\ sweep'.cutoff = sweep.cutoff
  BY <1>0, BatchShape
<1>2. /\ sweep.step \in 1 .. 10
      /\ \/ sweep'.step = sweep.step /\ \E t \in Table : db[t] \ db'[t] # {}
         \/ sweep'.step = sweep.step + 1
  BY <1>0, BatchProgress
<1>3. Doomed' \subseteq Doomed
  BY <1>0, <1>1, BatchKeepsActive, NoneDoomed
<1>4. PICK S, T, n, m : S = Doomed /\ T = Doomed' /\ n = Cardinality(S) /\ m = Cardinality(T)
  OBVIOUS
<1>5. IsFiniteSet(S) /\ IsFiniteSet(T) /\ n \in Nat /\ m \in Nat /\ T \subseteq S /\ m <= n
  <2>1. IsFiniteSet(S) /\ T \subseteq S
    BY <1>0, <1>3, <1>4, DoomedFinite
  <2> QED
    BY <2>1, <1>4, FS_CardinalityType, FS_Subset
<1>6. BatchesLeft = (11 - sweep.step) + n /\ BatchesLeft' = (11 - sweep'.step) + m
  BY <1>4, StepCount DEF BatchesLeft
<1>7. CASE sweep'.step = sweep.step + 1
  BY <1>2, <1>5, <1>6, <1>7
<1>8. CASE sweep'.step = sweep.step /\ \E t \in Table : db[t] \ db'[t] # {}
  <2>a. PICK t \in Table : db[t] \ db'[t] # {}
    BY <1>8
  <2>1. PICK r \in db[t] : r \notin db'[t]
    BY <2>a
  <2>2. r \in Victims(t, sweep.cutoff)
    BY <1>1, <2>1
  <2>3. Abandoned(r, sweep.cutoff)
    <3>1. CASE t \in ChildTable
      <4>1. PICK c \in db["statistical_comparisons"] : c.id = r.id /\ Abandoned(c, sweep.cutoff)
        BY <2>2, <3>1 DEF Victims, ChildTable
      <4>2. r.at = c.at /\ r.owner = c.owner
        BY <1>0, <2>1, <3>1, <4>1 DEF AgeInv, IdInv, Table
      <4> QED
        BY <4>1, <4>2 DEF Abandoned
    <3>2. CASE t \notin ChildTable
      BY <2>2, <3>2 DEF Victims, ChildTable
    <3> QED
      BY <3>1, <3>2
  <2>4. <<t, r>> \in S /\ <<t, r>> \notin T
    BY <1>4, <2>1, <2>3 DEF Doomed
  <2>5. m # n
    BY <1>4, <1>5, <2>4, FS_Subset
  <2> QED
    BY <1>2, <1>5, <1>6, <1>8, <2>5
<1> QED
  BY <1>2, <1>7, <1>8

(* A sweep has finitely many batches to take, and nobody adds to them. With  *)
(* SilenceIsSwept this leaves to the fairness of SilentDataGoes only that    *)
(* the batches are taken and the process does not restart for ever.          *)
THEOREM SweepsRunDown == Spec => [][SweepRunsDown]_vars /\ [](BatchesLeft \in Nat)
<1>1. SweepInv /\ [Next]_vars => [SweepRunsDown]_vars
  <2> SUFFICES ASSUME SweepInv, [Next]_vars, Sweeping, Sweeping'
               PROVE  IF SweepBatch THEN BatchesLeft' < BatchesLeft
                      ELSE BatchesLeft' <= BatchesLeft
    BY DEF SweepRunsDown
  <2>2. CASE SweepBatch
    BY <2>2, BatchRunsDown
  <2>3. CASE ~SweepBatch
    <3>1. ReferenceInv /\ TypeOK /\ FiniteInv
      BY DEF SweepInv, ReferenceInv, RowInv, SessionInv
    <3>2. ASSUME NEW i \in Identity, Write(i) PROVE sweep' = sweep /\ Doomed' \subseteq Doomed
      BY <3>1, <3>2, WriteDoomsNone, WriteCommits
    <3>3. ASSUME db' = db, sweep' = sweep, StaysActive PROVE Doomed' \subseteq Doomed
      BY <3>1, <3>3, NoneDoomed
    <3>4. ASSUME NEW i \in Identity, CreateSession(i) \/ Resume(i)
          PROVE  sweep' = sweep /\ Doomed' \subseteq Doomed
      <4>1. db' = db /\ sweep' = sweep
        BY <3>4 DEF CreateSession, Resume
      <4> QED
        BY <3>1, <3>3, <3>4, <4>1, SessionKeepsActive
    <3>5. ASSUME db' = db, UNCHANGED <<lastSeen, sweep>>
          PROVE  sweep' = sweep /\ Doomed' \subseteq Doomed
      BY <3>3, <3>5, MoreIsActive
    <3>6. ASSUME NEW i \in Identity, DeleteSession(i) \/ Begin(i) \/ Fail(i)
          PROVE  db' = db /\ UNCHANGED <<lastSeen, sweep>>
      BY <3>6 DEF DeleteSession, Begin, Fail, session
    <3>7. ASSUME Tick \/ UNCHANGED vars
          PROVE  db' = db /\ UNCHANGED <<lastSeen, sweep>>
      BY <3>7 DEF Tick, vars, session
    <3>8. ~SweepStart /\ ~SweepActivity /\ ~SweepCrash
      BY DEF SweepStart, SweepActivity, SweepCrash, Sweeping
    <3>9. sweep' = sweep /\ Doomed' \subseteq Doomed
      BY <2>3, <3>2, <3>4, <3>5, <3>6, <3>7, <3>8 DEF Next, Sweep
    <3>10. PICK S, T, n, m, k : /\ S = Doomed /\ T = Doomed' /\ n = Cardinality(S)
                               /\ m = Cardinality(T) /\ k = sweep.step
      OBVIOUS
    <3>11. IsFiniteSet(S) /\ T \subseteq S
      BY <3>1, <3>9, <3>10, DoomedFinite
    <3>12. n \in Nat /\ m \in Nat /\ m <= n
      BY <3>10, <3>11, FS_CardinalityType, FS_Subset
    <3>13. k \in 0 .. 11 /\ BatchesLeft = (11 - k) + n /\ BatchesLeft' = (11 - k) + m
      BY <3>1, <3>9, <3>10, BatchesNatural, StepCount DEF BatchesLeft
    <3>14. BatchesLeft' <= BatchesLeft
      BY <3>12, <3>13
    <3> QED
      BY <2>3, <3>14
  <2> QED
    BY <2>2, <2>3
<1>2. SweepInv => BatchesLeft \in Nat
  BY BatchesNatural DEF SweepInv, ReferenceInv, RowInv, SessionInv
<1> QED
  BY <1>1, <1>2, SweepInvariant, PTL DEF Spec
=============================================================================
