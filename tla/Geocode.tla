------------------------------ MODULE Geocode ------------------------------
(***************************************************************************)
(* Address search (app/services/geocoding_service.py, the provider behind   *)
(* it in app/geocoding/providers.py) for one query: the cached row, the     *)
(* politeness gate, the call upstream and the write-back, by concurrent     *)
(* searches, next to the retention sweep's eviction of the cache.           *)
(***************************************************************************)
EXTENDS Integers, FiniteSets

CONSTANTS
    Search,        \* threads that may be searching
    MinInterval,   \* geocoder_min_interval_s
    Ttl,           \* geocoder_cache_ttl_days
    Patience,      \* bound on the time one search takes
    MaxClock       \* bound on the clock

ASSUME GeocodeAssumption ==
    /\ MinInterval \in Nat \ {0} /\ Ttl \in Nat /\ Patience \in Nat /\ MaxClock \in Nat
    /\ Patience < Ttl

VARIABLES
    clock,      \* starts where the gate has long been free
    gate,       \* RateGate._last
    row,        \* created_at of the cached row, or NoRow
    search,     \* search[s]: its stage, when it began, its slot, the row it met
    calls       \* calls sent upstream so far

geocodeVars == <<clock, gate, row, search, calls>>

NoRow == -1
Unbegun == [at |-> "idle", began |-> 0, slot |-> 0, met |-> NoRow]

In(s, stage) == search[s].at = stage
To(s, stage) == search' = [search EXCEPT ![s].at = stage]

(* _read_cache: a fresh row is the answer.                                   *)
ReadCache(s) ==
    /\ In(s, "idle")
    /\ row = NoRow \/ row < clock - Ttl
    /\ search' = [search EXCEPT ![s] = [Unbegun EXCEPT !.at = "gate", !.began = clock]]
    /\ UNCHANGED <<clock, gate, row, calls>>

Latest(a, b) == IF a >= b THEN a ELSE b

(* Fault: the gate remembers when it was asked.                              *)
SlotAsAsked == clock

(* RateGate.wait: the slot claimed under the lock.                           *)
Slot == Latest(clock, gate + MinInterval)

Claim(s) ==
    /\ In(s, "gate")
    /\ gate' = Slot
    /\ search' = [search EXCEPT ![s].at = "waiting", ![s].slot = Slot]
    /\ UNCHANGED <<clock, row, calls>>

(* The sleep outside the lock is over: the provider is called.               *)
Call(s) ==
    /\ In(s, "waiting") /\ clock >= search[s].slot
    /\ calls' = calls + 1
    /\ To(s, "upstream")
    /\ UNCHANGED <<clock, gate, row>>

UpstreamAnswers(s) ==
    /\ In(s, "upstream")
    /\ To(s, "insert")
    /\ UNCHANGED <<clock, gate, row, calls>>

(* GeocoderUpstreamError: nothing is cached.                                 *)
UpstreamFails(s) ==
    /\ In(s, "upstream")
    /\ search' = [search EXCEPT ![s] = Unbegun]
    /\ UNCHANGED <<clock, gate, row, calls>>

(* _write_cache: the insert commits, or finds the key taken.                 *)
Insert(s) ==
    /\ In(s, "insert")
    /\ \/ row = NoRow /\ row' = clock /\ search' = [search EXCEPT ![s] = Unbegun]
       \/ row # NoRow /\ UNCHANGED row
          /\ search' = [search EXCEPT ![s].at = "conflict", ![s].met = row]
    /\ UNCHANGED <<clock, gate, calls>>

(* scalar_one after the rollback: fails if there is no row any more.         *)
Reread(s) ==
    /\ In(s, "conflict")
    /\ To(s, IF row = NoRow THEN "lost" ELSE "update")
    /\ UNCHANGED <<clock, gate, row, calls>>

(* The row's update matches no row if it went since.                         *)
Update(s) ==
    /\ In(s, "update")
    /\ \/ row = NoRow /\ To(s, "lost") /\ UNCHANGED row
       \/ row # NoRow /\ row' = clock /\ search' = [search EXCEPT ![s] = Unbegun]
    /\ UNCHANGED <<clock, gate, calls>>

(* The request failed; the thread serves others.                             *)
Report(s) ==
    /\ In(s, "lost")
    /\ search' = [search EXCEPT ![s] = Unbegun]
    /\ UNCHANGED <<clock, gate, row, calls>>

(* Fault: the sweep evicts what is not from this instant.                    *)
EvictableEarly == row < clock

(* sweep_expired_data judges the cache by created_at alone.                  *)
Evictable == row < clock - Ttl

Evict ==
    /\ row # NoRow /\ Evictable
    /\ row' = NoRow
    /\ UNCHANGED <<clock, gate, search, calls>>

Second ==
    /\ clock < MaxClock
    /\ \A s \in Search : ~In(s, "idle") => clock - search[s].began < Patience
    /\ clock' = clock + 1
    /\ UNCHANGED <<gate, row, search, calls>>

GeocodeInit ==
    /\ clock = MinInterval
    /\ gate = 0
    /\ row = NoRow
    /\ search = [s \in Search |-> Unbegun]
    /\ calls = 0

GeocodeNext ==
    \/ \E s \in Search :
         \/ ReadCache(s) \/ Claim(s) \/ Call(s) \/ UpstreamAnswers(s) \/ UpstreamFails(s)
         \/ Insert(s) \/ Reread(s) \/ Update(s) \/ Report(s)
    \/ Evict
    \/ Second

GeocodeSpec == GeocodeInit /\ [][GeocodeNext]_geocodeVars

-----------------------------------------------------------------------------
(* Properties.                                                               *)

(* The politeness promise: whoever sleeps and for how long, the calls sent   *)
(* upstream never exceed one per interval since the first slot.              *)
Polite == calls <= 1 + (clock - MinInterval) \div MinInterval

(* A search loses its row, and fails, only if the row was already there when *)
(* the search began: never to a concurrent search for the same address.      *)
LostOnlyToOld ==
    \A s \in Search : In(s, "lost") => search[s].met < search[s].began

(* Both of the above: the provider is spared, and a search only fails for    *)
(* what the sweep may take.                                                  *)
GeocodingHolds == Polite /\ LostOnlyToOld
=============================================================================
