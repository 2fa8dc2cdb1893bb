------------------------------- MODULE Ingest -------------------------------
(***************************************************************************)
(* Crime ingestion: POST /admin/crime/ingest/socrata                        *)
(* (app/api/routes_admin_crime.py), the keyset walk behind it               *)
(* (app/crime/backfill.py, app/crime/seattle_socrata.py), and the upsert    *)
(* and purge of its rows (app/services/crime_ingestion_service.py), for one *)
(* source.                                                                  *)
(*                                                                          *)
(* The nightly sidecar, the start script and an operator may run it at the  *)
(* same time.  A page is one transaction under READ COMMITTED, and a row is *)
(* an UPDATE and, when that finds nothing, an INSERT.  Dates are whole days *)
(* and days are counted from the oldest the source may hold.                *)
(***************************************************************************)
EXTENDS Integers, FiniteSets, Functions

CONSTANTS
    Row,          \* Socrata's :id, numbered in its order
    KeysOf,       \* KeysOf[rolling][i]: external_incident_id of row i of such a source
    NoKey,        \* the id of a row that has none
    Run,          \* "nightly" and other callers of the endpoint
    Limits,       \* the page sizes the callers may ask for, one for each caller
    MaxPages,     \* DEFAULT_MAX_PAGES
    Overlap,      \* MCA_SOCRATA_RECONCILIATION_DAYS
    Late,         \* how late the source publishes or corrects a row
    Window,       \* CALLS_WINDOW_MONTHS, in days
    MaxDay, MaxCorrections, MaxExtras,   \* bounds
    ByHandFrom    \* bound: the day an operator first steps in

(* The overlap reaches over what is late and over two requests of a day: one  *)
(* that writes what it fetched before a correction, and one under way then   *)
(* that stores a newer day after it.  True of the default 14 days.           *)
ASSUME IngestAssumption ==
    /\ Row \subseteq Nat \ {0}
    /\ Limits \subseteq [Run -> Nat \ {0}] /\ MaxPages \in Nat \ {0}
    /\ Late \in Nat /\ Overlap \in Nat /\ Late + 2 <= Overlap
    /\ Window \in Nat /\ "nightly" \in Run
    /\ MaxDay \in Nat /\ MaxCorrections \in Nat /\ MaxExtras \in Nat /\ ByHandFrom \in Nat

VARIABLES
    rolling,    \* rolling_window of the source: rows below its floor are purged
    today,
    source,     \* source[i]: date and version of each published row
    store,      \* crime_incidents: the stored row of each key
    run,        \* run[r]: the request r is serving
    limit,      \* the page size each caller asks for
    extras,     \* failed fetches, restarts and runs besides the nightly ones so far
    byHand      \* has a window or a single page been asked for explicitly?

ingestVars == <<rolling, today, source, store, run, limit, extras, byHand>>

Empty == [k \in {} |-> 0]
KeyOf == KeysOf[rolling]
Later(a, b) == IF a >= b THEN a ELSE b

(* A request: its stage, floor and last day, the cursor of its walk and its  *)
(* pages so far, the rows of the page still to write, as they were fetched,  *)
(* those written and not committed, the statement it is at, and what it owes *)
(* the store.                                                                *)
Idle == [at |-> "idle", floor |-> 0, upto |-> 0, cursor |-> <<0, 0>>, pages |-> 0,
         page |-> Empty, more |-> FALSE, wrote |-> Empty, stage |-> "update",
         began |-> 0, owes |-> {}]

Set(r, record) == run' = [run EXCEPT ![r] = record]
At(r, stage) == run[r].at = stage

-----------------------------------------------------------------------------
(* The source.                                                               *)

(* Rows of one key are the units sent to one call and share its date.        *)
Publish(i, date) ==
    /\ i \notin DOMAIN source /\ date \in Later(0, today - Late) .. today
    /\ \A j \in DOMAIN source : KeyOf[j] = KeyOf[i] /\ KeyOf[i] # NoKey => source[j].date = date
    /\ source' = [j \in DOMAIN source \cup {i} |->
                    IF j = i THEN [date |-> date, ver |-> 1] ELSE source[j]]
    /\ UNCHANGED <<rolling, today, store, run, limit, extras, byHand>>

Correct(i) ==
    /\ i \in DOMAIN source /\ source[i].date >= today - Late
    /\ Cardinality({j \in DOMAIN source : source[j].ver > 1}) < MaxCorrections
    /\ source' = [source EXCEPT ![i].ver = @ + 1]
    /\ UNCHANGED <<rolling, today, store, run, limit, extras, byHand>>

(* A request is over within a day of its beginning.                          *)
Midnight ==
    /\ today < MaxDay
    /\ \A r \in Run : ~At(r, "idle") => run[r].began = today
    /\ today' = today + 1
    /\ UNCHANGED <<rolling, source, store, run, limit, extras, byHand>>

-----------------------------------------------------------------------------
(* The request.                                                              *)

(* calls_data_floor and crime_data_floor.                                    *)
Floor(d) == IF rolling THEN Later(0, d - Window) ELSE 0

(* latest_observed_date.                                                     *)
Watermark == CHOOSE d \in {store[k].date : k \in DOMAIN store} :
                 \A k \in DOMAIN store : store[k].date <= d

(* Fault: only what is newer than the newest stored date is asked for.       *)
WithoutOverlap(floor) ==
    IF store = Empty THEN floor ELSE Later(floor, Watermark)

(* incremental_start_date.                                                   *)
IncrementalStart(floor) ==
    IF store = Empty THEN floor ELSE Later(floor, Watermark - Overlap)

(* Keyset order: by date, then by :id.                                       *)
Before(i, j) ==
    \/ source[i].date < source[j].date
    \/ source[i].date = source[j].date /\ i < j

Oldest(S) == CHOOSE i \in S : \A j \in S \ {i} : Before(i, j)
Newest(S) == CHOOSE i \in S : \A j \in S \ {i} : Before(j, i)

(* Fault: the cursor is a date, its bound exclusive.                         *)
AfterDate(i, cursor) ==
    \/ source[i].date > cursor[1]
    \/ cursor[2] = 0 /\ source[i].date = cursor[1]

(* The first bound is inclusive: no :id is below 1.                          *)
After(i, cursor) ==
    \/ source[i].date > cursor[1]
    \/ source[i].date = cursor[1] /\ i > cursor[2]

Due(cursor, upto) == {i \in DOMAIN source : After(i, cursor) /\ source[i].date <= upto}

Begin(r, since, upto) ==
    LET floor == Floor(today)
        cursor == <<Later(floor, since), 0>>
    IN  Set(r, [Idle EXCEPT !.at = "walk", !.floor = floor, !.upto = upto,
                    !.cursor = cursor, !.began = today, !.owes = Due(cursor, upto)])

(* mode=backfill without a start date: the sidecar and the start script.     *)
Backfill(r) ==
    /\ At(r, "idle")
    /\ r = "nightly" \/ extras < MaxExtras
    /\ extras' = IF r = "nightly" THEN extras ELSE extras + 1
    /\ Begin(r, IncrementalStart(Floor(today)), MaxDay)
    /\ UNCHANGED <<rolling, today, source, store, limit, byHand>>

(* mode=backfill with the window the operator gives; bound: one day.         *)
BackfillWindow(r, since, upto) ==
    /\ At(r, "idle") /\ r # "nightly" /\ extras < MaxExtras /\ today >= ByHandFrom
    /\ since <= upto
    /\ extras' = extras + 1 /\ byHand' = TRUE
    /\ Begin(r, since, upto)
    /\ UNCHANGED <<rolling, today, source, store, limit>>

(* Rows are written as they were ordered: a single page is newest first.     *)
Leading(pages, S) == IF pages = 0 THEN Newest(S) ELSE Oldest(S)

(* What ingest_crime_incidents writes of a page: the first row of each key;  *)
(* a row without one is skipped.                                             *)
Batch(page, pages) ==
    LET keys == {KeyOf[j] : j \in page} \ {NoKey}
    IN  [i \in {Leading(pages, {j \in page : KeyOf[j] = k}) : k \in keys} |-> source[i]]

(* mode=page: one page, newest first.                                        *)
PullPage(r) ==
    /\ At(r, "idle") /\ r # "nightly" /\ extras < MaxExtras /\ today >= ByHandFrom
    /\ extras' = extras + 1 /\ byHand' = TRUE
    /\ LET floor == Floor(today)
           due == Due(<<floor, 0>>, MaxDay)
           page == {i \in due : Cardinality({j \in due : Before(i, j)}) < limit[r]}
       IN  Set(r, [Idle EXCEPT !.at = "apply", !.floor = floor, !.began = today,
                       !.page = Batch(page, 0)])
    /\ UNCHANGED <<rolling, today, source, store, limit>>

(* The walk is over; did it stop with more to come?                          *)
ToPurge(r, more) ==
    [Idle EXCEPT !.at = "purge", !.floor = run[r].floor, !.began = run[r].began,
                 !.more = more, !.owes = run[r].owes]

(* fetch_page_keyset: the first page after the cursor, as the source is now. *)
Fetch(r) ==
    /\ At(r, "walk")
    /\ LET due == Due(run[r].cursor, run[r].upto)
           page == {i \in due : Cardinality({j \in due : Before(j, i)}) < limit[r]}
       IN  IF page = {}
           THEN Set(r, ToPurge(r, FALSE))
           ELSE Set(r, [run[r] EXCEPT !.at = "apply", !.pages = @ + 1,
                          !.more = Cardinality(page) = limit[r],
                          !.cursor = <<source[Newest(page)].date, Newest(page)>>,
                          !.page = Batch(page, run[r].pages + 1)])
    /\ UNCHANGED <<rolling, today, source, store, limit, extras, byHand>>

(* The request ends before its purge: all attempts at a fetch failed, the    *)
(* process stopped, or the database ended a deadlock of two pages.           *)
(* Committed pages stay, an open transaction does not.                       *)
Fail(r) ==
    /\ ~At(r, "idle") /\ extras < MaxExtras
    /\ extras' = extras + 1
    /\ Set(r, Idle)
    /\ UNCHANGED <<rolling, today, source, store, limit, byHand>>

-----------------------------------------------------------------------------
(* ingest_crime_incidents, statement by statement.                           *)

Others(r) == Run \ {r}
LockedByOther(r, k) == \E q \in Others(r) : k \in DOMAIN run[q].wrote

Statement(r, stage) ==
    At(r, "apply") /\ run[r].page # Empty /\ run[r].stage = stage

AtHand(r) == Leading(run[r].pages, DOMAIN run[r].page)

(* The row at hand is written, in the transaction.                           *)
Write(r) ==
    LET i == AtHand(r)
        row == [of |-> i, date |-> run[r].page[i].date, ver |-> run[r].page[i].ver]
    IN  Set(r, [run[r] EXCEPT !.page = Restrict(@, DOMAIN @ \ {i}), !.stage = "update",
                  !.wrote = [k \in DOMAIN @ \cup {KeyOf[i]} |->
                               IF k = KeyOf[i] THEN row ELSE @[k]]])

(* UPDATE: waits for the lock on an existing row.                            *)
Update(r) ==
    /\ Statement(r, "update")
    /\ LET k == KeyOf[AtHand(r)]
       IN  \/ k \in DOMAIN store /\ ~LockedByOther(r, k) /\ Write(r)
           \/ k \notin DOMAIN store /\ Set(r, [run[r] EXCEPT !.stage = "insert"])
    /\ UNCHANGED <<rolling, today, source, store, limit, extras, byHand>>

(* INSERT: waits for another's insert of the key, then conflicts with it.    *)
Insert(r) ==
    /\ Statement(r, "insert")
    /\ LET k == KeyOf[AtHand(r)]
       IN  /\ ~LockedByOther(r, k)
           /\ \/ k \notin DOMAIN store /\ Write(r)
              \/ k \in DOMAIN store /\ Set(r, [run[r] EXCEPT !.stage = "again"])
    /\ UNCHANGED <<rolling, today, source, store, limit, extras, byHand>>

(* The conflicting row is updated; if a purge has taken it, the request ends *)
(* in an error.                                                              *)
UpdateAgain(r) ==
    /\ Statement(r, "again")
    /\ LET k == KeyOf[AtHand(r)]
       IN  \/ k \in DOMAIN store /\ ~LockedByOther(r, k) /\ Write(r)
           \/ k \notin DOMAIN store /\ Set(r, Idle)
    /\ UNCHANGED <<rolling, today, source, store, limit, extras, byHand>>

(* The page is committed; the walk goes on after a full page.                *)
Commit(r) ==
    /\ At(r, "apply") /\ run[r].page = Empty
    /\ store' = [k \in DOMAIN store \cup DOMAIN run[r].wrote |->
                   IF k \in DOMAIN run[r].wrote THEN run[r].wrote[k] ELSE store[k]]
    /\ Set(r, IF run[r].more /\ run[r].pages < MaxPages
              THEN [run[r] EXCEPT !.wrote = Empty, !.at = "walk"]
              ELSE ToPurge(r, run[r].more))
    /\ UNCHANGED <<rolling, today, source, limit, extras, byHand>>

(* purge_incidents_below_floor: waits for the rows it deletes.               *)
Purge(r) ==
    /\ At(r, "purge")
    /\ LET below == {k \in DOMAIN store : rolling /\ store[k].date < run[r].floor}
       IN  /\ \A k \in below : ~LockedByOther(r, k)
           /\ store' = [k \in DOMAIN store \ below |-> store[k]]
    /\ Set(r, Idle)
    /\ UNCHANGED <<rolling, today, source, limit, extras, byHand>>

IngestInit ==
    /\ rolling \in BOOLEAN
    /\ today = 0
    /\ source = Empty /\ store = Empty
    /\ run = [r \in Run |-> Idle]
    /\ limit \in Limits /\ extras = 0
    /\ byHand = FALSE

Work(r) ==
    \/ Fetch(r) \/ Update(r) \/ Insert(r) \/ UpdateAgain(r)
    \/ Commit(r) \/ Purge(r)

IngestNext ==
    \/ \E i \in Row : Correct(i) \/ \E date \in 0 .. MaxDay : Publish(i, date)
    \/ Midnight
    \/ \E r \in Run : Backfill(r) \/ PullPage(r) \/ Fail(r) \/ Work(r)
    \/ \E r \in Run, day \in 0 .. MaxDay : BackfillWindow(r, day, day)

(* The sidecar asks every night, and a request that runs goes on.            *)
IngestFairness == WF_ingestVars(Backfill("nightly")) /\ \A r \in Run : WF_ingestVars(Work(r))

IngestSpec == IngestInit /\ [][IngestNext]_ingestVars /\ IngestFairness

-----------------------------------------------------------------------------
(* Properties.                                                               *)

(* A walk that reached its end has stored the key of every row that was due  *)
(* when it began and is still in the window, whatever was published or       *)
(* stored by others meanwhile: no page boundary hides a row.                 *)
WalkIsComplete ==
    \A r \in Run : At(r, "purge") /\ ~run[r].more =>
      \A i \in run[r].owes :
        KeyOf[i] # NoKey /\ source[i].date >= Floor(today) => KeyOf[i] \in DOMAIN store

(* What the source holds within the window, at its newest version.           *)
Settled ==
    /\ DOMAIN store = {KeyOf[i] : i \in {j \in DOMAIN source : source[j].date >= Floor(today)}}
                        \ {NoKey}
    /\ \A k \in DOMAIN store : store[k].ver = source[store[k].of].ver

(* Once the source stops changing, nightly runs make the store exactly the   *)
(* source's window and keep it so: nothing published or corrected late is    *)
(* lost, nothing stale that a slow run wrote stays, and nothing below the    *)
(* floor does; unless a window or a page was asked for by hand, which moves  *)
(* the watermark past what is still missing.                                 *)
Settles == <>[](byHand \/ Settled)
=============================================================================
