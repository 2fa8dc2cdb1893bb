# CompCat: a TLA+ verification project

CompCat is a FastAPI application over PostgreSQL with a React front end. Anonymous
visitors save places, upload location histories, and compute crime statistics around
them; an assistant drives the same operations; nightly jobs ingest public crime data and
delete the data of visitors who have gone. This directory holds TLA+ models of the parts
of it that keep state, the TLC configurations that check them, and proofs, checked by
TLAPS, of what matters most.

    tlc -workers 2 -config SessionRetention.cfg MCRetention
    tlapm SessionRetentionProofs.tla

## 1. Inventory

| Component | State | Operations | What is hard |
|---|---|---|---|
| Anonymous sessions (`app/sessions.py`, `api/routes_sessions.py`) | a signed cookie with `issued_at` and `expires_at`; one `session_activity` row per identity | create, resume (slides the expiry), delete, authenticate | the cookie and the row that protects its owner's data are written apart, by requests that overlap; a request is authenticated once and commits later |
| Retention sweep (`services/retention_service.py`) | none of its own: deletes from eleven tables | one statement per table in foreign-key order, in batches, a commit after each | requests between batches, restarts, an activity test evaluated anew in every batch |
| Analysis history (`dashboard_analysis_service.py`, `analysis_service.py`, `reports/service.py`, `crime_service.py`) | runs with summaries; comparisons with options and pairwise results; report snapshots | analyze, summarize, compare, create and delete reports | places resolved at the start, rows committed at the end |
| Saved places (`manual_place_service.py`) | `place_clusters` of manual origin | create, bulk create, edit, delete, delete all | summaries have a foreign key to them, other history does not |
| Uploads, imports, normalisation (`import_service.py`, `normalization_service.py`, `public_upload_service.py`) | batches, staging rows, stops, derived clusters | upload (one transaction), import, normalise, normalise again | foreign-key order; what is left after a failure |
| Normalisation algorithms (`normalization/`) | none | speed filter, stops, recurring places | jumps of a scan, one visit in two places |
| Personal erasure (`delete_personal_data`) | none of its own: one transaction over ten tables | `DELETE /uploads` | ids read in one statement and used in later ones while others commit |
| Rate limiter (`ratelimit.py`) | token buckets per (family, key), two UTC-day counters | `try_take`, `try_count_global`, `add_tokens`, `budget_exceeded` | lazy refill, pruning, a clock read before the lock, midnight |
| Request charging (`ratelimit.py`, `routes_assistant.py`), body limit (`request_limits.py`) | which limits are still ahead of a request; a spool | the middlewares and the chat route | several limits of which a later one may refuse; chunk boundaries |
| Crime ingestion (`crime/backfill.py`, `crime_ingestion_service.py`) | `crime_incidents`, a watermark computed from them | keyset walk, retry, upsert, purge below the floor | late rows, partial runs, two ingests at once |
| Assistant turn (`assistant/agent.py`, `llm_client.py`, `stream_guard.py`) | a streamed turn, the failover chain, the day's token budget | plan, run a tool, narrate, fall back | budget checked before and charged after an await; failover in mid-stream; hold-back of text; disconnects |
| Assistant tools (`assistant/tools.py`, `place_resolution.py`) | saved places and rows of runs | resolve names, save unknown ones, analyze, compare, explain | commits between sections, overlapping calls, deletions in between |
| Geocoding (`geocoding_service.py`) | politeness gate, `geocode_cache` | search | concurrent misses of one key, eviction by the sweep |
| Freshness cache (`crime_service.py`) | two dictionaries | read, recompute | values stored out of order |
| Area selection (`area_selection_service.py`) | none: a keyset cursor in the client | summary, pages | pages and summary of different moments |
| Statistics (`analysis/comparison.py`, `rate_tests.py`) | none | candidate, tests, correction, decision | ties, minimum data, multiplicity |
| Baselines (`neighborhood_service.py`, `reference_circles.py`) | counts shared within a request | beat, neighborhood, sector and city baselines; reference circles | sharing by key; weighted draws and their rounding |
| Reports (`reports/`) | `analysis_report_snapshots` | create, read, delete | six reads of different moments in one document |
| Migrations (`alembic/versions`) | the schema | upgrade, downgrade | rows of every release in between |
| Front-end hooks (`frontend/src/lib/use*.ts`, `MapWorkspace.tsx`) | requests in flight, generation counters, refs | change scope, answer, abort, run, save, delete | late answers of superseded requests; effects after the render; a handler that goes on with the list of an older render |
| Parsers, exports, response headers, single-read queries, configuration | none | pure or read-only | data conversion, not behaviour |

Interaction: every request goes through the burst limiter, the body limit and the session
dependency and then runs one database transaction (occasionally more). Requests, the
sweep and the ingestion share only the database; the limiter, the politeness gate and the
freshness cache are shared by the threads of the one API process. The front end meets the
API through HTTP only.

What makes each component correct:

* sessions and sweep: nothing a visitor can still reach is ever deleted, nothing dangles,
  and everything of a visitor who is gone is eventually deleted;
* history, uploads and erasure: an erasure is complete, takes nothing else, and no
  interleaving leaves half of a result;
* limiter: no caller exceeds its limit by more than a bounded price for each time it was
  forgotten, and no day ever exceeds its limit;
* ingestion: no row within the window is lost or doubled;
* assistant: every turn ends with one of its endings, shows nothing unguarded, holds no
  transaction while it waits, and never overspends by more than the calls under way;
* statistics, baselines, reports: what is shown adds up, belongs to the place it is shown
  for, and a recommendation has earned its name;
* hooks: what is shown belongs to what is selected.

## 2. Modules

Each component has a module of its own; proofs stand in modules beside them. The small
components of the server are put side by side by `MCServices`, the hooks of the browser and the
limits at the server's door by `MCRequests`; there a behavior is about one of them, named by
the variable `part`. `Ranking` (a finite set of rows in the order of a relation, as a query with
ORDER BY returns it) and `Totals` (the sum of a list of counts) are shared by several. Faulty
variants used to test the properties stand next to what they replace and are marked "Fault".

### SessionRetention

Time is counted in ticks. For a public identity `i`: `issued[i]` and `expires[i]` are the
claims of the newest token it holds, `lastSeen[i]` its `session_activity` row, `since[i]`
the instants at which the requests it has in flight were authenticated. `db[t]` is the set of
committed rows of table `t`; a row keeps its owner, `created_at`, `updated_at`, the request
that wrote it and one reference. Rows one request writes share its number, so that a
comparison, its options and its pairwise row, or a run and its summaries, are recognised.

`Begin` is the authenticating dependency, and each writing request (`CreatePlace`, `EditPlace`,
`Analyze`, `Compare`, `CreateReport`, `Upload`, `Import`, `Normalize`) is its commit; the
timestamps it writes are any instants between the two. Requests of one identity overlap in any
order; an end of a request may leave its instant behind, since another request may have been
authenticated at the same one. `Resume` signs, stamps and answers in that order, and the answer
may be lost, or arrive before that of an earlier one. The stamp is a plain overwrite
(`session_activity_service.py:19-27`), so that of two overlapping resumes (two tabs) the older
may commit last and set `last_seen_at` back, although the docstring calls it the "last
successful create/resume timestamp"; the newer cookie then outlives `last_seen_at` by a
lifetime and up to one request. `Fail` ends a request without a commit. The sweep is one action
per batch: `SweepOrder` is the order of the statements in `sweep_retention`, `Victims` their
WHERE clauses, `SweepBatch` one round of `_delete_in_batches` (any `BatchSize` of the victims,
a commit, a short round ends the statement), `SweepActivity` the last statement and
`SweepCrash` a restart of the API. Because `Active` is part of `Victims`, activity is evaluated
anew in every batch, as the SQL does. The children of a comparison are pinned to their parent
by a condition that is evaluated anew as well.

Simplifications: one sweep at a time (the job is nightly); an upload yields one cluster; a
browser holds its newest token only, and a cookie it loses is not presented again; creating a
session is one action, since a new identity has nothing yet that could be lost; deleting places
is left to `PersonalErasure`, and the eviction of the shared `geocode_cache`, which no row
refers to, to `Geocode`.

`MCRetention` instantiates it with a public and an internal identity of which one is at
work in a behavior; the internal one, which has no cookie, has one request in flight there, and
no sweep begins before its cutoff could reach a row (`FirstSweep`).

### RateLimiter

`buckets` is the partial function `_buckets`. A bucket of family `f` counts in units of
`1/Per[f]` of a token, so a tick refills the integer `Capacity[f]` and no fraction is
rounded (the code uses floats). `TryTake(f, k, t)` is the whole of `try_take` by a call that
read the clock at `t`: prune, refill, cap, grant or refuse, and store. The lock makes it
atomic; the clock is read before the lock, so `t` may be up to `Lag` ticks old and the
elapsed time negative. `TryCountGlobal` is `try_count_global`, called on the event loop.
`spent`, `dropped` and `granted` are history variables that the properties need.

All families share one map, and a call of any family prunes it by its own capacity and rate, so
that a caller of another family is forgotten while it still owes time (finding 3). What that
costs is `PrunedWindow`, for all families and any wait for the lock: for each time its bucket was
dropped a caller is granted at most one full bucket, and the refill of a wait, above its own
limit; and for the smallest family, if no call waits, all prunes together lift the limit no
further than a full bucket in each of the shortest periods, other families losing what their
buckets hold above the smallest one for each prune. With the default settings, once more than
10,000 keys are tracked, the ten sessions an hour may become up to ten a minute. While nothing is
pruned the limits are exact (`WindowBound`).

`MCRateLimiter` gives it one family, or two that do not refill alike; `MCRequests` has the two
over a map of one entry and waits of a tick, and a second limiter, with one family and longer
waits, that nothing prunes.

### RequestCharging, RequestBody

`RequestCharging` follows a request through the limits of `BurstLimitMiddleware` (which family
a path is charged to, health probes, the internal tier) and of `assistant_chat` and
`assistant_command`: each `TakeToken` takes a call from a bucket that is refilled on every tick
and not pruned, and other requests take theirs in between. The chat route takes its three
limits without an await, so the interleavings are more than the code has. `RequestBody` reads a
body into the spool, refuses it past the limit or for its Content-Length, and replays it in
chunks, after which the application reads from the client again.

### PersonalErasure

One identity, since every statement carries its `user_id_hash`. `Resolve` is the read of
the places at the start of an analysis, `CommitRun`, `CommitComparison` and `CommitReport`
the commits at its end; `erase` is the transaction of `delete_personal_data`: the statement
it has reached, the ids it has collected, and the rows it has deleted and not committed.
Each `Erase...` action is one read, together with the deletes that use exactly the ids it
read. Under READ COMMITTED each statement sees what is committed when it runs; deleted rows
are visible to others until the commit and locked, so a delete of the same row, or an insert
that refers to it, waits (a guard). A foreign key that a row committed meanwhile would
violate makes `EraseClusters` or `EraseCommit` impossible; only `EraseFail` is left. SQLite,
used in development, serialises writers, which is a subset of these behaviours. A run from
before migration 0016 has no `place_ids_json` (`named = FALSE`) and may exist initially.

### AnswerStream and AssistantTurn

`AnswerStream` is what a client may rely on: text in parts, a finished turn leaves a whole
answer, an error never leaves half of one, an ended turn says nothing more. `AssistantTurn`
is the code: a turn passes the budget checkpoint, ends its read transaction, plans with the
model, runs a tool, passes the second checkpoint, and narrates. Each backend of the chain may
refuse (`Unreachable`), fail within its answer (`StreamFails`), answer with a body that is no
JSON (`BodyUnreadable`), be truncated or end empty; `FailOver` goes on to the next one as
`FailoverLlmClient` does. `Delta` and `StreamEnds` feed the hold-back of `stream_guard.py`
(`Released`, `Trips`). A client may leave at every await;
what a provider has begun to generate is charged then. The token budget is `_token_count` with
its day key, and midnight may fall anywhere. Text is abstracted to words of which some end a
forbidden phrase; a chunk that completes a word is part of that word's arrival. Facts a reader
might trip over: a planning call that a disconnect cancels is not charged; truncated output is
a failure for `OpenAiLlmClient` only; a narration of white space ends the turn "done" and blank.

### AssistantTools

`saved` holds the places, `kept` the rows of runs, comparisons and reports, and `work` how far
each caller's call is: names read once, unknown ones saved one by one (each a commit), then the
sections in the order of the tool, each a query and sometimes a commit. Two calls of one
visitor overlap with each other and with deletions. Repeated or synonymous names make
`place_ids` repeat, so that a tool commits its run and then fails at its report, although
`place_resolution.py:94` means to deduplicate within a call; a sensitive place does the same
to analyze, compare and explain; an analysis without a complete window has already saved its
places when it asks back. A section's reads are one step; renaming and creating by hand, which
can make twins as well, are left out, and so is the `ValidationError` of
`ManualPlaceCreate` (a label or coordinates it refuses), which ends a call after earlier names
were saved.

### Ingest

Keys, dates and versions of one source; `run[r]` is a request: its floor or watermark, its
cursor, its pages. `Backfill` reads the watermark less the overlap, `Fetch` a page after the
cursor `(date, id)`; `Update`, `Insert` and `UpdateAgain` are the statements of the upsert, with
the unique key and the row locks of others between them, `Commit` ends a page and `Purge` the
run, `Fail` is what either may run into (a retry or a restart begins anew), and
two callers run at once (the sidecar and the start script do overlap). The source publishes up
to `Late` days late and corrects rows. An explicit window (`BackfillWindow`) or a single
page (`PullPage`) can move the watermark past rows never fetched; `Settles` is claimed only
without them.
Assumptions: `Late + 2 <= Overlap`, no rows dated in the future, and pages enough for the overlap.
One day more than the delay is not enough when pulls overlap: a request may write a page it
fetched before a correction, over the corrected row, and another one, under way since before
midnight, may then store a newer day and move the watermark; the next pull must still reach back to
the corrected row, or it is stale for good. A rolling source whose window is no longer than the
overlap is pulled whole every time.
Two pages that wait for each other's rows are covered by `Fail`.

### Geocode, Freshness, AreaSelection

`Geocode`: `Slot` is the claim under the lock, the sleep is outside, the call goes out some time
after the slot, the write-back may meet a row of another search, and the sweep may evict the
row it met. The gate's docstring, "at least min_interval_s between calls", holds of the slots and
of any number of calls taken together; two single calls may be closer, since threads wake up
late. `Freshness`: two dictionaries, each read and each write a step. The docstring's "a race only
causes a redundant recompute" is not so: a slow read may replace a newer value, and a call that
has read an expired value (`crime_service.py:98`) may find the expiry another call sets before it
looks (99), and serves a value of any age. `overtaken` marks those calls; what all others serve
stays bounded (`AgeBound`). `AreaSelection`: summary and pages are reads of
different moments behind a keyset cursor, while ingestion inserts, corrects and deletes. The
ORDER BY of a page is `Ranked` of the module `Ranking` by (offense start, id), newest first.

### Normalization, Correction, RateComparison

Pure algorithms, checked over all bounded inputs. `Normalization`: speed filter, scan for stops
and clustering on a line, each loop a function of its rounds (`Keep`, `ScanOn`, `Assign` are one
round), against declarative definitions of a stay and of a recurring group
(the query of `normalization_service.py:35` has no ORDER BY, so clusters may depend on the
storage order; the inference of home and work is left out). `Correction` is
`benjamini_hochberg`, `RateComparison` the candidate, the family of tests, minimum data, trimmed
edge months and the overall decision; the p-value of a test is arbitrary, since the tests are
floating-point numerics. A window of less than two months yields `model_warning`.

### Neighborhood, ReferenceCircles, Report

`Neighborhood` follows the loops of `neighborhood_service.py`: buffered rows, beat, mcpp,
sector and city baselines with the counts shared between the places of a request, the p-values,
the correction, the answers; ingestion changes the table between the queries. (The comment at
641-642, "incidents with missing coordinates stay in the baseline", is contradicted by the
filter of `_area_incidents` at 124; the model follows the code.) Left out: the pairwise
section, the breakdown by category, the trends. `ReferenceCircles`: the weights of the
geographies under a circle, dropped components, beats without a sector letter (which count as
covered and are in no component, so that the parts of the others are taken as the whole; the
floor at 402-405 holds for dropped geographies, not for them), exact frames, and large ones by
a seeded draw whose whole numbers per geography are allotted by largest remainder; one kind per
behavior. `Report`: selection, memberships, context, comparison and freshness are reads of
different moments; the table is cut after overlaps were counted; positions come from the first
read, rows from later ones; a place made sensitive between check and commit is stored, and
refused when the report is read.

### Migrations

The 18 revisions as functions on a schema (tables as sets of the parts that were added later),
up and down, one transaction per command, with the rows each release may write in between.
PostgreSQL only; 0011 and the upgrade of 0017 change values only. The downgrade of 0008 fails if
two datasets share an id. The downgrade of 0017 always fails: it calls `round` with a column of
double precision and a number of digits, which PostgreSQL does not have (SQLite does), so that
a database at the last two versions cannot go back below 0017.

### IncidentPoints, PanelTurn, AddressSearch, AreaPaging, Workspace

The hooks of the browser. Callbacks keep what they captured in the render that made them: an
effect after a change of the map or an answer is a step of its own after the render, while
typing and clicks run their effects at once, as React does with discrete events. Aborted
requests may still answer. `IncidentPoints`: debounce, generation counter, dots kept while
the next view loads. `PanelTurn`: the sequence number that silences an older turn.
`AddressSearch`: a debounce and the Enter key sharing one controller. `AreaPaging`: filters and
cursors reset by effects that follow one another. `Workspace`: the address list, saves, deletions,
summaries that arrive in any order, runs with their version, the assistant's results and the card
that freezes a report. The server's effect and the answer of a create or delete are one step;
seeding, share links, bulk import, clearing all pins and the reconciliation of the cards after an
entry is saved are left out. A summary that was asked
for earlier and arrives last puts a deleted place back until the next refresh, and of two
deletions that overlap the second looks its entry up in the list of an older render
(`MapWorkspace.tsx:654`) and may drop the entry of a place nobody deleted; no run is
about either.

## 3. Runs

| Run | Question | Bounds |
|---|---|---|
| `retention` | may a sweep touch what a cookie or a request can still reach, leave anything dangling, or spare what is silent? | one identity at work: a public one with TTL 1, absolute maximum 4, overlapping requests, two writes (three with a comparison) and one restart of the sweep, or an internal one with four writes; window 3, request 1, clock to 5, first sweep at 5, batch 1, fair sweep |
| `retention_stranded` (violated) | can a sweep strand half a comparison? | one internal identity, two writes |
| `retention_recent` (violated) | does every recent analysis keep its owner active? | TTL 1, window 3, three writes |
| `limiter_mixed` (violated) | does a prune drop only what has refilled? | two families, map limit 1 |
| `erasure` | is an erasure complete, and does it keep what is not its business? | one manual and two imported places, one request in flight, two writes, raw rows kept |
| `erasure_survivor` (violated) | does anything name an erased place afterwards? | the same |
| `assistant` | does every turn end as promised, show nothing unguarded, hold no transaction, and overspend boundedly? | two connections, two turns, a chain of two, budget 2, two words, hold-back 1, one midnight, fair turns |
| `assistant_body` (violated) | does a turn give up only when every backend was asked? | one such body suffices |
| `ingest` | is a finished pull complete, and does the table become what the source says? | two rows (of one call or of two reports), two callers with pages of one and two rows, late by one day, overlap three, five days of which the source is quiet on the third, one correction, one failure or extra run |
| `services` | do geocoding, freshness, area selection, normalisation, comparison, baselines, migrations, tools, reports and reference circles keep what they promise? | see `MCServices.cfg`; about 0.7 million states |
| `requests` | do the hooks show what belongs to what is selected, and do pruning, waiting calls, several limits or chunks show? | hooks: two scopes and views, four changes, two turns, four searches, two areas, three spots, three runs; limiter: one caller with one token in five ticks and two in four, map limit 1, one prune of each bucket, lag 1, clock to 5, and one unpruned bucket of two tokens in three ticks with lag 2; two requests charged; body limit 4, chunks of two |
| `client_append` (violated) | is the report shown one of the list shown? | three spots of which two are saved |

Why these bounds are enough for the cases that matter: windows and lifetimes are the smallest
for which a cookie slides, reaches its ceiling, expires, and leaves a whole window of silence
after it; a batch of one puts a commit between any two deletions; two writes give a parent and
a child, four a complete second normalisation. Two ticks of requests let two resumes overlap.
In the limiter, the two families' buckets over a map limit of one are pruned by each other's
calls, the slower one while it still owes (its own limit is exceeded within the bounds), and
periods of four and five ticks make a refill span several ticks. In the erasure, one manual and
two imported places distinguish manual, derived and mixed rows, and two writes let one row
commit before the erasure and one during it. In the assistant, two turns pass the checkpoint
together, a chain of two fails over and gives up, and two words put a forbidden phrase across a
boundary. In the ingestion, a page of one row puts every page boundary between rows of one
date, the overlap is the least the assumption allows, and a quiet day lets the watermark leave
the first days behind, so that the last pulls are incremental: they start after the floor and
must reach rows that came late or were corrected. In the services, four visits hold two places
and a bridge between them, four options three tests with ties, eight cells a buffer over two
beats, two neighborhoods and water; every adequacy status, exact and drawn frames and dropped
components occur. Every action and every disjunct fires, and every property of a passing run is
also run against a seeded fault of the code (`PROJECT.json`, "mutants"), which it detects at
the same bounds.

What they may seem to say and do not: `HalfDeletedIsUnreachable` speaks of public
identities; internal ones need no cookie, and for them it is false (`retention_stranded`).
`EraseCovers` speaks of rows that were there when the erasure began; for rows of requests
already under way it is false (`erasure_survivor`). `LateWindowBound` is the exact limit, with
waiting calls and no prune; with a prune the exact limit is false, and `PrunedWindow` says by how
much. `AgeBound` leaves out the calls that were overtaken between their two reads, for which
nothing bounds the age. `MigrationsWorkHere` says which downgrades fail, not that none does.

Six properties of `services` and `requests` are conjunctions of two named parts each (`LimitsHold`,
`GeocodingHolds`, `StaysAndPlaces`, `DecisionsHold`, `BaselinesHold`, `ToolsHold`), each with
a seeded fault for either part.

Deadlock is checked in the runs of sessions and erasure: requests, sweeps and erasures can
always start or fail. The other configurations say CHECK_DEADLOCK FALSE because
their systems may stop: all turns opened have ended, all days are over and the source is
quiet, a request is answered, a migration fails, nobody clicks. That nothing stops too early is said
by `TurnEnds` and `Settles`.

### Fairness

`SilentDataGoes` needs `WF_vars(Sweep)`: the crontab posts the sweep every night whatever the
last one did, and inside a request the statements follow one another. Restarts are bounded by
`MaxCrashes`; with a restart in every sweep nothing could be promised. The clock is not
fair: what is silent at the bound of the clock is already old enough.

`TurnEnds` assumes `WF_vars(Serve(t))` for every turn: each model call has a timeout, so that a
turn that can take a step takes one; it does not assume that any backend answers. `Settles`
assumes that the nightly request is posted again and again and that a request under way makes
progress (the crontab, and the timeouts of the HTTP client), and failures are bounded by
`MaxExtras`.

## 4. What disagrees with the documentation

1. `retention_stranded`: a comment in `sweep_retention` says that pinning the children to
   their parent "can never strand a comparison with half its rows". The pin is evaluated
   anew in each statement; an internal identity that becomes active between two of them
   strands one.
2. `retention_recent`: `DEPLOY-VPS.md` and the module's docstring count every analysis as
   activity; `_active_identities` does not look at `statistical_comparisons`. The effect is
   small, since a comparison needs a cookie and a cookie an activity row at most a day older.
3. `limiter_mixed`: the prune judges the buckets of all families by the capacity and rate of
   the calling family, and so forgets emptied buckets that have not refilled.
4. `erasure_survivor`: an analysis that has resolved its places before "Delete my uploaded
   data" commits rows about them after it, and no later erasure finds them.
5. `assistant_body`: the failover client's docstring names a bad response shape as a reason to
   ask the next backend; a 200 whose body is no JSON raises a `JSONDecodeError` that leaves the
   chain at once.
6. `client_append`: "Run results are keyed to the list, so a late append makes them stale"
   (`MapWorkspace.tsx:473`); while a run is awaited there are no run points yet, the append
   invalidates nothing, and the report of the shorter list is shown for the longer one.

## 5. Proofs

All for arbitrary constants. Each invariant named below is inductive; the text says what it
adds to the property and why that is needed.

* `SessionRetentionProofs`. `SessionInv` relates tokens, requests and activity rows: a token
  expires at most TTL and one request after the activity row says, since an older resume may
  commit last, and a request in flight was authenticated within a token's life. With the
  assumption `Slack` (the window is at least one cookie lifetime and two requests) an identity
  that is reachable has an activity row newer than any cutoff in use, so it is `Active` and no
  statement takes its rows: `SweepSpares`. That invariant holds of one step;
  `HalfDeletedUnreachable` is about what earlier steps have done, and needs `RowInv` (owners
  and ids of rows, and that the rows of one request are written together) and `UnitInv` (as
  long as its owner is reachable, a comparison or run is whole). `CookieBacked` and
  `TypeCorrect` come with them. `Slack` is true of the default window of 30 days; a window of
  one day would not satisfy it. `NothingDangles` needs `ReferenceInv`, which says, for each
  phase of a sweep, which old children can be left: a statement that is done has left none of
  an owner that was silent at its end. That carries to the statement of the parents only
  because an identity never turns from active to silent at the cutoff of a running sweep, and
  because children carry no later timestamps than the guards allow for. `SweepIsComplete` is
  the converse, that a sweep deletes what it should: when its eleventh statement is due, no row
  of any table is abandoned at its cutoff. A statement judges some rows by others, so
  `SweepInv` adds that a comparison and its children have one age (`AgeInv`), that a summary
  belongs to the owner of its cluster (`PlaceInv`), and that a summary that is young enough to
  be spared still has its run (`RunInv`); otherwise it would keep a cluster alive whose owner
  nothing makes active, since summaries are no activity. `SilenceIsSwept`: a public identity
  that has fallen silent stays so, the sweep that starts then leaves none of its rows if no
  restart cuts it off, and none comes back. `SweepsRunDown`: a batch either ends its statement
  or takes a row that is doomed, and no request dooms another one while a sweep runs (what it
  writes is younger than the cutoff, what it edits makes its owner active), so `BatchesLeft`
  bounds the batches to come.
* `RateLimiterProofs`: `LateWindow`, for any wait and any families as long as the map is not
  thinned out (`Unpruned`: it is wide enough for every caller); its invariant says that what was
  granted since `s` and what the entry holds at `s` are at most a full bucket (`Covered`), for
  entries whose stored instant goes back too. `PrunedWindowHolds` has no such hypothesis. The
  prune is judged by another family, so the invariant `PrunedInv` must know the debt of a bucket
  that has no entry any more. A price (`Pays`: p, r, x) is what covers one prune: p times a
  bucket's debt is at most r for each instant since it was last read, and x. For every price,
  p times what was granted is at most p full buckets, r for each instant, and x for each prune;
  while there is an entry, less p times what it holds at its latest reading (`Keeps`), and without
  one less a reserve for a late call that makes a fresh entry at an older reading
  (`Forgotten`). `OwnPrice` (a full bucket for each prune) and `SharedPrice` (the family with the
  shortest period and the smallest bucket) are the two prices of the property. `DayIsCapped`: the
  counter of the day in `dayKey` equals what that day has granted, and no later day has granted
  anything.
* `PersonalErasureProofs`. `SummariesMatchRuns` is not inductive: at the commit of an erasure
  one must know what its earlier statements did. `ErasureInv` adds that rows are numbered in
  commit order (`NumberInv`), so a row committed after a read is not among the ids read; that
  the summaries deleted are exactly those of collected runs and places (`SummaryInv`); that
  everything old that mentions an upload is collected once its statement has run
  (`CoverInv`), and nothing else (`OnlyInv`). Its corollaries are `SummariesMatch`,
  `ErasureCovers` and `ManualKept`.
* `AssistantTurnProofs`: `TurnInv` says, stage by stage, what a turn holds: no transaction
  from the checkpoint to the end of an await, a stream only of the backend at hand, shown text
  only as far as the guard has released it. Hence `NothingHeldWhileWaiting` and
  `NothingForbiddenIsShown`. For `OverspendIsBounded`, every turn that has passed a checkpoint
  holds tickets, one `MaxCost` for each backend it may still ask; the tickets of a day are a
  finite set, and what is spent and their number are together at most the budget and one chain
  of tickets per connection. `NothingGeneratedIsFree` and `TypeCorrect` stand beside it.
  `TurnKeepsPromise`: each step of `AssistantTurn` is a step or a stutter of `AnswerStream`
  under the mapping of a turn to what its client shows.
  `TurnsRunDown`: the stage, the backends not yet asked and the words not yet said give each
  open turn at most `3 * Chain + MaxWords + 4` steps (`StepsLeft`); each step of the server takes
  one away and no step of anybody else, or of the clock, gives one back. A turn that kept asking
  a chain from its start, or a body that a client could make longer than `MaxWords`, would break it.
* `IngestProofs`: `WalksAreComplete`. `IngestInv` says where every row is that was due when a
  walk began and is still in the window (`Accounted`): ahead of the cursor, on the page at
  hand, written and not committed, stored, or below the floor that a purge has meanwhile
  raised. A page is the beginning of what lies ahead in key order (`PageIsFirst`, by induction
  over the numbers below its length), so nothing is skipped; a key that another caller inserts
  first is found by the second half of the upsert; and a failed or restarted request keeps no
  claim.
  `RequestsRunDown`: a request has at most `(MaxPages + 1) * (3 * limit + 4)` steps to take, up
  to three statements for each row, a commit for each page, and each step takes one away. Rows
  that another request commits or a purge deletes under its hands send a row back from the
  update to the select of the upsert never, and a page to be read again never, so nobody sets
  it back.
* `RequestProofs`, the hooks. For each hook the invariant ties what is in flight to the counter
  or controller that will silence it: `PointsInv` (`DotsOfTheView`), `PanelInv`
  (`NewestTurnSpeaks`), `SearchInv` (`CurrentSearch`; two handlers share one controller, so it
  also says which of the requests in flight is not aborted), `PagingInv` (`PageOfTheArea`;
  between the effects of one change the page is of the old filters and must not be shown as
  of the new) and `RunInv` (`RunsStayNewest`).
* `RequestProofs`, the door. `ChargingInv` counts the shared calls an address has taken against
  what its bucket has granted (`LimitsKept`); `BodyInv` says at each stage how much of a body
  the spool and the handler hold (`BodyReplayedWhole`).
* `ServiceProofs`, shared state. `AgeInv` bounds the age of both halves of a cache entry, and
  of the value a call has read and not yet judged unless it is overtaken (`FreshEnough`);
  `GeocodeInv` bounds the slots given by the gate's clock and says whose row a search may have
  lost (`GeocodingIsPolite`); `OwnInv` and `LabelInv` say what the calls of the assistant work
  on and which labels a caller may hold twice (`CallsKeepToThemselves`).
* `ServiceProofs`, statistics. The loop of `benjamini_hochberg`, which walks the sorted
  p-values from the largest, computes the step-up correction (`ComparisonsAreSound`); a
  corrected value is never below its own, and a recommended option has passed its test
  against every other. `BaselineInv` follows a request of `neighborhood_service.py` query by
  query (`ProgressInv`, `CountInv`, `PlaceInv`, `ReadInv`, `TestInv`, `VerdictInv`): a count
  that two places share was read for a place with the same key (`BaselinesAreSound`).
* `ServiceProofs`, lists. `RankedInOrder`: a finite set in a total order is listed once, in
  order. From it the pages of an area (`AreaInv`: `ListInv` is about the pages read, `SummaryInv`
  about the read beside them) and the sections of a report (`ReportInv`: what a draft holds
  between its six reads: `DraftShape`, `ChosenInv`, `RowInv`, `SectionInv`; `TablesType` of
  the tables they read; `DoneInv` of the finished one). A row is flagged exactly if another row
  of the table has its record, so the overlap the overview counts is the one the table shows:
  two finite sets are counted against each other by injections and surjections.
* `ServiceProofs`, sums. The counts of disjoint parts add up to the count of the whole
  (`PartsAddUp`), and so a set counted by the values of its members, in any order of the
  values and cut anywhere, adds up to its size (`HistogramAddsUp`, `RankedCovers`). Hence the
  types of an area's summary add up to its count (`MixInv` beside `AreaInv`), those of a
  report's place to the place's count although the rare ones are folded into one row
  (`TypesAddUp`), and the places to the memberships (`PlacesCounted`, with `TypedInv`).
* `RequestProofs`, the list of the workspace: `ListInv`, that no spot is listed twice, through
  every loop that adds places, queues them, cuts and marks entries (`AddAllIs`, `AmongIs`,
  `RemovedIs`, `MarkedIs`).
* `ServiceProofs`, normalisation (`ImportsAreNormalised`). What the filter keeps is in time
  order (`FilteredInTime`), whatever the order of the rows. After n rounds of the scan
  (`Scanned`) the anchor is past n, the stops found are runs that lasted, in order and before
  the anchor, and a stay that began before the anchor overlaps one of them. After n rounds of
  the grouping (`Sorted`) a stop has left the unassigned ones exactly if a seed that has left
  has it in reach; so the first one left is a seed, and takes its whole group and no more
  (`FirstLeftIsSeed`). Neither is inductive without the other parts: that a group is complete
  needs that all the seeds before it have gone (`SeedsInOrder`).

* `ReferenceProofs` (`ReferencesAreWeighted`). Sums over sets are counts of pairs, which gives
  the arithmetic they need without induction over an operator: a sum splits over disjoint sets
  (`SumSplit`), is linear (`SumIsLinear`) and is the sum of its parts (`SumByPart`). The
  largest-remainder allotment loses no draw: fewer draws are left over than there are
  geographies (`LeftOverIsSmall`), so each goes to another one (`ExtraAreLeftOver`,
  `AllocationsAddUp`), and no weight is off by more than one draw (`DrawsFollowAreas`); exact
  weights are not off at all (`ExactFollowsAreas`). The quantile is the count of the first
  center at which the running weight reaches its part, so its predecessors do not
  (`QuantileSplits`). Sectors are disjoint, so what the components weigh is what they cover of
  the circle's sectors; the floor on the represented share then bounds what is drawn, with the
  beats that have no sector letter added (`SectorsAreRepresented`). `ReferenceInv` adds to the
  property where an answer came from: the draw of the seed is a draw of this place (`Drawn`),
  an answer is no other than the distribution of the sample at hand, and what earlier requests
  drew is that sample too.

`Total`, `AddAll`, `Among` and the loops of `Normalization` are loops of the code, written as
recursive functions on `0 .. n`. What they compute is proved all the same: the recursion up to
a bound has a solution (`RecursionExists`), and a fact that holds of its start and passes from
each step to the next holds at its end (`StepByStep`, from the well-foundedness of the order of
numbers).

Only model-checked: `MigrationsWorkHere`, which is about one finite schema, 18 revisions of
string-keyed records whose tables only vary in a row or none, so that TLC exhausts what there
is to say (a proof would expand each of the 36 functions on each of the schemas they meet, and
generalise nothing); and the liveness properties
`SilentDataGoes`, `Settles` and `TurnEnds`, since the prover does not do fairness or ENABLED. Of
each the other half is proved: a sweep, a request or a turn has finitely many steps to take and
nobody adds to them (`SweepsRunDown`, `RequestsRunDown`, `TurnsRunDown`), and a sweep that has
taken them has left nothing of a silent identity (`SilenceIsSwept`). What is left to the
fairness is that the steps are taken, and that restarts do not cut off every sweep.
`LateWindowBound` is `WindowBound` of a second limiter whose calls wait, and `LateWindow` is
the theorem about it.

Assumptions on constants (`ASSUME` in the modules): disjoint identities and places, finite sets
of records, requests and places, a finite map whose sectors are disjoint, natural bounds,
positive lifetimes, `Slack`, finitely many turns, a null that is no value, a request for a
report as its validators let it pass, the beats and neighborhoods a cell lies in, integer times
and positions of rows and stops, a `One` that no p-value exceeds, a `Whole` that the size of
each exact component divides (so that exact weights are whole numbers). TLC evaluates them in
every run.

## 6. What is not modelled, and the plan

Out of reach: floating-point statistics and geometry; the wording of prompts and of the
output guard's patterns; the wire formats of the providers; file formats; signatures.
Single-read queries and exports have no behaviour to model. `PROJECT.json` lists every component
with its reason.

In order of importance:

1. `Workspace`: bulk import, share links and clearing all pins; the pairwise section of
   `Neighborhood`; trends; home and work.
