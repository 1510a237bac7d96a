# HorstReporter: TLA+ models

HorstReporter collects amateur-radio reception reports ("spots") from MQTT,
RBN, DX clusters and WSPR, keeps the last hour in memory, streams it to
browsers over SSE, and builds long-term statistics in Postgres, among them the
*Almanac*, a permanent seasonal record. This directory models the parts whose
correctness depends on the order in which goroutines, database transactions,
network frames and crashes interleave.

## 1. Inventory

| Component | State | Operations | Interacts with | What is hard, and what makes it correct |
|---|---|---|---|---|
| Ingest queue and flusher (`dx_postgres.go`) | `pendingRegion`, `inflightRegion`, last flush time | `observe`, `flushPending`, `mergePendingBack` | called by every ingest; writes the daily table; read by the fold | a batch is in neither queue nor table while it is committed; failed and unacknowledged commits. No delta lost or repeated |
| Almanac fold and gated prune (`almanac_fold.go`, `almanac_season_store.go`) | watermark (in the database and in memory), lost days, seasonal segments, ingest totals | `runOnce`, `ensureWatermark`, `foldDay`, `pruneCutoff`, `forceAdvance`, DELETE batches | reads the flusher's state; the Almanac reader splits at the watermark | three tickers over one database, crash between steps. Every committed spot of a kept day is read exactly once, for ever |
| Hub (`hub.go`, `main.go`) | `history`, `baseSeq`, clients, epoch | `broadcastMsg`, `dropFrontLocked`, `pruneLiveHistory`, startup backfill | ingest goroutines; stream handlers | sends happen after the lock: reordering; history is not sorted by time |
| `/api/stream` (`stream.go`, `stream_wire.go`) | registration, channel, batch, greatest id | registration and dump, live loop, `decideResume` | hub; browser | the seam between dump and live; resume after any break |
| Page stream state (`static/app.js`) | `liveSpots`, `streamLastId`, `streamedFilter`, the URL of the EventSource | `startLiveStream`, reconnect, suspend, frame handlers | stream handler | three pieces of resume state that are updated at different moments |
| Almanac read path (`almanac_handler.go`, `almanac_season.go`, `almanac.go`, `almanac_store.go`) | two LRU caches keyed by grid and SNR tier, the slow-path lock, the negative cache; pure computations on what was read | `get`, `getSeason`, `typicalRadius`, `warm`, `purgeCaches`; lanes, radius, windows, agenda, season month | fold (watermark in memory), SNR backfill (purge), reader | the watermark, the clock and the caches move while a result is computed. An answer is whole, current and not older than the purge; the two ways of counting a day agree |
| Almanac SNR backfill (`almanac_snr_backfill.go`) | `dx_meta` progress, done and since rows; the runner's plan and batches | plan, windowed reads, SET and ADD batches, `refoldDay`, `finalize` | daily table, fold ticker, raw prune, caches | lost commit answers, restarts, a fold that passes days meanwhile. No spot twice; the since-day is true |
| Almanac WSPR backfill (`almanac_wspr_backfill.go`) | done rows per area and month, limiter | paced requests, split, backoff, month transaction | wspr.live, seasonal record | months fetched in pieces, overlapping rings. The record only ever changes by whole, correct months |
| Sparse rows (`almanac_sparse.go`) | the stored bytes of a month | encode, validate, decode, replace a day | fold, backfills, reader | versions, varint gaps, cells that vanish. A row reads back as what was folded into it |
| Raw-spot queue (`dx_postgres.go`, `dx_conditions.go`) | `pendingRawSpots`, the rows being inserted, `dx_raw_spots` | `observe`, `flushRawSpots`, `mergeRawSpotsBack`, `PersistRawSpot`, hourly prune | every ingest; the prop baseline's backfill reads the table | a chunk fails while rows arrive and the buffer is full. No queued row lost, repeated or out of order, except the oldest at the cap |
| Propagation baseline (`prop_baseline.go`, `prop_baseline_backfill.go`) | pending map, table, cursor and marker, buckets, statistics cache | `Observe`, `FlushPending`, backfill | hub, Postgres, raw spots | the backfill against the live flush, restarts, a failed chunk. A key's raw rows are added at most once, and a day behind the cursor is complete |
| History API (`history.go`) | bundle cache with eviction list, rate windows, gate | `historyHandler`, `get`, `put`, `allow` | archive query, hub fallback | bundles that age while the archive grows, two requests for one key. A hit lacks nothing that is older than it may be |
| Baseline pairs (`baseline_pairs_cache.go`) | one entry per cluster and the global one, each with a lock | `get`, `entry`, load | `/api/dx_conditions`, `/api/hot_bands`, Postgres | eviction during a load, waiters with old clocks, failed loads. A copy that may be served is served |
| WSPR poller (`wspr.go`) | seen keys with expiry | poll, `markNew`, `prune`, `seedFromHistory` | wspr.live, hub, raw spots, climatology | look-back against expiry, a restart, a late answer. A row is stored and shown once |
| WSPR climatology (`wspr_climatology.go`) | counts, pending map, statistics cache | `Observe`, `FlushPending`, statistics with background refresh, `Save`, `Load` | poller, Postgres, request handlers | counts between map and table, overtaking queries. Counts conserved; statistics never go back |
| Push (`push.go`) | subscriptions and their order in memory, rate windows | add, remove, notify | hot bands, page, push service | an answer that comes after a renewal; the list that decides evictions |
| Operator agent (`cmd/horstoperator-agent`) | `.env`, resolved settings; polled rotator state, mode and backoff; beam and rig caches | settings save and restart; poller, rotate, mode; QSY; links | PstRotator (UDP), Log4OM (UDP broadcast), UltraBeam (MQTT), WaveLogGate (WebSocket) | a restart in the middle of a save, silent and late devices, links that drop. What is shown or reported is what the device did |
| horstprop (`cmd/horstprop`) | rolling report store, KC2G snapshot | feed, `Add`, `Lookup`, `Prune`, `Score` | HorstReporter's stream, KC2G | frames that wait, replays and expiry. A score rests on evidence that is real and no older than the window and the time it was under way |
| pathscope (`cmd/pathscope`) | hub of channels, last matrix of each browser | scoring ticker, stream handler | database, browsers | drops of a full channel, a first matrix that is older than a broadcast, samples in any order. Browsers catch up |
| Everything else | | | | numeric scoring, rendering, routing: see `PROJECT.json`, "components" |

The hazards, each at its line with the properties that would catch it, are in
`PROJECT.json`.

## 2. Plan

Done are steps 1 to 6, the first refinement of step 7 and the proofs of step 8,
but for what these two name as left.

1. `AlmanacFold` with its proofs: the one place where a wrong interleaving
   destroys data for good.
2. `SpotStream`: the live path every user sees.
3. `RawSpots` and, extending it, `PropBaseline`: the two ways of a spot into
   Postgres, and the resumable backfill that feeds one from the other.
4. The Almanac beside its fold: `SnrBackfill`, `WsprArchive`, `AlmanacCache`,
   `AlmanacLanes`, `SparseRow`, checked together by `MCAlmanacParts`.
5. The server's queues and caches: `WsprLive`, `WsprClimate`, `HistoryApi`,
   `BaselinePairs`, `PushStore`, checked with `RawSpots` by `MCServerParts`.
6. The programs beside the server: `AgentConfig`, `AgentRotor`, `AgentRig`,
   `AgentBeam`, `Pathscope`, checked together by `MCCompanions`, and `Horstprop`,
   which listens to the server's stream, by `MCStreamReaders`.
7. Abstract specifications: `WsprRecord`, implemented by `WsprArchive`. Left:
   an atomic "count each spot once" record implemented by `AlmanacFold`; a
   lossless ordered feed implemented by `SpotStream`.
8. Proofs: every safety and action property of steps 1 to 7 (section 5). Left:
   the mapping of step 7's other two records.

## 3. Modules

### AlmanacFold

| Variable | Code |
|---|---|
| `obs` | a goroutine inside `observe()` between the clamp and `s.mu.Lock()` |
| `pending`, `inflight`, `flusher`, `lastFlushOK` | `pendingRegion`, `inflightRegion`, the program counter of `flushPending`, `baselineFlushLastOKUnix` |
| `daily`, `ingest`, `season` | `dx_region_baseline_daily`, `almanac_ingest_slots`, `almanac_season_counts` |
| `watermark`, `hasWatermark`, `lost` | the `dx_meta` row, `almanac_lost_days` |
| `fold`, `prune` | the locals of `runOnce` and of `pruneCutoff` / the DELETE loop |
| `memWatermark` | `almanacFolder.watermark` |
| `accepted`, `committed`, `initial` | history variables, read by properties only |

The keys of one day (grid square, band, region, slot) are collapsed into one
counter per UTC day: nothing in the fold's control depends on the key within a
day. `foldDayInTx` saturates like `satAdd8`. A database transaction is one step
(Postgres makes it atomic; the watermark row lock serialises the two writers of
the watermark); between two transactions, locks or clock readings everything
else may run. `FlushUnacked` is the commit whose acknowledgement is lost: the
code cannot tell it from a failure. `Crash` loses all memory and keeps the
database; the open transaction was committed or not (`FlushCommit` or not
before `Crash`). `ObserveLag` is how long a goroutine may sit between the clamp
and the lock, in clock units; the code sets no limit, 0 is the intended case.

`almanacDayFinal` is split into `almanacDayQuiet` and `almanacDayFlushed`
because `runOnce` evaluates the pending queue and the flush time one after the
other, and the flusher may run in between.

### SpotStream

| Variable | Code |
|---|---|
| `history`, `baseSeq`, `epoch` | `Hub`, `hubEpoch` |
| `sender` | a goroutine in `broadcastMsg` after the unlock, with the client set it copied |
| `conn` | `Client` and the handler's `pending`, `maxSeq` |
| `wire` | response frames the browser has not processed |
| `page` | `streamLastId` (`lastId`), the EventSource's own last id (`esId`), `streamedFilter`, `liveArea` and the query of the current URL |
| `held` | `state.liveSpots`, as a count per message |
| `log`, `dropped` | every message ever broadcast; those a full channel refused |

A message is a number; its content is its time and its kind, and a filter is a
set of kinds (band, source and SNR class alike). One page is modelled: handlers
of different clients share only the hub and the capacity limit, which may
refuse the page at any time (`AtCapacity`). When the page closes a stream the
old handler is taken away at once; in the code it lingers until its context
ends, but nobody reads its response any more. `sort.Search` is modelled as the
binary search it is, because the history need not be sorted. The page compares
spots by content (`exactSpotKey`); here identity is the message number, so two
different spots with equal content are out of scope, and so is a derived time
that is off by a second. Only the v2 format can resume; v1 is not modelled. The
pruning of `liveSpots` by age, its cap and the timeline mode are left out.

### RawSpots

| Variable | Code |
|---|---|
| `rawPending`, `rawBatch` | `pendingRawSpots`; the rest of the slice `flushRawSpots` is inserting |
| `raw` | `dx_raw_spots` |
| `log` | every spot there ever was; a row is the index of its spot |
| `stored`, `trimmed` | history: rows ever inserted, rows dropped at the cap |

`ObserveRaw` is the raw half of `observe()`, `PersistRawSpot` the synchronous
insert of RBN and DX cluster spots, `RawFlushSwap`, `RawFlushChunk` and
`RawFlushFail` are `flushRawSpots`, `PruneRawSpot` is one row of the hourly
DELETE, whose batches may stop anywhere. A failed statement did nothing: an
INSERT that commits while its acknowledgement is lost is not modelled (the
table has no unique key, so it would store its rows twice). The columns of a
row are abstracted to its source and its time slot.

### PropBaseline

Extends `RawSpots`; the same goroutine first stores the raw row and then
broadcasts the spot, which is when it is counted.

| Variable | Code |
|---|---|
| `ingest` | per source, the spot between its raw row and `broadcastMsg` |
| `pending`, `pendingCount` | `propBaselineEngine.pending`, `.pendingCount` (spots; after a cap, rows) |
| `batch`, `batchCount`, `flushing` | the locals of `FlushPending` |
| `table` | `prop_region_baseline_daily`, 0 for no row |
| `cursor`, `done` | the two `dx_meta` rows of the backfill |
| `bf` | the locals and program counter of `runPropBaselineBackfill` and the chunk it works on |
| `live`, `gone`, `skipped`, `planned` | history: counts committed by the flush, keys whose live count was lost or never made, chunks whose last attempt failed, days the walk was for |

The clock unit is the table's time slot, and a row of the table is a (source,
slot) pair: band and region only multiply the keys. One window of a chunk
(an hour in the code) is one slot. The two queries of a window are one step.
A failed read of the marker or the cursor counts as "none", as in the code.
Left out: the WSPR source (its table seed only adds rows the backfill then
leaves alone), the in-memory buckets with their JSONL file, the statistics
cache and the prune of the table.

A raw row that the backfill reads while its spot still waits in the live queue
is counted by both; `BackfillOnce` states the bound that does hold (each raw
row is added at most once by the backfill, and live counts are never reduced).

### SnrBackfill

| Variable | Code |
|---|---|
| `snr`, `seasonSnr` | the SNR counters of `dx_region_baseline_daily` and of the seasonal record, by day and key |
| `meta` | the `dx_meta` rows: since-day, done marker, progress of the ADD batches |
| `job` | the locals and the program counter of the runner |
| `spots`, `rawRows`, `folded` | every spot; `dx_raw_spots`; the fold's watermark |

The clock counts the windows in which the raw table is read. A live spot's way
through the flusher is one step: that way is the subject of `AlmanacFold` and
`RawSpots`. `Finalize` repeats the refold while the fold passes more days, for
`FinalizeRounds`, and moves the since-day in the transaction that finds none
left. `WriteBatchUnacked` is the commit whose answer is lost. `Plans` says which
days the coverage of the raw table admits. `PruneRaw` removes the rows of one
time together unless `SplitTimes` is set, which lets a batch of the DELETE end
among them.

### WsprArchive and WsprRecord

`WsprRecord` is what the WSPR layer promises: one action, by which a month of
an area appears whole and says what the archive says. `WsprArchive` is the code:
`runner` is the nest of `run`, `fetchMonth`, `fetchWindow` and `request`, and
`limiter` holds the start times as ages. A request with its wait is one step
(one goroutine); it succeeds, is split or fails. A counter stands for a (grid,
day); bands, slots and histograms are left out of the key.

### AlmanacCache

A request runs through the fast path, waits for the slow path, reads in one
transaction and stores, with the time it read at its start; `fold` moves the
watermark in the database and later in memory; `AcSnrFinalize` and
`purgeCaches` are the end of the SNR backfill. A result is what the caches
compare of it: watermark, since-day, day and radius. `lru` and `seasonLru` are
sequences with the most recent entry first. `AlmanacAnswerComplete` states what
`buildAlmanacResponse` needs: both parts, of one day and one radius.

### AlmanacLanes and SparseRow

Pure algorithms: a behaviour picks an input and computes. `AlmanacLanes` checks
the radius the accumulator promises against the lanes it draws, the drill-down
against the panel over the same days, and the windows of the agenda against
their definition as maximal runs around the clock. `SparseRow` writes a row in
either version, replaces a day and reads it back; bytes are numbers and a varint
digit carries `VarintBase` values (2 instead of 128), so that gaps need two
digits, which is all the code's 1488 positions ever need (`SparseConstants`).
Its loops, over the positions, over the bytes and over the bits of a mask, are
recursive functions of where the loop stands.

### WsprLive, WsprClimate

A poll, a flush, a load and a refresh are round trips in two or three steps,
and everything else goes on in between. `WsprLive` keeps a number of rows per
key, so that a row stored twice shows; a row whose time does not parse is dated
by its poll and is left out of the property. `WsprClimate` has `counts`,
`pending`, `flight` and `table` for the way of a spot, `statsCache` with its
age, error time and refresh flag for the readers; `total`, `doubled` and
`dropped` are history. A copy records the counts it was drawn from, cell by cell
and day by day, so that "never goes back" is said of every figure a page shows.
`regionCalendarStatsFromMemory` is the fall-back of a
failed cold load, which the code caches like the table's own statistics.

### HistoryApi, BaselinePairs

`HistoryApi` is the handler from the limiter to the put; a bundle records what
it was drawn from and whether the surroundings were asked for, which the key
does not. `BaselinePairs` numbers the entries (`objects`), because an evicted
entry lives on in the requests that hold it; `blanks` collects the error answers.

### PushStore

`subs` and `order` are the store's map and list, `fanouts` the goroutines of
`NotifySurges` between the push service's answer and its application. The
browser's wish (`wanted`) and the service's revocations (`gone`) are the
environment. Nothing is persisted.

### AgentConfig, AgentRotor, AgentRig, AgentBeam

`AgentConfig`: `.env`, temporary file, environment, flags, and the running
configuration; `Resolve` is the precedence `main` applies, `restartEnviron` and
`restartArgs` strip what the page manages. `Children` are the two ways of a
restart: the copy of the process, and the scheduled task, which has its own
arguments and the logon environment (section 6).

`AgentRotor`: every UDP exchange is one step under the client's mutex; `call` is
a `GetState` between its exchanges, `outage` what the controller leaves
unanswered. The handlers of commands run beside each other: `Send` puts the
datagram out, taken or lost, and `sent` holds what the handlers have still to
note, in any order (`HandlerNotes`), so that the heading polled for and the one
the controller turns to, or the mode noted and the one it is in, may be those of
different commands. The antenna stops at its target or up to `SettleErrors` past
it. `AgentRig`: requests and replies are sets of datagrams, to be lost, delayed
and reordered. `AgentBeam`: two links that drop and come back, one with retained
messages and one without. `Online` is the last availability received, also while
the client connects again, as `IsConnected` of the MQTT client is; a command
given then is answered like any other and reaches nobody.

### Horstprop, Pathscope

`Horstprop`: `hpLog` is the server's history, `hpFeed` the connection with the
frames on their way. A `Frame` carries the age its report had when the stream
took it up (`matchAndCreateSpot`, from `broadcastMsg` or from the dump of a new
connection) and may wait for any time; `mapSpot` dates the report by the time of
reception less that age. Reports of every source but a cluster are stored: `rbn`
stands for WSPR too. A bucket is a bag of reports (the code's slices are searched
for their best signal, never for their order, but a report sent again is kept
again), and `Score` computes in integer percent. `hpHeard` is history: each report
delivered, with the times it was sent and received.

`Pathscope`: the four queries of a matrix are separate steps, so a matrix may mix
two states of the database; the hub delivers from a snapshot of its clients.
`psDb.sw` are the rows of the space-weather series in the look-back, in the order
of their observation, with Kp and the solar flux as the series the score uses.
`SolarContext` is the set of what the loop over these rows may leave: the query
has no ORDER BY, so every order of the scan is one the database may choose.
`Current`, and with it `StreamCatchesUp`, takes any of them as the present one;
that only the newest sample should count is `LatestSampleWins`, which the run
`pathscope_stale_solar` finds violated.

## 4. Runs

| Run | Shows |
|---|---|
| `almanac_fold` | `ViewExact`, `IngestExact`, `MemNeverAhead`, `WatermarkAccounts`: for every kept day (after the first watermark, not recorded lost) the Almanac reads exactly the committed spots, before, while and after the day crosses the watermark and its daily rows are deleted; the watermark never passes a day without folding it or recording it lost |
| `almanac_flush` | two questions to the fold with its flusher. In a burst of spots `FlushConserves`: failing flushes neither lose nor repeat a delta. In the course of days `EveryFinalDayPassed`, `MemCatchesUp`: every final day is eventually passed; the published watermark catches up |
| `spot_stream` | `NothingLost`, `NoDuplicates` with overtaking sends, a full channel, a break after any frame or a restart, a filter change, a suspended tab and pruning |
| `stream_readers` | `NothingLost`: the same promise across a restart that reloads only part of the messages, and across a change of the area; `ScoreGrounded`: horstprop at the same stream |
| `prop_baseline` | `BackfillOnce`, `CursorCovers`: the backfill, restarted at any point, against flush, ingest, prune and failing statements |
| `almanac_parts` | `SnrNeverTwice`, `SinceIsHonest`: the SNR backfill; `WsprImplementsRecord`, `WsprPaced`: the WSPR backfill; `AlmanacAnswerComplete`, `AlmanacAnswerCurrent`, `AlmanacPurged`: the read path; `PanelKeepsRadiusPromise`, `SeasonAgreesWithPanel`, `UsualWindowsExact`, `SparseRoundTrip`: the algorithms, on every input of the bounds |
| `server_parts` | `RawNothingLost`, `RawRetriedInOrder`: chunks that fail at any place, rows that arrive meanwhile, a full buffer; `WsprStoredOnce`; `ClimateConserves`, `StatsNeverGoBack`; `HistoryHitHonest`; `PairsNeverBlank`; `PushKeepsLive`, `PushEvictsOldest` |
| `companions` | `RestartApplies`, `ModeRecovers`, `FastPollingEnds`, `QSYReportHonest`, `LinksShown`: the operator agent; `StreamCatchesUp`: pathscope |
| `almanac_clamp_race` (violation) | the clamp is evaluated before the lock |
| `stream_impatient` (violation) | two filter changes before `history_end`: `since` and `prev_*` describe different connections |
| `prop_chunk_skipped` (violation) | a chunk that fails alone is skipped for good: the cursor passes its day |
| `pathscope_stale_solar` (violation) | of two Kp samples the older one may be the one a matrix is scored with |

The last four are the findings of `PROJECT.json`.

`MCAlmanacParts`, `MCServerParts`, `MCCompanions` and `MCStreamReaders` each check
several components that share no state within the run. The variable `part` (`up`,
`reader`) says which one runs; the others stay in one of their initial states, so the states of
a run are the sum of the components' states, not their product. A property of
one component is checked over all behaviours of that component. For
`WsprImplementsRecord` the steps of the other components are stuttering.

### Bounds

`AlmanacFold`: a day is two clock units and the clock runs from day 2 to day 4,
so that days 0 to 2 become final, cross the retention cutoff and can be forced;
days 0 to 4 exist. The first deploy finds an empty daily table or one with a
gap. `FlushLag` is 0 in the fold run and 1 elsewhere. One spot and one crash in the fold run (a second spot only multiplies
counters that are summed per day; what several spots do to one queue is the
question of `almanac_flush`). That run asks its two questions with bounds of their
own (`question`): a burst has three spots at one time of day, the course of days
has one. `SegmentMax`
= 2 lets the seasonal cell saturate. `MaxRepeats` bounds unacknowledged commits,
which could otherwise repeat for ever; `almanac_flush` excludes them, because a
repeated commit is a repeated count (the code cannot prevent it).

`SpotStream`: three messages, two ingest goroutines, an overlap of 2 of which
one message can be overtaken (`MaxOvertake` = `Overlap` - 1: the server resends
the ids greater than `since - Overlap`, so that many overtakings are the most a
resume can absorb), a channel of one spot and batches of two, so that drops,
early flushes and ticker flushes all occur. A connection that broke and a restart
share a budget of one (`MaxEnds`). The clock unit of `spot_stream` is
one window: a message is live in the unit it arrives in. Passing runs assume
messages that arrive in time order (`MaxLate` = 0) and a user who does not
restart a stream that still loads (`Patient`); the violation runs drop one of
these assumptions each.

`RawSpots`: an old row and four new spots, chunks of two and a buffer of three, so that a batch has
a committed, a failed and an untried chunk, and the buffer overflows while the
flusher holds older rows. `PropBaseline`: two slots a day; the clock starts in
the last slot of a day and passes into the next one, so that the restarted walk
has a new today; one raw row from before the deploy and two new spots, of a
queued and a direct source; two failed chunks in a row end the walk;
`MaxPending` = 1 makes the cap act. `MaxLate` is 0: late spots add keys, no
new order of steps.

`SnrBackfill`: days of two windows, two full days and the morning of the deploy
day before the start, one live spot that is in time (`SnrMaxLate` = 0), batches of
one row, `SplitTimes` = FALSE; the clock runs two days
past the deploy, so that the fold passes days while the job works and the raw
prune reaches them. `WsprArchive`: two areas whose rings share a grid, two
months of one day of two hours, nine spots of every kind (within a grid, a ring,
between rings, outside every region, without locator), three of one counter
with `CountMax` = 2; the second failure in a row aborts; the list of areas may
change at the restart. `AlmanacCache`: two requests, two keys and a capacity of
one entry, so that every second key evicts; the model starts in the last tick
of a day (`AcStart`) and passes midnight, the fold runs once. `AlmanacLanes`:
two days and two slots for the lanes, rings 0 and 1, cells of four kinds; the
windows over all sets of usual slots of a day of seven. `SparseRow`: two days of
two slots, cells without and with a histogram.

`WsprLive`: one row of each kind at a time, look-back 2 and therefore expiry 4,
polls and uploads up to one tick late, eight ticks, so that a row leaves the
window, its key expires and a restart comes before, between or after.
`WsprClimate`: two days that are not adjacent (the cap drops one), two readers,
two refresh goroutines, a failed flush and a restart. `HistoryApi`: two spots,
two requests, two windows, one cache entry, bundles of one spot (truncation); a
time to live of 0 is one tick, since the code expires an entry when its age is
greater. `BaselinePairs`: two clusters and the global index with room for one
cluster, three requests. `PushStore`: three endpoints and room for two, four
posts, one fan-out, one hour or one restart (`PushMaxEvents`).

`AgentConfig`: one managed plain setting, one secret and one foreign line, values
good and bad, one save, two restarts; every combination of initial file,
environment and flags. `AgentRotor`: headings 0 and 10, so that a turn to 10 has
a tolerance of one degree, which the antenna's settle error of one degree just
meets, and a turn to the north has none; two requests, so that two commands
overlap or one is lost and given again; an interval of the mode query that doubles
once (`ModeMax` = 2); one outage or one connectivity test, which may end. `AgentRig`:
two QSYs. `AgentBeam`: two events on each link. `Horstprop`: three squares, two
signals on 14 MHz with a MUF of 10 MHz (the gate acts), three kinds of source, two
reports, one reconnect, two ticks with a window of two, so that a frame may wait
until its report has expired.
`Pathscope`: one browser (browsers share only the ticker, which waits for none
of them), a channel of one matrix, two writes, one failed query, two connects; two
values of Kp, one of them a storm, and one of the solar flux.

Days at or below the first watermark of a first deploy are outside what the
Almanac properties speak of (`Kept`): over an empty table the first watermark
is yesterday, and late spots of yesterday are neither folded nor recorded lost.

The runs set `CHECK_DEADLOCK FALSE` because the bounded clocks and counters run
out; the programs themselves never stop.

### Fairness

`FairSpec` of `AlmanacFold`: time passes; the flusher (2 s ticker) and the fold
(15 min ticker) are restarted for ever, so their internal steps are weakly
fair; transactions may fail any number of times but not for ever (strong
fairness of the commit, the watermark and the fold transaction). `PruneAdvance`
is weakly fair: it is an assignment after a committed transaction. Nothing is
assumed of ingest beyond finishing `observe`, of the prune, or of crashes.

`MCAlmanacFlush`: a burst stands still in time, so the clock is not fair there,
and nothing that needs it is asked; the courses of days have `Fairness` as it is.

`MCCompanions`: the rotor's poller, its exchanges (each has a read timeout), the
handlers that have sent a command and go on to note it (`HandlerNotes`), the
end of a connectivity test, the rotor's own motion and the clock are weakly fair;
nothing is assumed of the controller's answers, the properties speak of
controllers that answer for good. `FastPollingEnds` has two more premises, each
for something the code does not ensure: from some time on the heading polled for
is the controller's (section 6), and the antenna's settle error is within a tenth
of its heading. pathscope's scoring loop (a ticker) and its
stream handlers are weakly fair; queries fail only a bounded number of times.
The fairness of each program is conditional on its being the one that runs.

## 5. Refinement and proofs

`WsprArchive` implements `WsprRecord`: `Record == INSTANCE WsprRecord` on the same
tables, checked as the property `WsprImplementsRecord`. Only `commitMonth` and a
commit whose answer is lost take an abstract step; every request, split, failure
and restart stutters. The mutant that deletes only the area's own grid instead
of its ring shows what it catches: counts of a shared grid added twice.

Every theorem is about the component's own specification, for all values of the
constants that satisfy the module's assumption. Each rests on an inductive
invariant (its parts are described below); the step has a lemma or a step per
action and under it one per conjunct that the action can disturb. The `MC*`
modules and their `part` variable play no role in the proofs.

| Module | Theorem | Property | Assumed beyond the constants' ranges |
|---|---|---|---|
| `AlmanacFoldProofs` | `TypeCorrect` | `TypeOK` | |
| | `ViewCorrect`, `IngestCorrect` | `ViewExact`, `IngestExact` | `ObserveLag = 0` |
| | `MarkCorrect`, `WatermarkCorrect` | `MemNeverAhead`, `WatermarkAccounts` | |
| | `FlushCorrect` | `FlushConserves` | `MaxRepeats = 0` |
| `StreamProofs` | `SearchCorrect` | (`Search`, the code's `sort.Search`) | |
| | `StreamNeverDoubles` | `NoDuplicates` | |
| | `StreamLosesNothing` | `NothingLost` | `Patient`, `MaxLate = 0`, `MaxOvertake < Overlap`, `[][AreaKept]_vars` |
| | `StreamLosesNothingInArea` | `NothingLost` | `Patient`, `MaxLate = 0`, `MaxOvertake < Overlap`, one radius |
| `AlmanacCacheProofs` | `AnswersComplete`, `AnswersCurrent`, `PurgeComplete` | `AlmanacAnswerComplete`, `AlmanacAnswerCurrent`, `AlmanacPurged` | |
| | `RadiusCorrect`, `SeasonCorrect` | `PanelKeepsRadiusPromise`, `SeasonAgreesWithPanel` | |
| | `WindowsCorrect` | `UsualWindowsExact` | |
| | `RowRoundTrip` | `SparseRoundTrip` | |
| `SnrProofs` | `SnrCounted`, `SinceCorrect` | `SnrNeverTwice`, `SinceIsHonest` | `~SplitTimes`, `SnrMaxLate <= Windows`, `NoneBelated` |
| `WsprProofs` | `ArchiveImplementsRecord`, `PaceCorrect` | `WsprImplementsRecord`, `WsprPaced` | |
| | `ClimateCorrect`, `StatsMonotone` | `ClimateConserves`, `StatsNeverGoBack` | |
| `PropBaselineProofs` | `RawOrderCorrect`, `RawLossCorrect` | `RawRetriedInOrder`, `RawNothingLost` | |
| | `BackfillCorrect`, `CursorCorrect` | `BackfillOnce`, `CursorCovers` | |
| `ServerProofs` | `WsprDeduped` | `WsprStoredOnce` | |
| | `HistoryHonest` | `HistoryHitHonest` | |
| | `PairsServed` | `PairsNeverBlank` | |
| | `PushEviction`, `PushLiveKept` | `PushEvictsOldest`, `PushKeepsLive` | |
| `AgentProofs` | `QSYHonest`, `LinksHonest` | `QSYReportHonest`, `LinksShown` | |
| | `RestartCorrect` | `RestartApplies` | at most one request saves at a time |
| | `ScoreCorrect` | `ScoreGrounded` | |

### The Almanac

**Fold** (`AlmanacFoldProofs`). Neither `ViewExact` nor `IngestExact` is inductive.
`IndInv` adds why they hold:

* `SpotsRecent`: a spot about to be queued belongs to today or yesterday. This
  is the clamp (`ClampKeepsOutOldDays`: 24 h is one day) and needs that the
  clock does not tick between clamp and lock; with `ObserveLag` = 1 the run
  `almanac_clamp_race` violates the conclusion.
* `FoldSound`: the fold's copy of the watermark may be old, never too new, and
  the day it is about to fold is `Quiet`: nothing queued, nothing in flight,
  two days old.
* `PruneSound`: the prune deletes nothing above the watermark.
* `FoldedClosed`: a kept day up to the watermark is quiet and its segment and
  totals equal what was committed.
* `UnfoldedIntact`: above the watermark the daily table holds everything.

`FoldTxEffect`, `EnsureSound` and `DecideSound` carry the arithmetic of the
transactions, `DayMonotone` and `DayBefore` the division by the day length.

`MarkInv` strengthens `MemNeverAhead`, without the assumption on `ObserveLag`:
what the fold and a forced prune are about to publish is already stored, and no
segment lies above the watermark. The last part is why a day that the fold
passes gets exactly its daily counts: its segment was empty. `WatermarkAccounts`
is an action property; `MarkStep` proves its formula for every step.
`FlushConserves` is inductive with `TypeOK`. With `FlushUnacked` it is false: the
batch is counted again, as the code accepts.

**Read path** (`AlmanacCacheProofs`). The three properties share `AcInv`. Its
centre is `RequestGood`: what a transaction answered is for the request's day and
radius and not from before it (`ReadGood`), and the typical part that a read of
today alone relies on is still in the cache when the result is stored
(`ReliedOn`). The latter holds because only the holder of the slow path puts or
evicts, and because a hit moves an entry without dropping it; `CachesGood` says
that the two parts of an entry belong together and that none is older than the
purge. What a hit, a put and an eviction leave in the sequence is stated once for both
caches (`MovedFront`, `MadeRoom`, `PutIn`).

**SNR backfill** (`SnrProofs`). `SnrInv` is `SnrSound` under the hypothesis:

* `PrunedFromBelow`: what has gone from the raw table is older than what is left,
  so a row at or before a day's first window proves the day is still there.
* `CountersExact`: a full day's counter is zero or complete; the deploy day's is
  the live count plus the early spots of exactly the batches committed.
* `MetaSound`, `JobSound`: the marker and the progress agree with the batches,
  every day at or above the since-day is complete, and the days the runner has
  behind it are too.
* `ReadSound`, `WriteSound`: while the day is covered the sums read so far are
  exact, and a batch is committed under the progress it belongs to (a commit
  whose answer is lost is seen as progress, not repeated).
* `SeasonSound`: the seasonal record is exact for the folded days from the
  since-day on and for every day the job has folded again.

`BatchFacts` (every key of a day is in exactly one batch, and the last batch is
the one that sets the marker) comes from the order of the keys and
`FiniteSetTheorems`. `SnrMaxLate <= Windows` is the clamp of live spots to 24 h;
the other two assumptions are limits of the code and not of the proof (section
6): TLC finds `SinceIsHonest` violated without `~SplitTimes`, and both properties
without `NoneBelated`.

**WSPR backfill** (`WsprProofs`). `WsprInv` says that the accumulator holds what
the archive says of the days added so far and nothing else, that the rows of a
window under way are those of its hours so far (`HourRows`), that the month
under way is not done, and that worldwide totals are kept exactly for the months
marked. `RingCount` shows that `emit` counts a spot once per near end, and one
within a grid once. Assumed: the archive is finite and every spot has a day of
the month and an hour of the day. `WsprPaced` follows from what the limiter keeps
(`Fits`): `RoomForOne` shows that after the wait fewer than `MaxPerMinute` starts
are younger than a minute, `Ages` that time only makes starts older, and
`PacedKeeps` puts the wait, the request and the backoff after it together.

**Lanes** (`AlmanacCacheProofs`). The sums of the accumulator run over the rows of
a slot, and `OneRow` shows that there is at most one: the reader takes a day from
the record up to the watermark and from the daily table after it, never from both.
So a sum is the value of its only row (`CellCounts`); the month of the drill-down
leaves out at most the last slot of yesterday, which is then not open
(`DaysOfSlot`); and the radius chosen has enough known slots or is the widest
(`RadiusKept`). `LaneInv` ties what is shown to the input it was computed from;
both properties follow from it.

**Windows** (`AlmanacCacheProofs`). The code finds a run by walking forwards around
midnight and a gap by looking up to `BridgeSlots` slots to either side. `AfterIs`,
`BeforeIs`, `DistIs` and `Walks` turn the arithmetic modulo the day into steps on
a circle; `RunOf` shows that the run from a slot ends before the first free slot;
`BridgedIsShown`, that what is bridged are exactly the gaps no longer than the
limit; `RunsExact`, `WindowsExact` and `AgendaExact`, that the runs are the maximal
ones and that the agenda names those that are on or start within the look-ahead.

**Stored rows** (`AlmanacCacheProofs`). `RowInv`: the bytes are the encoding, in
one of the versions, of a row that says what `row` says. The work is `RowIsRead`,
by induction from the last position back: from a byte on which the rest of a row
is written, the reader finds exactly the rest of its cells. `CellIsRead` is its
step: the varint gives the gap back (`VarintIs`), the bits of the mask are the
bins in use (`MaskIs`), and the bytes after the mask are those bins in their order
(`PartIs`). `EncSame` shows that cells without a count leave no trace in the
bytes, which makes folding a day again byte-identical.

### The live path

`StreamProofs`. `SearchCorrect` is about the binary search of `pruneLiveHistory`
and of the history dump: on a predicate that is monotone along the history the
search returns the first place where it holds, and in any case a place in range.

**No spot twice.** `StreamInv` follows a message through the places it can be in:
a broadcast goroutine that has not sent yet, the channel, the handler's batch, a
frame of the live part, or the page (a frame of the dump counts as the page, which
sorts out by content what it already has). `Apart` says that a live message is in
at most one of them and `Once` that it is there once; `InLog` and `Bounded` that
whatever is in the pipe has a number the hub gave out. The seam holds because a
handler copies the history and registers under one lock: a message is in the copy
or is sent to the channel, never both.

**No spot lost.** `LostInv` adds why resuming from an id is safe: nothing that is
still to come is older than the id by more than the overlap (`Behind`, with
`QueueOrder`, `WireOrder` and `PageOrder` for the channel, the frames and the page),
so everything older is at the page (`Covered`), and the resume sends what is
younger. Each hypothesis marks a limit of the code:

* `MaxOvertake < Overlap`: `resumeOverlap` is what the server sends again; more
  goroutines overtaking one another than that are not absorbed.
* `Patient`: the page starts no other stream while one still loads. Without it
  the run `stream_impatient` violates the property.
* `MaxLate = 0`: the history is sorted by time, which the search relies on
  (main.go:839, section 6).
* `AreaKept`: when a handler resumes within a run of the server, its area is no
  wider than the one the page was told of. An EventSource that reconnects by
  itself names the radius of its first URL (section 6), so with `rings=auto` the
  code does not ensure it. With a single radius it holds by itself, which
  `StreamLosesNothingInArea` shows; that is the situation of the run `spot_stream`.

### The server

**Climatology** (`WsprProofs`). `ClimateConserves` is an equation between tables
proved key by key; the cap enters only as a table of counts, so the proof holds
whatever the cap drops. `StatsNeverGoBack` is an action property from `StatsInv`:
one refresh and one load at a time (`OneRefresh`, `OneLoad`), a waiter for the
load lock finds a copy that is fresh by its own clock (`WaitersServed`), and no
copy or answer is ahead of the table, nor an answer of a refresh behind the copy
it will replace (`CopiesBehind`). It needs that a request lasts less than the
time to live, as the module assumes and the code's timeouts ensure.

**Raw spots** (`PropBaselineProofs`). `RawInv` says of the two sequences separately
what the properties say of the whole queue: both ascend, the batch is older than
the queue, no queued row is stored, no row is newer than the log. `Suffix`,
`Behind`, `Arrive` and `Trim` carry the sequence arithmetic of chunks, merges and
the cap.

**Propagation baseline** (`PropBaselineProofs`, which extends both modules).
`OnceInv` adds to `BackfillOnce` what the chunk under way has added up
(`Collected`). `CursorCovers` needs much more, `CoverInv`: a row that reaches
`dx_raw_spots` late was counted when it came (`LiveCounted`), which is why rows
that are stored behind the cursor do no harm; the days between cursor and walk
(`PlanKept`, `PlanAhead`); how far the walk has come within its day (`DayWalked`,
`ChunkWalked`); and `BehindCursor`, the property without its clock.

**WSPR poller** (`ServerProofs`). `WlInv`: a poll holds only rows of its own
window (`PollBounded`); a row that a poll may still bring was counted at most
once and its key is remembered (`CountedOnce`); it is stored at most once per
start that could not read its history (`KeptOnce`). The expiry of two windows
must exceed a look-back and a poll's time-out.

**History, pairs, push** (`ServerProofs`). `HaInv`: an answer from the archive
holds every spot that was there when its request began, and a cached bundle lacks
only what came after its query, or older spots when truncated. `BpInv`: no two
keys share an entry, a request holds its own key's entry or an evicted one
(`OwnEntry`), and an entry carries the time of its last load (`LoadedShown`).
`PushInv`: the insertion queue lists the stored endpoints, each once, by their
stamps (`Queued`), and the service disowns only what it revoked (`AnswersTrue`);
both push theorems are action properties.

### The operator agent

`AgentProofs`. `RigInv`: message ids are never used twice (`RigPast`), Log4OM
says done only of what it did, and while the reply port is read the commands
taken off the list are carried out and unrefused (`ReadingSound`). `LinkInv`:
reading the messages under way to their end leaves the cache at the controller's
state and availability (`Latest`, by topic), and frames exist only on a live link. `ConfigInv`: the
`.env` holds at every moment what was acknowledged, a save under way changes
nothing but its own keys, and the file it will rename is the one it wrote; that
either child (`Children`) has no managed variable and no managed flag is
`ComesUpWithFile`.
With two savers at the same time the second part is false: they share the name
of the temporary file.

### The score

`ScoreCorrect` (`AgentProofs`). A report is stored under the time `Dated` makes of
its delivery: the report's own time and the time its frame was under way, which is
how long beyond the window it counts (`DatedFresh`). `HpInv`: the history and the
frames are of the past and were reported before they were sent (`HpReported`,
`HpFrames`, `HpDelivered`); what is stored under a band and a square was delivered
for it and is dated so, and every delivery of the home area, by any source but a
cluster, that has not expired by that date is stored (`HpStored`). A reconnect sends
the window again, with ages taken anew, and stores a report twice, perhaps under two
dates; a lookup and a prune remove only what has expired by its date. So the signals
a lookup finds are those of the evidence, as a set (`EvidenceFound`), and the best of
them is the same although the store may hold some of them twice.

### Data of any size

The installed provers cannot use an induction principle that takes a predicate as
a parameter. Where a proof is an induction over data, the set of numbers for which
the claim holds is named, and a smallest number outside it is led to a
contradiction (`LeastOf`, `EveryNatural`; `SmallestOf`, `AllNaturals`). A recursive
function is first shown to have a solution, by the same induction on how far the
recursion has come, so that its defining equation may be used: `SearchSolves` for
the binary search, `EncSolves`, `ReadSolves`, `PartSolves` and `ShiftSolves` for the
rows. No module that is proved about declares a recursive operator.

### Only model-checked

* Liveness: `EveryFinalDayPassed`, `MemCatchesUp`, `ModeRecovers`,
  `FastPollingEnds`, `StreamCatchesUp`. Fairness and ENABLED are out of the
  prover's reach.
* The four runs that expect a violation: TLC shows a behaviour.
* `NothingLost` when the radius changes: the run `stream_readers` changes it
  with starts of the page's own, where the theorem has `AreaKept` as a hypothesis.

Every invariant and every action property that a run checks is stated by a
theorem.

## 6. Known limits of the code

Beside the four findings, the models show or assume these:

* An EventSource reconnects to its first URL, which names no `prev_radius`. When
  `rings=auto` has chosen a wider area meanwhile, a plain resume (stream.go:227)
  leaves out the older spots of the wider area. The run `stream_readers` changes the area
  only between starts of the page's own making.
* `pruneLiveHistory` (main.go:839) searches the history as if sorted by time. It
  is in arrival order; `MaxLate` = 0 in the runs makes the two the same.
* A raw INSERT that commits and loses its answer is repeated, and its rows are
  stored twice.
* The cap of the pending maps (wspr_climatology.go:617, prop_baseline.go:674)
  drops nothing when the queued days are one or two adjacent ones.
* The key of the history cache leaves out the surroundings, and a bundle from
  the live history is cached like one from the archive (`HistoryHitHonest`
  speaks of archive bundles and of what their own request asked for).
* The raw prune deletes 50,000 rows a statement (dx_postgres.go:2172-2200). If a
  batch ends within the very second a day starts at, the oldest row left still
  has the day's first time, and the SNR backfill's coverage checks
  (almanac_snr_backfill.go:200, 486-500) pass although rows of that second are
  gone. With `SplitTimes` = TRUE and two spots at a day's first time TLC
  violates `SinceIsHonest`; the runs and the proofs exclude it.
* A spot from before the SNR columns existed that arrives after the backfill's
  cutoff is counted live and, once it is a raw row of a day still to be read,
  again by the backfill, up to the row's `spot_count`. The theorems about the
  backfill are under the hypothesis that there is none (`NoneBelated`).
* Two savers of the agent's settings share one temporary file and may undo one
  another; the run has one saver.
* A restart through the Windows scheduled task strips nothing, although the comment
  over it says that "either way the child gets a clean environment"
  (restart_windows.go:26-27): the task starts with its own arguments and the
  logon environment. A managed variable there, or a managed flag in the task, would
  hide what the page saved. `Children` takes both to be free of them, as the
  deployment script leaves them (deploy_operator_agent_win.sh:74).
* Fast polling goes on past its turn when the heading it waits for is not
  reached. To the north the tolerance is zero (main.go:572), so an antenna that
  stops a degree off never arrives; two rotates at once may send their datagrams
  in one order and note their headings in the other (main.go:914-918,
  rig.go:221-225); a rotate whose datagram is lost is noted all the same. Each ends
  with the next turn that is reached. These are the premises of `FastPollingEnds`.
* While the MQTT client connects or connects again it counts as connected
  (`SetConnectRetry`, `SetAutoReconnect`, ultrabeam.go:99-100): the agent goes on
  showing the last availability, and a beam command given then may be answered with
  ok and reach nobody, which the comments at main.go:1015-1018 and
  ultrabeam.go:200-202 mean to exclude. `LinksShown` speaks of a subscribed link;
  what a command is answered is not modelled.
* The welcome frame of WaveLogGate marks a new connection live before its first
  status (waveloggate_ws.go:145-151): until then the rig's frequency of before the
  break is shown as live.
* The age of a report on the v1 stream is fixed when it is broadcast
  (hub.go:106-109) and is not taken again when it is written (stream.go:137-143);
  horstprop subtracts it from the time it reads the frame (feed.go:49). A report
  that waited in the channel or on the wire looks younger by the time it waited and
  counts for that much longer than the window. `ScoreGrounded` and `ScoreCorrect`
  allow for exactly that time.
* horstprop stores the reports of every source but a cluster (feed.go:33), RBN and
  WSPR with them, where docs/horstprop.md:69 says to keep only those whose source is
  "mqtt", and the row below that RBN's signals are on another scale.
  `ScoreGrounded` states what the code does.
* When pathscope cannot read the space weather it scores with zeros, which the
  comment calls "a neutral modifier" (server.go:240-241); a solar flux of zero lowers
  the modifier of the upper bands to 0.85 (score.go:372-376). The model does as the
  code does (`NoWeather`).
* A failed cold load of the statistics caches the counts in memory as if they
  came from the table and clears the error time, so the negative cache does not
  act there.

## 7. Not modelled

See "components" in `PROJECT.json`. Left out for good: numeric scoring and
percentiles in floating point (DX conditions, hot bands, prop intel, proplab),
text parsing and formatting, SQL text, rendering, routing and proxies. Left out
so far: the page's session ring and timeline, the live area's choice of radius,
the in-memory buckets and JSONL file of the propagation baseline.
