------------------------------ MODULE RawSpots ------------------------------
(***************************************************************************)
(* The way of a spot into dx_raw_spots (cmd/horstreporter, dx_postgres.go  *)
(* and dx_conditions.go).  The row of an MQTT spot is queued and inserted  *)
(* in chunks by the batch flusher, which retries what failed from a capped *)
(* buffer; the row of an RBN or DX cluster spot is inserted at once, or    *)
(* lost.  An hourly job deletes old rows.                                  *)
(*                                                                         *)
(* A row is its spot's place in `log'; its content is its source and its   *)
(* time slot.  A statement that fails has done nothing.                    *)
(***************************************************************************)
EXTENDS Integers, Sequences, SequencesExt

CONSTANTS
    QueuedSources,     \* sources whose raw rows are queued (mqtt)
    sources,           \* all sources, in the order of propIntelSourceProfiles
    RawChunk,          \* rawSpotInsertChunkSize
    RawCap,            \* rawSpotMaxPendingRows
    RawRetention,      \* -dx-raw-spot-retention-days, in slots
    MaxLate,           \* how many slots late a spot may arrive
    PreLog,            \* the spots whose rows the process finds at first
    StartClock, MaxClock, MaxSpots, MaxRestarts   \* bounds

Sources == Range(sources)
Slots == 0 .. MaxClock
Keys == Sources \X Slots

ASSUME RawConstants ==
    /\ QueuedSources \subseteq Sources
    /\ RawChunk \in Nat \ {0} /\ RawCap \in Nat \ {0}
    /\ {RawRetention, MaxLate, StartClock, MaxClock, MaxSpots, MaxRestarts} \subseteq Nat
    /\ StartClock >= MaxLate
    /\ PreLog \in Seq(Keys)

VARIABLES
    clock,
    log,        \* every spot there ever was: its source and slot
    rawPending, \* pendingRawSpots
    rawBatch,   \* the rows flushRawSpots took and has not inserted yet
    raw,        \* dx_raw_spots
    restarts,
    stored,     \* history: rows ever inserted
    trimmed     \* history: rows dropped by the full retry buffer

queueVars == <<rawPending, rawBatch>>
rawVars == <<clock, log, queueVars, raw, restarts, stored, trimmed>>

(***************************************************************************)
(* Ingest.                                                                 *)
(***************************************************************************)
Excess(rows) == IF Len(rows) > RawCap THEN Len(rows) - RawCap ELSE 0

\* trimRawSpotRows: the newest RawCap rows are kept.
trimRawSpotRows(rows) == SubSeq(rows, Excess(rows) + 1, Len(rows))
TrimmedRows(rows) == Range(rows) \ Range(trimRawSpotRows(rows))

SetPending(rows) ==
    /\ rawPending' = trimRawSpotRows(rows)
    /\ trimmed' = trimmed \cup TrimmedRows(rows)

NewSpot(s, t) ==
    /\ Len(log) < Len(PreLog) + MaxSpots
    /\ log' = Append(log, <<s, t>>)

\* The store's observe() queues the row of an MQTT spot.
ObserveRaw(s, t) ==
    /\ s \in QueuedSources
    /\ NewSpot(s, t)
    /\ SetPending(Append(rawPending, Len(log')))
    /\ UNCHANGED <<clock, rawBatch, raw, restarts, stored>>

\* PersistRawSpot: a failed insert is only logged.
PersistRawSpot(s, t, ok) ==
    LET row == IF ok THEN {Len(log')} ELSE {} IN
    /\ s \notin QueuedSources
    /\ NewSpot(s, t)
    /\ raw' = raw \cup row
    /\ stored' = stored \cup row
    /\ UNCHANGED <<clock, queueVars, restarts, trimmed>>

(***************************************************************************)
(* flushRawSpots: swap the queue out, insert it chunk by chunk; the chunk  *)
(* that fails and all that follow it go back in front of the queue.        *)
(***************************************************************************)
RawFlushSwap ==
    /\ rawBatch = <<>>
    /\ rawPending # <<>>
    /\ rawBatch' = rawPending
    /\ rawPending' = <<>>
    /\ UNCHANGED <<clock, log, raw, restarts, stored, trimmed>>

RawFlushChunk ==
    LET chunk == {rawBatch[i] : i \in {j \in DOMAIN rawBatch : j <= RawChunk}} IN
    /\ rawBatch # <<>>
    /\ raw' = raw \cup chunk
    /\ stored' = stored \cup chunk
    /\ rawBatch' = SubSeq(rawBatch, RawChunk + 1, Len(rawBatch))
    /\ UNCHANGED <<clock, log, rawPending, restarts, trimmed>>

\* Mutants: the retried rows go behind the new ones; the failed chunk is not
\* retried.
MergeRawSpotRowsBehind(requeued, pending) == pending \o requeued
MergeRawSpotRowsRest(requeued, pending) ==
    SubSeq(requeued, RawChunk + 1, Len(requeued)) \o pending

mergeRawSpotRows(requeued, pending) == requeued \o pending

RawFlushFail ==
    /\ rawBatch # <<>>
    /\ SetPending(mergeRawSpotRows(rawBatch, rawPending))
    /\ rawBatch' = <<>>
    /\ UNCHANGED <<clock, log, raw, restarts, stored>>

\* One row of a batch of pruneRawSpotsOlderThan: the oldest first.
PruneRawSpot(i) ==
    /\ log[i][2] < clock - RawRetention
    /\ \A j \in raw : log[i][2] <= log[j][2]
    /\ raw' = raw \ {i}
    /\ UNCHANGED <<clock, log, queueVars, restarts, stored, trimmed>>

(***************************************************************************)
(* The environment.                                                        *)
(***************************************************************************)
Tick ==
    /\ clock < MaxClock
    /\ clock' = clock + 1
    /\ UNCHANGED <<log, queueVars, raw, restarts, stored, trimmed>>

Restart ==
    /\ restarts < MaxRestarts
    /\ restarts' = restarts + 1
    /\ rawPending' = <<>>
    /\ rawBatch' = <<>>
    /\ UNCHANGED <<clock, log, raw, stored, trimmed>>

RawInit ==
    /\ clock = StartClock
    /\ log = PreLog
    /\ rawPending = <<>>
    /\ rawBatch = <<>>
    /\ raw = DOMAIN PreLog
    /\ restarts = 0
    /\ stored = DOMAIN PreLog
    /\ trimmed = {}

IngestRaw(s, t) == ObserveRaw(s, t) \/ \E ok \in BOOLEAN : PersistRawSpot(s, t, ok)

FlushRaw == RawFlushSwap \/ RawFlushChunk \/ RawFlushFail

RawNext ==
    \/ \E s \in Sources, t \in clock - MaxLate .. clock : IngestRaw(s, t)
    \/ FlushRaw
    \/ \E i \in raw : PruneRawSpot(i)
    \/ Tick
    \/ Restart

RawSpec == RawInit /\ [][RawNext]_rawVars

(***************************************************************************)
(* Properties.                                                             *)
(***************************************************************************)
\* The rows that are still to be inserted, in the order they will be.
RawQueue == rawBatch \o rawPending

\* flushRawSpots and mergeRawSpotsBack, whatever chunk fails and whatever was
\* queued meanwhile: no row is inserted twice, and the rows are retried in
\* the order of arrival ("prepended to preserve arrival order").
RawRetriedInOrder ==
    /\ \A i, j \in DOMAIN RawQueue : i < j => RawQueue[i] < RawQueue[j]
    /\ Range(RawQueue) \cap stored = {}

\* "a transient PG error doesn't permanently drop spots from the raw history":
\* short of a restart every MQTT row is inserted, queued, or was trimmed.
RawNothingLost ==
    restarts = 0 =>
        {i \in DOMAIN log : log[i][1] \in QueuedSources}
            \subseteq stored \cup trimmed \cup Range(RawQueue)

=============================================================================
