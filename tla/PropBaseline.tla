---------------------------- MODULE PropBaseline ----------------------------
(***************************************************************************)
(* The propagation baseline of cmd/horstreporter (prop_baseline.go,        *)
(* prop_baseline_backfill.go), composed with the raw spots (RawSpots) it   *)
(* is seeded from.                                                         *)
(*                                                                         *)
(* Every spot takes two ways into Postgres.  Its raw row goes to           *)
(* dx_raw_spots.  Its count goes to prop_region_baseline_daily through the *)
(* engine's own queue, which adds.  A resumable background job fills the   *)
(* same table, day by day, from the raw rows, and never touches a row that *)
(* is already there.  Flush, backfill, prune and ingest interleave;        *)
(* statements fail; the process restarts.                                  *)
(*                                                                         *)
(* The clock counts the table's time slots.  A row of the table is a       *)
(* (source, slot) pair: band and region are left out.  A statement that    *)
(* fails has done nothing.  The WSPR source, which is also seeded from     *)
(* another table at start, is left out.                                    *)
(***************************************************************************)
EXTENDS RawSpots, FiniteSets, FiniteSetsExt

CONSTANTS
    SlotsPerDay,       \* 48
    BackfillDays,      \* propBaselineBackfillDays
    MaxChunkFailures,  \* propBaselineMaxChunkFailures
    MaxPending         \* propBaselineMaxPending

ASSUME BaselineConstants ==
    /\ {SlotsPerDay, BackfillDays, MaxChunkFailures} \subseteq Nat \ {0}
    /\ MaxPending \in Nat
    /\ sources \in Seq(Sources) /\ sources # <<>>
    /\ StartClock <= MaxClock
    \* every slot the backfill and the live feed reach is a natural number, and
    \* no live spot is of day 0 (which the cap takes for "no day yet")
    /\ StartClock \div SlotsPerDay >= BackfillDays - 1
    /\ StartClock - MaxLate >= SlotsPerDay

VARIABLES
    ingest,     \* per source: the spot its goroutine has yet to broadcast (0: none)
    pending, pendingCount, \* propBaselineEngine.pending, .pendingCount
    batch, batchCount,     \* the map and the count FlushPending took
    flushing,   \* FlushPending is between its swap and its end
    table,      \* prop_region_baseline_daily (0: no row)
    cursor, done,  \* dx_meta (-1: no cursor)
    bf,         \* the backfill goroutine's locals
    live,       \* history: counts ever committed by FlushPending
    gone,       \* history: keys some live count of which was lost or never made
    skipped,    \* history: chunks whose last attempt failed
    planned     \* history: days behind the cursor, and those the running walk is for

liveVars == <<pending, pendingCount, batch, batchCount, flushing, live, gone>>
metaVars == <<cursor, done, bf, skipped, planned>>
vars == <<rawVars, ingest, liveVars, table, metaVars>>

utcDayIndex(t) == t \div SlotsPerDay
Zero == [k \in Keys |-> 0]
NoAcc == [t \in Slots |-> 0]
Plus(f, g) == [k \in Keys |-> f[k] + g[k]]
KeysOf(f) == {k \in Keys : f[k] > 0}

BackfillIdle(pc) == [pc |-> pc, today |-> 0, day |-> 0, src |-> 1, at |-> 0,
                     acc |-> NoAcc, fails |-> 0]

(***************************************************************************)
(* Ingest: the raw row first, then the broadcast, which counts the spot.   *)
(***************************************************************************)
Ingest(s, t) ==
    /\ ingest[s] = 0
    /\ IngestRaw(s, t)
    /\ ingest' = [ingest EXCEPT ![s] = Len(log')]
    /\ UNCHANGED <<liveVars, table, metaVars>>

\* propBaselineEngine.Observe, called by broadcastMsg.
Observe(s) ==
    /\ ingest[s] # 0
    /\ pending' = [pending EXCEPT ![log[ingest[s]]] = @ + 1]
    /\ pendingCount' = pendingCount + 1
    /\ ingest' = [ingest EXCEPT ![s] = 0]
    /\ UNCHANGED <<rawVars, batch, batchCount, flushing, live, gone, table, metaVars>>

\* An RBN or DX cluster spot without usable locators is stored but not
\* broadcast, so never counted live.  The backfill may still count it.
DropUnusable(s) ==
    /\ s \notin QueuedSources
    /\ ingest[s] # 0
    /\ gone' = gone \cup {log[ingest[s]]}
    /\ ingest' = [ingest EXCEPT ![s] = 0]
    /\ UNCHANGED <<rawVars, pending, pendingCount, batch, batchCount, flushing, live, table, metaVars>>

(***************************************************************************)
(* FlushPending: additive upserts in one transaction.                      *)
(***************************************************************************)
FlushSwap ==
    /\ ~flushing
    /\ pending # Zero
    /\ batch' = pending /\ batchCount' = pendingCount
    /\ pending' = Zero /\ pendingCount' = 0
    /\ flushing' = TRUE
    /\ UNCHANGED <<rawVars, ingest, live, gone, table, metaVars>>

FlushCommit ==
    /\ flushing
    /\ table' = Plus(table, batch)
    /\ live' = Plus(live, batch)
    /\ batch' = Zero /\ batchCount' = 0
    /\ flushing' = FALSE
    /\ UNCHANGED <<rawVars, ingest, pending, pendingCount, gone, metaVars>>

\* capPendingPropBaseline: only days from the middle of the queued range on
\* are kept, when there are too many rows at all.
capPendingPropBaseline(f) ==
    LET days == {utcDayIndex(k[2]) : k \in KeysOf(f)}
        cutoff == Min(days) + (Max(days) - Min(days)) \div 2
    IN IF Cardinality(KeysOf(f)) <= MaxPending THEN f
       ELSE [k \in Keys |-> IF utcDayIndex(k[2]) < cutoff THEN 0 ELSE f[k]]

\* The merge-back counts spots; the cap leaves the number of rows.
FlushFail ==
    LET merged == Plus(pending, batch)
        capped == capPendingPropBaseline(merged)
        n == pendingCount + batchCount
    IN
    /\ flushing
    /\ IF n > MaxPending
       THEN /\ pending' = capped
            /\ pendingCount' = Cardinality(KeysOf(capped))
            /\ gone' = gone \cup {k \in Keys : capped[k] # merged[k]}
       ELSE /\ pending' = merged
            /\ pendingCount' = n
            /\ UNCHANGED gone
    /\ batch' = Zero /\ batchCount' = 0
    /\ flushing' = FALSE
    /\ UNCHANGED <<rawVars, ingest, live, table, metaVars>>

(***************************************************************************)
(* The backfill: for every day from the cursor on and every source, add up *)
(* the raw rows window by window, then insert the rows that are missing.   *)
(***************************************************************************)
StartChunk(b, day, src) ==
    [b EXCEPT !.pc = "collect", !.day = day, !.src = src, !.at = day * SlotsPerDay, !.acc = NoAcc]

\* A failed query for the marker or the cursor counts as "there is none".
BackfillStart(readDone, readCursor) ==
    LET today == utcDayIndex(clock)
        first == today - BackfillDays + 1
        startDay == IF readCursor /\ cursor # -1 /\ cursor + 1 > first THEN cursor + 1 ELSE first
    IN
    /\ bf.pc = "start"
    /\ bf' = IF readDone /\ done THEN BackfillIdle("stopped")
             ELSE IF startDay > today THEN BackfillIdle("done")
             ELSE StartChunk([bf EXCEPT !.today = today], startDay, 1)
    /\ planned' = {d \in planned : d <= cursor} \cup (startDay .. today)
    /\ UNCHANGED <<rawVars, ingest, liveVars, table, cursor, done, skipped>>

\* One window of a chunk.
BackfillCollect ==
    LET rows == {i \in raw : log[i] = <<sources[bf.src], bf.at>>} IN
    /\ bf.pc = "collect"
    /\ bf' = [bf EXCEPT !.acc = IF bf.at \in Slots THEN [@ EXCEPT ![bf.at] = Cardinality(rows)] ELSE @,
                        !.at = @ + 1,
                        !.pc = IF bf.at + 1 = (bf.day + 1) * SlotsPerDay THEN "merge" ELSE @]
    /\ UNCHANGED <<rawVars, ingest, liveVars, table, cursor, done, skipped, planned>>

\* Mutant: the day is taken for finished after its first source.
AfterChunkOneSource(b) ==
    IF b.fails >= MaxChunkFailures THEN BackfillIdle("stopped")
    ELSE [b EXCEPT !.pc = "cursor", !.acc = NoAcc]

\* Where runPropBaselineBackfill goes after a chunk that ended with b.fails
\* consecutive failures.
AfterChunk(b) ==
    IF b.fails >= MaxChunkFailures THEN BackfillIdle("stopped")
    ELSE IF b.src < Len(sources) THEN StartChunk(b, b.day, b.src + 1)
    ELSE [b EXCEPT !.pc = "cursor", !.acc = NoAcc]

\* Mutant: ON CONFLICT ... DO UPDATE, adding.
InsertMissingAdds(k) == table[k] + bf.acc[k[2]]

\* INSERT ... ON CONFLICT DO NOTHING.
InsertMissing(k) == IF table[k] > 0 THEN table[k] ELSE bf.acc[k[2]]

BackfillMerge ==
    /\ bf.pc = "merge"
    /\ table' = [k \in Keys |-> IF k[1] = sources[bf.src] THEN InsertMissing(k) ELSE table[k]]
    /\ bf' = AfterChunk([bf EXCEPT !.fails = 0])
    /\ skipped' = skipped \ {<<bf.src, bf.day>>}
    /\ UNCHANGED <<rawVars, ingest, liveVars, cursor, done, planned>>

\* A window's query or the merge transaction (none for an empty chunk) fails.
BackfillChunkFail ==
    /\ bf.pc = "collect" \/ (bf.pc = "merge" /\ bf.acc # NoAcc)
    /\ bf' = AfterChunk([bf EXCEPT !.fails = @ + 1])
    /\ skipped' = skipped \cup {<<bf.src, bf.day>>}
    /\ UNCHANGED <<rawVars, ingest, liveVars, table, cursor, done, planned>>

BackfillCursor ==
    /\ bf.pc = "cursor"
    /\ cursor' = bf.day
    /\ bf' = IF bf.day < bf.today THEN StartChunk(bf, bf.day + 1, 1)
             ELSE [bf EXCEPT !.pc = "done"]
    /\ UNCHANGED <<rawVars, ingest, liveVars, table, done, skipped, planned>>

markPropBaselineBackfillDone ==
    /\ bf.pc = "done"
    /\ done' = TRUE
    /\ bf' = BackfillIdle("stopped")
    /\ UNCHANGED <<rawVars, ingest, liveVars, table, cursor, skipped, planned>>

\* The write of the cursor or of the marker fails.
BackfillMetaFail ==
    /\ bf.pc \in {"cursor", "done"}
    /\ bf' = BackfillIdle("stopped")
    /\ UNCHANGED <<rawVars, ingest, liveVars, table, cursor, done, skipped, planned>>

(***************************************************************************)
(* The environment.                                                        *)
(***************************************************************************)
RawStep ==
    /\ FlushRaw \/ (\E i \in raw : PruneRawSpot(i)) \/ Tick
    /\ UNCHANGED <<ingest, liveVars, table, metaVars>>

RestartAll ==
    /\ Restart
    /\ ingest' = [s \in Sources |-> 0]
    /\ pending' = Zero /\ pendingCount' = 0
    /\ batch' = Zero /\ batchCount' = 0 /\ flushing' = FALSE
    /\ gone' = gone \cup KeysOf(Plus(pending, batch))
                    \cup {log[ingest[s]] : s \in {u \in Sources : ingest[u] # 0}}
    /\ bf' = BackfillIdle("start")
    /\ UNCHANGED <<live, table, cursor, done, skipped, planned>>

Init ==
    /\ RawInit
    /\ ingest = [s \in Sources |-> 0]
    /\ pending = Zero /\ pendingCount = 0
    /\ batch = Zero /\ batchCount = 0 /\ flushing = FALSE
    /\ live = Zero /\ gone = {}
    /\ table = Zero
    /\ cursor = -1 /\ done = FALSE
    /\ bf = BackfillIdle("start")
    /\ skipped = {} /\ planned = {}

IngestStep ==
    \/ \E s \in Sources, t \in clock - MaxLate .. clock : Ingest(s, t)
    \/ \E s \in Sources : Observe(s) \/ DropUnusable(s)

FlushStep == FlushSwap \/ FlushCommit \/ FlushFail

BackfillStep ==
    \/ \E readDone, readCursor \in BOOLEAN : BackfillStart(readDone, readCursor)
    \/ BackfillCollect \/ BackfillMerge \/ BackfillChunkFail
    \/ BackfillCursor \/ markPropBaselineBackfillDone \/ BackfillMetaFail

Next == IngestStep \/ RawStep \/ FlushStep \/ BackfillStep \/ RestartAll

Spec == Init /\ [][Next]_vars

(***************************************************************************)
(* Properties.                                                             *)
(***************************************************************************)
\* "a restarted backfill is idempotent": however often it starts over, and
\* whatever the flusher adds meanwhile, it contributes the raw rows of a key
\* at most once, and takes nothing of the live counts away.
BackfillOnce ==
    \A k \in Keys :
        /\ live[k] <= table[k]
        /\ table[k] <= live[k] + Cardinality({i \in stored : log[i] = k})

\* The cursor of the resumable walk: every raw row of a day it has passed has
\* its key in the table, or on the way there, unless the chunk failed or a
\* live count was lost or never made.
CursorCovers ==
    \A i \in raw :
        LET k == log[i] IN
        utcDayIndex(k[2]) \in planned /\ utcDayIndex(k[2]) <= cursor =>
            \/ table[k] + pending[k] + batch[k] > 0
            \/ ingest[k[1]] = i
            \/ k \in gone
            \/ \E c \in skipped : sources[c[1]] = k[1] /\ c[2] = utcDayIndex(k[2])

\* "aggregating each chunk and upserting before advancing the cursor", "aborts
\* after 2 consecutive chunk failures, leaving the cursor for the next
\* restart": no day the cursor has passed has a chunk that failed.
NoChunkSkipped == \A c \in skipped : c[2] > cursor

=============================================================================
