----------------------------- MODULE AlmanacFold -----------------------------
(***************************************************************************)
(* The Almanac fold of cmd/horstreporter: live spots are clamped, queued   *)
(* and flushed into the daily table (dx_postgres.go), every final day is   *)
(* folded once into the permanent seasonal record behind a watermark, and  *)
(* the retention prune of the daily table is gated by that watermark       *)
(* (almanac_fold.go, almanac_season_store.go).                             *)
(*                                                                         *)
(* Four kinds of process interleave over one database: the ingest          *)
(* goroutines (observe), the batch flusher, the fold ticker and the        *)
(* retention prune.  A database transaction is one step; everything a      *)
(* goroutine does between two transactions, locks or clock readings is     *)
(* a step of its own.  Any transaction may fail; the process may crash.    *)
(*                                                                         *)
(* Data abstraction: the (grid4, band, region, slot) keys of one day are   *)
(* collapsed into one counter per UTC day.                                 *)
(***************************************************************************)
EXTENDS Integers, FiniteSets

CONSTANTS
    DayLen,          \* clock units in one UTC day (86400 s)
    FutureSkew,      \* almanacFutureSpotSkewSeconds
    FlushLag,        \* almanacFoldFlushLag
    Retention,       \* -dx-region-baseline-retention-days
    GraceDays,       \* almanacFoldGraceDays
    MaxDaysPerRun,   \* almanacFoldMaxDaysPerRun
    SegmentMax,      \* saturation of one seasonal cell (255)
    Ingesters,       \* goroutines that call observe()
    ObserveLag,      \* how long a goroutine may sit between clamp and lock
    MaxRepeats,      \* bound: a commit may go unacknowledged while it adds to
                     \* days with fewer spots than this (0: never)
    PreDeploy,       \* the daily tables the first deploy may find
    StartClock, MaxClock, LastDay, MaxSpots, MaxCrashes   \* bounds

ASSUME AlmanacConstants ==
    /\ DayLen \in Nat \ {0}
    /\ FutureSkew \in Nat
    /\ FlushLag \in Nat
    /\ Retention \in Nat \ {0}
    /\ GraceDays \in Nat
    /\ MaxDaysPerRun \in Nat
    /\ SegmentMax \in Nat
    /\ ObserveLag \in Nat
    /\ MaxRepeats \in Nat
    /\ StartClock \in Nat /\ MaxClock \in Nat /\ LastDay \in Nat
    /\ MaxSpots \in Nat /\ MaxCrashes \in Nat

Days == 0 .. LastDay

ASSUME PreDeployAssumption == PreDeploy \subseteq [Days -> Nat]

VARIABLES
    clock,      \* wall clock
    obs,        \* per ingester: the accepted spot it is about to queue
    pending,    \* pendingRegion, per day
    inflight,   \* inflightRegion, per day
    flusher,    \* where the flusher is in flushPendingWithTimeout
    lastFlushOK,\* baselineFlushLastOKUnix
    daily,      \* dx_region_baseline_daily: spot_count per day
    ingest,     \* almanac_ingest_slots: spot_total per day
    season,     \* almanac_season_counts: the day's segment
    watermark, hasWatermark,  \* dx_meta[almanacFoldWatermarkKey]
    lost,       \* almanac_lost_days
    fold,       \* the fold ticker's locals
    prune,      \* the retention prune's locals
    memWatermark, \* almanacFolder.watermark (-1 until known)
    spots, crashes,  \* spots observed and restarts so far
    accepted,   \* history: spots queued per day, the daily rows of Init included
    committed,  \* history: spots ever committed to the daily table per day
    initial     \* history: the first watermark ever stored

queueVars == <<obs, pending, inflight, flusher, lastFlushOK>>
tableVars == <<daily, ingest, season>>
markVars  == <<watermark, hasWatermark, lost, initial>>
procVars  == <<fold, prune, memWatermark>>
histVars  == <<accepted, committed, spots>>
vars == <<clock, queueVars, tableVars, markVars, procVars, histVars, crashes>>

utcDayIndex(t) == t \div DayLen

Zero == [d \in Days |-> 0]
Idle == [busy |-> FALSE, day |-> 0, at |-> 0]
FoldIdle == [pc |-> "idle", now |-> 0, w |-> 0, n |-> 0]
PruneIdle == [pc |-> "idle", cutoff |-> 0, below |-> 0, new |-> 0]

MinOf(a, b) == IF a <= b THEN a ELSE b
MaxOf(a, b) == IF a >= b THEN a ELSE b

(***************************************************************************)
(* Ingest: observe() takes the clamp decision from a clock reading made    *)
(* before the store lock, and queues the region delta under the lock.      *)
(***************************************************************************)
almanacLateSpotMaxAge == DayLen

almanacRegionTimestampAccepted(ts, now) ==
    /\ ts >= now - almanacLateSpotMaxAge
    /\ ts <= now + FutureSkew

ObserveClamp(i, ts) ==
    /\ spots < MaxSpots
    /\ spots' = spots + 1
    /\ ~obs[i].busy
    /\ almanacRegionTimestampAccepted(ts, clock)
    /\ utcDayIndex(ts) \in Days
    /\ obs' = [obs EXCEPT ![i] = [busy |-> TRUE, day |-> utcDayIndex(ts), at |-> clock]]
    /\ UNCHANGED <<clock, pending, inflight, flusher, lastFlushOK,
                   tableVars, markVars, procVars, accepted, committed,
                   crashes>>

ObserveQueue(i) ==
    /\ obs[i].busy
    /\ pending' = [pending EXCEPT ![obs[i].day] = @ + 1]
    /\ accepted' = [accepted EXCEPT ![obs[i].day] = @ + 1]
    /\ obs' = [obs EXCEPT ![i] = Idle]
    /\ UNCHANGED <<clock, inflight, flusher, lastFlushOK, tableVars,
                   markVars, procVars, committed, spots, crashes>>

(***************************************************************************)
(* The flusher: swap the queue out under the lock, commit it in one        *)
(* transaction, merge it back if that failed, and only then forget the     *)
(* in-flight batch; a success is recorded last.                            *)
(***************************************************************************)
\* Mutant: an empty flush is not recorded as a success.
FlushEmptyUnrecorded ==
    /\ flusher = "idle"
    /\ pending = Zero
    /\ UNCHANGED vars

FlushEmpty ==
    /\ flusher = "idle"
    /\ pending = Zero
    /\ lastFlushOK' = clock
    /\ UNCHANGED <<clock, obs, pending, inflight, flusher, tableVars,
                   markVars, procVars, histVars, crashes>>

FlushSwap ==
    /\ flusher = "idle"
    /\ pending # Zero
    /\ inflight' = pending
    /\ pending' = Zero
    /\ flusher' = "tx"
    /\ UNCHANGED <<clock, obs, lastFlushOK, tableVars, markVars, procVars,
                   histVars, crashes>>

\* The batch of flushPending as the database applies it: additive upserts of
\* the daily rows and of the per-slot ingest totals.
ApplyBatch ==
    /\ daily' = [d \in Days |-> daily[d] + inflight[d]]
    /\ ingest' = [d \in Days |-> ingest[d] + inflight[d]]
    /\ committed' = [d \in Days |-> committed[d] + inflight[d]]
    /\ UNCHANGED season

\* Mutants: the retry replaces the queue; the retry is taken off the queue.
MergeBackReplaces == pending' = inflight
MergeBackSubtracts == pending' = [d \in Days |-> pending[d] - inflight[d]]

mergePendingBack == pending' = [d \in Days |-> pending[d] + inflight[d]]

FlushCommit ==
    /\ flusher = "tx"
    /\ ApplyBatch
    /\ flusher' = "committed"
    /\ UNCHANGED <<clock, obs, pending, inflight, lastFlushOK, markVars,
                   procVars, accepted, spots, crashes>>

\* Begin, a statement or the commit failed and the server rolled back.
FlushFail ==
    /\ flusher = "tx"
    /\ mergePendingBack
    /\ flusher' = "failed"
    /\ UNCHANGED <<clock, obs, inflight, lastFlushOK, tableVars, markVars,
                   procVars, histVars, crashes>>

\* The commit reached the server, its acknowledgement did not reach us (the
\* flush context expires): flushPending takes the same error branch.
FlushUnacked ==
    /\ flusher = "tx"
    /\ \A d \in Days : inflight[d] > 0 => committed[d] < MaxRepeats
    /\ ApplyBatch
    /\ mergePendingBack
    /\ flusher' = "failed"
    /\ UNCHANGED <<clock, obs, inflight, lastFlushOK, markVars, procVars,
                   accepted, spots, crashes>>

\* The deferred setInflightRegion(nil).
FlushClear ==
    /\ flusher \in {"committed", "failed"}
    /\ inflight' = Zero
    /\ flusher' = IF flusher = "committed" THEN "record" ELSE "idle"
    /\ UNCHANGED <<clock, obs, pending, lastFlushOK, tableVars, markVars,
                   procVars, histVars, crashes>>

recordFlushSuccess ==
    /\ flusher = "record"
    /\ lastFlushOK' = clock
    /\ flusher' = "idle"
    /\ UNCHANGED <<clock, obs, pending, inflight, tableVars, markVars,
                   procVars, histVars, crashes>>

(***************************************************************************)
(* The watermark in the database.                                          *)
(***************************************************************************)
DailyDays == {d \in Days : daily[d] > 0}

\* almanacInitialWatermark: the oldest daily day (it may be partly pruned, so
\* it is recorded lost), or today - 1 over an empty table.
almanacInitialWatermark(today) ==
    \/ /\ DailyDays = {}
       /\ watermark' = today - 1
       /\ lost' = lost
    \/ \E minDay \in DailyDays :
          /\ \A d \in DailyDays : minDay <= d
          /\ watermark' = minDay
          /\ lost' = lost \cup {minDay}

\* ensureWatermark: one serialised transaction; `today' is the caller's.
ensureWatermark(today) ==
    \/ /\ hasWatermark
       /\ UNCHANGED markVars
    \/ /\ ~hasWatermark
       /\ almanacInitialWatermark(today)
       /\ hasWatermark' = TRUE
       /\ initial' = watermark'

(***************************************************************************)
(* The fold ticker: runOnce reads the clock once, then folds day after day *)
(* until one is not final.                                                 *)
(***************************************************************************)
\* Mutant: the batch in flight is not looked at.
QueuedRegionDays == {d \in Days : pending[d] > 0}

pendingRegionDays == {d \in Days : pending[d] > 0 \/ inflight[d] > 0}

\* almanacDayFinal, in the order its arguments are read: the queue first, ...
almanacDayQuiet(d, now) ==
    /\ d <= utcDayIndex(now) - 2
    /\ \A p \in pendingRegionDays : p > d

\* ... and then the time of the last successful flush.
almanacDayFlushed(d) == lastFlushOK > (d + 1) * DayLen + FlushLag

FoldStart ==
    /\ fold.pc = "idle"
    /\ fold' = [fold EXCEPT !.pc = "ensure", !.now = clock, !.n = 0]
    /\ UNCHANGED <<clock, queueVars, tableVars, markVars, prune,
                   memWatermark, histVars, crashes>>

FoldEnsure ==
    /\ fold.pc = "ensure"
    /\ ensureWatermark(utcDayIndex(fold.now))
    /\ fold' = [fold EXCEPT !.pc = "publish", !.w = watermark']
    /\ UNCHANGED <<clock, queueVars, tableVars, prune, memWatermark,
                   histVars, crashes>>

\* Mutants: the day about to be folded is published; only the first is.
FoldPublishNext ==
    /\ fold.pc = "publish"
    /\ memWatermark' = fold.w + 1
    /\ fold' = [fold EXCEPT !.pc = "check"]
    /\ UNCHANGED <<clock, queueVars, tableVars, markVars, prune, histVars,
                   crashes>>

FoldPublishOnce ==
    /\ fold.pc = "publish"
    /\ memWatermark' = IF memWatermark = -1 THEN fold.w ELSE memWatermark
    /\ fold' = [fold EXCEPT !.pc = "check"]
    /\ UNCHANGED <<clock, queueVars, tableVars, markVars, prune, histVars,
                   crashes>>

\* f.watermark.Store(w), after ensureWatermark and after every folded day.
FoldPublish ==
    /\ fold.pc = "publish"
    /\ memWatermark' = fold.w
    /\ fold' = [fold EXCEPT !.pc = "check"]
    /\ UNCHANGED <<clock, queueVars, tableVars, markVars, prune, histVars,
                   crashes>>

\* runOnce asks for the oldest pending day and then for the last flush; the
\* flusher and the ingest goroutines may run in between.
FoldReadPending ==
    /\ fold.pc = "check"
    /\ fold' = IF /\ fold.n < MaxDaysPerRun
                  /\ fold.w + 1 \in Days
                  /\ almanacDayQuiet(fold.w + 1, fold.now)
               THEN [fold EXCEPT !.pc = "final", !.n = @ + 1]
               ELSE FoldIdle
    /\ UNCHANGED <<clock, queueVars, tableVars, markVars, prune,
                   memWatermark, histVars, crashes>>

FoldReadFlush ==
    /\ fold.pc = "final"
    /\ fold' = IF almanacDayFlushed(fold.w + 1) THEN [fold EXCEPT !.pc = "tx"] ELSE FoldIdle
    /\ UNCHANGED <<clock, queueVars, tableVars, markVars, prune,
                   memWatermark, histVars, crashes>>

satAdd8(v) == MinOf(v, SegmentMax)

\* Mutant: the seed is added instead of taking the greater total.
foldDayInTxAdds(d) ==
    /\ season' = [season EXCEPT ![d] = satAdd8(daily[d])]
    /\ ingest' = [ingest EXCEPT ![d] = @ + daily[d]]
    /\ UNCHANGED daily

\* foldDayInTx: SET the day's segment (a day without rows writes nothing) and
\* raise the ingest totals to the daily table's sum.
foldDayInTx(d) ==
    /\ season' = IF daily[d] > 0 THEN [season EXCEPT ![d] = satAdd8(daily[d])]
                                 ELSE season
    /\ ingest' = [ingest EXCEPT ![d] = MaxOf(@, daily[d])]
    /\ UNCHANGED daily

\* foldDay: under the watermark row lock; nothing is written when a forced
\* prune or another fold got there first.
FoldDay ==
    LET d == fold.w + 1 IN
    /\ fold.pc = "tx"
    /\ IF watermark >= d
       THEN UNCHANGED <<tableVars, watermark>>
       ELSE /\ foldDayInTx(d)
            /\ watermark' = MaxOf(watermark, d)
    /\ fold' = [fold EXCEPT !.pc = "publish", !.w = watermark']
    /\ UNCHANGED <<clock, queueVars, hasWatermark, lost, initial, prune,
                   memWatermark, histVars, crashes>>

\* recordFailure: any transaction of runOnce fails; the run is abandoned.
FoldFail ==
    /\ fold.pc \in {"ensure", "tx"}
    /\ fold' = FoldIdle
    /\ UNCHANGED <<clock, queueVars, tableVars, markVars, prune,
                   memWatermark, histVars, crashes>>

(***************************************************************************)
(* The retention prune.                                                    *)
(***************************************************************************)
almanacPruneDecide(cutoff, w, diskOver) ==
    LET forced == IF diskOver THEN cutoff ELSE cutoff - GraceDays IN
    IF w + 1 >= cutoff THEN [below |-> cutoff, force |-> FALSE, new |-> 0]
    ELSE IF w + 1 < forced
         THEN [below |-> forced, force |-> TRUE, new |-> forced - 1]
         ELSE [below |-> w + 1, force |-> FALSE, new |-> 0]

\* Mutant: the new watermark's own day is left out.
LostDayRangeExclusive(from, to) == {d \in Days : from < d /\ d < to}

\* almanacLostDayRange: the days (from, to].
almanacLostDayRange(from, to) == {d \in Days : from < d /\ d <= to}

PruneStart ==
    /\ prune.pc = "idle"
    /\ prune' = [prune EXCEPT !.pc = "gate", !.cutoff = utcDayIndex(clock) - Retention]
    /\ UNCHANGED <<clock, queueVars, tableVars, markVars, fold,
                   memWatermark, histVars, crashes>>

\* pruneCutoff up to its decision; a failed disk probe counts as diskOver.
PruneGate(diskOver) ==
    /\ prune.pc = "gate"
    /\ ensureWatermark(utcDayIndex(clock))
    /\ LET dec == almanacPruneDecide(prune.cutoff, watermark', diskOver) IN
       prune' = [pc |-> IF dec.force THEN "force" ELSE "delete",
                 cutoff |-> 0, below |-> dec.below, new |-> dec.new]
    /\ UNCHANGED <<clock, queueVars, tableVars, fold, memWatermark,
                   histVars, crashes>>

\* forceAdvance: under the watermark row lock.
PruneForce ==
    /\ prune.pc = "force"
    /\ watermark' = MaxOf(watermark, prune.new)
    /\ lost' = lost \cup almanacLostDayRange(watermark, prune.new)
    /\ prune' = [prune EXCEPT !.pc = "advance"]
    /\ UNCHANGED <<clock, queueVars, tableVars, hasWatermark, initial, fold,
                   memWatermark, histVars, crashes>>

PruneAdvance ==
    /\ prune.pc = "advance"
    /\ memWatermark' = MaxOf(memWatermark, prune.new)
    /\ prune' = [PruneIdle EXCEPT !.pc = "delete", !.below = prune.below]
    /\ UNCHANGED <<clock, queueVars, tableVars, markVars, fold, histVars,
                   crashes>>

\* One DELETE batch: any rows below the cutoff, in no particular order.
PruneDelete(d) ==
    /\ prune.pc = "delete"
    /\ d < prune.below
    /\ daily[d] > 0
    /\ daily' = [daily EXCEPT ![d] = 0]
    /\ UNCHANGED <<clock, queueVars, ingest, season, markVars, procVars,
                   histVars, crashes>>

\* Caught up, or the gate or a batch failed.
PruneEnd ==
    /\ prune.pc # "idle"
    /\ prune.pc # "advance"
    /\ prune' = PruneIdle
    /\ UNCHANGED <<clock, queueVars, tableVars, markVars, fold,
                   memWatermark, histVars, crashes>>

(***************************************************************************)
(* The environment: time, and a crash with restart.                        *)
(***************************************************************************)
Tick ==
    /\ clock < MaxClock
    /\ \A i \in Ingesters : obs[i].busy => clock + 1 - obs[i].at <= ObserveLag
    /\ clock' = clock + 1
    /\ UNCHANGED <<queueVars, tableVars, markVars, procVars, histVars, crashes>>

\* A transaction the crash interrupts is either rolled back or, for the batch
\* in flight, already committed (FlushCommit, then Crash).
Crash ==
    /\ crashes < MaxCrashes
    /\ crashes' = crashes + 1
    /\ obs' = [i \in Ingesters |-> Idle]
    /\ pending' = Zero
    /\ inflight' = Zero
    /\ flusher' = "idle"
    /\ lastFlushOK' = 0
    /\ fold' = FoldIdle
    /\ prune' = PruneIdle
    /\ memWatermark' = -1
    /\ UNCHANGED <<clock, tableVars, markVars, histVars>>

\* First deploy: the daily table may hold earlier days, nothing is folded.
Init ==
    /\ clock = StartClock
    /\ obs = [i \in Ingesters |-> Idle]
    /\ pending = Zero
    /\ inflight = Zero
    /\ flusher = "idle"
    /\ lastFlushOK = 0
    /\ daily \in PreDeploy
    /\ ingest = Zero
    /\ season = Zero
    /\ watermark = 0
    /\ hasWatermark = FALSE
    /\ lost = {}
    /\ fold = FoldIdle
    /\ prune = PruneIdle
    /\ memWatermark = -1
    /\ spots = 0
    /\ crashes = 0
    /\ accepted = daily
    /\ committed = daily
    /\ initial = 0

Observe ==
    \E i \in Ingesters :
        \/ \E ts \in clock - almanacLateSpotMaxAge .. clock + FutureSkew : ObserveClamp(i, ts)
        \/ ObserveQueue(i)

Flush ==
    \/ FlushEmpty \/ FlushSwap \/ FlushCommit \/ FlushFail \/ FlushUnacked
    \/ FlushClear \/ recordFlushSuccess

runOnce ==
    \/ FoldStart \/ FoldEnsure \/ FoldPublish \/ FoldReadPending \/ FoldReadFlush
    \/ FoldDay \/ FoldFail

pruneRegionBaselines ==
    \/ PruneStart
    \/ \E diskOver \in BOOLEAN : PruneGate(diskOver)
    \/ PruneForce
    \/ PruneAdvance
    \/ \E d \in Days : PruneDelete(d)
    \/ PruneEnd

Next == Observe \/ Flush \/ runOnce \/ pruneRegionBaselines \/ Tick \/ Crash

Spec == Init /\ [][Next]_vars

\* Time passes, the flusher and the fold ticker keep ticking, and a
\* transaction that is retried for ever does not fail for ever.
Fairness ==
    /\ WF_vars(Tick)
    /\ \A i \in Ingesters : WF_vars(ObserveQueue(i))
    /\ WF_vars(FlushEmpty) /\ WF_vars(FlushSwap) /\ SF_vars(FlushCommit)
    /\ WF_vars(FlushClear) /\ WF_vars(recordFlushSuccess)
    /\ WF_vars(FoldStart) /\ SF_vars(FoldEnsure) /\ WF_vars(FoldPublish)
    /\ WF_vars(FoldReadPending) /\ WF_vars(FoldReadFlush) /\ SF_vars(FoldDay)
    /\ WF_vars(PruneAdvance)

FairSpec == Spec /\ Fairness

(***************************************************************************)
(* Properties.                                                             *)
(***************************************************************************)
TypeOK ==
    /\ clock \in Nat
    /\ obs \in [Ingesters -> [busy : BOOLEAN, day : Days, at : Nat]]
    /\ pending \in [Days -> Nat] /\ inflight \in [Days -> Nat]
    /\ flusher \in {"idle", "tx", "committed", "failed", "record"}
    /\ lastFlushOK \in Nat
    /\ daily \in [Days -> Nat] /\ ingest \in [Days -> Nat] /\ season \in [Days -> Nat]
    /\ watermark \in Int /\ hasWatermark \in BOOLEAN /\ lost \subseteq Days
    /\ initial \in Int
    /\ fold \in [pc : {"idle", "ensure", "publish", "check", "final", "tx"},
                 now : Nat, w : Int, n : Nat]
    /\ prune \in [pc : {"idle", "gate", "force", "advance", "delete"},
                  cutoff : Int, below : Int, new : Int]
    /\ memWatermark \in Int
    /\ spots \in Nat /\ crashes \in Nat
    /\ accepted \in [Days -> Nat] /\ committed \in [Days -> Nat]

\* The spots of day d that are queued but in no table yet: those of a batch
\* whose transaction has ended are no longer counted by it.
Queued(d) == pending[d] + (IF flusher = "tx" THEN inflight[d] ELSE 0)

\* flushPending / mergePendingBack: a failed flush neither loses nor repeats a
\* delta.  Nothing is counted twice, and short of a crash nothing is dropped.
FlushConserves ==
    \A d \in Days :
        /\ committed[d] + Queued(d) <= accepted[d]
        /\ crashes = 0 => committed[d] + Queued(d) = accepted[d]

\* What the Almanac reads for day d (almanacAccum): the seasonal record up to
\* the watermark, the daily table after it; one REPEATABLE READ snapshot.
AlmanacView(d) == IF d <= watermark THEN season[d] ELSE satAdd8(daily[d])

\* A day the record is responsible for: after the first watermark, not lost.
Kept(d) == d > initial /\ d \notin lost

\* The promise of the fold: whatever flush, fold, prune and crash do, every
\* spot ever committed for a kept day is in what the Almanac reads, exactly
\* once - while the day is still in the daily table, while it crosses the
\* watermark, and after the prune deleted its daily rows.
ViewExact ==
    hasWatermark => \A d \in Days : Kept(d) => AlmanacView(d) = satAdd8(committed[d])

\* The ingest totals (the "was the feed alive" denominator) of a folded day
\* are its spots, whether flushes, the fold's seed or both wrote them.
IngestExact ==
    hasWatermark =>
        \A d \in Days : Kept(d) /\ d <= watermark => ingest[d] = committed[d]

\* The in-memory watermark that keys the Almanac caches never runs ahead of
\* the stored one (foldDay and forceAdvance commit before it is published).
MemNeverAhead == memWatermark > -1 => hasWatermark /\ memWatermark <= watermark

\* The watermark never moves back, and every day it passes over is either
\* folded in that very step or recorded lost.
WatermarkAccounts ==
    [][hasWatermark =>
         /\ watermark' >= watermark
         /\ \A d \in Days : watermark < d /\ d <= watermark' =>
               d \in lost' \/ season'[d] = satAdd8(daily[d])]_vars

(***************************************************************************)
(* The inductive invariant behind ViewExact and IngestExact, when a spot   *)
(* is queued within the clock unit of its clamp (ObserveLag = 0).          *)
(***************************************************************************)
\* A spot about to be queued was admitted now: it is of today or yesterday.
SpotsRecent ==
    \A i \in Ingesters : obs[i].busy =>
        obs[i].at <= clock /\ obs[i].day >= utcDayIndex(clock) - 1

\* Nothing of day d is queued or in flight, and nothing can arrive any more.
Quiet(d) == pending[d] = 0 /\ inflight[d] = 0 /\ d <= utcDayIndex(clock) - 2

\* The fold ticker's view of the watermark may be old, never too new, and
\* the day it is about to fold is quiet.
FoldSound ==
    /\ fold.now <= clock
    /\ fold.pc \in {"publish", "check", "final", "tx"} =>
          hasWatermark /\ initial <= fold.w /\ fold.w <= watermark
    /\ fold.pc \in {"final", "tx"} => fold.w + 1 \in Days /\ Quiet(fold.w + 1)

\* The prune deletes nothing above the watermark.
PruneSound ==
    /\ prune.pc = "force" => hasWatermark /\ prune.below = prune.new + 1
    /\ prune.pc = "advance" => hasWatermark /\ prune.below <= watermark + 1
    /\ prune.pc = "delete" => hasWatermark /\ prune.below <= watermark + 1

\* A kept day up to the watermark is complete and closed.
FoldedClosed ==
    hasWatermark =>
        /\ initial <= watermark
        /\ \A d \in Days : Kept(d) /\ d <= watermark =>
              Quiet(d) /\ season[d] = satAdd8(committed[d]) /\ ingest[d] = committed[d]

\* Above the watermark the daily table still holds everything.
UnfoldedIntact ==
    \A d \in Days : (hasWatermark => d > watermark) =>
        daily[d] = committed[d] /\ ingest[d] <= daily[d] /\ season[d] = 0

IndInv == SpotsRecent /\ FoldSound /\ PruneSound /\ FoldedClosed /\ UnfoldedIntact

\* The inductive invariant behind MemNeverAhead and WatermarkAccounts, for any
\* ObserveLag: a watermark that was read or forced is not above the stored one,
\* and nothing is folded above it.
MarkInv ==
    /\ fold.pc \in {"publish", "check", "final", "tx"} => hasWatermark /\ fold.w <= watermark
    /\ prune.pc = "force" => hasWatermark
    /\ prune.pc = "advance" => hasWatermark /\ prune.new <= watermark
    /\ \A d \in Days : (hasWatermark => d > watermark) => season[d] = 0
    /\ MemNeverAhead

\* The last day that is final once the clock has reached its bound.
LastFinal(d) ==
    /\ d <= utcDayIndex(MaxClock) - 2
    /\ MaxClock > (d + 1) * DayLen + FlushLag

\* Every day is eventually folded or given up, however often transactions
\* fail and the process restarts: nothing pending blocks the fold for ever.
EveryFinalDayPassed ==
    \A d \in Days : LastFinal(d) => <>(hasWatermark /\ watermark >= d)

\* The published watermark catches up with the stored one after every race of
\* fold and prune; until then every Almanac read misses its cache.
MemCatchesUp == <>[](memWatermark = watermark)

=============================================================================
