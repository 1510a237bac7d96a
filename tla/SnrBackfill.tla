---------------------------- MODULE SnrBackfill ----------------------------
(***************************************************************************)
(* The one-off SNR backfill of the Almanac (cmd/horstreporter,             *)
(* almanac_snr_backfill.go, refoldDay in almanac_season_store.go).         *)
(*                                                                         *)
(* The SNR counters of the daily table exist since the deploy.  The job    *)
(* replays the raw rows of earlier days: it SETs the counters of days the  *)
(* raw table covers completely, ADDs the part of the deploy day before the *)
(* deploy, folds the days the fold has already passed once more and then   *)
(* moves the day since which the record has SNR.  Live ingest, the fold    *)
(* ticker and the raw prune go on meanwhile; statements fail, commits lose *)
(* their answer, the process restarts.                                     *)
(*                                                                         *)
(* The clock counts the windows the raw table is read in.  A spot is a     *)
(* <<time, key>> pair; its way through the flusher and the raw-row queue   *)
(* is one step here (see AlmanacFold and RawSpots).  A daily row counts    *)
(* PSKReporter spots, which carry SNR, and DX cluster spots, which do not. *)
(***************************************************************************)
EXTENDS Integers, Sequences, FiniteSets

CONSTANTS
    RowKeys,        \* keys of a day's rows (numbers: their sort order)
    Windows,        \* windows per day
    SnrCutoff,      \* almanac_snr_columns_added: when the columns were added
    Before,         \* the spots there were before: a sequence of <<time, key>>
    BatchSize,      \* almanacSNRBackfillSetBatch, almanacSNRBackfillAddBatch
    BatchAttempts,  \* almanacSNRBackfillBatchAttempts
    FinalizeRounds, \* almanacSNRBackfillFinalizeRounds
    SnrRawRetention, \* raw retention, in windows
    SplitTimes,     \* may a batch of the raw prune end among rows of one time
    SnrMaxLate,     \* how late a spot may be, in windows
    SnrMaxClock, SnrMaxSpots, SnrMaxRestarts  \* bounds

DayOf(t) == t \div Windows
DeployDay == DayOf(SnrCutoff)
RowDays == 0 .. DayOf(SnrMaxClock)

ASSUME SnrConstants ==
    /\ RowKeys \subseteq Nat /\ IsFiniteSet(RowKeys)
    /\ {Windows, BatchSize, BatchAttempts, FinalizeRounds} \subseteq Nat \ {0}
    /\ {SnrCutoff, SnrRawRetention, SnrMaxLate, SnrMaxClock, SnrMaxSpots, SnrMaxRestarts} \subseteq Nat
    /\ SplitTimes \in BOOLEAN
    /\ Before \in Seq((0 .. SnrCutoff - 1) \X RowKeys)
    \* the cutoff lies inside the deploy day, and no spot is older than time 0
    /\ SnrCutoff % Windows # 0 /\ SnrMaxLate <= SnrCutoff /\ SnrCutoff <= SnrMaxClock

VARIABLES
    now, spots,     \* time; every PSKReporter spot there ever was
    rawRows,        \* dx_raw_spots: indices into spots
    snr,            \* snr_spots of the daily rows
    seasonSnr,      \* SNR spots in the seasonal record
    folded,         \* almanac_fold_watermark
    meta,           \* dx_meta: since, done, partialDone, progress
    job,            \* the runner
    jobRestarts

snrVars == <<now, spots, rawRows, snr, seasonSnr, folded, meta, job, jobRestarts>>

SpotsOf(d, k) == {i \in DOMAIN spots : DayOf(spots[i][1]) = d /\ spots[i][2] = k}

\* spot_count of a row: the PSKReporter spots and one DX cluster spot.
SpotCount(d, k) == Cardinality(SpotsOf(d, k)) + 1

(***************************************************************************)
(* What runs beside the job.                                               *)
(***************************************************************************)
\* observe() and both flushes: counters and raw row.
LiveSpot(t, k) ==
    /\ Len(spots) < Len(Before) + SnrMaxSpots
    /\ spots' = Append(spots, <<t, k>>)
    /\ rawRows' = rawRows \cup {Len(spots')}
    /\ snr' = [snr EXCEPT ![DayOf(t)][k] = @ + 1]
    /\ UNCHANGED <<now, seasonSnr, folded, meta, job, jobRestarts>>

\* foldDayInTx: the SNR stream is read from the day `since' on.
foldDayInTx(d, withSNR) ==
    [seasonSnr EXCEPT ![d] = [k \in RowKeys |-> IF withSNR THEN snr[d][k] ELSE 0]]

\* foldDay of the next day, once it is final (the day after the next began).
SnrFoldDay ==
    LET d == folded + 1 IN
    /\ d + 2 <= DayOf(now)
    /\ seasonSnr' = foldDayInTx(d, d >= meta.since)
    /\ folded' = d
    /\ UNCHANGED <<now, spots, rawRows, snr, meta, job, jobRestarts>>

\* pruneRawSpotsOlderThan, the oldest rows first; its batches are large, and
\* rarely end among the rows of one time.
PruneRaw(i) ==
    /\ spots[i][1] < now - SnrRawRetention
    /\ \A j \in rawRows : spots[i][1] <= spots[j][1]
    /\ rawRows' = {j \in rawRows : j # i /\ (SplitTimes \/ spots[j][1] # spots[i][1])}
    /\ UNCHANGED <<now, spots, snr, seasonSnr, folded, meta, job, jobRestarts>>

SnrTick ==
    /\ now < SnrMaxClock
    /\ now' = now + 1
    /\ UNCHANGED <<spots, rawRows, snr, seasonSnr, folded, meta, job, jobRestarts>>

(***************************************************************************)
(* The plan.                                                               *)
(***************************************************************************)
NoAgg == [k \in RowKeys |-> 0]
Stopped(pc) == [pc |-> pc, newSince |-> 0, day |-> 0, window |-> 0, agg |-> NoAgg, batch |-> 0,
                attempt |-> 1, progress |-> -1, refolded |-> {}, round |-> 0, w |-> -1]

\* rawCoverageStart: min(spot_time) <= t; no row at all covers nothing.
CoveredFrom(t) == \E i \in rawRows : spots[i][1] <= t

\* planAlmanacSNRBackfill: the deploy day and the full days before it, as far
\* down as the raw rows begin at or before a day's start.  The days are those
\* from `first' up to the deploy day; if that one is not covered there are none.
Plans(first) ==
    /\ first \in 0 .. meta.since
    /\ \A d \in 0 .. meta.since - 1 : CoveredFrom(d * Windows) <=> first <= d

PlannedDays == job.newSince .. meta.since - 1

IsPartial(d) == d = meta.since - 1

\* Where a day's work begins: the deploy day is skipped when it has been added.
BeginDay(j, d) ==
    IF d = meta.since \/ (IsPartial(d) /\ meta.partialDone)
    THEN [j EXCEPT !.day = d, !.pc = "watermark"]
    ELSE [j EXCEPT !.day = d, !.pc = "read", !.window = d * Windows, !.agg = NoAgg]

\* run: load dx_meta, look at the raw coverage, plan.
SnrStart ==
    /\ job.pc = "start"
    /\ \/ meta.done /\ job' = Stopped("stopped")
       \/ /\ ~meta.done
          /\ \E first \in 0 .. meta.since :
                /\ Plans(first)
                /\ job' = BeginDay([Stopped("start") EXCEPT !.progress = meta.progress,
                                                            !.newSince = first], first)
    /\ UNCHANGED <<now, spots, rawRows, snr, seasonSnr, folded, meta, jobRestarts>>

(***************************************************************************)
(* backfillDay.                                                            *)
(***************************************************************************)
Day == job.day
EndOfRead == IF IsPartial(Day) THEN SnrCutoff ELSE (Day + 1) * Windows

\* aggregateWindow: one statement per window.
ReadWindow ==
    LET read(k) == Cardinality({i \in rawRows : spots[i] = <<job.window, k>>}) IN
    /\ job.pc = "read"
    /\ job' = [job EXCEPT !.agg = [k \in RowKeys |-> @[k] + read(k)],
                          !.window = @ + 1,
                          !.pc = IF job.window + 1 = EndOfRead THEN "cover" ELSE "read"]
    /\ UNCHANGED <<now, spots, rawRows, snr, seasonSnr, folded, meta, jobRestarts>>

StillCovered == CoveredFrom(Day * Windows)

Recheck ==
    /\ job.pc = "cover"
    /\ job' = IF StillCovered THEN [job EXCEPT !.pc = "write", !.batch = 0, !.attempt = 1]
              ELSE Stopped("stopped")
    /\ UNCHANGED <<now, spots, rawRows, snr, seasonSnr, folded, meta, jobRestarts>>

\* almanacSNRBackfillEntries, almanacSNRBackfillBatches: the keys with SNR in
\* their order, in batches; the deploy day has at least one batch.
Entries == {k \in RowKeys : job.agg[k] > 0}
NumBatches ==
    LET n == (Cardinality(Entries) + BatchSize - 1) \div BatchSize IN
    IF IsPartial(Day) /\ n = 0 THEN 1 ELSE n
BatchOf(k) == Cardinality({l \in Entries : l < k}) \div BatchSize
BatchKeys == {k \in Entries : BatchOf(k) = job.batch}

\* SQL's LEAST.
Least(a, b) == IF a <= b THEN a ELSE b

\* Mutant: the counters of a full day are added, too.
BackfillMergeAdds(d, k) == Least(SpotCount(d, k), snr[d][k] + job.agg[k])

\* almanacSNRBackfillUpdateSQL: SET or ADD, capped at spot_count.
almanacSNRBackfillMerge(d, k) ==
    Least(SpotCount(d, k), job.agg[k] + (IF IsPartial(d) THEN snr[d][k] ELSE 0))

\* almanacSNRBackfillProgressSQL affects no row: committed by an earlier run.
AlreadyCommitted == IsPartial(Day) /\ meta.progress \notin {-1, job.batch - 1}

\* The effect of a batch's transaction on the database.
CommitBatch ==
    IF AlreadyCommitted THEN UNCHANGED <<snr, meta>>
    ELSE /\ snr' = [snr EXCEPT ![Day] =
                       [k \in RowKeys |-> IF k \in BatchKeys THEN almanacSNRBackfillMerge(Day, k) ELSE @[k]]]
         /\ meta' = IF ~IsPartial(Day) THEN meta
                    ELSE [meta EXCEPT !.progress = job.batch,
                                      !.partialDone = @ \/ job.batch = NumBatches - 1]

Resumed == IsPartial(Day) /\ job.batch <= job.progress

\* Batches an earlier run has committed are skipped; after the last one the
\* next day follows.
NextBatch ==
    /\ job.pc = "write"
    /\ Resumed \/ job.batch >= NumBatches
    /\ job' = IF job.batch >= NumBatches THEN BeginDay(job, Day + 1)
              ELSE [job EXCEPT !.batch = @ + 1]
    /\ UNCHANGED <<now, spots, rawRows, snr, seasonSnr, folded, meta, jobRestarts>>

MayWrite == job.pc = "write" /\ ~Resumed /\ job.batch < NumBatches

WriteBatch ==
    /\ MayWrite
    /\ CommitBatch
    /\ job' = [job EXCEPT !.batch = @ + 1, !.attempt = 1]
    /\ UNCHANGED <<now, spots, rawRows, seasonSnr, folded, jobRestarts>>

\* The batch commits and the answer is lost: the run ends with an error.
WriteBatchUnacked ==
    /\ MayWrite
    /\ CommitBatch
    /\ job' = Stopped("stopped")
    /\ UNCHANGED <<now, spots, rawRows, seasonSnr, folded, jobRestarts>>

\* lock_timeout: writeBatchRetry backs off and tries again, a few times.
LockTimeout ==
    /\ MayWrite
    /\ job' = IF job.attempt < BatchAttempts THEN [job EXCEPT !.attempt = @ + 1]
              ELSE Stopped("stopped")
    /\ UNCHANGED <<now, spots, rawRows, snr, seasonSnr, folded, meta, jobRestarts>>

(***************************************************************************)
(* refoldAndFinalize.                                                      *)
(***************************************************************************)
ReadWatermark ==
    /\ job.pc = "watermark"
    /\ job' = [job EXCEPT !.w = folded, !.pc = "refold"]
    /\ UNCHANGED <<now, spots, rawRows, snr, seasonSnr, folded, meta, jobRestarts>>

\* almanacSNRBackfillPending: planned days up to w that are not folded again.
Pending(w) == {d \in PlannedDays : d <= w /\ d \notin job.refolded}

\* refoldDay of the first such day, with SNR, under the watermark lock.
RefoldDay ==
    /\ job.pc = "refold"
    /\ \E d \in Pending(job.w) :
          /\ \A e \in Pending(job.w) : d <= e
          /\ seasonSnr' = foldDayInTx(d, TRUE)
          /\ job' = [job EXCEPT !.refolded = @ \cup {d}]
    /\ UNCHANGED <<now, spots, rawRows, snr, folded, meta, jobRestarts>>

\* Mutant: the watermark read before the refolds is good enough.
PendingAtFinalizeStale == Pending(job.w)

\* finalize reads the watermark again, under its lock.
PendingAtFinalize == Pending(folded)

Finalize ==
    /\ job.pc = "refold"
    /\ Pending(job.w) = {}
    /\ IF PendingAtFinalize = {}
       THEN /\ meta' = [meta EXCEPT !.done = TRUE, !.since = Least(@, job.newSince)]
            /\ job' = Stopped("stopped")
       ELSE /\ job' = IF job.round + 1 < FinalizeRounds
                      THEN [job EXCEPT !.round = @ + 1, !.pc = "watermark"]
                      ELSE Stopped("stopped")
            /\ UNCHANGED meta
    /\ UNCHANGED <<now, spots, rawRows, snr, seasonSnr, folded, jobRestarts>>

\* A read, a refold or the finalizing transaction fails: the run ends.
SnrFail ==
    /\ job.pc \in {"start", "read", "cover", "write", "watermark", "refold"}
    /\ job' = Stopped("stopped")
    /\ UNCHANGED <<now, spots, rawRows, snr, seasonSnr, folded, meta, jobRestarts>>

\* The next start of the process.
SnrRestart ==
    /\ jobRestarts < SnrMaxRestarts
    /\ jobRestarts' = jobRestarts + 1
    /\ job' = Stopped("start")
    /\ UNCHANGED <<now, spots, rawRows, snr, seasonSnr, folded, meta>>

SnrInit ==
    /\ now = SnrCutoff
    /\ spots = Before
    /\ rawRows = DOMAIN Before
    /\ snr = [d \in RowDays |-> NoAgg]
    /\ seasonSnr = [d \in RowDays |-> NoAgg]
    /\ folded = DeployDay - 2
    /\ meta = [since |-> DeployDay + 1, done |-> FALSE, partialDone |-> FALSE, progress |-> -1]
    /\ job = Stopped("start")
    /\ jobRestarts = 0

SnrJobStep ==
    \/ SnrStart \/ ReadWindow \/ Recheck
    \/ NextBatch \/ WriteBatch \/ WriteBatchUnacked \/ LockTimeout
    \/ ReadWatermark \/ RefoldDay \/ Finalize \/ SnrFail

SnrNext ==
    \/ \E t \in now - SnrMaxLate .. now, k \in RowKeys : LiveSpot(t, k)
    \/ SnrFoldDay
    \/ \E i \in rawRows : PruneRaw(i)
    \/ SnrTick
    \/ SnrJobStep
    \/ SnrRestart

SnrSpec == SnrInit /\ [][SnrNext]_snrVars

(***************************************************************************)
(* Properties.                                                             *)
(***************************************************************************)
\* "counters ADDed to the live ones, exactly once", "counters SET, so a re-run
\* is idempotent": however often the job is retried, resumed or cut off after
\* a commit, no spot is in the SNR counters of its row twice.
SnrNeverTwice ==
    \A d \in RowDays, k \in RowKeys : snr[d][k] <= Cardinality(SpotsOf(d, k))

\* The since-day the Almanac shows: every folded day from it on has the SNR of
\* all its spots in the seasonal record, although the fold ticker, the raw
\* prune and the job's failures came in between.
SinceIsHonest ==
    \A d \in RowDays, k \in RowKeys :
        meta.since <= d /\ d <= folded => seasonSnr[d][k] = Cardinality(SpotsOf(d, k))

=============================================================================
