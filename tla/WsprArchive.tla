---------------------------- MODULE WsprArchive ----------------------------
(***************************************************************************)
(* The backfill of the WSPR layer from the wspr.live archive               *)
(* (cmd/horstreporter, almanac_wspr_backfill.go): per area and complete    *)
(* month, newest first, two queries per day, a day split into hours when   *)
(* its query times out or answers too much, paced and with backoff; a      *)
(* month is committed in one transaction.  Requests fail, the third        *)
(* failure in a row aborts, the disk fills, a commit loses its answer, the *)
(* process restarts, with other areas configured.                          *)
(*                                                                         *)
(* One goroutine and its limiter: a request with its wait is one step.     *)
(* Bands, slots and SNR histograms are left out of a counter's key: a      *)
(* counter stands for a (grid, day).                                       *)
(***************************************************************************)
EXTENDS WsprRecord, Sequences, SequencesExt

CONSTANTS
    MonthList,      \* almanacWSPRBackfillMonths: newest first
    AreaLists,      \* values of -almanac-wspr-backfill-areas
    Hours,          \* hours per day
    MaxFailures,    \* almanacWSPRMaxConsecutiveFailures
    Minute,         \* the rolling minute, in ticks
    Pause,          \* almanacWSPRPauseAfterRequest
    MaxPerMinute,   \* almanacWSPRMaxPerMinute
    BackoffBase,    \* almanacWSPRBackoffBase
    RequestTicks,   \* how long a request may take
    WsprMaxRestarts \* bound

ASSUME WsprArchiveConstants ==
    /\ IsFiniteSet(DaysOfMonth) /\ DaysOfMonth = 1 .. Cardinality(DaysOfMonth) /\ 1 \in DaysOfMonth
    /\ \A s \in Archive : s.hour \in 1 .. Hours
    /\ MonthList \in Seq(Months) /\ ToSet(MonthList) = Months /\ AreaLists \subseteq Seq(WsprAreas)
    /\ {Hours, MaxFailures, MaxPerMinute} \subseteq Nat \ {0}
    /\ {Minute, Pause, BackoffBase, WsprMaxRestarts} \subseteq Nat /\ RequestTicks \subseteq Nat

VARIABLES
    runner,         \* almanacWSPRBackfill.run, fetchMonth, fetchWindow, request
    limiter,        \* starts and lastDone, as ages (a start a minute old is forgotten)
    wsprRestarts

wsprVars == <<layer, ingestSlots, monthDone, ingestDone, runner, limiter, wsprRestarts>>

Area == runner.areas[runner.area]
Month == MonthList[runner.month]

(***************************************************************************)
(* almanacWSPRLimiter.                                                     *)
(***************************************************************************)
NewLimiter == [starts |-> <<>>, lastDone |-> Pause]

\* After t: starts a minute old are dropped from the front, up to the first
\* that is younger.
Older(ages, t) ==
    LET aged == [i \in DOMAIN ages |-> ages[i] + t]
        old == {i \in DOMAIN aged : \A j \in 1 .. i : aged[j] >= Minute}
    IN SubSeq(aged, Cardinality(old) + 1, Len(aged))

\* Mutant: after the pause the rolling minute is not looked at.
waitPauseOnly(l) == Max({0, Pause - l.lastDone})

\* wait: the pause since the last request's end, then until fewer than
\* MaxPerMinute starts lie within the last minute.
wait(l) ==
    LET pause == Max({0, Pause - l.lastDone})
        held == Older(l.starts, pause)
    IN IF Len(held) < MaxPerMinute THEN pause
       ELSE pause + Minute - held[Len(held) - MaxPerMinute + 1]

\* wait, the request itself (dur) and done.
Paced(l, dur) ==
    [starts |-> Older(Append(Older(l.starts, wait(l)), 0), dur), lastDone |-> 0]

Slept(l, t) == [starts |-> Older(l.starts, t), lastDone |-> Min({Pause, l.lastDone + t})]

(***************************************************************************)
(* The month accumulator.                                                  *)
(***************************************************************************)
NewMonth(withIngest) ==
    [withIngest |-> withIngest,
     counts |-> [g \in Grids |-> [d \in DaysOfMonth |-> 0]],
     ingest |-> [d \in DaysOfMonth |-> 0]]

\* The rows of a query: the spots of a day, or of one of its hours.
RingRows(a, ym, d, hours) ==
    {s \in Archive : s.ym = ym /\ s.day = d /\ s.hour \in hours /\ {s.rx, s.tx} \cap RingOf[a] # {}}
GlobalRows(ym, d, hours) ==
    {s \in Archive : s.ym = ym /\ s.day = d /\ s.hour \in hours /\ {s.rx, s.tx} \cap NoLocator = {}}

\* addRing, emit: how many of the rows count for the near end g.
addRing(g, rows) ==
    Cardinality({s \in rows : s.rx = g /\ s.tx \notin NoRegion})
        + Cardinality({s \in rows : s.tx = g /\ s.tx # s.rx /\ s.rx \notin NoRegion})

\* satAdd8
satAdd8(x, n) == Min({CountMax, x + n})

\* A window's rows are added to the accumulator when the window is complete.
Added(acc) ==
    IF runner.query = "ring"
    THEN [acc EXCEPT !.counts = [g \in Grids |->
            IF g \in RingOf[Area]
            THEN [acc.counts[g] EXCEPT ![runner.day] = satAdd8(@, addRing(g, runner.rows))]
            ELSE acc.counts[g]]]
    ELSE [acc EXCEPT !.ingest[runner.day] = @ + 2 * Cardinality(runner.rows)]

(***************************************************************************)
(* run.                                                                    *)
(***************************************************************************)
Idle(areas, pc) ==
    [areas |-> areas, pc |-> pc, area |-> 1, month |-> 1, day |-> 1, query |-> "ring",
     hour |-> 0, rows |-> {}, acc |-> NewMonth(FALSE), failures |-> 0]
Return == Idle(runner.areas, "returned")

\* The disk is probed before the first month.
WsprStart(diskOver) ==
    /\ runner.pc = "start"
    /\ runner' = IF diskOver THEN Return ELSE [runner EXCEPT !.pc = "month"]
    /\ UNCHANGED <<recordVars, limiter, wsprRestarts>>

\* The next (area, month): done ones are skipped, the disk is probed again.
NextMonth(diskOver) ==
    /\ runner.pc = "month"
    /\ runner' =
         CASE runner.area > Len(runner.areas) -> Return
           [] runner.area <= Len(runner.areas) /\ runner.month > Len(MonthList) ->
                [runner EXCEPT !.area = @ + 1, !.month = 1]
           [] OTHER ->
                IF <<Area, Month>> \in monthDone THEN [runner EXCEPT !.month = @ + 1]
                ELSE IF diskOver THEN Return
                ELSE [runner EXCEPT !.pc = "fetch", !.acc = NewMonth(Month \notin ingestDone),
                                    !.day = 1, !.query = "ring", !.hour = 0, !.rows = {}]
    /\ UNCHANGED <<recordVars, limiter, wsprRestarts>>

\* The window under way: hour 0 is the whole day.
WindowHours == IF runner.hour = 0 THEN 1 .. Hours ELSE {runner.hour}
WindowRows ==
    IF runner.query = "ring" THEN RingRows(Area, Month, runner.day, WindowHours)
    ELSE GlobalRows(Month, runner.day, WindowHours)

\* fetchMonth after a complete window: the global count of the day, the next
\* day, or the commit.
AfterWindow(r) ==
    LET next == [r EXCEPT !.hour = 0, !.rows = {}] IN
    IF r.query = "ring" /\ r.acc.withIngest THEN [next EXCEPT !.query = "global"]
    ELSE IF r.day < Cardinality(DaysOfMonth)
    THEN [next EXCEPT !.query = "ring", !.day = @ + 1]
    ELSE [next EXCEPT !.pc = "commit"]

\* request answers: the rows join those of the window's earlier hours.
RequestOk(dur) ==
    /\ runner.pc = "fetch"
    /\ limiter' = Paced(limiter, dur)
    /\ LET got == runner.rows \cup WindowRows IN
       IF runner.hour \in {0, Hours}
       THEN runner' = [runner EXCEPT !.failures = 0, !.rows = got, !.pc = "window"]
       ELSE runner' = [runner EXCEPT !.failures = 0, !.rows = got, !.hour = @ + 1]
    /\ UNCHANGED <<recordVars, wsprRestarts>>

\* fetchMonth adds the window's rows and goes on.
AddWindow ==
    /\ runner.pc = "window"
    /\ runner' = AfterWindow([runner EXCEPT !.acc = Added(@), !.pc = "fetch"])
    /\ UNCHANGED <<recordVars, limiter, wsprRestarts>>

\* A timeout or an oversized answer for a whole day: its hours are asked for,
\* and nothing is counted as a failure.
RequestSplit(dur) ==
    /\ runner.pc = "fetch" /\ runner.hour = 0
    /\ limiter' = Paced(limiter, dur)
    /\ runner' = [runner EXCEPT !.hour = 1]
    /\ UNCHANGED <<recordVars, wsprRestarts>>

\* The delay doubles with every failure in a row.
Backoff(failures) == BackoffBase * 2^(failures - 1)

\* Any other failure, and a splittable one of an hour: backoff, or abort.
RequestFail(dur) ==
    LET failures == runner.failures + 1 IN
    /\ runner.pc = "fetch"
    /\ IF failures >= MaxFailures
       THEN runner' = Return /\ limiter' = Paced(limiter, dur)
       ELSE /\ runner' = [runner EXCEPT !.failures = failures]
            /\ limiter' = Slept(Paced(limiter, dur), Backoff(failures))
    /\ UNCHANGED <<recordVars, wsprRestarts>>

(***************************************************************************)
(* commitMonth.                                                            *)
(***************************************************************************)
\* Mutant: only the area's own grid is replaced.
deleteRingOwn(a) == {a}

\* The grids whose rows the transaction replaces.
deleteRing(a) == RingOf[a]

commitMonth ==
    /\ layer' = [layer EXCEPT ![Month] = [g \in Grids |->
                    IF g \in deleteRing(Area) THEN runner.acc.counts[g]
                    \* CopyFrom inserts beside whatever was not deleted
                    ELSE [d \in DaysOfMonth |-> @[g][d] + runner.acc.counts[g][d]]]]
    /\ IF runner.acc.withIngest
       THEN /\ ingestSlots' = [ingestSlots EXCEPT ![Month] = runner.acc.ingest]
            /\ ingestDone' = ingestDone \cup {Month}
       ELSE UNCHANGED <<ingestSlots, ingestDone>>
    /\ monthDone' = monthDone \cup {<<Area, Month>>}

WsprCommit ==
    /\ runner.pc = "commit"
    /\ commitMonth
    /\ runner' = [runner EXCEPT !.pc = "month", !.month = @ + 1]
    /\ UNCHANGED <<limiter, wsprRestarts>>

\* The transaction commits and its answer is lost.
WsprCommitUnacked ==
    /\ runner.pc = "commit"
    /\ commitMonth
    /\ runner' = Return
    /\ UNCHANGED <<limiter, wsprRestarts>>

\* A statement on the database fails: run returns.
WsprDbFail ==
    /\ runner.pc \in {"month", "commit"}
    /\ runner' = Return
    /\ UNCHANGED <<recordVars, limiter, wsprRestarts>>

\* The next process: startAlmanacWSPRBackfill with the areas of its flag.
WsprRestart(areas) ==
    /\ wsprRestarts < WsprMaxRestarts
    /\ wsprRestarts' = wsprRestarts + 1
    /\ runner' = Idle(areas, "start")
    /\ limiter' = NewLimiter
    /\ UNCHANGED recordVars

WsprInit ==
    /\ RecordInit
    /\ \E areas \in AreaLists : runner = Idle(areas, "start")
    /\ limiter = NewLimiter
    /\ wsprRestarts = 0

WsprNext ==
    \/ \E diskOver \in BOOLEAN : WsprStart(diskOver) \/ NextMonth(diskOver)
    \/ \E dur \in RequestTicks : RequestOk(dur) \/ RequestSplit(dur) \/ RequestFail(dur)
    \/ AddWindow
    \/ WsprCommit \/ WsprCommitUnacked \/ WsprDbFail
    \/ \E areas \in AreaLists : WsprRestart(areas)

WsprSpec == WsprInit /\ [][WsprNext]_wsprVars

(***************************************************************************)
(* Properties.                                                             *)
(***************************************************************************)
\* The abstract record, on the same tables.
Record == INSTANCE WsprRecord WITH
    layer <- layer, ingestSlots <- ingestSlots, monthDone <- monthDone, ingestDone <- ingestDone

\* "A month commits in one transaction ... replace, never add": through splits,
\* retries, aborts, lost answers, restarts and areas whose rings overlap, the
\* tables only ever change by a whole month that says what the archive says.
WsprImplementsRecord == Record!RecordSpec

\* "caps backfill requests in any rolling minute": whatever the requests take
\* and however they are retried, split and backed off, no more than
\* MaxPerMinute starts of a process lie within one minute.
WsprPaced == Len(limiter.starts) <= MaxPerMinute
=============================================================================
