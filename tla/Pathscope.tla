------------------------------ MODULE Pathscope ------------------------------
(***************************************************************************)
(* pathscope (cmd/pathscope, internal/pathscope): the glance matrix and    *)
(* its stream.  A ticker reads the database in four queries, scores the    *)
(* matrix and broadcasts it; every stream handler subscribes first, builds *)
(* a first matrix of its own with the same four queries, and then forwards *)
(* what the hub puts in its channel.  The hub delivers from a snapshot of  *)
(* its clients without its lock, drops what does not fit, and a channel    *)
(* may be closed under it.                                                 *)
(*                                                                         *)
(* One cell (band, region) stands for the matrix, with two of its modes.   *)
(* Scores are in tenths, probabilities and confidences in percent.         *)
(***************************************************************************)
EXTENDS Integers, Sequences, FiniteSets, FiniteSetsExt
LOCAL INSTANCE SequencesExt     \* FoldLeft

CONSTANTS
    PsClients,      \* browsers
    PsRates,        \* live FT8 spots a window may hold
    PsSnrs,         \* median FT8 reports, in dB; 0 for none
    PsMeans,        \* historical means of the rate; 0 for no history
    PsKps, PsSfis,  \* samples of Kp and of the solar flux
    PsBuffer,       \* capacity of a client's channel
    PsMaxWrites, PsMaxFails, PsMaxConnects      \* bounds

ASSUME PsConstants ==
    /\ PsRates \cup PsMeans \cup PsKps \cup PsSfis \subseteq Nat /\ PsSnrs \subseteq Int
    /\ PsBuffer \in Nat \ {0} /\ {PsMaxWrites, PsMaxFails, PsMaxConnects} \subseteq Nat

VARIABLES
    psDb,       \* dx_raw_spots, proplab_cell_buckets, and in sw the rows of
                \* proplab_sw_series in the look-back, in order of observation
    psTick,     \* the scoring loop: [at, read, left, glance]
    psCl,       \* per browser: [at, read, member, chan, shown]
    psUsed      \* [writes, fails, connects] used up

psVars == <<psDb, psTick, psCl, psUsed>>

PsModes == {"FT8", "CW"}
NoRead == [step |-> 0, rate |-> 0, snr |-> 0, mean |-> 0]
NoWeather == [kp |-> 0, sfi |-> 0]
NoGlance == [score |-> 0, prob |-> 0, conf |-> 0, workable |-> {}, samples |-> 0]

(***************************************************************************)
(* The scoring engine (internal/pathscope/score.go).                       *)
(***************************************************************************)
PsClamp(v, lo, hi) == IF v < lo THEN lo ELSE IF v > hi THEN hi ELSE v

\* ModeSNRThresholdDB
Threshold == [FT8 |-> -24, CW |-> -15]

\* 1 / (1 + exp(-x)), of x in tenths, sampled at whole numbers.
Logistic(x) ==
    CASE x < -20 -> 5 [] x \in -20..-11 -> 12 [] x \in -10..-1 -> 27 [] x \in 0..9 -> 50
      [] x \in 10..19 -> 73 [] x \in 20..29 -> 88 [] OTHER -> 95

zScore(live, mean, stddev) ==
    IF stddev <= 0 \/ (live <= 0 /\ mean <= 0) THEN 0 ELSE (10 * (live - mean)) \div stddev

\* An unknown SNR reads as zero, which is "don't know" here ...
modeConfidence(snr, m) ==
    IF snr = 0 THEN 50 ELSE Logistic((10 * (snr - Threshold[m])) \div 6)

\* ... and workable here.
isWorkable(snr, m) == snr >= Threshold[m]

\* cBandLift of a 10 m cell, and stormPenalty; a zero reads as a quiet sun.
cBandLift(sfi) == 85 + (40 * PsClamp(sfi - 70, 0, 130)) \div 130
stormPenalty(kp) == IF kp <= 5 THEN 100 ELSE PsClamp(100 - ((kp - 5) * 100) \div 8, 50, 100)
solarModifier(sc) == (cBandLift(sc.sfi) * stormPenalty(sc.kp)) \div 100

\* ScoreCell: the history of the cell has the standard deviation of its mean;
\* FT8 carries the live rate, CW has neither spots nor reports.
ScoreCell(read, sc) ==
    LET z == PsClamp(zScore(read.rate, read.mean, read.mean), -30, 60)
        snr == [FT8 |-> read.snr, CW |-> 0]
        conf == (modeConfidence(snr["FT8"], "FT8") + modeConfidence(snr["CW"], "CW")) \div 2
    IN  [score |-> z, conf |-> conf, samples |-> read.mean,
         workable |-> {m \in PsModes : isWorkable(snr[m], m)},
         prob |-> PsClamp(((50 + ((Logistic(z) - 50) * conf) \div 100) * solarModifier(sc)) \div 100, 0, 100)]

\* One row of SolarContext's loop: one older than ObservedAt is passed over, but
\* ObservedAt is set only after the loop, so none is.
ObservedAt == 0
ScanRow(sc, i) == IF i < ObservedAt THEN sc ELSE [sc EXCEPT ![psDb.sw[i].series] = psDb.sw[i].value]

\* SolarContext: the query orders the rows in no way, so any order of the scan
\* may be had; a series without a row stays zero.
SolarContext ==
    LET n == Len(psDb.sw)
        orders == {o \in [1..n -> 1..n] : \A i, j \in 1..n : o[i] = o[j] => i = j}
    IN  {FoldLeft(ScanRow, NoWeather, o) : o \in orders}

(***************************************************************************)
(* buildGlance: four queries, each of which may fail; without space        *)
(* weather the matrix is built all the same.                               *)
(***************************************************************************)
\* The next query of a build that has not finished.
Query(read) ==
    CASE read.step = 0 -> [read EXCEPT !.step = 1, !.rate = psDb.rate]
      [] read.step = 1 -> [read EXCEPT !.step = 2, !.snr = psDb.snr]
      [] read.step = 2 -> [read EXCEPT !.step = 3, !.mean = psDb.mean]

\* What the last query completes: the matrix g, with a solar context or, when
\* that query fails, without one.
Completes(read, g) ==
    \/ (\E sc \in SolarContext : g = ScoreCell(read, sc)) /\ UNCHANGED psUsed
    \/ /\ psUsed.fails < PsMaxFails /\ g = ScoreCell(read, NoWeather)
       /\ psUsed' = [psUsed EXCEPT !.fails = @ + 1]

Glances(read) == {ScoreCell(read, sc) : sc \in SolarContext \cup {NoWeather}}

(***************************************************************************)
(* The hub.                                                                *)
(***************************************************************************)
Members == {c \in PsClients : psCl[c].member}

Subscribe(cl) == [cl EXCEPT !.member = TRUE, !.chan = <<>>]
\* Removes the client and closes its channel; what it holds is never read.
Unsubscribe(cl) == [cl EXCEPT !.member = FALSE, !.chan = <<>>]

\* Mutant: a client whose channel is full is taken off the hub.
safeSendEvicts(cl, g) ==
    CASE ~cl.member -> cl
      [] cl.member /\ Len(cl.chan) = PsBuffer -> [cl EXCEPT !.member = FALSE]
      [] OTHER -> [cl EXCEPT !.chan = Append(@, g)]

\* safeSend: a closed channel is recovered from, a full one drops the new matrix.
safeSend(cl, g) ==
    IF cl.member /\ Len(cl.chan) < PsBuffer THEN [cl EXCEPT !.chan = Append(@, g)] ELSE cl

(***************************************************************************)
(* The scoring loop.                                                       *)
(***************************************************************************)
PsTicks ==
    /\ psTick.at = "idle"
    /\ psTick' = [psTick EXCEPT !.at = "build", !.read = NoRead]
    /\ UNCHANGED <<psDb, psCl, psUsed>>

TickQuery ==
    /\ psTick.at = "build" /\ psTick.read.step < 3
    /\ psTick' = [psTick EXCEPT !.read = Query(@)]
    /\ UNCHANGED <<psDb, psCl, psUsed>>

\* A failed query skips the tick.
TickFails ==
    /\ psTick.at = "build" /\ psTick.read.step < 3 /\ psUsed.fails < PsMaxFails
    /\ psUsed' = [psUsed EXCEPT !.fails = @ + 1]
    /\ psTick' = [psTick EXCEPT !.at = "idle", !.read = NoRead]
    /\ UNCHANGED <<psDb, psCl>>

\* Broadcast takes a snapshot of the clients ...
Broadcast ==
    /\ psTick.at = "build" /\ psTick.read.step = 3
    /\ \E g \in Glances(psTick.read) :
         /\ Completes(psTick.read, g)
         /\ psTick' = [at |-> "send", read |-> NoRead, left |-> Members, glance |-> g]
    /\ UNCHANGED <<psDb, psCl>>

\* ... and delivers to one after the other, in any order, without the lock.
BroadcastTo(c) ==
    /\ psTick.at = "send" /\ c \in psTick.left
    /\ psCl' = [psCl EXCEPT ![c] = safeSend(@, psTick.glance)]
    /\ psTick' = [psTick EXCEPT !.left = @ \ {c}]
    /\ UNCHANGED <<psDb, psUsed>>

BroadcastDone ==
    /\ psTick.at = "send" /\ psTick.left = {}
    /\ psTick' = [psTick EXCEPT !.at = "idle", !.glance = NoGlance]
    /\ UNCHANGED <<psDb, psCl, psUsed>>

(***************************************************************************)
(* handleStream.                                                           *)
(***************************************************************************)
StreamOpens(c) ==
    /\ psCl[c].at = "off" /\ psUsed.connects < PsMaxConnects
    /\ psCl' = [psCl EXCEPT ![c] = [Subscribe(@) EXCEPT !.at = "build", !.read = NoRead]]
    /\ psUsed' = [psUsed EXCEPT !.connects = @ + 1]
    /\ UNCHANGED <<psDb, psTick>>

StreamQuery(c) ==
    /\ psCl[c].at = "build" /\ psCl[c].read.step < 3
    /\ psCl' = [psCl EXCEPT ![c].read = Query(@)]
    /\ UNCHANGED <<psDb, psTick, psUsed>>

\* The first matrix is written before anything of the channel.
StreamInitial(c) ==
    /\ psCl[c].at = "build" /\ psCl[c].read.step = 3
    /\ \E g \in Glances(psCl[c].read) :
         /\ Completes(psCl[c].read, g)
         /\ psCl' = [psCl EXCEPT ![c].at = "live", ![c].read = NoRead, ![c].shown = g]
    /\ UNCHANGED <<psDb, psTick>>

StreamForward(c) ==
    /\ psCl[c].at = "live" /\ psCl[c].chan # <<>>
    /\ psCl' = [psCl EXCEPT ![c].shown = Head(psCl[c].chan), ![c].chan = Tail(@)]
    /\ UNCHANGED <<psDb, psTick, psUsed>>

\* The first build fails (server_error), or the browser goes away.
StreamFails(c) ==
    /\ psCl[c].at = "build" /\ psCl[c].read.step < 3 /\ psUsed.fails < PsMaxFails
    /\ psUsed' = [psUsed EXCEPT !.fails = @ + 1]
    /\ psCl' = [psCl EXCEPT ![c] = [Unsubscribe(@) EXCEPT !.at = "off", !.read = NoRead]]
    /\ UNCHANGED <<psDb, psTick>>

StreamCloses(c) ==
    /\ psCl[c].at = "live"
    /\ psCl' = [psCl EXCEPT ![c] = [Unsubscribe(@) EXCEPT !.at = "off", !.shown = NoGlance]]
    /\ UNCHANGED <<psDb, psTick, psUsed>>

\* HorstReporter and the space-weather ingest write, and samples grow old.
DbWrites(db) ==
    /\ psUsed.writes < PsMaxWrites /\ db # psDb
    /\ psDb' = db
    /\ psUsed' = [psUsed EXCEPT !.writes = @ + 1]
    /\ UNCHANGED <<psTick, psCl>>

PsWrites ==
    {[psDb EXCEPT !.rate = r] : r \in PsRates} \cup {[psDb EXCEPT !.snr = s] : s \in PsSnrs}
    \cup {[psDb EXCEPT !.mean = m] : m \in PsMeans}
    \cup {[psDb EXCEPT !.sw = Append(@, [series |-> "kp", value |-> k])] : k \in PsKps}
    \cup {[psDb EXCEPT !.sw = Append(@, [series |-> "sfi", value |-> f])] : f \in PsSfis}
    \cup (IF psDb.sw = <<>> THEN {} ELSE {[psDb EXCEPT !.sw = Tail(@)]})

PsInit ==
    /\ psDb = [rate |-> 0, snr |-> 0, mean |-> 0, sw |-> <<>>]
    /\ psTick = [at |-> "idle", read |-> NoRead, left |-> {}, glance |-> NoGlance]
    /\ psCl = [c \in PsClients |->
                [at |-> "off", read |-> NoRead, member |-> FALSE, chan |-> <<>>, shown |-> NoGlance]]
    /\ psUsed = [writes |-> 0, fails |-> 0, connects |-> 0]

PsLoop == PsTicks \/ TickQuery \/ Broadcast \/ (\E c \in PsClients : BroadcastTo(c)) \/ BroadcastDone

PsHandler(c) == StreamQuery(c) \/ StreamInitial(c) \/ StreamForward(c)

PsNext ==
    \/ PsLoop
    \/ TickFails
    \/ \E c \in PsClients :
         \/ PsHandler(c)
         \/ StreamOpens(c)
         \/ StreamFails(c)
         \/ StreamCloses(c)
    \/ \E db \in PsWrites : DbWrites(db)

\* The ticker keeps running and every handler's goroutine is scheduled; the
\* database fails only so often.
PsFairness == WF_psVars(PsLoop) /\ \A c \in PsClients : WF_psVars(PsHandler(c))

PsSpec == PsInit /\ [][PsNext]_psVars /\ PsFairness

(***************************************************************************)
(* Properties.                                                             *)
(***************************************************************************)
\* The matrices the code makes of the present rates, reports and history.  Of
\* the space weather that is, by SolarContext, any sample of the look-back and
\* not only the latest: LatestSampleWins is about that.
Current ==
    {ScoreCell([step |-> 3, rate |-> psDb.rate, snr |-> psDb.snr, mean |-> psDb.mean], sc) :
        sc \in SolarContext}

\* "missing one event is invisible to the user as long as the next one
\* arrives", "the user sees a slightly stale matrix catch up": a browser that
\* stays connected sooner or later shows the matrix of the present rates,
\* reports and history, in one of the space weathers of the look-back, whatever
\* was dropped while its channel was full, whatever was delivered while its
\* first matrix was being built, and whatever queries failed.
StreamCatchesUp ==
    \A c \in PsClients : psCl[c].at = "live" ~> (psCl[c].at = "off" \/ psCl[c].shown \in Current)

\* The newest sample of a series in the look-back, or zero.
Latest(series) ==
    LET rows == {i \in DOMAIN psDb.sw : psDb.sw[i].series = series}
    IN  IF rows = {} THEN 0 ELSE psDb.sw[Max(rows)].value

\* "Only the most recent sample wins": in whatever order the database returns
\* the rows, the solar context holds the newest sample of each series.  The
\* loop does not see to it.
LatestSampleWins == SolarContext = {[kp |-> Latest("kp"), sfi |-> Latest("sfi")]}

=============================================================================
