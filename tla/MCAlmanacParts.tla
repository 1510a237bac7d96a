--------------------------- MODULE MCAlmanacParts ---------------------------
(***************************************************************************)
(* The Almanac beside its fold, for TLC: the SNR backfill, the WSPR        *)
(* archive, the read path's caches, the lanes of the panel and the rows of *)
(* the season table.  A behaviour of one is explored with the others at    *)
(* rest in one of their initial states: part names the one that runs.      *)
(***************************************************************************)
EXTENDS SnrBackfill, WsprArchive, AlmanacCache, AlmanacLanes, SparseRow

VARIABLE part

vars == <<snrVars, wsprVars, acVars, laneVars, rowVars, part>>

\* SNR backfill: two full days and the morning of the deploy day.
MCBefore == << <<0, 1>>, <<1, 2>>, <<2, 1>>, <<4, 1>>, <<4, 2>> >>

\* WSPR archive: two areas whose rings share the grid X; spots within a grid,
\* within a ring, between the rings, to a far grid, to a grid outside every
\* region, without a locator; three of one counter (CountMax 2).
MCRingOf == [a \in {"A", "B"} |-> {a, "X"}]
Spot(ym, day, hour, rx, tx, id) ==
    [ym |-> ym, day |-> day, hour |-> hour, rx |-> rx, tx |-> tx, id |-> id]
MCArchive ==
    {Spot(2, 1, 1, "X", "X", 1), Spot(2, 1, 2, "A", "X", 2), Spot(2, 1, 2, "B", "F", 3),
     Spot(2, 1, 1, "F", "none", 4), Spot(1, 1, 1, "A", "sea", 5), Spot(1, 1, 1, "A", "F", 6),
     Spot(1, 1, 2, "B", "A", 7), Spot(1, 1, 2, "X", "A", 8), Spot(1, 1, 2, "X", "none", 9)}
MCMonths == <<2, 1>>
MCAreaLists == {<<"A", "B">>, <<"B">>}

\* Caches: the radius grows by the fold.
MCRadiusAt == [w \in {0, 1} |-> 1 - w]

\* Lanes: a cell of another region, one too quiet to be open, one of the ring.
Cell(lv, reg, n, ge) == [lv |-> lv, reg |-> reg, n |-> n, ge |-> ge]
MCCellValues == {NoCell, Cell(0, "other", 1, 0), Cell(0, "R", 1, 1), Cell(1, "R", 2, 1)}
MCIngest == [s \in {0, 1} |-> IF s = 0 THEN {0, 1, 30} ELSE {5}]
MCSpans == {<<-1, -1>>, <<0, -1>>, <<0, 1>>}

\* Rows: without and with a histogram, more than one byte of a varint.
MCCells == {Zero, [count |-> 1, hist |-> <<0, 0>>], [count |-> 2, hist |-> <<0, 1>>], [count |-> 3, hist |-> <<2, 1>>]}

Init ==
    /\ part \in {"snr", "wspr", "cache", "lanes", "rows"}
    /\ SnrInit
    /\ WsprInit /\ (part # "wspr" => runner.areas = <<"B">>)
    /\ AcInit /\ (part # "cache" => fold.mem = 0 /\ lru = <<>>)
    /\ IF part = "lanes" THEN LaneInit ELSE lane = NoLane /\ round = NoRound
    /\ IF part = "rows" THEN RowInit ELSE row = [p \in Pos |-> Zero] /\ bytes = <<>> /\ phase = "given"

SnrRuns == part = "snr" /\ SnrNext /\ UNCHANGED <<wsprVars, acVars, laneVars, rowVars, part>>
WsprRuns == part = "wspr" /\ WsprNext /\ UNCHANGED <<snrVars, acVars, laneVars, rowVars, part>>
CacheRuns == part = "cache" /\ AcNext /\ UNCHANGED <<snrVars, wsprVars, laneVars, rowVars, part>>
LanesRun == part = "lanes" /\ LaneNext /\ UNCHANGED <<snrVars, wsprVars, acVars, rowVars, part>>
RowsRun == part = "rows" /\ RowNext /\ UNCHANGED <<snrVars, wsprVars, acVars, laneVars, part>>

Next == SnrRuns \/ WsprRuns \/ CacheRuns \/ LanesRun \/ RowsRun

Spec == Init /\ [][Next]_vars

MCRequestSymmetry == Permutations(Requests)
=============================================================================
