---------------------------- MODULE AlmanacLanes ---------------------------
(***************************************************************************)
(* How the Almanac turns counts into what it shows (cmd/horstreporter,     *)
(* almanac.go, almanac_season.go, chooseAlmanacRadius): the accumulator    *)
(* over the folded record and the daily tail, the ingest-alive rule,       *)
(* "opened N of M days" per slot, the widening radius, the usual windows   *)
(* of the agenda, and the month of the drill-down.                         *)
(*                                                                         *)
(* Pure functions: a behaviour takes one input and computes.  One band,    *)
(* the region asked for and another one; a cell of the input (day, slot)   *)
(* holds at most one count.  Days are indices into the window, its last    *)
(* one is yesterday; day WinDays is today.                                 *)
(***************************************************************************)
EXTENDS Integers, Sequences, FiniteSets, FiniteSetsExt

CONSTANTS
    Slots,          \* almanacSlotsPerDay
    WinDays,        \* almanacWindowDays
    Radii,          \* 0 .. almanacMaxWidenRadius
    MMinFull,       \* almanacMinActiveDays30
    MMinFloor,      \* almanacPreliminaryMinActiveDays
    OpenMin,        \* almanacOpenMinSpotsPSKR
    WidenMinSlots,  \* almanacWidenMinKnownSlots
    BridgeSlots,    \* almanacAgendaBridgeSlots
    RoundSlots,     \* slots of the day the windows are looked for in
    LookAhead,      \* almanacAgendaLookAheadSlots
    CellValues,     \* what a cell may hold: [lv, reg, n, ge]
    IngestValues,   \* what the ingest total of a (day, slot) may be: [slot]
    LaneSpans       \* (watermark, SNR start or -1 for no floor) pairs

NoCell == [lv |-> 0, reg |-> "none", n |-> 0, ge |-> 0]
WinDay == 0 .. WinDays - 1
Slot == 0 .. Slots - 1
Cells == (WinDay \X Slot) \cup {<<WinDays, 0>>}

ASSUME LaneConstants ==
    /\ {Slots, WinDays, RoundSlots, OpenMin, MMinFull} \subseteq Nat \ {0}
    /\ {MMinFloor, WidenMinSlots} \subseteq Nat
    /\ {BridgeSlots, LookAhead} \subseteq 0 .. RoundSlots - 1
    /\ Radii \subseteq Nat
    /\ NoCell \in CellValues /\ \A v \in CellValues : {v.lv, v.n, v.ge} \subseteq Nat
    /\ \A p \in LaneSpans : {p[1], p[2]} \subseteq Int

VARIABLES lane, round   \* the two computations: their input, then their result

laneVars == <<lane, round>>

(***************************************************************************)
(* The accumulator.                                                        *)
(***************************************************************************)
\* What the transaction reads: a folded day is in the record, and still in
\* the daily table until the prune.
StoreRows(in) ==
    LET row(c, src) == [src |-> src, day |-> c[1], slot |-> c[2], v |-> in.cells[c]]
        filled == {c \in Cells : in.cells[c] # NoCell}
    IN {row(c, "tail") : c \in filled} \cup {row(c, "season") : c \in {x \in filled : x[1] <= in.wm}}

\* addSeasonRow takes days up to W, addTailRow later ones.
Accepted(in, r) ==
    \/ r.src = "season" /\ r.day <= in.wm /\ r.day < WinDays
    \/ r.src = "tail" /\ r.day > in.wm

RowsAt(in, radius, d, s) ==
    {r \in StoreRows(in) : Accepted(in, r) /\ r.day = d /\ r.slot = s /\ r.v.lv <= radius}
CountAt(in, radius, d, s) == MapThenSumSet(LAMBDA r : r.v.n, {r \in RowsAt(in, radius, d, s) : r.v.reg = "R"})
GeAt(in, radius, d, s) == MapThenSumSet(LAMBDA r : r.v.ge, {r \in RowsAt(in, radius, d, s) : r.v.reg = "R"})
ActAt(in, radius, d, s) == RowsAt(in, radius, d, s) # {}

(***************************************************************************)
(* The cell rule.                                                          *)
(***************************************************************************)
\* almanacAliveMedian, twice over: the sum of the two middle values.
MiddleSum(vals) ==
    LET n == Cardinality(DOMAIN vals)
        kth(k) == CHOOSE v \in {vals[i] : i \in DOMAIN vals} :
                      /\ Cardinality({i \in DOMAIN vals : vals[i] < v}) <= k
                      /\ k < Cardinality({i \in DOMAIN vals : vals[i] <= v})
    IN kth((n - 1) \div 2) + kth(n \div 2)

\* almanacIsAlive: a total, and at least a tenth of the slot's median.
Alive(in, d, s) ==
    /\ d \notin in.lost /\ in.ingest[d][s] > 0
    /\ 20 * in.ingest[d][s] >= MiddleSum([x \in WinDay |-> in.ingest[x][s]])

\* almanacActiveOrNext: in the slot or the next one; the next of the last slot
\* is the first of the next day.
ActiveOrNext(in, radius, d, s) ==
    \/ ActAt(in, radius, d, s)
    \/ IF s + 1 < Slots THEN ActAt(in, radius, d, s + 1) ELSE ActAt(in, radius, d + 1, 0)

\* activeSlotDays: the days of slot s that count toward M.
ActiveDays(in, radius, s) == {d \in WinDay : Alive(in, d, s) /\ ActiveOrNext(in, radius, d, s)}

(***************************************************************************)
(* SNR floor.                                                              *)
(***************************************************************************)
Floored(in) == in.since >= 0
snrKnown(in, d) == d >= in.since

\* snrCoveredDays: known, and alive in at least half of its slots.
snrCoveredDays(in) ==
    Cardinality({d \in WinDay : snrKnown(in, d) /\ Cardinality({s \in Slot : Alive(in, d, s)}) >= Slots \div 2})

almanacEffectiveMMin(full, covered) == Min({full, Max({MMinFloor, covered})})
mMin(in) == IF Floored(in) THEN almanacEffectiveMMin(MMinFull, snrCoveredDays(in)) ELSE MMinFull

(***************************************************************************)
(* Radius and lanes.                                                       *)
(***************************************************************************)
\* Mutant: a slot is known when the band was active at any time of the day.
knownSlotCountsAnyTime(in, radius) ==
    Cardinality({s \in Slot : Cardinality({d \in WinDay : \E x \in Slot : ActAt(in, radius, d, x)}) >= MMinFull})

\* knownSlotCounts: at the full M_min, whatever the floor.
knownSlotCounts(in, radius) == Cardinality({s \in Slot : Cardinality(ActiveDays(in, radius, s)) >= MMinFull})

\* chooseAlmanacRadius: the smallest radius with enough known slots, else the
\* largest.
chooseAlmanacRadius(in) ==
    LET enough == {r \in Radii : knownSlotCounts(in, r) >= WidenMinSlots}
    IN IF enough = {} THEN Max(Radii) ELSE Min(enough)

\* cells: the lane of the region at the radius.
MDays(in, radius, s) == {d \in ActiveDays(in, radius, s) : Floored(in) => snrKnown(in, d)}
OpenDays(in, radius, s) ==
    {d \in MDays(in, radius, s) :
        (IF Floored(in) THEN GeAt(in, radius, d, s) ELSE CountAt(in, radius, d, s)) >= OpenMin}

computeAlmanacTypical(in) ==
    LET r == chooseAlmanacRadius(in) IN
    [radius |-> r, mMin |-> mMin(in),
     n |-> [s \in Slot |-> Cardinality(OpenDays(in, r, s))],
     m |-> [s \in Slot |-> Cardinality(MDays(in, r, s))]]

\* The month of the drill-down at the same radius: the same days as one
\* month, read through yesterday (today's slots are not looked at).
\* Mutant: the first slot of the next day is not looked at.
SeasonActiveSameDay(in, radius, d, s) ==
    ActAt(in, radius, d, s) \/ (s + 1 < Slots /\ ActAt(in, radius, d, s + 1))

\* The day after the last one of the month is the first of the next month.
SeasonActive(in, radius, d, s) ==
    \/ ActAt(in, radius, d, s)
    \/ IF s + 1 < Slots THEN ActAt(in, radius, d, s + 1) ELSE d + 1 < WinDays /\ ActAt(in, radius, d + 1, 0)
SeasonDays(in, radius, s) ==
    {d \in WinDay : /\ Floored(in) => snrKnown(in, d)
                    /\ Alive(in, d, s) /\ SeasonActive(in, radius, d, s)}

\* compute
computeSeason(in, radius) ==
    LET days(s) == SeasonDays(in, radius, s)
        open(d, s) == IF Floored(in) THEN GeAt(in, radius, d, s) ELSE CountAt(in, radius, d, s)
    IN [m |-> [s \in Slot |-> Cardinality(days(s))],
        n |-> [s \in Slot |-> Cardinality({d \in days(s) : open(d, s) >= OpenMin})],
        days |-> Cardinality(UNION {days(s) : s \in Slot})]

ComputeLane ==
    /\ lane.in # <<>> /\ lane.out = <<>>
    /\ LET typ == computeAlmanacTypical(lane.in)
       IN lane' = [lane EXCEPT !.out = <<typ, computeSeason(lane.in, typ.radius)>>]
    /\ UNCHANGED round

(***************************************************************************)
(* The usual windows on the circular day (almanacUsualWindows): the gaps   *)
(* of u that are short are bridged, then the runs are listed from the      *)
(* first slot after one that is not usual.                                 *)
(***************************************************************************)
RSlot == 0 .. RoundSlots - 1
Back(s) == (s + RoundSlots - 1) % RoundSlots

\* The length of the run of slots in b from s on.
RunFrom(b, s) ==
    Max({n \in 0 .. RoundSlots : \A i \in 0 .. n - 1 : (s + i) % RoundSlots \in b})

\* Mutant: a gap is bridged only when it does not cross midnight.
BridgedWithinDay(u) ==
    u \cup UNION {s .. s + RunFrom(RSlot \ u, s) - 1 :
                    s \in {x \in RSlot \ u : Back(x) \in u /\ RunFrom(RSlot \ u, x) <= BridgeSlots
                                               /\ x + RunFrom(RSlot \ u, x) < RoundSlots}}

Bridged(u) ==
    LET gaps == {s \in RSlot \ u : Back(s) \in u}
        len(s) == RunFrom(RSlot \ u, s)
    IN u \cup UNION {{(s + i) % RoundSlots : i \in 0 .. len(s) - 1} : s \in {x \in gaps : len(x) <= BridgeSlots}}

almanacUsualWindows(u) ==
    LET b == Bridged(u) IN
    IF u = {} THEN {}
    ELSE IF b = RSlot THEN {[start |-> 0, len |-> RoundSlots]}
    ELSE {[start |-> s, len |-> RunFrom(b, s)] : s \in {x \in b : Back(x) \notin b}}

\* almanacAgendaEntryFor, almanacAgenda: the windows that contain the slot now,
\* and those that start within the look-ahead.
contains(w, s) == (s - w.start + RoundSlots) % RoundSlots < w.len
almanacAgendaEntryFor(w, nowSlot) ==
    [w |-> w, ongoing |-> contains(w, nowSlot),
     startsIn |-> IF contains(w, nowSlot) THEN 0 ELSE (w.start - nowSlot + RoundSlots) % RoundSlots]
almanacAgenda(u, nowSlot) ==
    {e \in {almanacAgendaEntryFor(w, nowSlot) : w \in almanacUsualWindows(u)} :
        e.ongoing \/ e.startsIn <= LookAhead}

ComputeWindows ==
    /\ lane.in = <<>> /\ round.out = <<>>
    /\ round' = [round EXCEPT !.out = <<almanacUsualWindows(round.u), almanacAgenda(round.u, round.now)>>]
    /\ UNCHANGED lane

\* One of the two: an input of the lanes, or one of the windows.
LaneInputs ==
    [cells : [Cells -> CellValues], ingest : [WinDay -> {i \in [Slot -> UNION {IngestValues[s] : s \in Slot}] :
                                                          \A s \in Slot : i[s] \in IngestValues[s]}],
     lost : {{}, {0}}, span : LaneSpans]
WithSpan(x) == [cells |-> x.cells, ingest |-> x.ingest, lost |-> x.lost,
                wm |-> x.span[1], since |-> x.span[2]]
NoLane == [in |-> <<>>, out |-> <<>>]
NoRound == [u |-> {}, now |-> 0, out |-> <<>>]

LaneInit ==
    \/ /\ \E x \in LaneInputs : lane = [in |-> WithSpan(x), out |-> <<>>]
       /\ round = NoRound
    \/ /\ \E u \in SUBSET RSlot, s \in RSlot : round = [u |-> u, now |-> s, out |-> <<>>]
       /\ lane = NoLane

LaneNext == ComputeLane \/ ComputeWindows
LaneSpec == LaneInit /\ [][LaneNext]_laneVars

(***************************************************************************)
(* Properties.                                                             *)
(***************************************************************************)
LaneDone == lane.out # <<>>
Typ == lane.out[1]

\* "the radius is picked on what the panel can actually display": at the radius
\* that knownSlotCounts chose, the lanes that cells() computes show enough
\* slots, or nothing wider would; a day that is both in the record and in the
\* daily table is counted once.
PanelKeepsRadiusPromise ==
    LaneDone /\ ~Floored(lane.in) =>
        /\ \/ Cardinality({s \in Slot : Typ.m[s] >= MMinFull}) >= WidenMinSlots
           \/ Typ.radius = Max(Radii)
        /\ \A s \in Slot : Typ.n[s] =
             Cardinality({d \in MDays(lane.in, Typ.radius, s) :
                 lane.in.cells[<<d, s>>].reg = "R" /\ lane.in.cells[<<d, s>>].lv <= Typ.radius
                     /\ lane.in.cells[<<d, s>>].n >= OpenMin})

\* "Cell rule per layer (same as the 30-day view, per calendar month)": over
\* the same days the drill-down shows the panel's N and M, except where the
\* last slot of yesterday was active only through the first slot of today.
SeasonAgreesWithPanel ==
    LaneDone =>
        LET todayOnly(s) == {d \in MDays(lane.in, Typ.radius, s) \ SeasonDays(lane.in, Typ.radius, s) :
                               d = WinDays - 1 /\ s = Slots - 1}
        IN \A s \in Slot :
            /\ lane.out[2].m[s] + Cardinality(todayOnly(s)) = Typ.m[s]
            /\ lane.out[2].n[s] = Typ.n[s]

\* The windows are the maximal runs of slots that are usual or lie in a gap of
\* at most BridgeSlots, around midnight, too: every such slot is in exactly one
\* window, no other slot is, and windows do not touch.  The agenda has one
\* ongoing entry when the slot now is such a slot, and names the windows of the
\* slots that come up within the look-ahead.
UsualWindowsExact ==
    round.out # <<>> =>
        LET in(w) == {(w.start + i) % RoundSlots : i \in 0 .. w.len - 1}
            shortGap(s) == \E a, z \in 1 .. BridgeSlots :
                /\ (s + RoundSlots - a) % RoundSlots \in round.u /\ (s + z) % RoundSlots \in round.u
                /\ a + z - 1 <= BridgeSlots
            shown == round.u \cup {s \in RSlot : shortGap(s)}
        IN /\ UNION {in(w) : w \in round.out[1]} = shown
           /\ \A w \in round.out[1] : w.len < RoundSlots =>
                 Back(w.start) \notin shown /\ (w.start + w.len) % RoundSlots \notin shown
           /\ \A v, w \in round.out[1] : v # w => in(v) \cap in(w) = {}
           /\ Cardinality({e \in round.out[2] : e.ongoing}) = (IF round.now \in shown THEN 1 ELSE 0)
           /\ \A i \in 0 .. LookAhead : (round.now + i) % RoundSlots \in shown =>
                 \E e \in round.out[2] : (round.now + i) % RoundSlots \in in(e.w)
=============================================================================
