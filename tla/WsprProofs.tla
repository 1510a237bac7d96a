------------------------------ MODULE WsprProofs -----------------------------
(***************************************************************************)
(* Proofs about the WSPR side.  The backfill implements the abstract       *)
(* record, for every archive, set of areas with overlapping rings, list of *)
(* months, limit of failures and pace: the tables change only by a whole   *)
(* month that says what the archive says.  The climatology neither loses a *)
(* spot unnoticed nor counts one twice between observation and the table,  *)
(* for every set of cells, days, readers and refreshes and every cap, time *)
(* to live and bound; and its cached statistics never go back.             *)
(***************************************************************************)
EXTENDS WsprArchive, WsprClimate, FiniteSetTheorems, SequenceTheorems, TLAPS

\* The counts of a month, and its worldwide totals.
MonthCounts == [Grids -> [DaysOfMonth -> Int]]
MonthTotals == [DaysOfMonth -> Int]

\* The locals of the backfill goroutine.
RunnerType ==
    [areas : AreaLists, pc : {"start", "month", "fetch", "window", "commit", "returned"},
     area : Nat \ {0}, month : Nat \ {0}, day : DaysOfMonth, query : {"ring", "global"},
     hour : 0 .. Hours, rows : SUBSET Archive,
     acc : [withIngest : BOOLEAN, counts : MonthCounts, ingest : MonthTotals],
     failures : Nat]

\* A month is under way.
Working == runner.pc \in {"fetch", "window", "commit"}

\* The tables, and what a month marked done holds.
TablesInv ==
    /\ layer \in [Months -> MonthCounts]
    /\ ingestSlots \in [Months -> MonthTotals]
    /\ \A ym \in Months : ym \in ingestDone =>
          \A d \in DaysOfMonth : ingestSlots[ym][d] = ArchiveIngest(ym, d)

\* The month under way is one of the lists', not done, and is counted
\* worldwide exactly when nobody did before.
MonthInv ==
    Working =>
        /\ runner.area <= Len(runner.areas) /\ runner.month <= Len(MonthList)
        /\ <<Area, Month>> \notin monthDone
        /\ runner.acc.withIngest <=> Month \notin ingestDone
        /\ runner.query = "global" => runner.acc.withIngest

\* The days whose ring query, and whose worldwide one, has been added.
RingDone(d) == d < runner.day \/ runner.pc = "commit" \/ (d = runner.day /\ runner.query = "global")
GlobalDone(d) == d < runner.day \/ runner.pc = "commit"

\* The accumulator holds what the archive says of those days and nothing else.
AccInv ==
    Working =>
        /\ \A g \in Grids, d \in DaysOfMonth :
              runner.acc.counts[g][d] =
                  IF g \in RingOf[Area] /\ RingDone(d) THEN ArchiveCount(Month, g, d) ELSE 0
        /\ \A d \in DaysOfMonth :
              runner.acc.ingest[d] =
                  IF runner.acc.withIngest /\ GlobalDone(d) THEN ArchiveIngest(Month, d) ELSE 0

\* The rows of the current query within some hours of the day.
RowsOf(hours) ==
    IF runner.query = "ring" THEN RingRows(Area, Month, runner.day, hours)
    ELSE GlobalRows(Month, runner.day, hours)

\* The rows fetched so far are those of the hours before the next one.
RowsInv ==
    /\ runner.pc = "fetch" =>
          runner.rows = IF runner.hour = 0 THEN {} ELSE RowsOf(1 .. runner.hour - 1)
    /\ runner.pc = "window" => runner.rows = RowsOf(1 .. Hours)

\* The inductive invariant.
WsprInv == runner \in RunnerType /\ TablesInv /\ MonthInv /\ AccInv /\ RowsInv

-----------------------------------------------------------------------------

\* The number of days of a month.
LEMMA DaysFacts ==
  /\ Cardinality(DaysOfMonth) \in Nat
  /\ DaysOfMonth = 1 .. Cardinality(DaysOfMonth) /\ 1 \in DaysOfMonth /\ DaysOfMonth \subseteq Int
<1>1. Cardinality(DaysOfMonth) \in Nat
  BY WsprArchiveConstants, FS_CardinalityType
<1>2. QED
  BY <1>1, WsprArchiveConstants

\* A month of the list and an area of the flag are what they should be.
LEMMA PlaceFacts ==
  ASSUME runner \in RunnerType, runner.area <= Len(runner.areas), runner.month <= Len(MonthList)
  PROVE  Area \in WsprAreas /\ Month \in Months /\ RingOf[Area] \subseteq Grids
<1>1. runner.areas \in Seq(WsprAreas) /\ MonthList \in Seq(Months)
  BY WsprArchiveConstants DEF RunnerType
<1>2. Len(runner.areas) \in Nat /\ Len(MonthList) \in Nat
  BY <1>1, LenProperties
<1>3. runner.area \in 1 .. Len(runner.areas) /\ runner.month \in 1 .. Len(MonthList)
  BY <1>2 DEF RunnerType
<1>4. Area \in WsprAreas /\ Month \in Months
  BY <1>1, <1>3, ElementOfSeq DEF Area, Month
<1>5. QED
  BY <1>4 DEF Grids

\* Every set of spots of the archive has a size.
LEMMA SpotsFinite == \A T \in SUBSET Archive : IsFiniteSet(T) /\ Cardinality(T) \in Nat
  BY WsprRecordConstants, FS_Subset, FS_CardinalityType

\* emit counts a spot once for each of its near ends: for a grid of the ring
\* the rows of a whole day give what the archive says, a spot within the grid
\* once.
LEMMA RingCount ==
  ASSUME NEW a \in WsprAreas, NEW ym, NEW d, NEW g \in RingOf[a]
  PROVE  addRing(g, RingRows(a, ym, d, 1 .. Hours)) = Cardinality(Heard(ym, g, d))
<1> DEFINE rows == RingRows(a, ym, d, 1 .. Hours)
           A == {s \in rows : s.rx = g /\ s.tx \notin NoRegion}
           B == {s \in rows : s.tx = g /\ s.tx # s.rx /\ s.rx \notin NoRegion}
<1>1. A \cup B = Heard(ym, g, d)
  BY WsprArchiveConstants DEF RingRows, Heard
<1>2. A \cap B = {}
  OBVIOUS
<1>3. A \in SUBSET Archive /\ B \in SUBSET Archive
  BY DEF RingRows
<1> HIDE DEF A, B, rows
<1>4. IsFiniteSet(A) /\ IsFiniteSet(B) /\ Cardinality(A) \in Nat /\ Cardinality(B) \in Nat
  BY <1>3, SpotsFinite
<1>5. Cardinality(A \cup B) = Cardinality(A) + Cardinality(B) - Cardinality(A \cap B)
  BY <1>4, FS_Union
<1>6. Cardinality(A \cap B) = 0
  BY <1>2, FS_EmptySet
<1>7. Cardinality(A \cup B) = Cardinality(A) + Cardinality(B)
  BY <1>4, <1>5, <1>6
<1>8. QED
  BY <1>1, <1>7 DEF addRing, A, B, rows

\* The worldwide rows of a whole day give the day's total.
LEMMA GlobalCount ==
  ASSUME NEW ym, NEW d
  PROVE  2 * Cardinality(GlobalRows(ym, d, 1 .. Hours)) = ArchiveIngest(ym, d)
<1>1. GlobalRows(ym, d, 1 .. Hours) =
        {s \in Archive : s.ym = ym /\ s.day = d /\ {s.rx, s.tx} \cap NoLocator = {}}
  BY WsprArchiveConstants DEF GlobalRows
<1>2. QED
  BY <1>1 DEF ArchiveIngest

\* Counts and totals of the archive are integers, and the counter saturates
\* to the same value from either side.
LEMMA CountFacts ==
  ASSUME NEW ym, NEW d
  PROVE  /\ ArchiveIngest(ym, d) \in Int
         /\ \A g : ArchiveCount(ym, g, d) \in Int
         /\ \A g : satAdd8(0, Cardinality(Heard(ym, g, d))) = ArchiveCount(ym, g, d)
<1>1. ArchiveIngest(ym, d) \in Int
  <2>1. {s \in Archive : s.ym = ym /\ s.day = d /\ {s.rx, s.tx} \cap NoLocator = {}} \in SUBSET Archive
    OBVIOUS
  <2>2. QED
    BY <2>1, SpotsFinite DEF ArchiveIngest
<1>2. ASSUME NEW g
      PROVE  ArchiveCount(ym, g, d) \in Int /\ satAdd8(0, Cardinality(Heard(ym, g, d))) = ArchiveCount(ym, g, d)
  <2>1. Heard(ym, g, d) \in SUBSET Archive
    BY DEF Heard
  <2>2. Cardinality(Heard(ym, g, d)) \in Nat
    BY <2>1, SpotsFinite
  <2>3. \A n \in Nat : Min({CountMax, n}) \in Int
    <3>1. SUFFICES ASSUME NEW n \in Nat PROVE Min({CountMax, n}) \in Int
      OBVIOUS
    <3>2. CountMax \in Nat
      BY WsprRecordConstants
    <3>3. \E x \in {CountMax, n} : \A y \in {CountMax, n} : x <= y
      BY <3>2
    <3>4. Min({CountMax, n}) \in {CountMax, n}
      BY <3>3 DEF Min
    <3>5. QED
      BY <3>2, <3>4
  <2>4. 0 + Cardinality(Heard(ym, g, d)) = Cardinality(Heard(ym, g, d))
    BY <2>2
  <2>5. QED
    BY <2>2, <2>3, <2>4 DEF ArchiveCount, satAdd8
<1>3. QED
  BY <1>1, <1>2

\* Asking hour by hour gives the rows of the day.
LEMMA HourRows ==
  ASSUME NEW h \in 1 .. Hours
  PROVE  /\ RowsOf(1 .. h - 1) \cup RowsOf({h}) = RowsOf(1 .. h)
         /\ RowsOf(1 .. 0) = {}
<1>1. 1 .. h = (1 .. h - 1) \cup {h} /\ 1 .. 0 = {}
  BY WsprArchiveConstants
<1>2. RowsOf(1 .. h - 1) \cup RowsOf({h}) = RowsOf((1 .. h - 1) \cup {h})
  BY DEF RowsOf, RingRows, GlobalRows
<1>3. RowsOf({}) = {}
  BY DEF RowsOf, RingRows, GlobalRows
<1>4. QED
  BY <1>1, <1>2, <1>3

-----------------------------------------------------------------------------

\* A runner that has not begun or has returned.
LEMMA IdleType ==
  ASSUME NEW areas \in AreaLists, NEW pc \in {"start", "returned"}
  PROVE  Idle(areas, pc) \in RunnerType /\ Idle(areas, pc).pc = pc
<1>1. NewMonth(FALSE) \in [withIngest : BOOLEAN, counts : MonthCounts, ingest : MonthTotals]
  BY DEF NewMonth, MonthCounts, MonthTotals
<1>2. 1 \in DaysOfMonth /\ 0 \in 0 .. Hours
  BY WsprArchiveConstants
<1>3. Idle(areas, pc).pc = pc
  BY DEF Idle
<1>4. pc \in {"start", "month", "fetch", "window", "commit", "returned"} /\ {} \in SUBSET Archive
      /\ 1 \in Nat \ {0} /\ 0 \in Nat /\ "ring" \in {"ring", "global"}
  OBVIOUS
<1>5. Idle(areas, pc) \in RunnerType
  BY <1>1, <1>2, <1>4, Zenon DEF Idle, RunnerType
<1>6. QED
  BY <1>3, <1>5

\* Between two months only the tables matter.
LEMMA AtRest ==
  ASSUME TablesInv, UNCHANGED recordVars, runner' \in RunnerType,
         runner'.pc \in {"start", "month", "returned"}
  PROVE  WsprInv'
<1>1. TablesInv'
  BY DEF TablesInv, recordVars
<1>2. ~Working' /\ runner'.pc # "fetch" /\ runner'.pc # "window"
  BY DEF Working
<1>3. QED
  BY <1>1, <1>2 DEF WsprInv, MonthInv, AccInv, RowsInv

\* Returning leaves a runner that does nothing.
LEMMA Returns ==
  ASSUME runner \in RunnerType, TablesInv, UNCHANGED recordVars, runner' = Return
  PROVE  WsprInv'
<1>1. runner.areas \in AreaLists
  BY DEF RunnerType
<1>2. runner' \in RunnerType /\ runner'.pc = "returned"
  BY <1>1, IdleType DEF Return
<1>3. QED
  BY <1>2, AtRest

\* A request changes neither the month nor what was added of it.
LEMMA SameMonth ==
  ASSUME WsprInv, UNCHANGED recordVars, runner.pc = "fetch", runner' \in RunnerType,
         runner'.pc \in {"fetch", "window"},
         runner'.areas = runner.areas, runner'.area = runner.area, runner'.month = runner.month,
         runner'.day = runner.day, runner'.query = runner.query, runner'.acc = runner.acc
  PROVE  /\ TablesInv' /\ MonthInv' /\ AccInv'
         /\ \A hours : RowsOf(hours)' = RowsOf(hours)
<1>1. Area' = Area /\ Month' = Month
  BY DEF Area, Month
<1>2. TablesInv'
  BY DEF WsprInv, TablesInv, recordVars
<1>3. MonthInv'
  BY <1>1 DEF WsprInv, MonthInv, Working, recordVars
<1>4. \A d : (RingDone(d)' <=> RingDone(d)) /\ (GlobalDone(d)' <=> GlobalDone(d))
  BY DEF RingDone, GlobalDone
<1>5. AccInv'
  BY <1>1, <1>4 DEF WsprInv, AccInv, Working
<1>6. ASSUME NEW hours PROVE RowsOf(hours)' = RowsOf(hours)
  BY <1>1 DEF RowsOf
<1>7. QED
  BY <1>2, <1>3, <1>5, <1>6

\* A commit replaces the ring's grids by what the archive says, and is the
\* abstract step.
LEMMA CommitIsRecord ==
  ASSUME WsprInv, runner.pc = "commit", commitMonth
  PROVE  /\ CommitMonth(Area, Month) /\ Area \in WsprAreas /\ Month \in Months
         /\ TablesInv'
<1>1. /\ runner \in RunnerType /\ TablesInv /\ Area \in WsprAreas /\ Month \in Months
      /\ RingOf[Area] \subseteq Grids /\ <<Area, Month>> \notin monthDone
      /\ runner.acc.withIngest <=> Month \notin ingestDone
  BY PlaceFacts DEF WsprInv, MonthInv, Working
<1> DEFINE a == Area
           ym == Month
           acc == runner.acc
<1>2. /\ \A g \in Grids, d \in DaysOfMonth :
            acc.counts[g][d] = IF g \in RingOf[a] THEN ArchiveCount(ym, g, d) ELSE 0
      /\ \A d \in DaysOfMonth : acc.ingest[d] = IF acc.withIngest THEN ArchiveIngest(ym, d) ELSE 0
      /\ acc.counts \in MonthCounts /\ acc.ingest \in MonthTotals
  <2>1. \A d : RingDone(d) /\ GlobalDone(d)
    BY DEF RingDone, GlobalDone
  <2>2. QED
    BY <1>1, <2>1 DEF WsprInv, AccInv, Working, RunnerType
<1> HIDE DEF acc
<1>3. layer' = [layer EXCEPT ![ym] = [g \in Grids |->
                  IF g \in RingOf[a] THEN [d \in DaysOfMonth |-> ArchiveCount(ym, g, d)] ELSE @[g]]]
  <2> DEFINE new == [g \in Grids |-> IF g \in RingOf[a] THEN acc.counts[g]
                       ELSE [d \in DaysOfMonth |-> layer[ym][g][d] + acc.counts[g][d]]]
             want == [g \in Grids |-> IF g \in RingOf[a] THEN [d \in DaysOfMonth |-> ArchiveCount(ym, g, d)]
                       ELSE layer[ym][g]]
  <2>1. layer' = [layer EXCEPT ![ym] = new]
    BY <1>1 DEF commitMonth, deleteRing, TablesInv, acc
  <2>2. ASSUME NEW g \in Grids PROVE new[g] = want[g]
    <3>1. acc.counts[g] \in [DaysOfMonth -> Int] /\ layer[ym][g] \in [DaysOfMonth -> Int]
      BY <1>1, <1>2 DEF MonthCounts, TablesInv
    <3>2. CASE g \in RingOf[a]
      <4>1. acc.counts[g] = [d \in DaysOfMonth |-> ArchiveCount(ym, g, d)]
        BY <1>2, <3>1, <3>2
      <4>2. QED
        BY <3>2, <4>1
    <3>3. CASE g \notin RingOf[a]
      <4>1. \A d \in DaysOfMonth : acc.counts[g][d] = 0 /\ layer[ym][g][d] + acc.counts[g][d] = layer[ym][g][d]
        BY <1>2, <3>1, <3>3
      <4>2. [d \in DaysOfMonth |-> layer[ym][g][d] + acc.counts[g][d]] = layer[ym][g]
        BY <3>1, <4>1
      <4>3. QED
        BY <3>3, <4>2
    <3>4. QED
      BY <3>2, <3>3
  <2>3. new = want
    BY <2>2
  <2>4. QED
    BY <1>1, <2>1, <2>3 DEF TablesInv
<1>4. ingestSlots' = [ingestSlots EXCEPT ![ym] = [d \in DaysOfMonth |-> ArchiveIngest(ym, d)]]
      /\ ingestDone' = ingestDone \cup {ym}
  <2>1. ingestSlots \in [Months -> MonthTotals]
    BY <1>1 DEF TablesInv
  <2>2. CASE acc.withIngest
    <3>1. acc.ingest = [d \in DaysOfMonth |-> ArchiveIngest(ym, d)]
      BY <1>2, <2>2 DEF MonthTotals
    <3>2. QED
      BY <2>2, <3>1 DEF commitMonth, acc
  <2>3. CASE ~acc.withIngest
    <3>1. ym \in ingestDone /\ ingestSlots' = ingestSlots /\ ingestDone' = ingestDone
      BY <1>1, <2>3 DEF commitMonth, acc
    <3>2. ingestSlots[ym] = [d \in DaysOfMonth |-> ArchiveIngest(ym, d)]
      <4>1. ingestSlots[ym] \in [DaysOfMonth -> Int]
        BY <1>1, <2>1 DEF MonthTotals
      <4>2. \A d \in DaysOfMonth : ingestSlots[ym][d] = ArchiveIngest(ym, d)
        BY <1>1, <3>1 DEF TablesInv
      <4>3. QED
        BY <4>1, <4>2
    <3>3. QED
      BY <1>1, <2>1, <3>1, <3>2
  <2>4. QED
    BY <2>2, <2>3
<1>5. CommitMonth(Area, Month)
  BY <1>1, <1>3, <1>4 DEF CommitMonth, commitMonth
<1>6. TablesInv'
  <2>1. layer' \in [Months -> MonthCounts]
    <3>1. ASSUME NEW g \in Grids
          PROVE  (IF g \in RingOf[a] THEN [d \in DaysOfMonth |-> ArchiveCount(ym, g, d)]
                  ELSE layer[ym][g]) \in [DaysOfMonth -> Int]
      BY <1>1, CountFacts DEF TablesInv, MonthCounts
    <3>2. [g \in Grids |-> IF g \in RingOf[a] THEN [d \in DaysOfMonth |-> ArchiveCount(ym, g, d)]
             ELSE layer[ym][g]] \in MonthCounts
      BY <3>1 DEF MonthCounts
    <3>3. QED
      BY <1>1, <1>3, <3>2 DEF TablesInv
  <2>2. [d \in DaysOfMonth |-> ArchiveIngest(ym, d)] \in MonthTotals
    BY CountFacts DEF MonthTotals
  <2>3. ingestSlots' \in [Months -> MonthTotals]
    BY <1>1, <1>4, <2>2 DEF TablesInv
  <2>4. ASSUME NEW m \in Months, m \in ingestDone', NEW d \in DaysOfMonth
        PROVE  ingestSlots'[m][d] = ArchiveIngest(m, d)
    BY <1>1, <1>4, <2>4 DEF TablesInv
  <2>5. QED
    BY <2>1, <2>3, <2>4 DEF TablesInv
<1>7. QED
  BY <1>1, <1>5, <1>6

-----------------------------------------------------------------------------

\* A complete window adds its day, and only its day, to the accumulator.
LEMMA AddedFacts ==
  ASSUME WsprInv, runner.pc = "window"
  PROVE  /\ Added(runner.acc) \in [withIngest : BOOLEAN, counts : MonthCounts, ingest : MonthTotals]
         /\ Added(runner.acc).withIngest = runner.acc.withIngest
         /\ \A g \in Grids, d \in DaysOfMonth : Added(runner.acc).counts[g][d] =
               IF g \in RingOf[Area] /\ d <= runner.day THEN ArchiveCount(Month, g, d) ELSE 0
         /\ \A d \in DaysOfMonth : Added(runner.acc).ingest[d] =
               IF runner.acc.withIngest /\ (d < runner.day \/ (d = runner.day /\ runner.query = "global"))
               THEN ArchiveIngest(Month, d) ELSE 0
<1> DEFINE acc == runner.acc
           day == runner.day
<1>1. /\ runner \in RunnerType /\ Area \in WsprAreas /\ Month \in Months
      /\ RingOf[Area] \subseteq Grids /\ (runner.query = "global" => acc.withIngest)
  BY PlaceFacts DEF WsprInv, MonthInv, Working
<1>2. /\ acc.counts \in MonthCounts /\ acc.ingest \in MonthTotals /\ acc.withIngest \in BOOLEAN
      /\ acc \in [withIngest : BOOLEAN, counts : MonthCounts, ingest : MonthTotals]
      /\ day \in DaysOfMonth /\ DaysOfMonth \subseteq Int /\ runner.query \in {"ring", "global"}
  BY <1>1, DaysFacts DEF RunnerType
<1>3. /\ \A g \in Grids, d \in DaysOfMonth : acc.counts[g][d] =
            IF g \in RingOf[Area] /\ (d < day \/ (d = day /\ runner.query = "global"))
            THEN ArchiveCount(Month, g, d) ELSE 0
      /\ \A d \in DaysOfMonth : acc.ingest[d] =
            IF acc.withIngest /\ d < day THEN ArchiveIngest(Month, d) ELSE 0
  BY DEF WsprInv, AccInv, Working, RingDone, GlobalDone
<1>4. runner.rows = RowsOf(1 .. Hours)
  BY DEF WsprInv, RowsInv
<1> HIDE DEF acc, day
<1>b. day \in Int /\ ~(day < day)
  BY <1>2
<1>5. CASE runner.query = "ring"
  <2> DEFINE new == [g \in Grids |-> IF g \in RingOf[Area]
                       THEN [acc.counts[g] EXCEPT ![day] = satAdd8(@, addRing(g, runner.rows))]
                       ELSE acc.counts[g]]
  <2>1. Added(acc) = [acc EXCEPT !.counts = new]
    BY <1>5 DEF Added, day
  <2>2. ASSUME NEW g \in Grids
        PROVE  new[g] \in [DaysOfMonth -> Int] /\ \A d \in DaysOfMonth :
                  new[g][d] = IF g \in RingOf[Area] /\ d <= day THEN ArchiveCount(Month, g, d) ELSE 0
    <3>1. acc.counts[g] \in [DaysOfMonth -> Int]
      BY <1>2 DEF MonthCounts
    <3>2. CASE g \in RingOf[Area]
      <4>1. addRing(g, runner.rows) = Cardinality(Heard(Month, g, day))
        BY <1>1, <1>4, <1>5, <3>2, RingCount DEF RowsOf, day
      <4>2. acc.counts[g][day] = 0
        <5>1. ~(day < day \/ (day = day /\ runner.query = "global"))
          BY <1>5, <1>b
        <5>2. QED
          BY <1>2, <1>3, <5>1
      <4>3. satAdd8(acc.counts[g][day], addRing(g, runner.rows)) = ArchiveCount(Month, g, day)
            /\ ArchiveCount(Month, g, day) \in Int
        BY <4>1, <4>2, CountFacts
      <4>4. new[g] = [acc.counts[g] EXCEPT ![day] = ArchiveCount(Month, g, day)]
        BY <3>2, <4>3
      <4>5. new[g] \in [DaysOfMonth -> Int] /\ new[g][day] = ArchiveCount(Month, g, day)
            /\ \A d \in DaysOfMonth : d # day => new[g][d] = acc.counts[g][d]
        BY <1>2, <3>1, <4>3, <4>4
      <4>6. \A d \in DaysOfMonth : d # day =>
               acc.counts[g][d] = IF d < day THEN ArchiveCount(Month, g, d) ELSE 0
        BY <1>3, <3>2
      <4>7. \A d \in DaysOfMonth : d # day => (d < day <=> d <= day)
        BY <1>2, <1>b
      <4>8. day <= day
        BY <1>b
      <4>9. QED
        BY <3>2, <4>5, <4>6, <4>7, <4>8
    <3>3. CASE g \notin RingOf[Area]
      BY <1>2, <1>3, <3>1, <3>3
    <3>4. QED
      BY <3>2, <3>3
  <2>3. new \in MonthCounts
    BY <2>2 DEF MonthCounts
  <2> HIDE DEF new
  <2>4. /\ Added(acc).counts = new /\ Added(acc).ingest = acc.ingest
        /\ Added(acc).withIngest = acc.withIngest
        /\ Added(acc) \in [withIngest : BOOLEAN, counts : MonthCounts, ingest : MonthTotals]
    BY <1>2, <2>1, <2>3
  <2>5. QED
    BY <1>3, <1>5, <2>2, <2>4 DEF acc, day
<1>6. CASE runner.query = "global"
  <2>1. Added(acc) = [acc EXCEPT !.ingest[day] = @ + 2 * Cardinality(runner.rows)]
    BY <1>6 DEF Added, day
  <2>2. 2 * Cardinality(runner.rows) = ArchiveIngest(Month, day) /\ ArchiveIngest(Month, day) \in Int
    BY <1>4, <1>6, GlobalCount, CountFacts DEF RowsOf, day
  <2>3. acc.ingest[day] = 0 /\ acc.withIngest
    <3>1. acc.withIngest
      BY <1>1, <1>6 DEF acc
    <3>2. acc.ingest[day] = 0
      BY <1>2, <1>3, <1>b
    <3>3. QED
      BY <3>1, <3>2
  <2> DEFINE new == [acc.ingest EXCEPT ![day] = ArchiveIngest(Month, day)]
  <2>4. Added(acc) = [acc EXCEPT !.ingest = new]
    <3>1. acc.ingest[day] + 2 * Cardinality(runner.rows) = ArchiveIngest(Month, day)
      BY <2>2, <2>3
    <3>2. QED
      BY <2>1, <3>1
  <2>5. new \in MonthTotals /\ \A d \in DaysOfMonth :
           new[d] = IF d <= day THEN ArchiveIngest(Month, d) ELSE 0
    <3>1. new \in MonthTotals /\ new[day] = ArchiveIngest(Month, day)
          /\ \A d \in DaysOfMonth : d # day => new[d] = acc.ingest[d]
      BY <1>2, <2>2 DEF MonthTotals
    <3>2. \A d \in DaysOfMonth : acc.ingest[d] = IF d < day THEN ArchiveIngest(Month, d) ELSE 0
      BY <1>3, <2>3
    <3>3. \A d \in DaysOfMonth : d # day => (d < day <=> d <= day)
      BY <1>2, <1>b
    <3>4. day <= day
      BY <1>b
    <3>5. QED
      BY <3>1, <3>2, <3>3, <3>4
  <2> HIDE DEF new
  <2>6. /\ Added(acc).ingest = new /\ Added(acc).counts = acc.counts
        /\ Added(acc).withIngest = acc.withIngest
        /\ Added(acc) \in [withIngest : BOOLEAN, counts : MonthCounts, ingest : MonthTotals]
    BY <1>2, <2>4, <2>5
  <2>7. \A d \in DaysOfMonth : (d < day \/ d = day) <=> d <= day
    BY <1>2, <1>b
  <2>8. \A g \in Grids, d \in DaysOfMonth : Added(acc).counts[g][d] =
           IF g \in RingOf[Area] /\ d <= day THEN ArchiveCount(Month, g, d) ELSE 0
    BY <1>3, <1>6, <2>6, <2>7
  <2>9. \A d \in DaysOfMonth : Added(acc).ingest[d] =
           IF acc.withIngest /\ (d < day \/ (d = day /\ runner.query = "global"))
           THEN ArchiveIngest(Month, d) ELSE 0
    BY <1>6, <2>3, <2>5, <2>6, <2>7
  <2>10. QED
    BY <2>6, <2>8, <2>9 DEF acc, day
<1>7. QED
  BY <1>2, <1>5, <1>6

\* The next query, the next day or the commit.
LEMMA WindowStep == ASSUME WsprInv, AddWindow PROVE WsprInv'
<1> DEFINE acc == Added(runner.acc)
           N == Cardinality(DaysOfMonth)
           r == [runner EXCEPT !.acc = acc, !.pc = "fetch", !.hour = 0, !.rows = {}]
<1>1. runner.pc = "window" /\ UNCHANGED recordVars /\ runner \in RunnerType
  BY DEF AddWindow, WsprInv
<1>2. /\ acc \in [withIngest : BOOLEAN, counts : MonthCounts, ingest : MonthTotals]
      /\ acc.withIngest = runner.acc.withIngest
      /\ \A g \in Grids, d \in DaysOfMonth : acc.counts[g][d] =
            IF g \in RingOf[Area] /\ d <= runner.day THEN ArchiveCount(Month, g, d) ELSE 0
      /\ \A d \in DaysOfMonth : acc.ingest[d] =
            IF runner.acc.withIngest /\ (d < runner.day \/ (d = runner.day /\ runner.query = "global"))
            THEN ArchiveIngest(Month, d) ELSE 0
  BY <1>1, AddedFacts
<1> HIDE DEF acc
<1>3. /\ r \in RunnerType /\ r.acc = acc /\ r.pc = "fetch" /\ r.hour = 0 /\ r.rows = {}
      /\ r.areas = runner.areas /\ r.area = runner.area /\ r.month = runner.month
      /\ r.day = runner.day /\ r.query = runner.query
  <2>1. 0 \in 0 .. Hours
    BY WsprArchiveConstants
  <2>2. QED
    BY <1>1, <1>2, <2>1 DEF RunnerType
<1>4. runner' = IF r.query = "ring" /\ r.acc.withIngest THEN [r EXCEPT !.query = "global"]
                ELSE IF r.day < N THEN [r EXCEPT !.query = "ring", !.day = @ + 1]
                ELSE [r EXCEPT !.pc = "commit"]
  BY <1>1 DEF AddWindow, AfterWindow, acc, RunnerType
<1> HIDE DEF r
<1>5. N \in Nat /\ DaysOfMonth = 1 .. N /\ r.day \in DaysOfMonth
  BY <1>3, DaysFacts DEF RunnerType
<1>6. TablesInv'
  BY <1>1 DEF WsprInv, TablesInv, recordVars
<1>7. /\ runner.area <= Len(runner.areas) /\ runner.month <= Len(MonthList)
      /\ <<Area, Month>> \notin monthDone /\ (acc.withIngest <=> Month \notin ingestDone)
      /\ (r.query = "global" => acc.withIngest)
  BY <1>1, <1>2, <1>3 DEF WsprInv, MonthInv, Working
<1> DEFINE Shape ==
             /\ runner' \in RunnerType /\ runner'.acc = acc /\ runner'.rows = {} /\ runner'.hour = 0
             /\ runner'.areas = runner.areas /\ runner'.area = runner.area
             /\ runner'.month = runner.month
             /\ runner'.pc \in {"fetch", "commit"}
             /\ runner'.query = "global" => acc.withIngest
             /\ \A d \in DaysOfMonth : RingDone(d)' <=> d <= r.day
             /\ \A d \in DaysOfMonth : acc.withIngest =>
                   (GlobalDone(d)' <=> (d < r.day \/ (d = r.day /\ r.query = "global")))
<1>8. Shape
  <2>1. CASE r.query = "ring" /\ r.acc.withIngest
    <3>1. runner' = [r EXCEPT !.query = "global"]
      BY <1>4, <2>1
    <3>2. /\ runner' \in RunnerType /\ runner'.acc = acc /\ runner'.rows = {} /\ runner'.hour = 0
          /\ runner'.areas = runner.areas /\ runner'.area = runner.area /\ runner'.month = runner.month
          /\ runner'.pc = "fetch" /\ runner'.query = "global" /\ runner'.day = r.day
      BY <1>3, <3>1 DEF RunnerType
    <3>3. QED
      BY <1>3, <1>5, <2>1, <3>2 DEF RingDone, GlobalDone
  <2>2. CASE ~(r.query = "ring" /\ r.acc.withIngest) /\ r.day < N
    <3>1. runner' = [r EXCEPT !.query = "ring", !.day = r.day + 1]
      BY <1>4, <2>2
    <3>2. r.day + 1 \in DaysOfMonth
      BY <1>5, <2>2
    <3>3. /\ runner' \in RunnerType /\ runner'.acc = acc /\ runner'.rows = {} /\ runner'.hour = 0
          /\ runner'.areas = runner.areas /\ runner'.area = runner.area /\ runner'.month = runner.month
          /\ runner'.pc = "fetch" /\ runner'.query = "ring" /\ runner'.day = r.day + 1
      BY <1>3, <3>1, <3>2 DEF RunnerType
    <3>4. acc.withIngest => r.query = "global"
      BY <1>3, <2>2 DEF RunnerType
    <3>5. QED
      BY <1>3, <1>5, <3>3, <3>4 DEF RingDone, GlobalDone
  <2>3. CASE ~(r.query = "ring" /\ r.acc.withIngest) /\ ~(r.day < N)
    <3>1. runner' = [r EXCEPT !.pc = "commit"]
      BY <1>4, <2>3
    <3>2. /\ runner' \in RunnerType /\ runner'.acc = acc /\ runner'.rows = {} /\ runner'.hour = 0
          /\ runner'.areas = runner.areas /\ runner'.area = runner.area /\ runner'.month = runner.month
          /\ runner'.pc = "commit" /\ runner'.query = r.query
      BY <1>3, <3>1 DEF RunnerType
    <3>3. \A d \in DaysOfMonth : d <= r.day
      BY <1>5, <2>3
    <3>4. acc.withIngest => r.query = "global"
      BY <1>3, <2>3 DEF RunnerType
    <3>5. QED
      BY <1>3, <1>5, <1>7, <3>2, <3>3, <3>4 DEF RingDone, GlobalDone
  <2>4. QED
    BY <2>1, <2>2, <2>3
<1>9. Area' = Area /\ Month' = Month /\ Working'
  BY <1>8 DEF Area, Month, Working
<1>10. MonthInv'
  BY <1>1, <1>7, <1>8, <1>9 DEF MonthInv, recordVars
<1>11. AccInv'
  BY <1>2, <1>3, <1>8, <1>9 DEF AccInv
<1>12. RowsInv'
  BY <1>8 DEF RowsInv
<1>13. QED
  BY <1>6, <1>8, <1>10, <1>11, <1>12 DEF WsprInv

\* A month that is not done is begun with an empty accumulator.
LEMMA MonthStep == ASSUME WsprInv, NEW diskOver \in BOOLEAN, NextMonth(diskOver) PROVE WsprInv'
<1>1. /\ runner.pc = "month" /\ UNCHANGED recordVars /\ runner \in RunnerType /\ TablesInv
  BY DEF NextMonth, WsprInv
<1>2. runner.area \in Nat /\ runner.month \in Nat /\ runner.pc \in {"start", "month", "returned"}
  BY <1>1 DEF RunnerType
<1>3. Len(runner.areas) \in Nat /\ Len(MonthList) \in Nat
  BY <1>1, WsprArchiveConstants, LenProperties DEF RunnerType
<1>4. CASE runner' = Return
  BY <1>1, <1>4, Returns
<1>5. CASE runner' = [runner EXCEPT !.area = @ + 1, !.month = 1]
  <2>1. runner.area + 1 \in Nat \ {0} /\ 1 \in Nat \ {0}
    BY <1>1 DEF RunnerType
  <2>2. runner' \in RunnerType /\ runner'.pc = "month"
    BY <1>1, <1>5, <2>1 DEF RunnerType
  <2>3. QED
    BY <1>1, <2>2, AtRest
<1>6. CASE runner' = [runner EXCEPT !.month = @ + 1]
  BY <1>1, <1>6, AtRest DEF RunnerType
<1>7. CASE /\ runner.area <= Len(runner.areas) /\ runner.month <= Len(MonthList)
           /\ <<Area, Month>> \notin monthDone
           /\ runner' = [runner EXCEPT !.pc = "fetch", !.acc = NewMonth(Month \notin ingestDone),
                                       !.day = 1, !.query = "ring", !.hour = 0, !.rows = {}]
  <2> DEFINE acc == NewMonth(Month \notin ingestDone)
  <2>a. ASSUME NEW w \in BOOLEAN
        PROVE  /\ NewMonth(w) \in [withIngest : BOOLEAN, counts : MonthCounts, ingest : MonthTotals]
               /\ NewMonth(w).withIngest = w
               /\ \A g \in Grids, d \in DaysOfMonth : NewMonth(w).counts[g][d] = 0
               /\ \A d \in DaysOfMonth : NewMonth(w).ingest[d] = 0
    BY DEF NewMonth, MonthCounts, MonthTotals
  <2>b. (Month \notin ingestDone) \in BOOLEAN
    OBVIOUS
  <2>1. /\ acc \in [withIngest : BOOLEAN, counts : MonthCounts, ingest : MonthTotals]
        /\ acc.withIngest = (Month \notin ingestDone)
        /\ \A g \in Grids, d \in DaysOfMonth : acc.counts[g][d] = 0
        /\ \A d \in DaysOfMonth : acc.ingest[d] = 0
    BY <2>a, <2>b, Zenon
  <2> HIDE DEF acc
  <2>2. /\ runner' \in RunnerType /\ runner'.acc = acc /\ runner'.pc = "fetch" /\ runner'.day = 1
        /\ runner'.query = "ring" /\ runner'.hour = 0 /\ runner'.rows = {}
        /\ runner'.areas = runner.areas /\ runner'.area = runner.area /\ runner'.month = runner.month
    <3>1. 0 \in 0 .. Hours /\ 1 \in DaysOfMonth
      BY WsprArchiveConstants
    <3>2. runner' = [runner EXCEPT !.pc = "fetch", !.acc = acc,
                                   !.day = 1, !.query = "ring", !.hour = 0, !.rows = {}]
      BY <1>7 DEF acc
    <3>3. QED
      BY <1>1, <2>1, <3>1, <3>2 DEF RunnerType
  <2>3. Area' = Area /\ Month' = Month
    BY <2>2 DEF Area, Month
  <2>4. TablesInv'
    BY <1>1 DEF TablesInv, recordVars
  <2>5. MonthInv'
    BY <1>1, <1>7, <2>1, <2>2, <2>3 DEF MonthInv, recordVars
  <2>6. \A d \in DaysOfMonth : ~RingDone(d)' /\ ~GlobalDone(d)'
    BY <2>2, DaysFacts DEF RingDone, GlobalDone
  <2>7. AccInv' /\ RowsInv'
    BY <2>1, <2>2, <2>3, <2>6 DEF AccInv, RowsInv
  <2>8. QED
    BY <2>2, <2>4, <2>5, <2>7 DEF WsprInv
<1>8. QED
  <2>1. CASE runner.area > Len(runner.areas)
    <3>1. ~(runner.area <= Len(runner.areas))
      BY <1>2, <1>3, <2>1
    <3>2. runner' = Return
      BY <2>1, <3>1, Zenon DEF NextMonth
    <3>3. QED
      BY <1>4, <3>2
  <2>2. CASE runner.area <= Len(runner.areas) /\ runner.month > Len(MonthList)
    <3>1. ~(runner.area > Len(runner.areas))
      BY <1>2, <1>3, <2>2
    <3>2. runner' = [runner EXCEPT !.area = @ + 1, !.month = 1]
      BY <2>2, <3>1, Zenon DEF NextMonth
    <3>3. QED
      BY <1>5, <3>2
  <2>3. CASE runner.area <= Len(runner.areas) /\ runner.month <= Len(MonthList)
    <3>1. ~(runner.area > Len(runner.areas)) /\ ~(runner.month > Len(MonthList))
      BY <1>2, <1>3, <2>3
    <3>2. \/ runner' = [runner EXCEPT !.month = @ + 1]
          \/ runner' = Return
          \/ /\ <<Area, Month>> \notin monthDone
             /\ runner' = [runner EXCEPT !.pc = "fetch", !.acc = NewMonth(Month \notin ingestDone),
                                         !.day = 1, !.query = "ring", !.hour = 0, !.rows = {}]
      BY <3>1, <2>3, Zenon DEF NextMonth
    <3>3. QED
      BY <1>4, <1>6, <1>7, <2>3, <3>2, Zenon
  <2>4. QED
    BY <1>2, <1>3, <2>1, <2>2, <2>3

\* A request that answers, with the window's last rows or more to come.
LEMMA OkStep == ASSUME WsprInv, NEW dur \in RequestTicks, RequestOk(dur) PROVE WsprInv'
<1> DEFINE got == runner.rows \cup WindowRows
<1>1. runner.pc = "fetch" /\ UNCHANGED recordVars /\ runner \in RunnerType
  BY DEF RequestOk, WsprInv
<1>2. Hours \in Nat \ {0} /\ runner.hour \in 0 .. Hours
  BY <1>1, WsprArchiveConstants DEF RunnerType
<1>3. got \in SUBSET Archive
  BY <1>1 DEF RunnerType, WindowRows, RingRows, GlobalRows
<1>4. WindowRows = RowsOf(IF runner.hour = 0 THEN 1 .. Hours ELSE {runner.hour})
  BY DEF WindowRows, WindowHours, RowsOf
<1>5. got = RowsOf(1 .. (IF runner.hour = 0 THEN Hours ELSE runner.hour))
  <2>1. runner.rows = IF runner.hour = 0 THEN {} ELSE RowsOf(1 .. runner.hour - 1)
    BY <1>1 DEF WsprInv, RowsInv
  <2>2. CASE runner.hour = 0
    BY <1>4, <2>1, <2>2
  <2>3. CASE runner.hour # 0
    <3>1. runner.hour \in 1 .. Hours
      BY <1>2, <2>3
    <3>2. QED
      BY <1>4, <2>1, <2>3, <3>1, HourRows
  <2>4. QED
    BY <2>2, <2>3
<1> HIDE DEF got
<1>6. CASE runner.hour \in {0, Hours}
  <2>1. runner' = [runner EXCEPT !.failures = 0, !.rows = got, !.pc = "window"]
    BY <1>6 DEF RequestOk, got
  <2>2. /\ runner' \in RunnerType /\ runner'.pc = "window" /\ runner'.rows = got
        /\ runner'.areas = runner.areas /\ runner'.area = runner.area /\ runner'.month = runner.month
        /\ runner'.day = runner.day /\ runner'.query = runner.query /\ runner'.acc = runner.acc
    BY <1>1, <1>3, <2>1 DEF RunnerType
  <2>3. /\ TablesInv' /\ MonthInv' /\ AccInv'
        /\ \A hours : RowsOf(hours)' = RowsOf(hours)
    BY <1>1, <2>2, SameMonth
  <2>4. got = RowsOf(1 .. Hours)
    BY <1>5, <1>6
  <2>5. RowsInv'
    BY <2>2, <2>3, <2>4 DEF RowsInv
  <2>6. QED
    BY <2>2, <2>3, <2>5 DEF WsprInv
<1>7. CASE runner.hour \notin {0, Hours}
  <2>1. runner' = [runner EXCEPT !.failures = 0, !.rows = got, !.hour = runner.hour + 1]
    BY <1>7 DEF RequestOk, got
  <2>2. runner.hour + 1 \in 0 .. Hours /\ runner.hour + 1 # 0 /\ runner.hour + 1 - 1 = runner.hour
    BY <1>2, <1>7
  <2>3. /\ runner' \in RunnerType /\ runner'.pc = "fetch" /\ runner'.rows = got
        /\ runner'.hour = runner.hour + 1
        /\ runner'.areas = runner.areas /\ runner'.area = runner.area /\ runner'.month = runner.month
        /\ runner'.day = runner.day /\ runner'.query = runner.query /\ runner'.acc = runner.acc
    BY <1>1, <1>3, <2>1, <2>2 DEF RunnerType
  <2>4. /\ TablesInv' /\ MonthInv' /\ AccInv'
        /\ \A hours : RowsOf(hours)' = RowsOf(hours)
    BY <1>1, <2>3, SameMonth
  <2>5. got = RowsOf(1 .. runner'.hour - 1)
    <3>1. got = RowsOf(1 .. runner.hour)
      BY <1>5, <1>7
    <3>2. runner'.hour - 1 = runner.hour
      <4>1. runner'.hour = runner.hour + 1
        BY <2>3
      <4>2. \A h \in Nat : \A k : k = h + 1 => k - 1 = h
        OBVIOUS
      <4>3. runner.hour \in Nat
        BY <1>2
      <4>4. QED
        BY <4>1, <4>2, <4>3, Zenon
    <3>3. QED
      BY <3>1, <3>2, Zenon
  <2>6. RowsInv'
    BY <2>2, <2>3, <2>4, <2>5 DEF RowsInv
  <2>7. QED
    BY <2>3, <2>4, <2>6 DEF WsprInv
<1>8. QED
  BY <1>6, <1>7

\* A request that is split, or that fails and will be retried.
LEMMA RetryStep ==
  ASSUME WsprInv, NEW dur \in RequestTicks, RequestSplit(dur) \/ RequestFail(dur)
  PROVE  WsprInv'
<1>1. runner.pc = "fetch" /\ UNCHANGED recordVars /\ runner \in RunnerType /\ TablesInv
  BY DEF RequestSplit, RequestFail, WsprInv
<1>2. runner.rows = IF runner.hour = 0 THEN {} ELSE RowsOf(1 .. runner.hour - 1)
  BY <1>1 DEF WsprInv, RowsInv
<1>3. CASE RequestSplit(dur)
  <2>1. runner.hour = 0 /\ runner' = [runner EXCEPT !.hour = 1] /\ 1 \in 0 .. Hours /\ 1 \in 1 .. Hours
    BY <1>3, WsprArchiveConstants DEF RequestSplit
  <2>2. /\ runner' \in RunnerType /\ runner'.pc = "fetch" /\ runner'.rows = {} /\ runner'.hour = 1
        /\ runner'.areas = runner.areas /\ runner'.area = runner.area /\ runner'.month = runner.month
        /\ runner'.day = runner.day /\ runner'.query = runner.query /\ runner'.acc = runner.acc
    BY <1>1, <1>2, <2>1 DEF RunnerType
  <2>3. /\ TablesInv' /\ MonthInv' /\ AccInv'
        /\ \A hours : RowsOf(hours)' = RowsOf(hours)
    BY <1>1, <2>2, SameMonth
  <2>4. RowsOf(1 .. 1 - 1) = {}
    <3>1. RowsOf(1 .. 0) = {}
      BY <2>1, HourRows, Zenon
    <3>2. 1 - 1 = 0
      OBVIOUS
    <3>3. QED
      BY <3>1, <3>2, Zenon
  <2>5. RowsInv'
    BY <2>2, <2>3, <2>4 DEF RowsInv
  <2>6. QED
    BY <2>2, <2>3, <2>5 DEF WsprInv
<1>4. CASE RequestFail(dur)
  <2>1. runner' = Return \/ runner' = [runner EXCEPT !.failures = runner.failures + 1]
    BY <1>4 DEF RequestFail
  <2>2. CASE runner' = Return
    BY <1>1, <2>2, Returns
  <2>3. CASE runner' = [runner EXCEPT !.failures = runner.failures + 1]
    <3>1. /\ runner' \in RunnerType /\ runner'.pc = "fetch" /\ runner'.rows = runner.rows
          /\ runner'.hour = runner.hour
          /\ runner'.areas = runner.areas /\ runner'.area = runner.area /\ runner'.month = runner.month
          /\ runner'.day = runner.day /\ runner'.query = runner.query /\ runner'.acc = runner.acc
      BY <1>1, <2>3 DEF RunnerType
    <3>2. /\ TablesInv' /\ MonthInv' /\ AccInv'
          /\ \A hours : RowsOf(hours)' = RowsOf(hours)
      BY <1>1, <3>1, SameMonth
    <3>3. RowsInv'
      BY <1>2, <3>1, <3>2 DEF RowsInv
    <3>4. QED
      BY <3>1, <3>2, <3>3 DEF WsprInv
  <2>4. QED
    BY <2>1, <2>2, <2>3
<1>5. QED
  BY <1>3, <1>4

\* Every step keeps the invariant and is an abstract step or none.
LEMMA ArchiveStep ==
  ASSUME WsprInv, [WsprNext]_wsprVars
  PROVE  WsprInv' /\ (RecordNext \/ UNCHANGED recordVars)
<1>a. runner \in RunnerType /\ TablesInv
  BY DEF WsprInv
<1>1. ASSUME NEW diskOver \in BOOLEAN, WsprStart(diskOver) PROVE WsprInv' /\ UNCHANGED recordVars
  <2>1. UNCHANGED recordVars /\ (runner' = Return \/ runner' = [runner EXCEPT !.pc = "month"])
    BY <1>1 DEF WsprStart
  <2>2. CASE runner' = Return
    BY <1>a, <2>1, <2>2, Returns
  <2>3. CASE runner' = [runner EXCEPT !.pc = "month"]
    <3>1. runner' \in RunnerType /\ runner'.pc = "month"
      BY <1>a, <2>3 DEF RunnerType
    <3>2. QED
      BY <1>a, <2>1, <3>1, AtRest
  <2>4. QED
    BY <2>1, <2>2, <2>3
<1>2. ASSUME NEW diskOver \in BOOLEAN, NextMonth(diskOver) PROVE WsprInv' /\ UNCHANGED recordVars
  BY <1>2, MonthStep DEF NextMonth
<1>3. ASSUME NEW dur \in RequestTicks, RequestOk(dur) PROVE WsprInv' /\ UNCHANGED recordVars
  BY <1>3, OkStep DEF RequestOk
<1>4. ASSUME NEW dur \in RequestTicks, RequestSplit(dur) \/ RequestFail(dur)
      PROVE  WsprInv' /\ UNCHANGED recordVars
  <2>1. UNCHANGED recordVars
    BY <1>4 DEF RequestSplit, RequestFail
  <2>2. QED
    BY <1>4, <2>1, RetryStep
<1>5. CASE AddWindow
  BY <1>5, WindowStep DEF AddWindow
<1>6. CASE WsprCommit \/ WsprCommitUnacked
  <2>1. runner.pc = "commit" /\ commitMonth
    BY <1>6 DEF WsprCommit, WsprCommitUnacked
  <2>2. CommitMonth(Area, Month) /\ Area \in WsprAreas /\ Month \in Months /\ TablesInv'
    BY <2>1, CommitIsRecord
  <2>3. runner' \in RunnerType /\ runner'.pc \in {"month", "returned"}
    <3>1. CASE WsprCommit
      <4>1. runner.month + 1 \in Nat \ {0}
        BY <1>a DEF RunnerType
      <4>2. runner' = [runner EXCEPT !.pc = "month", !.month = runner.month + 1]
        BY <3>1 DEF WsprCommit
      <4>3. QED
        BY <1>a, <4>1, <4>2 DEF RunnerType
    <3>2. CASE WsprCommitUnacked
      <4>1. runner.areas \in AreaLists
        BY <1>a DEF RunnerType
      <4>2. QED
        BY <3>2, <4>1, IdleType DEF WsprCommitUnacked, Return
    <3>3. QED
      BY <1>6, <3>1, <3>2
  <2>4. ~Working' /\ runner'.pc # "fetch" /\ runner'.pc # "window"
    BY <2>3 DEF Working
  <2>5. WsprInv'
    BY <2>2, <2>3, <2>4 DEF WsprInv, MonthInv, AccInv, RowsInv
  <2>6. RecordNext
    BY <2>2 DEF RecordNext
  <2>7. QED
    BY <2>5, <2>6
<1>7. CASE WsprDbFail
  BY <1>a, <1>7, Returns DEF WsprDbFail
<1>8. ASSUME NEW areas \in AreaLists, WsprRestart(areas) PROVE WsprInv' /\ UNCHANGED recordVars
  <2>1. runner' \in RunnerType /\ runner'.pc = "start" /\ UNCHANGED recordVars
    BY <1>8, IdleType DEF WsprRestart
  <2>2. QED
    BY <1>a, <2>1, AtRest
<1>9. CASE UNCHANGED wsprVars
  <2>1. UNCHANGED recordVars /\ runner' = runner /\ monthDone' = monthDone /\ ingestDone' = ingestDone
        /\ layer' = layer /\ ingestSlots' = ingestSlots
    BY <1>9 DEF wsprVars, recordVars
  <2>2. QED
    BY <2>1 DEF WsprInv, TablesInv, MonthInv, AccInv, RowsInv, Working, Area, Month, RingDone,
                GlobalDone, RowsOf
<1>10. QED
  BY <1>1, <1>2, <1>3, <1>4, <1>5, <1>6, <1>7, <1>8, <1>9 DEF WsprNext

\* At the start the tables are empty and nothing is done.
LEMMA ArchiveInit == WsprInit => WsprInv /\ RecordInit
<1> SUFFICES ASSUME WsprInit PROVE WsprInv
  BY DEF WsprInit
<1>1. PICK areas \in AreaLists : runner = Idle(areas, "start")
  BY DEF WsprInit
<1>2. runner \in RunnerType /\ runner.pc = "start"
  BY <1>1, IdleType
<1>3. TablesInv
  BY DEF WsprInit, RecordInit, TablesInv, MonthCounts, MonthTotals
<1>4. QED
  BY <1>2, <1>3 DEF WsprInv, MonthInv, AccInv, RowsInv, Working

\* Through splits, retries, aborts, lost answers, restarts and areas whose
\* rings overlap, the backfill does nothing to the tables but commit whole
\* months that say what the archive says.
THEOREM ArchiveImplementsRecord == WsprSpec => WsprImplementsRecord
<1>1. WsprInit => WsprInv /\ Record!RecordInit
  BY ArchiveInit DEF RecordInit, Record!RecordInit, Grids, Record!Grids
<1>2. RecordNext => Record!RecordNext
  <2>a. \A S : Cardinality(S) = Record!Cardinality(S)
    BY Zenon DEF Cardinality, Record!Cardinality
  <2>b. \A S : Min(S) = Record!Min(S)
    BY Zenon DEF Min, Record!Min
  <2>1. Grids = Record!Grids
    BY DEF Grids, Record!Grids
  <2>2. \A ym, g, d : ArchiveCount(ym, g, d) = Record!ArchiveCount(ym, g, d)
    BY <2>a, <2>b, Zenon DEF ArchiveCount, Record!ArchiveCount, Heard, Record!Heard
  <2>3. \A ym, d : ArchiveIngest(ym, d) = Record!ArchiveIngest(ym, d)
    BY <2>a, Zenon DEF ArchiveIngest, Record!ArchiveIngest
  <2>4. ASSUME NEW a \in WsprAreas, NEW ym \in Months, CommitMonth(a, ym)
        PROVE  Record!CommitMonth(a, ym)
    BY <2>1, <2>2, <2>3, <2>4 DEF CommitMonth, Record!CommitMonth
  <2>5. QED
    BY <2>4 DEF RecordNext, Record!RecordNext
<1>3. UNCHANGED recordVars => UNCHANGED Record!recordVars
  BY DEF recordVars, Record!recordVars
<1>4. WsprInv /\ [WsprNext]_wsprVars => WsprInv' /\ [Record!RecordNext]_Record!recordVars
  BY <1>2, <1>3, ArchiveStep
<1>5. QED
  BY <1>1, <1>4, PTL DEF WsprSpec, WsprImplementsRecord, Record!RecordSpec

-----------------------------------------------------------------------------
(* The limiter of the backfill. *)

\* A limiter that holds no more starts than a minute may have.
Fits(l) == l \in [starts : Seq(Int), lastDone : Int] /\ Len(l.starts) <= MaxPerMinute

\* The larger and the smaller of two numbers.
LEMMA OfTwo ==
  ASSUME NEW a \in Int, NEW b \in Int
  PROVE  /\ Max({a, b}) \in Int /\ Max({a, b}) >= a
         /\ Min({a, b}) \in Int
<1>1. \E x \in {a, b} : \A y \in {a, b} : x >= y
  OBVIOUS
<1>2. \E x \in {a, b} : \A y \in {a, b} : x <= y
  OBVIOUS
<1>3. Max({a, b}) \in {a, b} /\ \A y \in {a, b} : Max({a, b}) >= y
  BY <1>1 DEF Max
<1>4. Min({a, b}) \in {a, b}
  BY <1>2 DEF Min
<1>5. QED
  BY <1>3, <1>4

\* Time never adds a start, and takes the first if that is a minute old; if it
\* takes none, the first has aged.
LEMMA Ages ==
  ASSUME NEW s \in Seq(Int), NEW t \in Int
  PROVE  /\ Older(s, t) \in Seq(Int) /\ Len(Older(s, t)) \in Nat /\ Len(s) \in Nat
         /\ Len(Older(s, t)) <= Len(s)
         /\ Len(s) >= 1 /\ s[1] + t >= Minute => Len(Older(s, t)) < Len(s)
         /\ Len(s) >= 1 /\ Len(Older(s, t)) = Len(s) => Older(s, t)[1] = s[1] + t
<1> DEFINE aged == [i \in DOMAIN s |-> s[i] + t]
           old == {i \in DOMAIN aged : \A j \in 1 .. i : aged[j] >= Minute}
           c == Cardinality(old)
           r == SubSeq(aged, c + 1, Len(aged))
<1>1. Len(s) \in Nat /\ DOMAIN s = 1 .. Len(s) /\ \A i \in 1 .. Len(s) : s[i] \in Int
  BY LenProperties
<1>2. aged \in Seq(Int) /\ Len(aged) = Len(s) /\ DOMAIN aged = 1 .. Len(s)
  <2>1. \A i \in 1 .. Len(s) : s[i] + t \in Int
    BY <1>1
  <2>2. aged = [i \in 1 .. Len(s) |-> s[i] + t]
    BY <1>1
  <2>3. QED
    BY <1>1, <2>1, <2>2
<1>3. \A i \in 1 .. Len(s) : aged[i] = s[i] + t /\ aged[i] \in Int
  BY <1>1
<1> HIDE DEF aged
<1>4. old \subseteq 1 .. Len(s)
  BY <1>2
<1>5. c \in Nat /\ c <= Len(s)
  <2>1. IsFiniteSet(1 .. Len(s)) /\ Cardinality(1 .. Len(s)) = Len(s)
    <3>1. 1 \in Int /\ Len(s) \in Int
      BY <1>1
    <3>2. IsFiniteSet(1 .. Len(s)) /\ Cardinality(1 .. Len(s)) = IF 1 > Len(s) THEN 0 ELSE Len(s) - 1 + 1
      BY <3>1, FS_Interval
    <3>3. QED
      BY <1>1, <3>2
  <2> HIDE DEF old
  <2>2. IsFiniteSet(old) /\ Cardinality(old) <= Len(s)
    BY <1>4, <2>1, FS_Subset
  <2>3. QED
    BY <2>2, FS_CardinalityType
<1>6. Minute \in Nat
  BY WsprArchiveConstants
<1>7. Len(s) >= 1 /\ s[1] + t >= Minute => c # 0
  <2>1. SUFFICES ASSUME Len(s) >= 1, s[1] + t >= Minute PROVE c # 0
    OBVIOUS
  <2>2. 1 \in DOMAIN aged /\ \A j \in 1 .. 1 : aged[j] >= Minute
    BY <1>1, <1>2, <1>3, <2>1
  <2>3. 1 \in old
    BY <2>2
  <2>4. IsFiniteSet(old)
    <3>1. IsFiniteSet(1 .. Len(s))
      BY <1>1, FS_Interval
    <3>2. QED
      BY <1>4, <3>1, FS_Subset
  <2> HIDE DEF old
  <2>5. QED
    BY <2>3, <2>4, FS_EmptySet
<1> HIDE DEF c
<1>8. r \in Seq(Int) /\ Len(r) = Len(s) - c /\ (c = 0 /\ Len(s) >= 1 => r[1] = aged[1])
  <2>1. \A i \in c + 1 .. Len(aged) : aged[i] \in Int
    BY <1>1, <1>2, <1>3, <1>5
  <2>2. /\ r \in Seq(Int)
        /\ Len(r) = IF c + 1 <= Len(aged) THEN Len(aged) - (c + 1) + 1 ELSE 0
        /\ \A i \in 1 .. Len(aged) - (c + 1) + 1 : r[i] = aged[c + 1 + i - 1]
    BY <1>1, <1>2, <1>5, <2>1, SubSeqProperties
  <2> HIDE DEF r
  <2>3. \A n, m \in Nat : m <= n => (IF m + 1 <= n THEN n - (m + 1) + 1 ELSE 0) = n - m
    OBVIOUS
  <2>4. Len(r) = Len(s) - c
    BY <1>1, <1>2, <1>5, <2>2, <2>3
  <2>5. ASSUME c = 0, Len(s) >= 1 PROVE r[1] = aged[1]
    <3>1. 1 \in 1 .. Len(aged) - (c + 1) + 1 /\ c + 1 + 1 - 1 = 1
      BY <1>1, <1>2, <2>5
    <3>2. QED
      BY <2>2, <3>1
  <2>6. QED
    BY <2>2, <2>4, <2>5
<1>9. r = Older(s, t)
  BY DEF Older, r, c, aged
<1> HIDE DEF r, old
<1>10. r \in Seq(Int) /\ Len(r) \in Nat /\ Len(r) <= Len(s) /\ (c # 0 => Len(r) < Len(s))
       /\ (Len(s) >= 1 /\ Len(r) = Len(s) => r[1] = s[1] + t)
  <2>1. Len(r) \in Nat /\ Len(r) <= Len(s) /\ (c # 0 => Len(r) < Len(s)) /\ (Len(r) = Len(s) => c = 0)
    <3>1. \A n, k \in Nat : \A m : k <= n /\ m = n - k =>
             m \in Nat /\ m <= n /\ (k # 0 => m < n) /\ (m = n => k = 0)
      OBVIOUS
    <3>2. Len(s) \in Nat /\ c \in Nat /\ c <= Len(s) /\ Len(r) = Len(s) - c
      BY <1>1, <1>5, <1>8
    <3>3. QED
      BY <3>1, <3>2
  <2>2. Len(s) >= 1 => aged[1] = s[1] + t
    BY <1>1, <1>3
  <2>3. QED
    BY <1>8, <2>1, <2>2
<1>11. QED
  BY <1>1, <1>7, <1>9, <1>10

\* A request is only started when the last minute has room for it.
LEMMA RoomForOne ==
  ASSUME NEW l, Fits(l)
  PROVE  wait(l) \in Int /\ Len(Older(l.starts, wait(l))) < MaxPerMinute
<1> DEFINE pause == Max({0, Pause - l.lastDone})
           held == Older(l.starts, pause)
<1>1. /\ l.starts \in Seq(Int) /\ l.lastDone \in Int
      /\ {Minute, Pause} \subseteq Nat /\ MaxPerMinute \in Nat \ {0}
      /\ Len(l.starts) <= MaxPerMinute
  BY WsprArchiveConstants DEF Fits
<1>2. pause \in Int
  <2> DEFINE left == Pause - l.lastDone
  <2>1. left \in Int /\ 0 \in Int
    BY <1>1
  <2> HIDE DEF left
  <2>2. Max({0, left}) \in Int
    BY <2>1, OfTwo
  <2>3. QED
    BY <2>2 DEF left
<1>3. wait(l) = IF Len(held) < MaxPerMinute THEN pause
                ELSE pause + Minute - held[Len(held) - MaxPerMinute + 1]
  BY DEF wait
<1> HIDE DEF pause
<1>4. /\ held \in Seq(Int) /\ Len(held) \in Nat /\ Len(l.starts) \in Nat /\ Len(held) <= Len(l.starts)
      /\ (Len(l.starts) >= 1 /\ Len(held) = Len(l.starts) => held[1] = l.starts[1] + pause)
  BY <1>1, <1>2, Ages
<1> HIDE DEF held
<1>5. CASE Len(held) < MaxPerMinute
  BY <1>2, <1>3, <1>5 DEF held
<1>6. CASE ~(Len(held) < MaxPerMinute)
  <2>1. Len(held) = MaxPerMinute /\ Len(l.starts) = MaxPerMinute /\ Len(l.starts) >= 1
    BY <1>1, <1>4, <1>6
  <2>2. held[1] = l.starts[1] + pause /\ Len(held) - MaxPerMinute + 1 = 1
    BY <1>1, <1>4, <2>1
  <2>3. wait(l) = pause + Minute - held[1]
    BY <1>3, <1>6, <2>2
  <2>4. l.starts[1] \in Int
    BY <1>1, <2>1, LenProperties
  <2> DEFINE first == l.starts[1]
             n == Len(l.starts)
             w == wait(l)
             left == Len(Older(l.starts, w))
  <2>5. w \in Int /\ first + w >= Minute
    <3>1. w = pause + Minute - (first + pause)
      BY <2>2, <2>3
    <3>2. first \in Int /\ Minute \in Int
      BY <1>1, <2>4
    <3> HIDE DEF w, first
    <3>3. QED
      BY <1>2, <3>1, <3>2
  <2> HIDE DEF w
  <2>6. left < n
    BY <1>1, <2>1, <2>5, Ages
  <2>7. QED
    BY <2>1, <2>5, <2>6 DEF w
<1>7. QED
  BY <1>5, <1>6

\* After the wait, the request and its end, and after a backoff.
LEMMA PacedKeeps ==
  ASSUME NEW l, Fits(l), NEW dur \in Int
  PROVE  Fits(Paced(l, dur))
<1> DEFINE held == Older(l.starts, wait(l))
           started == Append(held, 0)
           aged == Older(started, dur)
<1>1. wait(l) \in Int /\ Len(held) < MaxPerMinute /\ l.starts \in Seq(Int)
  BY RoomForOne DEF Fits
<1>2. held \in Seq(Int) /\ Len(held) \in Nat /\ MaxPerMinute \in Nat
  BY <1>1, Ages, WsprArchiveConstants
<1> HIDE DEF held
<1>3. started \in Seq(Int) /\ Len(started) = Len(held) + 1
  BY <1>2, AppendProperties
<1> HIDE DEF started
<1>4. aged \in Seq(Int) /\ Len(aged) \in Nat /\ Len(aged) <= Len(started)
  BY <1>3, Ages
<1>5. Paced(l, dur) = [starts |-> aged, lastDone |-> 0]
  BY DEF Paced, aged, started, held
<1> HIDE DEF aged
<1>6. Len(aged) <= MaxPerMinute
  BY <1>1, <1>2, <1>3, <1>4
<1>7. QED
  BY <1>4, <1>5, <1>6 DEF Fits

\* The same of a sleep.
LEMMA SleptKeeps ==
  ASSUME NEW l, Fits(l), NEW t \in Int
  PROVE  Fits(Slept(l, t))
<1> DEFINE aged == Older(l.starts, t)
           last == Min({Pause, l.lastDone + t})
<1>1. aged \in Seq(Int) /\ Len(aged) \in Nat /\ Len(l.starts) \in Nat /\ Len(aged) <= Len(l.starts)
      /\ Len(l.starts) <= MaxPerMinute
  BY Ages DEF Fits
<1>2. Pause \in Int /\ l.lastDone + t \in Int /\ MaxPerMinute \in Nat
  BY WsprArchiveConstants DEF Fits
<1>3. last \in Int
  BY <1>2, OfTwo
<1>4. Slept(l, t) = [starts |-> aged, lastDone |-> last]
  BY DEF Slept
<1> HIDE DEF aged, last
<1>5. Len(aged) <= MaxPerMinute
  BY <1>1, <1>2
<1>6. QED
  BY <1>1, <1>3, <1>4, <1>5 DEF Fits

\* A delay is a number.
LEMMA BackoffInt == ASSUME NEW n \in Nat PROVE Backoff(n + 1) \in Int
<1>1. \A k \in Nat : 2^k \in Int
  BY SMT
<1>2. n + 1 - 1 = n /\ BackoffBase \in Nat
  BY WsprArchiveConstants
<1> DEFINE p == 2^n
<1>3. p \in Int
  BY <1>1
<1>4. Backoff(n + 1) = BackoffBase * p
  BY <1>2 DEF Backoff
<1> HIDE DEF p
<1>5. QED
  BY <1>2, <1>3, <1>4

\* Whatever the requests take and however they are retried, split and backed
\* off, no more than MaxPerMinute starts of a process lie within one minute.
THEOREM PaceCorrect == WsprSpec => []WsprPaced
<1>1. Fits(NewLimiter)
  <2>1. <<>> \in Seq(Int) /\ Len(<<>>) = 0
    BY EmptySeq
  <2>2. QED
    BY <2>1, WsprArchiveConstants DEF NewLimiter, Fits
<1>2. WsprInit => WsprInv /\ Fits(limiter)
  BY <1>1, ArchiveInit DEF WsprInit
<1>3. ASSUME WsprInv, Fits(limiter), [WsprNext]_wsprVars PROVE Fits(limiter)'
  <2>a. runner.failures \in Nat
    BY <1>3 DEF WsprInv, RunnerType
  <2>1. CASE UNCHANGED limiter
    BY <1>3, <2>1 DEF Fits
  <2>2. CASE limiter' = NewLimiter
    BY <1>1, <2>2 DEF Fits
  <2>3. ASSUME NEW dur \in RequestTicks, limiter' = Paced(limiter, dur) PROVE Fits(limiter)'
    <3>1. dur \in Int
      BY WsprArchiveConstants
    <3>2. Fits(Paced(limiter, dur))
      BY <1>3, <3>1, PacedKeeps
    <3>3. QED
      BY <2>3, <3>2 DEF Fits
  <2>4. ASSUME NEW dur \in RequestTicks,
               limiter' = Slept(Paced(limiter, dur), Backoff(runner.failures + 1))
        PROVE  Fits(limiter)'
    <3> DEFINE t == Backoff(runner.failures + 1)
    <3>1. dur \in Int
      BY WsprArchiveConstants
    <3>2. Fits(Paced(limiter, dur))
      BY <1>3, <3>1, PacedKeeps
    <3>3. t \in Int
      BY <2>a, BackoffInt
    <3> HIDE DEF t
    <3>4. limiter' = Slept(Paced(limiter, dur), t)
      BY <2>4 DEF t
    <3> DEFINE l == Paced(limiter, dur)
    <3> HIDE DEF l
    <3>5. Fits(l) /\ limiter' = Slept(l, t)
      BY <3>2, <3>4 DEF l
    <3>6. Fits(Slept(l, t))
      BY <3>3, <3>5, SleptKeeps
    <3>7. QED
      BY <3>5, <3>6 DEF Fits
  <2>5. ASSUME NEW dur \in RequestTicks, RequestOk(dur) \/ RequestSplit(dur) \/ RequestFail(dur) PROVE Fits(limiter)'
    <3>1. CASE RequestOk(dur) \/ RequestSplit(dur)
      BY <2>3, <3>1 DEF RequestOk, RequestSplit
    <3>2. CASE RequestFail(dur)
      <4>1. \/ limiter' = Paced(limiter, dur)
            \/ limiter' = Slept(Paced(limiter, dur), Backoff(runner.failures + 1))
        BY <3>2 DEF RequestFail
      <4>2. QED
        BY <2>3, <2>4, <4>1
    <3>3. QED
      BY <2>5, <3>1, <3>2
  <2>6. QED
    BY <1>3, <2>1, <2>2, <2>5 DEF WsprNext, WsprStart, NextMonth, AddWindow, WsprCommit, WsprCommitUnacked,
       WsprDbFail, WsprRestart, wsprVars
<1>4. Fits(limiter) => WsprPaced
  BY DEF Fits, WsprPaced
<1>5. WsprInv /\ [WsprNext]_wsprVars => WsprInv'
  BY ArchiveStep
<1>6. QED
  BY <1>2, <1>3, <1>4, <1>5, PTL DEF WsprSpec

-----------------------------------------------------------------------------
(* The climatology. *)

\* What the spots are counted in.
countVars == <<table, pending, flight, total, doubled, dropped>>

\* Counts per cell and day; the differences of the cap make them integers.
Counts == [wcKeys -> Int]

\* The types the conservation argument needs.
CountsTyped ==
    /\ table \in Counts /\ pending \in Counts /\ flight.map \in Counts
    /\ total \in Counts /\ doubled \in Counts /\ dropped \in Counts

\* What ClimateConserves says of one cell and day.
Balanced(k) == table[k] + pending[k] + flight.map[k] + dropped[k] = total[k] + doubled[k]

\* The books balance at every key.
ClimateInv == CountsTyped /\ \A k \in wcKeys : Balanced(k)

\* An equation between two tables is an equation for every key.
LEMMA ClimateByKey == ASSUME ClimateInv PROVE ClimateConserves
<1>1. ASSUME NEW k \in wcKeys
      PROVE  Plus(Plus(table, pending), Plus(flight.map, dropped))[k] = Plus(total, doubled)[k]
  BY DEF ClimateInv, CountsTyped, Counts, Balanced, Plus
<1>2. QED
  BY <1>1 DEF ClimateConserves, Plus

\* The sum of two tables, at a key.
LEMMA PlusCounts ==
  ASSUME NEW f \in Counts, NEW g \in Counts
  PROVE  Plus(f, g) \in Counts /\ \A k \in wcKeys : Plus(f, g)[k] = f[k] + g[k]
  BY DEF Counts, Plus

\* The empty table, and no flight, count nothing.
LEMMA EmptyCounts == Empty \in Counts /\ (\A k \in wcKeys : Empty[k] = 0) /\ NoFlight.map = Empty
  BY DEF Counts, Empty, NoFlight

\* The cap returns a table of counts, whatever it drops.
LEMMA CapCounts == ASSUME NEW p \in Counts PROVE capPendingWsprRegion(p).map \in Counts
  BY DEF Counts, capPendingWsprRegion

\* At the start everything is empty.
LEMMA ClimateInit == WcInit => ClimateInv
  BY EmptyCounts DEF WcInit, ClimateInv, CountsTyped, Balanced

\* Requests, refreshes, the saved file and the clock touch no count.
LEMMA ClimateUntouched ==
  ASSUME ClimateInv, UNCHANGED countVars
  PROVE  ClimateInv'
  BY DEF ClimateInv, CountsTyped, Counts, Balanced, countVars

\* Every step keeps the books balanced.
LEMMA ClimateStep ==
  ASSUME ClimateInv, [WcNext]_wcVars
  PROVE  ClimateInv'
<1>a. CountsTyped /\ \A k \in wcKeys : Balanced(k)
  BY DEF ClimateInv
<1>1. ASSUME NEW k \in wcKeys, Observe(k) PROVE ClimateInv'
  <2>1. pending' = [pending EXCEPT ![k] = @ + 1] /\ total' = [total EXCEPT ![k] = @ + 1]
        /\ UNCHANGED <<table, flight, doubled, dropped>>
    BY <1>1 DEF Observe
  <2>2. CountsTyped'
    BY <1>a, <2>1 DEF CountsTyped, Counts
  <2>3. ASSUME NEW j \in wcKeys PROVE Balanced(j)'
    BY <1>a, <2>1 DEF CountsTyped, Counts, Balanced
  <2>4. QED
    BY <2>2, <2>3 DEF ClimateInv
<1>2. CASE FlushPending
  <2>1. flight = NoFlight /\ flight'.map = pending /\ pending' = Empty
        /\ UNCHANGED <<table, total, doubled, dropped>>
    BY <1>2 DEF FlushPending
  <2>2. CountsTyped'
    BY <1>a, <2>1, EmptyCounts DEF CountsTyped
  <2>3. ASSUME NEW j \in wcKeys PROVE Balanced(j)'
    BY <1>a, <2>1, EmptyCounts DEF CountsTyped, Counts, Balanced
  <2>4. QED
    BY <2>2, <2>3 DEF ClimateInv
<1>3. CASE FlushPendingWsprRegion
  <2>1. table' = Plus(table, flight.map) /\ flight' = NoFlight
        /\ UNCHANGED <<pending, total, doubled, dropped>>
    BY <1>3 DEF FlushPendingWsprRegion
  <2>2. CountsTyped'
    BY <1>a, <2>1, EmptyCounts, PlusCounts DEF CountsTyped
  <2>3. ASSUME NEW j \in wcKeys PROVE Balanced(j)'
    <3>1. table'[j] = table[j] + flight.map[j] /\ flight'.map[j] = 0
      BY <1>a, <2>1, EmptyCounts, PlusCounts DEF CountsTyped
    <3>2. QED
      BY <1>a, <2>1, <3>1 DEF CountsTyped, Counts, Balanced
  <2>4. QED
    BY <2>2, <2>3 DEF ClimateInv
<1>4. CASE FlushFails
  <2> DEFINE back == mergedBack
             count == pendingCount + flight.count
             capped == IF count > WcMaxPending THEN capPendingWsprRegion(back)
                       ELSE [map |-> back, count |-> count]
  <2>1. /\ pending' = capped.map /\ flight' = NoFlight /\ total' = total
        /\ dropped' = [k \in wcKeys |-> dropped[k] + back[k] - capped.map[k]]
        /\ \/ UNCHANGED <<table, doubled>>
           \/ table' = Plus(table, flight.map) /\ doubled' = Plus(doubled, flight.map)
    BY <1>4 DEF FlushFails
  <2>2. back \in Counts /\ \A j \in wcKeys : back[j] = pending[j] + flight.map[j]
    BY <1>a, PlusCounts DEF CountsTyped, mergedBack
  <2>3. capped.map \in Counts
    BY <2>2, CapCounts
  <2> HIDE DEF back, capped
  <2>4. pending' \in Counts /\ flight'.map \in Counts /\ total' \in Counts
    BY <1>a, <2>1, <2>3, EmptyCounts DEF CountsTyped
  <2>5. dropped' \in Counts
    BY <1>a, <2>1, <2>2, <2>3 DEF CountsTyped, Counts
  <2>6. table' \in Counts /\ doubled' \in Counts
        /\ \A j \in wcKeys : table'[j] - doubled'[j] = table[j] - doubled[j]
    <3>1. CASE UNCHANGED <<table, doubled>>
      BY <1>a, <3>1 DEF CountsTyped
    <3>2. CASE table' = Plus(table, flight.map) /\ doubled' = Plus(doubled, flight.map)
      <4>1. table' \in Counts /\ doubled' \in Counts
        BY <1>a, <3>2, PlusCounts DEF CountsTyped
      <4>2. ASSUME NEW j \in wcKeys PROVE table'[j] - doubled'[j] = table[j] - doubled[j]
        <5>1. table'[j] = table[j] + flight.map[j] /\ doubled'[j] = doubled[j] + flight.map[j]
          BY <1>a, <3>2, PlusCounts DEF CountsTyped
        <5>2. QED
          BY <1>a, <5>1 DEF CountsTyped, Counts
      <4>3. QED
        BY <4>1, <4>2
    <3>3. QED
      BY <2>1, <3>1, <3>2
  <2>7. ASSUME NEW j \in wcKeys PROVE Balanced(j)'
    <3>1. pending'[j] = capped.map[j] /\ dropped'[j] = dropped[j] + back[j] - capped.map[j]
          /\ flight'.map[j] = 0 /\ back[j] = pending[j] + flight.map[j] /\ total'[j] = total[j]
      BY <2>1, <2>2, EmptyCounts
    <3>2. capped.map[j] \in Int /\ back[j] \in Int /\ table'[j] \in Int /\ doubled'[j] \in Int
      BY <2>2, <2>3, <2>6 DEF Counts
    <3>3. QED
      BY <1>a, <2>6, <3>1, <3>2 DEF CountsTyped, Counts, Balanced
  <2>8. QED
    BY <2>4, <2>5, <2>6, <2>7 DEF ClimateInv, CountsTyped
<1>5. CASE Load
  <2>1. dropped' = Plus(dropped, Plus(pending, flight.map)) /\ pending' = Empty /\ flight' = NoFlight
        /\ UNCHANGED <<table, total, doubled>>
    BY <1>5 DEF Load
  <2>2. Plus(pending, flight.map) \in Counts
    BY <1>a, PlusCounts DEF CountsTyped
  <2>3. CountsTyped'
    BY <1>a, <2>1, <2>2, EmptyCounts, PlusCounts DEF CountsTyped
  <2>4. ASSUME NEW j \in wcKeys PROVE Balanced(j)'
    <3>1. dropped'[j] = dropped[j] + (pending[j] + flight.map[j]) /\ pending'[j] = 0 /\ flight'.map[j] = 0
      BY <1>a, <2>1, <2>2, EmptyCounts, PlusCounts DEF CountsTyped
    <3>2. QED
      BY <1>a, <2>1, <3>1 DEF CountsTyped, Counts, Balanced
  <2>5. QED
    BY <2>3, <2>4 DEF ClimateInv
<1>6. ASSUME \/ Save \/ WcTick \/ UNCHANGED wcVars
             \/ \E j \in WcJobs : refreshStatsAsync(j) \/ RefreshQuery(j) \/ RefreshDone(j)
             \/ \E q \in WcRequests : RegionCalendarStats(q) \/ ColdLoad(q) \/ ColdQuery(q) \/ ColdDone(q)
      PROVE  ClimateInv'
  <2>1. UNCHANGED wcStore
    BY <1>6 DEF Save, WcTick, wcVars, refreshStatsAsync, RefreshQuery, RefreshDone,
                RegionCalendarStats, ColdLoad, ColdQuery, ColdDone
  <2>2. UNCHANGED countVars
    BY <2>1 DEF wcStore, countVars
  <2>3. QED
    BY <2>2, ClimateUntouched
<1>7. QED
  BY <1>1, <1>2, <1>3, <1>4, <1>5, <1>6 DEF WcNext

\* Whatever arrives while a flush is under way, however flushes fail or lose
\* their answer, and whenever the cap or a restart strikes: every spot is in
\* the table, queued, in the flush or known to be given up, and is in the
\* table twice only after a commit that was reported as failed.
THEOREM ClimateCorrect == WcSpec => []ClimateConserves
<1>1. WcInit => ClimateInv
  BY ClimateInit
<1>2. ClimateInv /\ [WcNext]_wcVars => ClimateInv'
  BY ClimateStep
<1>3. ClimateInv => ClimateConserves
  BY ClimateByKey
<1>4. QED
  BY <1>1, <1>2, <1>3, PTL DEF WcSpec

-----------------------------------------------------------------------------
(* The cached statistics.                                                    *)

\* Counts that are no differences, and that one table has grown from another.
Tables == [wcKeys -> Nat]
AtMost(f, g) == \A k \in wcKeys : f[k] <= g[k]

\* The answers of a query for the statistics.
Answers == {NoCopy} \cup [from : {"pg"}, spots : Tables]

\* Types, as far as the argument needs them.
StatsTyped ==
    /\ wcNow \in Nat /\ statsAt \in Nat /\ wcRestarts \in Nat
    /\ table \in Tables /\ pending \in Tables /\ flight.map \in Tables
    /\ readers \in [WcRequests -> [st : {"idle", "wait", "query", "done"}, now : Nat, got : Answers]]
    /\ jobs \in [WcJobs -> [st : {"idle", "query", "done"}, now : Nat, got : Answers]]

\* A request and a refresh take no longer than they may.
InTime(r) == r.st # "idle" => r.now <= wcNow /\ wcNow - r.now <= WcQueryTime
AllInTime == (\A q \in WcRequests : InTime(readers[q])) /\ (\A j \in WcJobs : InTime(jobs[j]))

\* One refresh at a time, and only of a copy that is there.
OneRefresh ==
    /\ \A i, j \in WcJobs : jobs[i].st # "idle" /\ jobs[j].st # "idle" => i = j
    /\ \A j \in WcJobs : jobs[j].st # "idle" => statsRefreshing /\ statsCache # NoCopy

\* One load at a time, and only while there is no copy.
Loading(q) == readers[q].st \in {"query", "done"}
OneLoad ==
    /\ \A p, q \in WcRequests : Loading(p) /\ Loading(q) => p = q
    /\ \A q \in WcRequests : Loading(q) => statsCache = NoCopy

\* Who still waits for the load lock finds a copy fresh by its own clock.
WaitersServed ==
    statsCache # NoCopy =>
        \A q \in WcRequests : readers[q].st = "wait" => readers[q].now - statsAt < WcTTL

\* A copy of the table is not ahead of it, and an answer of a refresh is not
\* behind the copy it will replace.
CopiesBehind ==
    /\ statsCache.from = "pg" => statsCache.spots \in Tables /\ AtMost(statsCache.spots, table)
    /\ \A q \in WcRequests : readers[q].got # NoCopy => AtMost(readers[q].got.spots, table)
    /\ \A j \in WcJobs : jobs[j].st = "done" /\ jobs[j].got # NoCopy =>
          /\ AtMost(jobs[j].got.spots, table)
          /\ statsCache.from = "pg" => AtMost(statsCache.spots, jobs[j].got.spots)

StatsInv == StatsTyped /\ AllInTime /\ OneRefresh /\ OneLoad /\ WaitersServed /\ CopiesBehind

\* An answer other than "none" is the table's.
LEMMA AnswerFacts ==
  /\ NoCopy \in Answers /\ NoCopy.from = "none"
  /\ \A a \in Answers : a # NoCopy => a.from = "pg" /\ a.spots \in Tables
  /\ \A t \in Tables : [from |-> "pg", spots |-> t] \in Answers /\ [from |-> "pg", spots |-> t] # NoCopy
  /\ Reader \in [st : {"idle", "wait", "query", "done"}, now : Nat, got : Answers]
  /\ Job \in [st : {"idle", "query", "done"}, now : Nat, got : Answers]
  /\ Reader.st = "idle" /\ Reader.got = NoCopy /\ Job.st = "idle" /\ Job.got = NoCopy
<1>1. NoCopy \in Answers /\ NoCopy.from = "none"
  BY DEF Answers, NoCopy
<1>2. \A a \in Answers : a # NoCopy => a.from = "pg" /\ a.spots \in Tables
  BY DEF Answers
<1>3. \A t \in Tables : [from |-> "pg", spots |-> t] \in Answers /\ [from |-> "pg", spots |-> t] # NoCopy
  BY DEF Answers, NoCopy
<1>4. QED
  BY <1>1, <1>2, <1>3 DEF Reader, Job

\* The order of tables.
LEMMA AtMostOrder ==
  /\ \A f \in Tables : AtMost(f, f)
  /\ \A f, g, h \in Tables : AtMost(f, g) /\ AtMost(g, h) => AtMost(f, h)
  /\ \A f, g \in Tables : Plus(f, g) \in Tables /\ AtMost(f, Plus(f, g))
<1>1. \A f \in Tables : AtMost(f, f)
  BY DEF Tables, AtMost
<1>2. ASSUME NEW f \in Tables, NEW g \in Tables, NEW h \in Tables, AtMost(f, g), AtMost(g, h)
      PROVE  AtMost(f, h)
  <2>1. \A k \in wcKeys : f[k] \in Nat /\ g[k] \in Nat /\ h[k] \in Nat
    BY DEF Tables
  <2>2. QED
    BY <1>2, <2>1 DEF AtMost
<1>3. ASSUME NEW f \in Tables, NEW g \in Tables PROVE Plus(f, g) \in Tables /\ AtMost(f, Plus(f, g))
  BY DEF Tables, Plus, AtMost
<1>4. QED
  BY <1>1, <1>2, <1>3

\* What is counted is never taken out of the table again, whatever happens to
\* the pending counts.
LEMMA TableGrows ==
  ASSUME StatsTyped, [WcNext]_wcVars
  PROVE  /\ table' \in Tables /\ pending' \in Tables /\ flight'.map \in Tables
         /\ AtMost(table, table')
<1>1. table \in Tables /\ pending \in Tables /\ flight.map \in Tables
  BY DEF StatsTyped
<1>2. Empty \in Tables /\ NoFlight.map = Empty
  BY DEF Tables, Empty, NoFlight
<1>3. AtMost(table, table)
  BY <1>1, AtMostOrder
<1>4. ASSUME NEW k \in wcKeys, Observe(k)
      PROVE  table' = table /\ flight' = flight /\ pending' \in Tables
  <2>1. pending' = [pending EXCEPT ![k] = @ + 1] /\ table' = table /\ flight' = flight
    BY <1>4 DEF Observe
  <2>2. QED
    BY <1>1, <2>1 DEF Tables
<1>5. ASSUME FlushPending PROVE table' = table /\ flight'.map \in Tables /\ pending' \in Tables
  <2>1. flight'.map = pending /\ pending' = Empty /\ table' = table
    BY <1>5 DEF FlushPending
  <2>2. QED
    BY <1>1, <1>2, <2>1
<1>6. ASSUME FlushPendingWsprRegion
      PROVE  table' \in Tables /\ AtMost(table, table') /\ flight'.map \in Tables /\ pending' = pending
  <2>1. table' = Plus(table, flight.map) /\ flight' = NoFlight /\ pending' = pending
    BY <1>6 DEF FlushPendingWsprRegion
  <2>2. QED
    BY <1>1, <1>2, <2>1, AtMostOrder
<1>7. ASSUME FlushFails
      PROVE  table' \in Tables /\ AtMost(table, table') /\ flight'.map \in Tables /\ pending' \in Tables
  <2> DEFINE back == mergedBack
             count == pendingCount + flight.count
             capped == IF count > WcMaxPending THEN capPendingWsprRegion(back)
                       ELSE [map |-> back, count |-> count]
  <2>1. /\ pending' = capped.map /\ flight' = NoFlight
        /\ table' = table \/ table' = Plus(table, flight.map)
    BY <1>7 DEF FlushFails
  <2>2. back \in Tables
    BY <1>1, AtMostOrder DEF mergedBack
  <2>3. capPendingWsprRegion(back).map \in Tables
    <3> HIDE DEF back
    <3>1. QED
      BY <2>2 DEF Tables, capPendingWsprRegion
  <2>4. capped.map \in Tables
    BY <2>2, <2>3
  <2> HIDE DEF capped
  <2>5. QED
    BY <1>1, <1>2, <1>3, <2>1, <2>4, AtMostOrder
<1>8. ASSUME Load PROVE table' = table /\ flight'.map \in Tables /\ pending' \in Tables
  BY <1>2, <1>8 DEF Load
<1>9. ASSUME \/ Save \/ WcTick \/ UNCHANGED wcVars
             \/ \E j \in WcJobs : refreshStatsAsync(j) \/ RefreshQuery(j) \/ RefreshDone(j)
             \/ \E q \in WcRequests : RegionCalendarStats(q) \/ ColdLoad(q) \/ ColdQuery(q) \/ ColdDone(q)
      PROVE  table' = table /\ flight' = flight /\ pending' = pending
  BY <1>9 DEF Save, WcTick, wcVars, refreshStatsAsync, RefreshQuery, RefreshDone,
              RegionCalendarStats, ColdLoad, ColdQuery, ColdDone, wcStore
<1>10. QED
  BY <1>1, <1>3, <1>4, <1>5, <1>6, <1>7, <1>8, <1>9 DEF WcNext

\* A step that leaves the statistics alone; time may pass as far as the
\* requests and refreshes under way allow.
LEMMA StatsUntouched ==
  ASSUME StatsInv, UNCHANGED wcStats, wcRestarts' = wcRestarts, AllInTime', wcNow' \in Nat,
         table' \in Tables, pending' \in Tables, flight'.map \in Tables, AtMost(table, table')
  PROVE  StatsInv'
<1>1. UNCHANGED <<statsCache, statsAt, statsErrAt, statsRefreshing, readers, jobs>>
  BY DEF wcStats
<1>2. StatsTyped /\ table \in Tables
  BY DEF StatsInv, StatsTyped
<1>3. StatsTyped'
  BY <1>1, <1>2 DEF StatsTyped
<1>4. OneRefresh' /\ OneLoad' /\ WaitersServed'
  BY <1>1 DEF StatsInv, OneRefresh, OneLoad, Loading, WaitersServed
<1>5. CopiesBehind'
  <2>1. ASSUME NEW f \in Tables, AtMost(f, table) PROVE AtMost(f, table')
    BY <1>2, <2>1, AtMostOrder
  <2>2. \A q \in WcRequests : readers[q].got # NoCopy => readers[q].got.spots \in Tables
    BY <1>2, AnswerFacts DEF StatsTyped
  <2>3. \A j \in WcJobs : jobs[j].got # NoCopy => jobs[j].got.spots \in Tables
    BY <1>2, AnswerFacts DEF StatsTyped
  <2>4. CopiesBehind
    BY DEF StatsInv
  <2>5. QED
    BY <1>1, <2>1, <2>2, <2>3, <2>4 DEF CopiesBehind
<1>6. QED
  BY <1>3, <1>4, <1>5 DEF StatsInv

\* Requests that come and go, and refreshes that start and query, leave the
\* copy as it is.
LEMMA ReadersStep ==
  ASSUME StatsInv, NEW q \in WcRequests, RegionCalendarStats(q) \/ ColdLoad(q) \/ ColdQuery(q)
  PROVE  StatsInv' /\ statsCache' = statsCache
<1>1. UNCHANGED <<wcNow, wcRestarts, statsAt, table, pending, flight, statsCache, statsRefreshing, jobs>>
  BY DEF RegionCalendarStats, ColdLoad, ColdQuery, wcStore
<1>2. /\ StatsTyped /\ AllInTime /\ OneRefresh /\ OneLoad /\ WaitersServed /\ CopiesBehind
      /\ readers \in [WcRequests -> [st : {"idle", "wait", "query", "done"}, now : Nat, got : Answers]]
      /\ wcNow \in Nat /\ table \in Tables /\ WcQueryTime \in Nat
      /\ statsAt \in Nat
  BY WcAssumption DEF StatsInv, StatsTyped
<1> DEFINE R == [st : {"idle", "wait", "query", "done"}, now : Nat, got : Answers]
\* What becomes of the request, and what must be so for it.
<1>3. \E r \in R :
         /\ readers' = [readers EXCEPT ![q] = r]
         /\ InTime(r)
         /\ r.st = "wait" => statsCache = NoCopy
         /\ r.st \in {"query", "done"} =>
               statsCache = NoCopy /\ \A p \in WcRequests : Loading(p) => p = q
         /\ r.got # NoCopy => AtMost(r.got.spots, table)
  <2>1. CASE RegionCalendarStats(q)
    <3> DEFINE r == [Reader EXCEPT !.st = "wait", !.now = wcNow]
    <3>1. readers' = [readers EXCEPT ![q] = r] /\ statsCache = NoCopy
      BY <2>1 DEF RegionCalendarStats
    <3>2. Reader \in R /\ Reader.got = NoCopy
      BY AnswerFacts
    <3>3. r \in R /\ r.st = "wait" /\ r.now = wcNow /\ r.got = NoCopy
      BY <1>2, <3>2
    <3> HIDE DEF r
    <3>4. InTime(r)
      BY <1>2, <3>3 DEF InTime
    <3>5. QED
      BY <3>1, <3>3, <3>4
  <2>2. CASE ColdLoad(q)
    <3> DEFINE served == fresh(readers[q].now) \/ (statsCache = NoCopy /\ failedLately(readers[q].now))
               r == [readers[q] EXCEPT !.st = "query"]
    <3>1. /\ readers[q].st = "wait"
          /\ \A p \in WcRequests : readers[p].st \notin {"query", "done"}
          /\ readers' = [readers EXCEPT ![q] = IF served THEN Reader ELSE r]
      BY <2>2 DEF ColdLoad
    <3>2. readers[q] \in R
      BY <1>2
    <3>3. r \in R /\ r.st = "query" /\ r.now = readers[q].now /\ r.got = readers[q].got
      BY <3>2
    <3>4. CASE served
      <4>1. Reader \in R /\ Reader.st = "idle" /\ Reader.got = NoCopy /\ InTime(Reader)
        BY AnswerFacts DEF InTime
      <4>2. QED
        BY <3>1, <3>4, <4>1
    <3>5. CASE ~served
      <4>1. statsCache = NoCopy
        BY <1>2, <3>1, <3>5 DEF WaitersServed, fresh
      <4>2. InTime(r)
        BY <1>2, <3>1, <3>3 DEF AllInTime, InTime
      <4>3. r.got # NoCopy => AtMost(r.got.spots, table)
        BY <1>2, <3>3 DEF CopiesBehind
      <4>4. readers' = [readers EXCEPT ![q] = r]
        BY <3>1, <3>5
      <4> HIDE DEF r
      <4>5. QED
        BY <3>1, <3>3, <4>1, <4>2, <4>3, <4>4 DEF Loading
    <3>6. QED
      BY <3>4, <3>5
  <2>3. CASE ColdQuery(q)
    <3>1. PICK rows \in {NoCopy, WsprRegionCalendarStats} :
             readers' = [readers EXCEPT ![q] = [@ EXCEPT !.st = "done", !.got = rows]]
      BY <2>3 DEF ColdQuery
    <3>2. rows \in Answers /\ (rows # NoCopy => AtMost(rows.spots, table))
      BY <1>2, AnswerFacts, AtMostOrder DEF WsprRegionCalendarStats
    <3>3. readers[q] \in R /\ readers[q].st = "query"
      BY <1>2, <2>3 DEF ColdQuery
    <3> DEFINE r == [readers[q] EXCEPT !.st = "done", !.got = rows]
    <3>4. r \in R /\ r.st = "done" /\ r.got = rows /\ r.now = readers[q].now
      BY <3>2, <3>3
    <3>5. readers' = [readers EXCEPT ![q] = r]
      BY <1>2, <3>1
    <3>6. InTime(r)
      BY <1>2, <3>3, <3>4 DEF AllInTime, InTime
    <3>7. statsCache = NoCopy /\ \A p \in WcRequests : Loading(p) => p = q
      BY <1>2, <3>3 DEF OneLoad, Loading
    <3> HIDE DEF r
    <3>8. QED
      BY <3>2, <3>4, <3>5, <3>6, <3>7
  <2>4. QED
    BY <2>1, <2>2, <2>3
<1>4. PICK r \in R :
         /\ readers' = [readers EXCEPT ![q] = r]
         /\ InTime(r)
         /\ r.st = "wait" => statsCache = NoCopy
         /\ r.st \in {"query", "done"} =>
               statsCache = NoCopy /\ \A p \in WcRequests : Loading(p) => p = q
         /\ r.got # NoCopy => AtMost(r.got.spots, table)
  BY <1>3
<1>5. /\ readers' \in [WcRequests -> R]
      /\ \A p \in WcRequests : readers'[p] = IF p = q THEN r ELSE readers[p]
  BY <1>2, <1>4
<1>6. StatsTyped'
  BY <1>1, <1>2, <1>5 DEF StatsTyped
<1>7. AllInTime'
  BY <1>1, <1>2, <1>4, <1>5 DEF AllInTime, InTime
<1>8. OneRefresh'
  BY <1>1, <1>2 DEF OneRefresh
<1>9. OneLoad'
  BY <1>1, <1>2, <1>4, <1>5 DEF OneLoad, Loading
<1>10. WaitersServed'
  BY <1>1, <1>2, <1>4, <1>5 DEF WaitersServed
<1>11. CopiesBehind'
  BY <1>1, <1>2, <1>4, <1>5 DEF CopiesBehind
<1>12. QED
  BY <1>1, <1>6, <1>7, <1>8, <1>9, <1>10, <1>11 DEF StatsInv

\* A refresh that starts finds a copy and no other refresh; one that queries
\* finds a table the copy was drawn from, or a later one.
LEMMA RefreshStep ==
  ASSUME StatsInv, NEW j \in WcJobs, refreshStatsAsync(j) \/ RefreshQuery(j)
  PROVE  StatsInv' /\ statsCache' = statsCache
<1>1. UNCHANGED <<wcNow, wcRestarts, statsAt, table, pending, flight, statsCache, readers>>
  BY DEF refreshStatsAsync, RefreshQuery, wcStore
<1>2. /\ StatsTyped /\ AllInTime /\ OneRefresh /\ OneLoad /\ WaitersServed /\ CopiesBehind
      /\ jobs \in [WcJobs -> [st : {"idle", "query", "done"}, now : Nat, got : Answers]]
      /\ wcNow \in Nat /\ table \in Tables /\ WcQueryTime \in Nat
  BY WcAssumption DEF StatsInv, StatsTyped
<1> DEFINE J == [st : {"idle", "query", "done"}, now : Nat, got : Answers]
<1>3. \E r \in J :
         /\ jobs' = [jobs EXCEPT ![j] = r]
         /\ InTime(r) /\ statsCache # NoCopy /\ statsRefreshing'
         /\ \A i \in WcJobs : jobs[i].st # "idle" => i = j
         /\ r.st = "done" /\ r.got # NoCopy =>
               /\ AtMost(r.got.spots, table)
               /\ statsCache.from = "pg" => AtMost(statsCache.spots, r.got.spots)
  <2>1. CASE refreshStatsAsync(j)
    <3> DEFINE r == [st |-> "query", now |-> wcNow, got |-> NoCopy]
    <3>1. jobs' = [jobs EXCEPT ![j] = r] /\ statsCache # NoCopy /\ statsRefreshing' /\ ~statsRefreshing
      BY <2>1 DEF refreshStatsAsync, mayRefresh
    <3>2. r \in J /\ InTime(r)
      BY <1>2, AnswerFacts DEF InTime
    <3>3. \A i \in WcJobs : jobs[i].st # "idle" => i = j
      BY <1>2, <3>1 DEF OneRefresh
    <3>4. QED
      BY <3>1, <3>2, <3>3
  <2>2. CASE RefreshQuery(j)
    <3>1. PICK rows \in {NoCopy, WsprRegionCalendarStats} :
             jobs' = [jobs EXCEPT ![j] = [@ EXCEPT !.st = "done", !.got = rows]]
      BY <2>2 DEF RefreshQuery
    <3>2. /\ rows \in Answers
          /\ rows # NoCopy => AtMost(rows.spots, table) /\ rows.spots = table
      BY <1>2, AnswerFacts, AtMostOrder DEF WsprRegionCalendarStats
    <3>3. jobs[j] \in J /\ jobs[j].st = "query" /\ statsRefreshing' = statsRefreshing
      BY <1>2, <2>2 DEF RefreshQuery
    <3> DEFINE r == [jobs[j] EXCEPT !.st = "done", !.got = rows]
    <3>4. r \in J /\ r.st = "done" /\ r.got = rows /\ r.now = jobs[j].now
      BY <3>2, <3>3
    <3>5. jobs' = [jobs EXCEPT ![j] = r]
      BY <1>2, <3>1
    <3>6. InTime(r)
      BY <1>2, <3>3, <3>4 DEF AllInTime, InTime
    <3>7. statsRefreshing' /\ statsCache # NoCopy /\ \A i \in WcJobs : jobs[i].st # "idle" => i = j
      BY <1>2, <3>3 DEF OneRefresh
    <3>8. statsCache.from = "pg" => AtMost(statsCache.spots, table)
      BY <1>2 DEF CopiesBehind
    <3> HIDE DEF r
    <3>9. QED
      BY <3>2, <3>4, <3>5, <3>6, <3>7, <3>8
  <2>3. QED
    BY <2>1, <2>2
<1>4. PICK r \in J :
         /\ jobs' = [jobs EXCEPT ![j] = r]
         /\ InTime(r) /\ statsCache # NoCopy /\ statsRefreshing'
         /\ \A i \in WcJobs : jobs[i].st # "idle" => i = j
         /\ r.st = "done" /\ r.got # NoCopy =>
               /\ AtMost(r.got.spots, table)
               /\ statsCache.from = "pg" => AtMost(statsCache.spots, r.got.spots)
  BY <1>3
<1>5. /\ jobs' \in [WcJobs -> J]
      /\ \A i \in WcJobs : jobs'[i] = IF i = j THEN r ELSE jobs[i]
  BY <1>2, <1>4
<1>6. StatsTyped'
  BY <1>1, <1>2, <1>5 DEF StatsTyped
<1>7. AllInTime'
  BY <1>1, <1>2, <1>4, <1>5 DEF AllInTime, InTime
<1>8. OneRefresh'
  BY <1>1, <1>2, <1>4, <1>5 DEF OneRefresh
<1>9. OneLoad' /\ WaitersServed'
  BY <1>1, <1>2 DEF OneLoad, Loading, WaitersServed
<1>10. CopiesBehind'
  BY <1>1, <1>2, <1>4, <1>5 DEF CopiesBehind
<1>11. QED
  BY <1>1, <1>6, <1>7, <1>8, <1>9, <1>10 DEF StatsInv

\* What the statistics promise of a step.
Keeps == statsCache.from = "pg" =>
            statsCache'.from = "pg" /\ \A k \in wcKeys : statsCache'.spots[k] >= statsCache.spots[k]

\* The answer of the one refresh replaces the copy it was started for.
LEMMA RefreshDoneStep ==
  ASSUME StatsInv, NEW j \in WcJobs, RefreshDone(j)
  PROVE  StatsInv' /\ Keeps
<1>1. /\ UNCHANGED <<wcNow, wcRestarts, table, pending, flight, readers>>
      /\ statsRefreshing' = FALSE /\ jobs[j].st = "done" /\ jobs' = [jobs EXCEPT ![j] = Job]
  BY DEF RefreshDone, wcStore
<1>2. /\ StatsTyped /\ AllInTime /\ OneRefresh /\ OneLoad /\ WaitersServed /\ CopiesBehind
      /\ jobs \in [WcJobs -> [st : {"idle", "query", "done"}, now : Nat, got : Answers]]
      /\ readers \in [WcRequests -> [st : {"idle", "wait", "query", "done"}, now : Nat, got : Answers]]
      /\ wcNow \in Nat /\ table \in Tables /\ WcQueryTime \in Nat /\ WcTTL \in Nat /\ WcQueryTime < WcTTL
      /\ statsAt \in Nat
  BY WcAssumption DEF StatsInv, StatsTyped
<1>3. /\ jobs' \in [WcJobs -> [st : {"idle", "query", "done"}, now : Nat, got : Answers]]
      /\ \A i \in WcJobs : jobs'[i] = IF i = j THEN Job ELSE jobs[i]
      /\ \A i \in WcJobs : jobs'[i].st = "idle"
  <2>1. Job \in [st : {"idle", "query", "done"}, now : Nat, got : Answers] /\ Job.st = "idle"
    BY AnswerFacts
  <2>2. /\ jobs' \in [WcJobs -> [st : {"idle", "query", "done"}, now : Nat, got : Answers]]
        /\ \A i \in WcJobs : jobs'[i] = IF i = j THEN Job ELSE jobs[i]
    BY <1>1, <1>2, <2>1
  <2>3. \A i \in WcJobs : i # j => jobs[i].st = "idle"
    BY <1>1, <1>2 DEF OneRefresh
  <2>4. QED
    BY <2>1, <2>2, <2>3
<1>4. AllInTime' /\ OneRefresh'
  BY <1>1, <1>2, <1>3 DEF AllInTime, InTime, OneRefresh
<1>5. statsCache # NoCopy
  BY <1>1, <1>2 DEF OneRefresh
<1>6. CASE jobs[j].got = NoCopy
  <2>1. UNCHANGED <<statsCache, statsAt>>
    BY <1>6 DEF RefreshDone
  <2>2. StatsTyped' /\ OneLoad' /\ WaitersServed'
    BY <1>1, <1>2, <1>3, <2>1 DEF StatsTyped, OneLoad, Loading, WaitersServed
  <2>3. CopiesBehind'
    BY <1>1, <1>2, <1>3, <2>1 DEF CopiesBehind
  <2>4. statsCache.from = "pg" => \A k \in wcKeys : statsCache.spots[k] \in Nat
    BY <1>2 DEF CopiesBehind, Tables
  <2>5. Keeps
    BY <2>1, <2>4 DEF Keeps
  <2>6. QED
    BY <1>4, <2>2, <2>3, <2>5 DEF StatsInv
<1>7. CASE jobs[j].got # NoCopy
  <2>1. statsCache' = jobs[j].got /\ statsAt' = jobs[j].now
    BY <1>7 DEF RefreshDone
  <2>2. /\ jobs[j].got.from = "pg" /\ jobs[j].got.spots \in Tables /\ jobs[j].now \in Nat
        /\ AtMost(jobs[j].got.spots, table)
        /\ statsCache.from = "pg" => AtMost(statsCache.spots, jobs[j].got.spots) /\ statsCache.spots \in Tables
    BY <1>1, <1>2, <1>7, AnswerFacts DEF CopiesBehind
  <2>3. statsCache' # NoCopy
    BY <1>7, <2>1
  <2>4. StatsTyped'
    BY <1>1, <1>2, <1>3, <2>1, <2>2 DEF StatsTyped
  <2>5. OneLoad'
    BY <1>1, <1>2, <1>5 DEF OneLoad, Loading
  <2>6. WaitersServed'
    <3> SUFFICES ASSUME NEW q \in WcRequests, readers[q].st = "wait"
                 PROVE  readers[q].now - jobs[j].now < WcTTL
      BY <1>1, <2>1 DEF WaitersServed
    <3>1. readers[q].now <= wcNow /\ readers[q].now \in Nat
      BY <1>2 DEF AllInTime, InTime
    <3>2. wcNow - jobs[j].now <= WcQueryTime
      BY <1>1, <1>2 DEF AllInTime, InTime
    <3>3. QED
      BY <1>2, <2>2, <3>1, <3>2
  <2>7. CopiesBehind'
    BY <1>1, <1>2, <1>3, <2>1, <2>2 DEF CopiesBehind
  <2>8. Keeps
    <3>1. statsCache.from = "pg" => \A k \in wcKeys :
             statsCache.spots[k] \in Nat /\ jobs[j].got.spots[k] \in Nat /\ statsCache.spots[k] <= jobs[j].got.spots[k]
      BY <2>2 DEF AtMost, Tables
    <3>2. QED
      BY <2>1, <2>2, <3>1 DEF Keeps
  <2>9. QED
    BY <1>4, <2>4, <2>5, <2>6, <2>7, <2>8 DEF StatsInv
<1>8. QED
  BY <1>6, <1>7

\* The one load ends: there was no copy.
LEMMA ColdDoneStep ==
  ASSUME StatsInv, NEW q \in WcRequests, ColdDone(q)
  PROVE  StatsInv' /\ Keeps
<1>1. /\ UNCHANGED <<wcNow, wcRestarts, table, pending, flight, jobs, statsRefreshing>>
      /\ readers[q].st = "done" /\ readers' = [readers EXCEPT ![q] = Reader]
  BY DEF ColdDone, wcStore
<1>2. /\ StatsTyped /\ AllInTime /\ OneRefresh /\ OneLoad /\ WaitersServed /\ CopiesBehind
      /\ jobs \in [WcJobs -> [st : {"idle", "query", "done"}, now : Nat, got : Answers]]
      /\ readers \in [WcRequests -> [st : {"idle", "wait", "query", "done"}, now : Nat, got : Answers]]
      /\ wcNow \in Nat /\ table \in Tables /\ WcQueryTime \in Nat /\ WcTTL \in Nat /\ WcQueryTime < WcTTL
  BY WcAssumption DEF StatsInv, StatsTyped
<1>3. statsCache = NoCopy /\ \A p \in WcRequests : p # q => ~Loading(p)
  BY <1>1, <1>2 DEF OneLoad, Loading
<1>4. \A j \in WcJobs : jobs[j].st = "idle"
  BY <1>2, <1>3 DEF OneRefresh
<1>5. /\ statsAt' = readers[q].now
      /\ statsCache' = IF readers[q].got = NoCopy THEN regionCalendarStatsFromMemory ELSE readers[q].got
  BY <1>3 DEF ColdDone
<1>6. /\ readers' \in [WcRequests -> [st : {"idle", "wait", "query", "done"}, now : Nat, got : Answers]]
      /\ \A p \in WcRequests : readers'[p] = IF p = q THEN Reader ELSE readers[p]
      /\ Reader.st = "idle" /\ Reader.got = NoCopy
  BY <1>1, <1>2, AnswerFacts
<1>7. StatsTyped' /\ AllInTime' /\ OneRefresh'
  <2>1. readers[q].now \in Nat
    BY <1>2
  <2>2. StatsTyped'
    BY <1>1, <1>2, <1>5, <1>6, <2>1 DEF StatsTyped
  <2>3. AllInTime'
    BY <1>1, <1>2, <1>6 DEF AllInTime, InTime
  <2>4. OneRefresh'
    BY <1>1, <1>4 DEF OneRefresh
  <2>5. QED
    BY <2>2, <2>3, <2>4
<1>8. OneLoad'
  BY <1>3, <1>6 DEF OneLoad, Loading
<1>9. WaitersServed'
  <2> SUFFICES ASSUME NEW p \in WcRequests, readers'[p].st = "wait"
               PROVE  readers'[p].now - readers[q].now < WcTTL
    BY <1>5 DEF WaitersServed
  <2>1. readers'[p] = readers[p]
    BY <1>6
  <2>2. readers[p].now <= wcNow /\ readers[p].now \in Nat
    BY <1>2, <2>1 DEF AllInTime, InTime
  <2>3. wcNow - readers[q].now <= WcQueryTime /\ readers[q].now \in Nat
    BY <1>1, <1>2 DEF AllInTime, InTime
  <2>4. QED
    BY <1>2, <2>1, <2>2, <2>3
<1>10. CopiesBehind'
  <2>1. statsCache'.from = "pg" => statsCache'.spots \in Tables /\ AtMost(statsCache'.spots, table)
    <3>1. CASE readers[q].got = NoCopy
      <4>1. statsCache'.from \in {"none", "memory"}
        BY <1>5, <3>1, AnswerFacts DEF regionCalendarStatsFromMemory
      <4>2. QED
        BY <4>1
    <3>2. CASE readers[q].got # NoCopy
      BY <1>2, <1>5, <3>2, AnswerFacts DEF CopiesBehind
    <3>3. QED
      BY <3>1, <3>2
  <2>2. \A p \in WcRequests : readers'[p].got # NoCopy => AtMost(readers'[p].got.spots, table)
    BY <1>2, <1>6 DEF CopiesBehind
  <2>3. QED
    BY <1>1, <1>4, <2>1, <2>2 DEF CopiesBehind
<1>11. Keeps
  BY <1>3, AnswerFacts DEF Keeps
<1>12. QED
  BY <1>7, <1>8, <1>9, <1>10, <1>11 DEF StatsInv

\* Every step keeps the invariant, and but for a restart the promise.
LEMMA StatsStep ==
  ASSUME StatsInv, [WcNext]_wcVars
  PROVE  StatsInv' /\ (wcRestarts' = wcRestarts => Keeps)
<1>1. /\ table' \in Tables /\ pending' \in Tables /\ flight'.map \in Tables /\ AtMost(table, table')
      /\ StatsTyped /\ AllInTime /\ wcNow \in Nat /\ wcRestarts \in Nat
  BY TableGrows DEF StatsInv, StatsTyped
<1>2. ASSUME statsCache' = statsCache PROVE Keeps
  <2>1. statsCache.from = "pg" => \A k \in wcKeys : statsCache.spots[k] \in Nat
    BY DEF StatsInv, CopiesBehind, Tables
  <2>2. QED
    BY <1>2, <2>1 DEF Keeps
<1>3. ASSUME UNCHANGED <<wcStats, wcNow, wcRestarts>> PROVE StatsInv' /\ Keeps
  <2>1. AllInTime'
    BY <1>1, <1>3 DEF AllInTime, InTime, wcStats
  <2>2. StatsInv'
    BY <1>1, <1>3, <2>1, StatsUntouched
  <2>3. QED
    BY <1>2, <1>3, <2>2 DEF wcStats
<1>4. CASE WcTick
  <2>1. /\ \A j \in WcJobs : jobs[j].st # "idle" => wcNow - jobs[j].now < WcQueryTime
        /\ \A q \in WcRequests : readers[q].st # "idle" => wcNow - readers[q].now < WcQueryTime
        /\ wcNow' = wcNow + 1 /\ UNCHANGED <<wcStats, wcRestarts>>
    BY <1>4 DEF WcTick
  <2>2. /\ \A j \in WcJobs : jobs[j].now \in Nat
        /\ \A q \in WcRequests : readers[q].now \in Nat
        /\ WcQueryTime \in Nat
    BY <1>1, WcAssumption DEF StatsTyped
  <2>3. readers' = readers /\ jobs' = jobs
    BY <2>1 DEF wcStats
  <2>4. AllInTime'
    BY <1>1, <2>1, <2>2, <2>3 DEF AllInTime, InTime
  <2>5. StatsInv'
    BY <1>1, <2>1, <2>4, StatsUntouched
  <2>6. QED
    BY <1>2, <2>1, <2>5 DEF wcStats
<1>5. CASE Load
  <2>1. /\ statsCache' = NoCopy /\ statsAt' = 0 /\ wcRestarts' = wcRestarts + 1 /\ wcNow' = wcNow
        /\ readers' = [q \in WcRequests |-> Reader] /\ jobs' = [j \in WcJobs |-> Job]
    BY <1>5 DEF Load
  <2>2. StatsTyped'
    BY <1>1, <2>1, AnswerFacts DEF StatsTyped
  <2>3. AllInTime' /\ OneRefresh' /\ OneLoad' /\ WaitersServed'
    BY <2>1, AnswerFacts DEF AllInTime, InTime, OneRefresh, OneLoad, Loading, WaitersServed
  <2>4. CopiesBehind'
    BY <2>1, AnswerFacts DEF CopiesBehind
  <2>5. wcRestarts' # wcRestarts
    BY <1>1, <2>1 DEF StatsTyped
  <2>6. QED
    BY <2>2, <2>3, <2>4, <2>5 DEF StatsInv
<1>6. ASSUME \/ Save \/ UNCHANGED wcVars \/ FlushPending \/ FlushPendingWsprRegion \/ FlushFails
             \/ \E k \in wcKeys : Observe(k)
      PROVE  UNCHANGED <<wcStats, wcNow, wcRestarts>>
  BY <1>6 DEF Save, wcVars, FlushPending, FlushPendingWsprRegion, FlushFails, Observe
<1>7. ASSUME NEW j \in WcJobs, refreshStatsAsync(j) \/ RefreshQuery(j) \/ RefreshDone(j)
      PROVE  StatsInv' /\ Keeps
  BY <1>2, <1>7, RefreshStep, RefreshDoneStep
<1>8. ASSUME NEW q \in WcRequests, RegionCalendarStats(q) \/ ColdLoad(q) \/ ColdQuery(q) \/ ColdDone(q)
      PROVE  StatsInv' /\ Keeps
  BY <1>2, <1>8, ReadersStep, ColdDoneStep
<1>9. QED
  BY <1>3, <1>4, <1>5, <1>6, <1>7, <1>8 DEF WcNext

\* StatsNeverGoBack, for every number of requests and refreshes, every time to
\* live and every pace that keeps a request shorter than it: within a run of the
\* server the statistics drawn from the table are replaced only by statistics
\* of the same table or a later one, of every cell and day.
THEOREM StatsMonotone == WcSpec => StatsNeverGoBack
<1> DEFINE A == statsCache.from = "pg" /\ wcRestarts' = wcRestarts =>
                   /\ statsCache'.from = "pg"
                   /\ \A k \in wcKeys : statsCache'.spots[k] >= statsCache.spots[k]
<1>1. WcInit => StatsInv
  <2> SUFFICES ASSUME WcInit PROVE StatsInv
    OBVIOUS
  <2>1. /\ Empty \in Tables /\ NoFlight.map = Empty
        /\ readers = [q \in WcRequests |-> Reader] /\ jobs = [j \in WcJobs |-> Job]
        /\ statsCache = NoCopy /\ statsAt = 0 /\ wcNow = 0 /\ wcRestarts = 0
        /\ pending = Empty /\ flight = NoFlight /\ table = Empty
    BY DEF WcInit, Tables, Empty, NoFlight
  <2>2. StatsTyped
    BY <2>1, AnswerFacts DEF StatsTyped
  <2>3. AllInTime /\ OneRefresh /\ OneLoad /\ WaitersServed
    BY <2>1, AnswerFacts DEF AllInTime, InTime, OneRefresh, OneLoad, Loading, WaitersServed
  <2>4. CopiesBehind
    BY <2>1, AnswerFacts DEF CopiesBehind
  <2>5. QED
    BY <2>2, <2>3, <2>4 DEF StatsInv
<1>2. StatsInv /\ [WcNext]_wcVars => StatsInv' /\ [A]_wcVars
  BY StatsStep DEF Keeps
<1> HIDE DEF A
<1>3. WcSpec => [][A]_wcVars
  BY <1>1, <1>2, PTL DEF WcSpec
<1>4. QED
  BY <1>3 DEF A, StatsNeverGoBack

=============================================================================
