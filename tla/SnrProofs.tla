------------------------------ MODULE SnrProofs ------------------------------
(***************************************************************************)
(* Proofs about the SNR backfill, for every choice of its constants.       *)
(***************************************************************************)
EXTENDS SnrBackfill, FiniteSetTheorems, TLAPS

(***************************************************************************)
(* The counts.  The spots from before the deploy are constant; after it,   *)
(* as long as none that is older comes late, every spot adds to the live   *)
(* count of the deploy day or a later one.                                 *)
(***************************************************************************)
\* The hypothesis: no spot from before the columns were added arrives after it.
NoneBelated == \A i \in DOMAIN spots : i > Len(Before) => spots[i][1] >= SnrCutoff

\* The spots of a row from before the deploy, their number, and the keys that
\* have any, in the batches of the day.
EarlyOf(d, k) == {i \in DOMAIN Before : DayOf(Before[i][1]) = d /\ Before[i][2] = k}
Early(d, k) == Cardinality(EarlyOf(d, k))
EarlyKeys(d) == {k \in RowKeys : Early(d, k) > 0}
EarlyBatch(d, k) == Cardinality({l \in EarlyKeys(d) : l < k}) \div BatchSize
EarlyBatches(d) ==
    LET n == (Cardinality(EarlyKeys(d)) + BatchSize - 1) \div BatchSize IN
    IF d = DeployDay /\ n = 0 THEN 1 ELSE n

\* The spots of a row since the deploy, and their number.
LateOf(d, k) == {i \in DOMAIN spots : i > Len(Before) /\ DayOf(spots[i][1]) = d /\ spots[i][2] = k}
Late(d, k) == Cardinality(LateOf(d, k))

\* The part of a row's early spots up to a window, which is what has been read.
ReadSoFar(d, k, t) == Cardinality({i \in EarlyOf(d, k) : Before[i][1] < t})

\* The first window of a day, and the one its reading ends before.
Start(d) == d * Windows
ReadEnd(d) == IF d = DeployDay THEN SnrCutoff ELSE Start(d + 1)

(***************************************************************************)
(* The inductive invariant, in parts.                                      *)
(***************************************************************************)
Reading == job.pc \in {"read", "cover"}
OnDay == job.pc \in {"read", "cover", "write"}
DaysOver == job.pc \in {"watermark", "refold"}

JobType ==
    job \in [pc : {"start", "stopped", "read", "cover", "write", "watermark", "refold"},
             newSince : Nat, day : Nat, window : Nat, agg : [RowKeys -> Nat], batch : Nat,
             attempt : Nat, progress : Int, refolded : SUBSET Nat, round : Nat, w : Int]

\* Types, and what the log of spots says at any time.
SnrTypeOK ==
    /\ now \in SnrCutoff .. SnrMaxClock
    /\ spots \in Seq(Nat \X RowKeys) /\ Len(Before) <= Len(spots)
    /\ \A i \in DOMAIN spots : spots[i][1] <= now
    /\ \A i \in DOMAIN Before : spots[i] = Before[i]
    /\ rawRows \in SUBSET DOMAIN spots
    /\ snr \in [RowDays -> [RowKeys -> Nat]]
    /\ seasonSnr \in [RowDays -> [RowKeys -> Nat]]
    /\ folded \in Int /\ folded + 2 <= DayOf(now)
    /\ meta \in [since : 0 .. DeployDay + 1, done : BOOLEAN, partialDone : BOOLEAN,
                 progress : -1 .. EarlyBatches(DeployDay) - 1]
    /\ JobType

\* The raw table is pruned from its beginning: what has gone is older than
\* whatever is left.
PrunedFromBelow ==
    \A i \in DOMAIN Before \ rawRows, j \in rawRows : spots[i][1] < spots[j][1]

\* What the counters of the daily rows hold: on full days nothing or all, on
\* the deploy day the live spots and those of the batches committed so far.
CountersExact ==
    \A d \in RowDays, k \in RowKeys :
        /\ d < DeployDay => snr[d][k] \in {0, Early(d, k)}
        /\ d = DeployDay =>
             snr[d][k] = Late(d, k) + (IF EarlyBatch(d, k) <= meta.progress THEN Early(d, k) ELSE 0)
        /\ d > DeployDay => snr[d][k] = Late(d, k)

\* A day is complete when all its early spots are in its counters.
Complete(d) ==
    IF d = DeployDay THEN meta.partialDone ELSE \A k \in RowKeys : snr[d][k] = Early(d, k)

\* The marker of the deploy day is set with its last batch, and from the day
\* in the meta table on every day is complete.
MetaSound ==
    /\ meta.partialDone <=> meta.progress = EarlyBatches(DeployDay) - 1
    /\ ~meta.done => meta.since = DeployDay + 1
    /\ \A d \in meta.since .. DeployDay : Complete(d)

\* Where the runner is: the days it has left behind are complete, and until it
\* writes the deploy day it knows the progress made there.
JobSound ==
    /\ OnDay \/ DaysOver =>
         /\ ~meta.done
         /\ job.newSince <= job.day /\ job.day <= DeployDay + 1
         /\ job.progress <= meta.progress
    /\ OnDay => job.refolded = {}
    /\ OnDay => job.day <= DeployDay /\ \A d \in job.newSince .. job.day - 1 : Complete(d)
    /\ DaysOver => \A d \in job.newSince .. DeployDay : Complete(d)
    /\ (OnDay /\ job.day < DeployDay) \/ Reading => meta.progress = job.progress

\* What has been read is exact as long as the day is covered; a day that was
\* still covered after its last window is exact for good.
ReadSound ==
    /\ job.pc = "read" => job.window \in Start(job.day) .. ReadEnd(job.day) - 1
    /\ job.pc = "cover" => job.window = ReadEnd(job.day)
    /\ Reading /\ CoveredFrom(Start(job.day)) =>
         \A k \in RowKeys : job.agg[k] = ReadSoFar(job.day, k, job.window)

WriteSound ==
    job.pc = "write" =>
        /\ \A k \in RowKeys : job.agg[k] = Early(job.day, k)
        /\ job.batch <= EarlyBatches(job.day)
        /\ job.day < DeployDay =>
             \A k \in EarlyKeys(job.day) :
                EarlyBatch(job.day, k) < job.batch => snr[job.day][k] = Early(job.day, k)
        /\ job.day = DeployDay =>
             meta.progress = IF job.batch <= job.progress THEN job.progress ELSE job.batch - 1

\* The seasonal record: exact from the day in the meta table on, and for the
\* days the job has folded again.
SeasonExact(d) == \A k \in RowKeys : seasonSnr[d][k] = Early(d, k) + Late(d, k)

SeasonSound ==
    /\ \A d \in RowDays : meta.since <= d /\ d <= folded => SeasonExact(d)
    /\ DaysOver =>
         /\ \A d \in job.refolded : d \in RowDays /\ d <= folded /\ SeasonExact(d)
         /\ job.pc = "refold" => job.w <= folded

SnrSound ==
    /\ SnrTypeOK /\ PrunedFromBelow /\ CountersExact /\ MetaSound
    /\ JobSound /\ ReadSound /\ WriteSound /\ SeasonSound

\* The log of spots is one whether a spot came belatedly or not.
SnrLog == now \in SnrCutoff .. SnrMaxClock /\ spots \in Seq(Nat \X RowKeys)

SnrInv == SnrLog /\ (NoneBelated => SnrSound)

(***************************************************************************)
(* Days and counts.                                                        *)
(***************************************************************************)
\* A time lies in its day.
LEMMA DayBounds ==
  ASSUME NEW t \in Nat
  PROVE  DayOf(t) \in Nat /\ Start(DayOf(t)) <= t /\ t < Start(DayOf(t)) + Windows
<1>1. \A n \in Nat, w \in Nat \ {0} :
         n \div w \in Nat /\ (n \div w) * w <= n /\ n < (n \div w) * w + w
  OBVIOUS
<1>2. QED
  BY <1>1, SnrConstants DEF DayOf, Start

\* The first windows of the days.
LEMMA StartInt == ASSUME NEW d \in Int PROVE Start(d) \in Int /\ Start(d + 1) = Start(d) + Windows
  BY SnrConstants DEF Start

\* Every later day begins a day's length later.
LEMMA StartMono ==
  ASSUME NEW d \in Int, NEW e \in Int, d < e
  PROVE  Start(d) + Windows <= Start(e)
<1>1. \A m, w \in Nat : m * w \in Nat /\ (m + 1) * w = m * w + w
  OBVIOUS
<1>2. \A m, w \in Nat, c \in Int : (c + (m + 1)) * w = c * w + (m + 1) * w /\ c * w \in Int
  OBVIOUS
<1> DEFINE m == e - d - 1
<1>3. m \in Nat /\ e = d + (m + 1)
  OBVIOUS
<1> HIDE DEF m
<1>4. e * Windows = d * Windows + (m * Windows + Windows) /\ m * Windows \in Nat /\ d * Windows \in Int /\ Windows \in Nat
  BY <1>1, <1>2, <1>3, SnrConstants
<1>5. d * Windows + Windows <= e * Windows
  BY <1>4
<1>6. QED
  BY <1>5 DEF Start

\* A time lies in no other day.
LEMMA DayIs ==
  ASSUME NEW t \in Nat, NEW d \in Int
  PROVE  /\ DayOf(t) = d <=> Start(d) <= t /\ t < Start(d + 1)
         /\ DayOf(t) < d <=> t < Start(d)
<1> DEFINE c == DayOf(t)
<1>1. c \in Int /\ Start(c) <= t /\ t < Start(c) + Windows
  BY DayBounds
<1>2. Start(c) \in Int /\ Start(d) \in Int /\ Start(d + 1) = Start(d) + Windows /\ Windows \in Nat
  BY <1>1, StartInt, SnrConstants
<1>3. c < d => Start(c) + Windows <= Start(d)
  BY <1>1, StartMono
<1>4. d < c => Start(d) + Windows <= Start(c)
  BY <1>1, StartMono
<1>5. c = d => Start(c) = Start(d)
  OBVIOUS
<1> HIDE DEF c
<1>6. c = d <=> Start(d) <= t /\ t < Start(d + 1)
  BY <1>1, <1>2, <1>3, <1>4, <1>5
<1>7. c < d <=> t < Start(d)
  BY <1>1, <1>2, <1>3, <1>4, <1>5
<1>8. QED
  BY <1>6, <1>7 DEF c

\* The columns were added within the deploy day, not at its start.
LEMMA DeployFacts ==
  /\ DeployDay \in Nat /\ SnrCutoff \in Nat /\ SnrMaxClock \in Nat
  /\ Start(DeployDay) < SnrCutoff /\ SnrCutoff < Start(DeployDay + 1)
  /\ DeployDay \in RowDays /\ DayOf(SnrMaxClock) \in Nat
<1>1. SnrCutoff \in Nat /\ SnrMaxClock \in Nat /\ SnrCutoff <= SnrMaxClock
  BY SnrConstants
<1>2. DeployDay \in Nat /\ Start(DeployDay) <= SnrCutoff /\ SnrCutoff < Start(DeployDay) + Windows
  BY <1>1, DayBounds DEF DeployDay
<1>3. Start(DeployDay) # SnrCutoff
  <2>1. \A a \in Nat, w \in Nat \ {0} : a = (a \div w) * w + (a % w) /\ (a \div w) * w \in Int /\ a % w \in Int
    OBVIOUS
  <2>2. SnrCutoff = Start(DeployDay) + (SnrCutoff % Windows) /\ Start(DeployDay) \in Int /\ SnrCutoff % Windows \in Int
    BY <2>1, <1>1, SnrConstants DEF DeployDay, DayOf, Start
  <2>3. SnrCutoff % Windows # 0
    BY SnrConstants
  <2>4. QED
    BY <2>2, <2>3, <1>1
<1>4. Start(DeployDay + 1) = Start(DeployDay) + Windows
  BY <1>2, StartInt
<1>5. DayOf(SnrMaxClock) \in Nat /\ DeployDay <= DayOf(SnrMaxClock)
  <2>1. DayOf(SnrMaxClock) \in Nat
    BY <1>1, DayBounds
  <2>2. ~(DayOf(SnrMaxClock) < DeployDay)
    <3>1. DayOf(SnrMaxClock) < DeployDay <=> SnrMaxClock < Start(DeployDay)
      BY <1>1, <1>2, DayIs
    <3>2. Start(DeployDay) \in Int
      BY <1>2, StartInt
    <3>3. QED
      BY <3>1, <3>2, <1>1, <1>2
  <2>3. QED
    BY <2>1, <2>2, <1>2
<1>6. Start(DeployDay) \in Int /\ Windows \in Nat
  BY <1>2, StartInt, SnrConstants
<1>7. Start(DeployDay) < SnrCutoff /\ SnrCutoff < Start(DeployDay + 1)
  BY <1>1, <1>2, <1>3, <1>4, <1>6
<1>8. QED
  BY <1>1, <1>2, <1>5, <1>7 DEF RowDays

\* Times of rows of the table.
LEMMA RowDay ==
  ASSUME NEW t \in Nat, t <= SnrMaxClock
  PROVE  DayOf(t) \in RowDays
<1>1. DayOf(t) \in Nat /\ Start(DayOf(t)) <= t
  BY DayBounds
<1>2. ~(DayOf(SnrMaxClock) < DayOf(t))
  <2>1. SnrMaxClock \in Nat
    BY DeployFacts
  <2>2. DayOf(SnrMaxClock) < DayOf(t) <=> SnrMaxClock < Start(DayOf(t))
    BY <1>1, <2>1, DayIs
  <2>3. Start(DayOf(t)) \in Int
    BY <1>1, StartInt
  <2>4. QED
    BY <1>1, <2>1, <2>2, <2>3
<1>3. DayOf(SnrMaxClock) \in Nat
  BY DeployFacts
<1>4. QED
  BY <1>1, <1>2, <1>3 DEF RowDays

\* The spots from before the deploy.
LEMMA EarlyTimes ==
  ASSUME NEW i \in DOMAIN Before
  PROVE  /\ Before[i][1] \in Nat /\ Before[i][1] < SnrCutoff /\ Before[i][2] \in RowKeys
         /\ DayOf(Before[i][1]) \in 0 .. DeployDay
         /\ Before[i] = <<Before[i][1], Before[i][2]>>
<1>1. Before[i] \in (0 .. SnrCutoff - 1) \X RowKeys
  BY SnrConstants
<1>2. SnrCutoff \in Nat
  BY DeployFacts
<1>3. Before[i][1] \in Nat /\ Before[i][1] < SnrCutoff /\ Before[i][2] \in RowKeys
  BY <1>1, <1>2
<1>4. DayOf(Before[i][1]) \in Nat
  BY <1>3, DayBounds
<1>5. DayOf(Before[i][1]) < DeployDay + 1
  <2>1. DayOf(Before[i][1]) < DeployDay + 1 <=> Before[i][1] < Start(DeployDay + 1)
    BY <1>3, DayIs, DeployFacts
  <2>2. Start(DeployDay + 1) \in Int
    BY DeployFacts, StartInt
  <2>3. QED
    BY <2>1, <2>2, <1>2, <1>3, DeployFacts
<1>6. Before[i] = <<Before[i][1], Before[i][2]>>
  BY <1>1
<1>7. QED
  BY <1>3, <1>4, <1>5, <1>6, DeployFacts

\* There are finitely many of them, none after the deploy day.
LEMMA EarlyFinite ==
  ASSUME NEW d, NEW k
  PROVE  /\ IsFiniteSet(EarlyOf(d, k)) /\ Early(d, k) \in Nat
         /\ d \notin 0 .. DeployDay => Early(d, k) = 0
         /\ Early(d, k) = 0 <=> EarlyOf(d, k) = {}
<1>1. DOMAIN Before = 1 .. Len(Before) /\ Len(Before) \in Nat
  BY SnrConstants
<1>2. IsFiniteSet(DOMAIN Before)
  BY <1>1, FS_Interval
<1>3. EarlyOf(d, k) \in SUBSET DOMAIN Before
  BY DEF EarlyOf
<1>4. IsFiniteSet(EarlyOf(d, k))
  BY <1>2, <1>3, FS_Subset
<1>5. Early(d, k) \in Nat /\ (Early(d, k) = 0 <=> EarlyOf(d, k) = {})
  BY <1>4, FS_CardinalityType, FS_EmptySet DEF Early
<1>6. d \notin 0 .. DeployDay => EarlyOf(d, k) = {}
  BY EarlyTimes DEF EarlyOf
<1>7. QED
  BY <1>4, <1>5, <1>6

\* The spots since the deploy, and the number of all.
LEMMA LateFinite ==
  ASSUME SnrTypeOK, NEW d, NEW k
  PROVE  /\ IsFiniteSet(LateOf(d, k)) /\ Late(d, k) \in Nat
         /\ IsFiniteSet(SpotsOf(d, k))
         /\ Cardinality(SpotsOf(d, k)) = Early(d, k) + Late(d, k)
<1>1. /\ DOMAIN spots = 1 .. Len(spots) /\ Len(spots) \in Nat
      /\ DOMAIN Before = 1 .. Len(Before) /\ Len(Before) \in Nat /\ Len(Before) <= Len(spots)
      /\ \A i \in DOMAIN Before : spots[i] = Before[i]
  <2>1. spots \in Seq(Nat \X RowKeys) /\ Len(Before) <= Len(spots) /\ \A i \in DOMAIN Before : spots[i] = Before[i]
    BY DEF SnrTypeOK
  <2>2. Before \in Seq((0 .. SnrCutoff - 1) \X RowKeys)
    BY SnrConstants
  <2>3. QED
    BY <2>1, <2>2
<1>2. IsFiniteSet(DOMAIN spots)
  BY <1>1, FS_Interval
<1>3. LateOf(d, k) \in SUBSET DOMAIN spots /\ SpotsOf(d, k) \in SUBSET DOMAIN spots
  BY DEF LateOf, SpotsOf
<1>4. IsFiniteSet(LateOf(d, k)) /\ IsFiniteSet(SpotsOf(d, k))
  BY <1>2, <1>3, FS_Subset
<1>5. Late(d, k) \in Nat
  BY <1>4, FS_CardinalityType DEF Late
<1>6. SpotsOf(d, k) = EarlyOf(d, k) \cup LateOf(d, k) /\ EarlyOf(d, k) \cap LateOf(d, k) = {}
  BY <1>1 DEF SpotsOf, EarlyOf, LateOf
<1>7. IsFiniteSet(EarlyOf(d, k)) /\ Early(d, k) \in Nat
  BY EarlyFinite
<1>8. Cardinality(SpotsOf(d, k)) = Early(d, k) + Late(d, k)
  <2>1. Cardinality(EarlyOf(d, k) \cup LateOf(d, k))
           = Cardinality(EarlyOf(d, k)) + Cardinality(LateOf(d, k)) - Cardinality(EarlyOf(d, k) \cap LateOf(d, k))
    BY <1>4, <1>7, FS_Union
  <2>2. Cardinality({}) = 0
    BY FS_EmptySet
  <2>3. Cardinality(SpotsOf(d, k)) = Early(d, k) + Late(d, k) - 0
    BY <2>1, <2>2, <1>6 DEF Early, Late
  <2>4. QED
    BY <2>3, <1>5, <1>7
<1>9. QED
  BY <1>4, <1>5, <1>8

\* None of them is of a day before the deploy, if none comes belatedly.
LEMMA LateNone ==
  ASSUME SnrTypeOK, NoneBelated, NEW d \in Int, d < DeployDay, NEW k
  PROVE  Late(d, k) = 0
<1>1. ASSUME NEW i \in DOMAIN spots, i > Len(Before) PROVE DayOf(spots[i][1]) # d
  <2>1. spots[i][1] \in Nat /\ spots[i][1] >= SnrCutoff
    <3>1. spots[i] \in Nat \X RowKeys
      BY DEF SnrTypeOK
    <3>2. QED
      BY <3>1, <1>1 DEF NoneBelated
  <2>2. ~(DayOf(spots[i][1]) < DeployDay)
    <3>1. DayOf(spots[i][1]) < DeployDay <=> spots[i][1] < Start(DeployDay)
      BY <2>1, DayIs, DeployFacts
    <3>2. Start(DeployDay) \in Int
      BY StartInt, DeployFacts
    <3>3. QED
      BY <3>1, <3>2, <2>1, DeployFacts
  <2>3. QED
    BY <2>2
<1>2. LateOf(d, k) = {}
  BY <1>1 DEF LateOf
<1>3. QED
  BY <1>2, FS_EmptySet DEF Late

\* The batches of a day: each of its keys is in one of them.
LEMMA BatchFacts ==
  ASSUME NEW d
  PROVE  /\ IsFiniteSet(EarlyKeys(d))
         /\ EarlyBatches(d) \in Nat /\ (d = DeployDay => EarlyBatches(d) >= 1)
         /\ \A k \in RowKeys : EarlyBatch(d, k) \in Nat
         /\ \A k \in EarlyKeys(d) : EarlyBatch(d, k) < EarlyBatches(d)
<1>1. IsFiniteSet(EarlyKeys(d)) /\ BatchSize \in Nat \ {0} /\ RowKeys \subseteq Nat
  <2>1. EarlyKeys(d) \in SUBSET RowKeys /\ IsFiniteSet(RowKeys)
    BY SnrConstants DEF EarlyKeys
  <2>2. QED
    BY <2>1, FS_Subset, SnrConstants
<1> DEFINE n == Cardinality(EarlyKeys(d))
           B(k) == {l \in EarlyKeys(d) : l < k}
           r(k) == Cardinality(B(k))
<1>2. n \in Nat
  BY <1>1, FS_CardinalityType
<1>3. \A k \in RowKeys : r(k) \in Nat
  <2>1. \A k : B(k) \in SUBSET EarlyKeys(d)
    OBVIOUS
  <2>2. \A k : IsFiniteSet(B(k))
    BY <1>1, <2>1, FS_Subset
  <2>3. QED
    BY <2>2, FS_CardinalityType
<1>4. \A k \in EarlyKeys(d) : r(k) < n
  <2> SUFFICES ASSUME NEW k \in EarlyKeys(d) PROVE r(k) < n
    OBVIOUS
  <2>1. B(k) \in SUBSET EarlyKeys(d) /\ k \in Nat /\ k \in RowKeys
    BY <1>1 DEF EarlyKeys
  <2>2. k \notin B(k)
    BY <2>1
  <2>3. r(k) <= n /\ (n = r(k) => EarlyKeys(d) = B(k))
    <3> HIDE DEF B
    <3>1. QED
      BY <1>1, <2>1, FS_Subset
  <2>4. r(k) # n
    BY <2>2, <2>3
  <2>5. QED
    BY <2>1, <2>3, <2>4, <1>2, <1>3
<1>5. \A a, b \in Nat : b # 0 => /\ a \div b \in Nat /\ (a \div b) * b <= a
                                 /\ a < (a \div b) * b + b
  OBVIOUS
<1>6. \A p, q, b \in Nat : p <= q => p * b <= q * b /\ p * b \in Nat /\ q * b \in Nat
  <2>1. \A p, b, c \in Nat : (p + c) * b = p * b + c * b /\ c * b \in Nat /\ p * b \in Nat
    OBVIOUS
  <2>2. SUFFICES ASSUME NEW p \in Nat, NEW q \in Nat, NEW b \in Nat, p <= q
                 PROVE  p * b <= q * b /\ p * b \in Nat /\ q * b \in Nat
    OBVIOUS
  <2>3. q - p \in Nat /\ q = p + (q - p)
    BY <2>2
  <2>4. q * b = p * b + (q - p) * b /\ (q - p) * b \in Nat /\ p * b \in Nat
    BY <2>1, <2>3
  <2>5. QED
    BY <2>4
<1>7. \A a, m, b \in Nat : b # 0 /\ a < m => (a \div b) < (m + b - 1) \div b
  <2>1. SUFFICES ASSUME NEW a \in Nat, NEW m \in Nat, NEW b \in Nat, b # 0, a < m
                 PROVE  (a \div b) < (m + b - 1) \div b
    OBVIOUS
  <2> DEFINE q == a \div b
             p == (m + b - 1) \div b
  <2>2. m + b - 1 \in Nat
    BY <2>1
  <2>3. q \in Nat /\ q * b <= a
    BY <1>5, <2>1
  <2>4. p \in Nat /\ m + b - 1 < p * b + b
    BY <1>5, <2>1, <2>2
  <2>5. p <= q => p * b <= q * b
    BY <1>6, <2>3, <2>4
  <2>6. p * b \in Nat /\ q * b \in Nat
    BY <1>6, <2>3, <2>4
  <2> HIDE DEF p, q
  <2>7. q < p
    BY <2>1, <2>3, <2>4, <2>5, <2>6
  <2>8. QED
    BY <2>7 DEF p, q
<1>8. \A m, b \in Nat : b # 0 => (m + b - 1) \div b \in Nat
  <2>1. \A m, b \in Nat : b # 0 => m + b - 1 \in Nat
    OBVIOUS
  <2>2. QED
    BY <2>1, <1>5
<1> HIDE DEF B, r, n
<1>9. EarlyBatches(d) \in Nat /\ (d = DeployDay => EarlyBatches(d) >= 1)
  BY <1>1, <1>2, <1>8 DEF EarlyBatches, n
<1>10. \A k \in RowKeys : EarlyBatch(d, k) \in Nat
  <2>1. \A k \in RowKeys : EarlyBatch(d, k) = r(k) \div BatchSize
    BY DEF EarlyBatch, r, B
  <2>2. QED
    BY <2>1, <1>1, <1>3, <1>5
<1>11. \A k \in EarlyKeys(d) : EarlyBatch(d, k) < EarlyBatches(d)
  <2>1. SUFFICES ASSUME NEW k \in EarlyKeys(d) PROVE EarlyBatch(d, k) < EarlyBatches(d)
    OBVIOUS
  <2>2. k \in RowKeys
    BY <2>1 DEF EarlyKeys
  <2>3. r(k) < n /\ r(k) \in Nat
    BY <1>3, <1>4, <2>1, <2>2
  <2>4. r(k) \div BatchSize < (n + BatchSize - 1) \div BatchSize
    BY <1>1, <1>2, <1>7, <2>3
  <2>5. EarlyBatch(d, k) = r(k) \div BatchSize
    BY DEF EarlyBatch, r, B
  <2> DEFINE e == (n + BatchSize - 1) \div BatchSize
  <2>6. EarlyBatches(d) = e \/ (e = 0 /\ EarlyBatches(d) = 1)
    BY DEF EarlyBatches, n
  <2>7. e \in Nat /\ r(k) \div BatchSize \in Nat
    BY <1>1, <1>2, <1>5, <1>8, <2>3
  <2> HIDE DEF e
  <2>8. r(k) \div BatchSize < e
    BY <2>4 DEF e
  <2>9. QED
    BY <2>5, <2>6, <2>7, <2>8
<1>12. QED
  BY <1>1, <1>9, <1>10, <1>11

(***************************************************************************)
(* Reading a day.                                                          *)
(***************************************************************************)
\* A day is read from its start to its end, the deploy day to the cutoff.
LEMMA ReadEnds ==
  ASSUME NEW d \in 0 .. DeployDay
  PROVE  /\ Start(d) \in Nat /\ ReadEnd(d) \in Nat
         /\ Start(d) < ReadEnd(d) /\ ReadEnd(d) <= SnrCutoff /\ ReadEnd(d) <= Start(d + 1)
<1>1. d \in Int /\ d \in Nat /\ d <= DeployDay
  BY DeployFacts
<1>2. Start(d) \in Nat
  BY <1>1, SnrConstants DEF Start
<1>3. Start(d + 1) = Start(d) + Windows /\ Windows \in Nat \ {0}
  BY <1>1, StartInt, SnrConstants
<1>4. CASE d = DeployDay
  BY <1>2, <1>3, <1>4, DeployFacts DEF ReadEnd
<1>5. CASE d # DeployDay
  <2>1. Start(d) + Windows <= Start(DeployDay) /\ Start(DeployDay) \in Int
    BY <1>1, <1>5, DeployFacts, StartMono, StartInt
  <2>2. QED
    BY <2>1, <1>2, <1>3, <1>5, DeployFacts DEF ReadEnd
<1>6. QED
  BY <1>4, <1>5

\* Before the first window nothing has been read, after the last one all.
LEMMA ReadAll ==
  ASSUME NEW d \in 0 .. DeployDay, NEW k
  PROVE  ReadSoFar(d, k, Start(d)) = 0 /\ ReadSoFar(d, k, ReadEnd(d)) = Early(d, k)
<1>1. \A i \in EarlyOf(d, k) : /\ Before[i][1] \in Nat /\ Before[i][1] < SnrCutoff
                               /\ Start(d) <= Before[i][1] /\ Before[i][1] < Start(d + 1)
  <2> SUFFICES ASSUME NEW i \in EarlyOf(d, k)
               PROVE  /\ Before[i][1] \in Nat /\ Before[i][1] < SnrCutoff
                      /\ Start(d) <= Before[i][1] /\ Before[i][1] < Start(d + 1)
    OBVIOUS
  <2>1. i \in DOMAIN Before /\ DayOf(Before[i][1]) = d
    BY DEF EarlyOf
  <2>2. Before[i][1] \in Nat /\ Before[i][1] < SnrCutoff
    BY <2>1, EarlyTimes
  <2>3. d \in Int
    OBVIOUS
  <2>4. QED
    BY <2>1, <2>2, <2>3, DayIs
<1>2. Start(d) \in Nat /\ (ReadEnd(d) = SnrCutoff \/ ReadEnd(d) = Start(d + 1))
  BY ReadEnds DEF ReadEnd
<1>3. {i \in EarlyOf(d, k) : Before[i][1] < Start(d)} = {}
  BY <1>1, <1>2
<1>4. {i \in EarlyOf(d, k) : Before[i][1] < ReadEnd(d)} = EarlyOf(d, k)
  BY <1>1, <1>2
<1>5. QED
  BY <1>3, <1>4, FS_EmptySet DEF ReadSoFar, Early

\* A window adds the spots of its time.
LEMMA ReadStep ==
  ASSUME NEW d, NEW k, NEW t \in Nat
  PROVE  /\ ReadSoFar(d, k, t) \in Nat
         /\ ReadSoFar(d, k, t + 1)
              = ReadSoFar(d, k, t) + Cardinality({i \in EarlyOf(d, k) : Before[i][1] = t})
<1> DEFINE S == {i \in EarlyOf(d, k) : Before[i][1] < t}
           T == {i \in EarlyOf(d, k) : Before[i][1] = t}
           U == {i \in EarlyOf(d, k) : Before[i][1] < t + 1}
<1>1. \A i \in EarlyOf(d, k) : Before[i][1] \in Nat
  BY EarlyTimes DEF EarlyOf
<1>2. U = S \cup T /\ S \cap T = {}
  BY <1>1
<1>3. S \in SUBSET EarlyOf(d, k) /\ T \in SUBSET EarlyOf(d, k)
  OBVIOUS
<1> HIDE DEF S, T, U
<1>4. IsFiniteSet(S) /\ IsFiniteSet(T)
  BY <1>3, EarlyFinite, FS_Subset
<1>5. Cardinality(S) \in Nat /\ Cardinality(T) \in Nat
  BY <1>4, FS_CardinalityType
<1>6. Cardinality(U) = Cardinality(S) + Cardinality(T) - Cardinality(S \cap T)
  BY <1>2, <1>4, FS_Union
<1>7. Cardinality(S \cap T) = 0
  BY <1>2, FS_EmptySet
<1>8. Cardinality(U) = Cardinality(S) + Cardinality(T)
  BY <1>5, <1>6, <1>7
<1>9. QED
  BY <1>5, <1>8 DEF ReadSoFar, S, T, U

\* While the day is covered, the raw rows of a window are its early spots.
LEMMA RawRead ==
  ASSUME SnrTypeOK, NoneBelated, PrunedFromBelow, NEW d \in 0 .. DeployDay, NEW k \in RowKeys,
         CoveredFrom(Start(d)), NEW t \in Start(d) .. ReadEnd(d) - 1
  PROVE  {i \in rawRows : spots[i] = <<t, k>>} = {i \in EarlyOf(d, k) : Before[i][1] = t}
<1>1. /\ spots \in Seq(Nat \X RowKeys) /\ Len(Before) <= Len(spots)
      /\ \A i \in DOMAIN Before : spots[i] = Before[i]
      /\ rawRows \in SUBSET DOMAIN spots
  BY DEF SnrTypeOK
<1>2. /\ DOMAIN spots = 1 .. Len(spots) /\ Len(spots) \in Nat
      /\ DOMAIN Before = 1 .. Len(Before) /\ Len(Before) \in Nat
  BY <1>1, SnrConstants
<1>3. /\ t \in Nat /\ Start(d) <= t /\ t < ReadEnd(d) /\ t < SnrCutoff /\ t < Start(d + 1)
      /\ Start(d) \in Nat
  <2>1. SnrCutoff \in Nat /\ Start(d + 1) \in Int
    BY DeployFacts, StartInt
  <2>2. QED
    BY <2>1, ReadEnds
<1>4. DayOf(t) = d
  BY <1>3, DayIs
<1>5. ASSUME NEW i \in rawRows, spots[i] = <<t, k>>
      PROVE  i \in EarlyOf(d, k) /\ Before[i][1] = t
  <2>1. i \in DOMAIN spots /\ spots[i][1] = t
    BY <1>1, <1>5
  <2>2. ~(i > Len(Before))
    <3>1. i > Len(Before) => spots[i][1] >= SnrCutoff
      BY <2>1 DEF NoneBelated
    <3>2. QED
      BY <2>1, <3>1, <1>3, DeployFacts
  <2>3. i \in DOMAIN Before
    BY <2>1, <2>2, <1>2
  <2>4. QED
    BY <1>1, <1>4, <1>5, <2>3 DEF EarlyOf
<1>6. ASSUME NEW i \in EarlyOf(d, k), Before[i][1] = t
      PROVE  i \in rawRows /\ spots[i] = <<t, k>>
  <2>1. i \in DOMAIN Before /\ Before[i][2] = k
    BY DEF EarlyOf
  <2>2. spots[i] = <<t, k>>
    BY <1>1, <1>6, <2>1, EarlyTimes
  <2>3. PICK j \in rawRows : spots[j][1] <= Start(d)
    BY DEF CoveredFrom
  <2>4. i \notin rawRows => spots[i][1] < spots[j][1]
    BY <2>1 DEF PrunedFromBelow
  <2>5. spots[j] \in Nat \X RowKeys
    BY <1>1, <2>3
  <2>6. i \in rawRows
    BY <1>3, <2>2, <2>3, <2>4, <2>5
  <2>7. QED
    BY <2>2, <2>6
<1>7. QED
  BY <1>5, <1>6

(***************************************************************************)
(* The steps.                                                              *)
(***************************************************************************)
\* What the counts of the live spots depend on.
LEMMA LateSame ==
  ASSUME spots' = spots
  PROVE  /\ \A d, k : Late(d, k)' = Late(d, k)
         /\ NoneBelated' <=> NoneBelated
  BY DEF Late, LateOf, NoneBelated

\* A step of the runner that writes nothing disturbs only what speaks of it.
LEMMA RunnerOnly ==
  ASSUME SnrSound, JobType',
         UNCHANGED <<now, spots, rawRows, snr, seasonSnr, folded, meta>>
  PROVE  /\ SnrTypeOK' /\ PrunedFromBelow' /\ CountersExact' /\ MetaSound'
         /\ \A d : Complete(d)' <=> Complete(d)
         /\ \A t : CoveredFrom(t)' <=> CoveredFrom(t)
         /\ \A d : SeasonExact(d)' <=> SeasonExact(d)
         /\ \A d \in RowDays : meta'.since <= d /\ d <= folded' => SeasonExact(d)'
<1>1. /\ \A d : Complete(d)' <=> Complete(d)
      /\ \A t : CoveredFrom(t)' <=> CoveredFrom(t)
  BY DEF Complete, CoveredFrom
<1>2. \A d, k : Late(d, k)' = Late(d, k)
  BY LateSame
<1>3. \A d : SeasonExact(d)' <=> SeasonExact(d)
  BY <1>2 DEF SeasonExact
<1>4. SnrTypeOK'
  BY DEF SnrSound, SnrTypeOK
<1>5. PrunedFromBelow'
  BY DEF SnrSound, PrunedFromBelow
<1>6. CountersExact'
  BY <1>2 DEF SnrSound, CountersExact
<1>7. MetaSound'
  BY <1>1 DEF SnrSound, MetaSound
<1>8. \A d \in RowDays : meta'.since <= d /\ d <= folded' => SeasonExact(d)'
  BY <1>3 DEF SnrSound, SeasonSound
<1>9. QED
  BY <1>1, <1>3, <1>4, <1>5, <1>6, <1>7, <1>8

\* A runner at rest has nothing to be wrong about.
LEMMA AtRest ==
  ASSUME NEW p \in {"start", "stopped"}, job' = Stopped(p)
  PROVE  /\ JobType' /\ JobSound' /\ ReadSound' /\ WriteSound' /\ ~DaysOver'
<1>1. job'.pc = p
  BY DEF Stopped
<1>2. JobType'
  BY DEF JobType, Stopped, NoAgg
<1>3. QED
  BY <1>1, <1>2 DEF JobSound, ReadSound, WriteSound, OnDay, Reading, DaysOver

\* SnrFail, SnrRestart, and every other way to end.
LEMMA StopKeeps ==
  ASSUME SnrSound, NEW p \in {"start", "stopped"}, job' = Stopped(p),
         UNCHANGED <<now, spots, rawRows, snr, seasonSnr, folded, meta>>
  PROVE  SnrSound'
  BY AtRest, RunnerOnly DEF SnrSound, SeasonSound

\* An empty aggregate is one.
LEMMA NoAggType == NoAgg \in [RowKeys -> Nat] /\ \A k \in RowKeys : NoAgg[k] = 0
  BY DEF NoAgg

\* Where a day's work begins.
LEMMA BeginKeeps ==
  ASSUME SnrSound, NEW j, NEW d \in Nat,
         j \in [pc : {"start", "write"},
             newSince : Nat, day : Nat, window : Nat, agg : [RowKeys -> Nat], batch : Nat,
             attempt : Nat, progress : Int, refolded : SUBSET Nat, round : Nat, w : Int],
         ~meta.done, j.newSince <= d, d <= DeployDay + 1, j.progress <= meta.progress,
         d <= DeployDay => meta.progress = j.progress,
         \A e \in j.newSince .. d - 1 : Complete(e),
         j.refolded = {},
         job' = BeginDay(j, d),
         UNCHANGED <<now, spots, rawRows, snr, seasonSnr, folded, meta>>
  PROVE  SnrSound'
<1>1. meta.since = DeployDay + 1 /\ DeployDay \in Nat
  BY DeployFacts DEF SnrSound, MetaSound
<1>2. d = meta.since \/ (IsPartial(d) /\ meta.partialDone) <=>
         d = DeployDay + 1 \/ (d = DeployDay /\ meta.partialDone)
  BY <1>1 DEF IsPartial
<1>3. Start(d) \in Nat
  <2>1. \A a, b \in Nat : a * b \in Nat
    OBVIOUS
  <2>2. QED
    BY <2>1, SnrConstants DEF Start
<1>4. CASE d = DeployDay + 1 \/ (d = DeployDay /\ meta.partialDone)
  <2>1. job' = [j EXCEPT !.day = d, !.pc = "watermark"]
    BY <1>2, <1>4 DEF BeginDay
  <2>2. /\ job'.pc = "watermark" /\ job'.day = d /\ job'.newSince = j.newSince
        /\ job'.progress = j.progress /\ job'.refolded = {}
    BY <2>1
  <2>3. JobType'
    BY <2>1 DEF JobType
  <2>4. \A e \in j.newSince .. DeployDay : Complete(e)
    BY <1>1, <1>4 DEF Complete
  <2>5. JobSound'
    BY <2>2, <2>3, <2>4, RunnerOnly DEF JobSound, OnDay, DaysOver, Reading
  <2>6. ReadSound' /\ WriteSound'
    BY <2>2 DEF ReadSound, WriteSound, Reading
  <2>7. SeasonSound'
    BY <2>2, <2>3, RunnerOnly DEF SeasonSound, DaysOver
  <2>8. QED
    BY <2>3, <2>5, <2>6, <2>7, RunnerOnly DEF SnrSound
<1>5. CASE ~(d = DeployDay + 1 \/ (d = DeployDay /\ meta.partialDone))
  <2>1. job' = [j EXCEPT !.day = d, !.pc = "read", !.window = d * Windows, !.agg = NoAgg]
    BY <1>2, <1>5 DEF BeginDay
  <2>2. /\ job'.pc = "read" /\ job'.day = d /\ job'.newSince = j.newSince
        /\ job'.progress = j.progress /\ job'.window = Start(d) /\ job'.agg = NoAgg
        /\ job'.refolded = {}
    BY <2>1 DEF Start
  <2>3. JobType'
    BY <2>1, <1>3, NoAggType DEF JobType, Start
  <2>4. d \in 0 .. DeployDay
    BY <1>1, <1>5
  <2>5. JobSound'
    BY <2>2, <2>3, <2>4, RunnerOnly DEF JobSound, OnDay, DaysOver, Reading
  <2>6. ReadSound'
    <3>1. job'.window \in Start(d) .. ReadEnd(d) - 1
      BY <2>2, <2>4, ReadEnds
    <3>2. \A k \in RowKeys : job'.agg[k] = ReadSoFar(d, k, Start(d))
      BY <2>2, <2>4, ReadAll, NoAggType
    <3>3. QED
      BY <2>2, <3>1, <3>2 DEF ReadSound, Reading
  <2>7. WriteSound' /\ ~DaysOver'
    BY <2>2 DEF WriteSound, DaysOver
  <2>8. SeasonSound'
    BY <2>3, <2>7, RunnerOnly DEF SeasonSound
  <2>9. QED
    BY <2>3, <2>5, <2>6, <2>7, <2>8, RunnerOnly DEF SnrSound
<1>6. QED
  BY <1>4, <1>5

\* The plan: with nothing left behind the first day can begin.
LEMMA StartKeeps == ASSUME SnrSound, SnrStart PROVE SnrSound'
<1>1. UNCHANGED <<now, spots, rawRows, snr, seasonSnr, folded, meta>>
  BY DEF SnrStart
<1>2. CASE job' = Stopped("stopped")
  BY <1>1, <1>2, StopKeeps
<1>3. ASSUME ~meta.done, NEW first \in 0 .. meta.since,
             job' = BeginDay([Stopped("start") EXCEPT !.progress = meta.progress, !.newSince = first], first)
      PROVE  SnrSound'
  <2> DEFINE j == [Stopped("start") EXCEPT !.progress = meta.progress, !.newSince = first]
  <2>1. meta.since = DeployDay + 1 /\ meta.progress \in Int /\ DeployDay \in Nat
    <3>1. meta.progress \in -1 .. EarlyBatches(DeployDay) - 1
      BY DEF SnrSound, SnrTypeOK
    <3>2. QED
      BY <1>3, <3>1, DeployFacts DEF SnrSound, MetaSound
  <2>2. /\ j.newSince = first /\ j.progress = meta.progress /\ j.refolded = {} /\ first \in Nat
        /\ j \in [pc : {"start", "write"},
             newSince : Nat, day : Nat, window : Nat, agg : [RowKeys -> Nat], batch : Nat,
             attempt : Nat, progress : Int, refolded : SUBSET Nat, round : Nat, w : Int]
    <3>1. first \in Nat
      BY <2>1
    <3> DEFINE s == Stopped("start")
    <3>2. /\ s \in [pc : {"start", "write"},
             newSince : Nat, day : Nat, window : Nat, agg : [RowKeys -> Nat], batch : Nat,
             attempt : Nat, progress : Int, refolded : SUBSET Nat, round : Nat, w : Int]
          /\ s.refolded = {}
      BY NoAggType DEF Stopped
    <3>3. j = [s EXCEPT !.progress = meta.progress, !.newSince = first]
      OBVIOUS
    <3> HIDE DEF j, s
    <3>4. QED
      BY <2>1, <3>1, <3>2, <3>3
  <2>3. job' = BeginDay(j, first)
    BY <1>3
  <2> HIDE DEF j
  <2>4. first <= DeployDay + 1
    BY <2>1, <2>2
  <2>5. \A e \in j.newSince .. first - 1 : Complete(e)
    BY <2>2
  <2>6. QED
    BY <1>1, <1>3, <2>1, <2>2, <2>3, <2>4, <2>5, BeginKeeps
<1>4. QED
  BY <1>2, <1>3 DEF SnrStart

\* The day under way, in the terms of the code and in those of the counts.
LEMMA DayFacts ==
  ASSUME SnrSound, OnDay
  PROVE  /\ meta.since = DeployDay + 1 /\ DeployDay \in Nat /\ job.day \in 0 .. DeployDay
         /\ \A d \in Int : IsPartial(d) <=> d = DeployDay
         /\ EndOfRead = ReadEnd(job.day)
<1>1. meta.since = DeployDay + 1 /\ DeployDay \in Nat /\ job.day <= DeployDay
  BY DeployFacts DEF SnrSound, MetaSound, JobSound
<1>2. job.day \in Nat
  BY DEF SnrSound, SnrTypeOK, JobType
<1>3. \A d \in Int : IsPartial(d) <=> d = DeployDay
  BY <1>1 DEF IsPartial
<1>4. EndOfRead = ReadEnd(job.day)
  BY <1>2, <1>3 DEF EndOfRead, ReadEnd, Day, Start
<1>5. QED
  BY <1>1, <1>2, <1>3, <1>4

\* aggregateWindow: one more window has been read.
LEMMA ReadKeeps == ASSUME SnrSound, NoneBelated, ReadWindow PROVE SnrSound'
<1> DEFINE read(k) == Cardinality({i \in rawRows : spots[i] = <<job.window, k>>})
           g == [k \in RowKeys |-> job.agg[k] + read(k)]
           p == IF job.window + 1 = EndOfRead THEN "cover" ELSE "read"
<1>1. /\ UNCHANGED <<now, spots, rawRows, snr, seasonSnr, folded, meta>>
      /\ job.pc = "read" /\ OnDay /\ Reading /\ ~DaysOver
      /\ job' = [job EXCEPT !.agg = g, !.window = job.window + 1, !.pc = p]
  BY DEF ReadWindow, OnDay, Reading, DaysOver
<1>2. SnrTypeOK /\ PrunedFromBelow /\ JobSound /\ ReadSound /\ JobType
  BY DEF SnrSound, SnrTypeOK
<1>3. \A k \in RowKeys : read(k) \in Nat
  <2>1. IsFiniteSet(rawRows)
    <3>1. rawRows \in SUBSET DOMAIN spots /\ DOMAIN spots = 1 .. Len(spots) /\ Len(spots) \in Nat
      BY <1>2 DEF SnrTypeOK
    <3>2. IsFiniteSet(DOMAIN spots)
      BY <3>1, FS_Interval
    <3>3. QED
      BY <3>1, <3>2, FS_Subset
  <2>2. \A k : IsFiniteSet({i \in rawRows : spots[i] = <<job.window, k>>})
    BY <2>1, FS_Subset
  <2>3. QED
    BY <2>2, FS_CardinalityType
<1>4. job.agg \in [RowKeys -> Nat] /\ job.window \in Nat /\ job.day \in Nat
  BY <1>2 DEF JobType
<1> HIDE DEF read
<1>5. g \in [RowKeys -> Nat]
  BY <1>3, <1>4
<1>6. job.day \in 0 .. DeployDay /\ EndOfRead = ReadEnd(job.day)
  BY <1>1, DayFacts
<1>7. job.window \in Start(job.day) .. ReadEnd(job.day) - 1 /\ ReadEnd(job.day) \in Nat /\ Start(job.day) \in Nat
  BY <1>1, <1>2, <1>6, ReadEnds DEF ReadSound
<1>8. CoveredFrom(Start(job.day)) =>
        \A k \in RowKeys : g[k] = ReadSoFar(job.day, k, job.window + 1)
  <2> SUFFICES ASSUME CoveredFrom(Start(job.day)), NEW k \in RowKeys
               PROVE  job.agg[k] + read(k) = ReadSoFar(job.day, k, job.window + 1)
    OBVIOUS
  <2>1. read(k) = Cardinality({i \in EarlyOf(job.day, k) : Before[i][1] = job.window})
    BY <1>2, <1>6, <1>7, RawRead DEF read
  <2>2. job.agg[k] = ReadSoFar(job.day, k, job.window)
    BY <1>1, <1>2 DEF ReadSound
  <2>3. QED
    BY <1>4, <2>1, <2>2, ReadStep
<1> HIDE DEF g, p
<1>9. /\ job'.agg = g /\ job'.window = job.window + 1 /\ job'.pc = p /\ job'.day = job.day
      /\ job'.newSince = job.newSince /\ job'.progress = job.progress /\ job'.refolded = job.refolded
      /\ JobType'
  <2>1. p \in {"read", "cover"}
    BY DEF p
  <2>2. job.window + 1 \in Nat
    BY <1>4
  <2> DEFINE n == job.window + 1
  <2> HIDE DEF n
  <2>3. job' = [job EXCEPT !.agg = g, !.window = n, !.pc = p] /\ n \in Nat
    BY <1>1, <2>2 DEF n
  <2>4. /\ job'.agg = g /\ job'.window = n /\ job'.pc = p /\ job'.day = job.day
        /\ job'.newSince = job.newSince /\ job'.progress = job.progress /\ job'.refolded = job.refolded
        /\ JobType'
    BY <1>2, <1>5, <2>1, <2>3 DEF JobType
  <2>5. QED
    BY <2>4 DEF n
<1>10. \/ p = "cover" /\ job.window + 1 = ReadEnd(job.day)
       \/ p = "read" /\ job.window + 1 # ReadEnd(job.day)
  BY <1>6 DEF p
<1>11. /\ job'.pc = "read" => job'.window \in Start(job.day) .. ReadEnd(job.day) - 1
       /\ job'.pc = "cover" => job'.window = ReadEnd(job.day)
  BY <1>7, <1>9, <1>10
<1>12. ReadSound'
  BY <1>1, <1>8, <1>9, <1>11, RunnerOnly DEF ReadSound
<1>13. OnDay' /\ Reading' /\ ~DaysOver' /\ job'.pc # "write"
  BY <1>9, <1>10 DEF OnDay, Reading, DaysOver
<1>14. JobSound'
  BY <1>1, <1>2, <1>9, <1>13, RunnerOnly DEF JobSound
<1>15. QED
  BY <1>1, <1>9, <1>12, <1>13, <1>14, RunnerOnly DEF SnrSound, WriteSound, SeasonSound

\* The coverage is checked again after the read: what was read is all there was.
LEMMA RecheckKeeps == ASSUME SnrSound, Recheck PROVE SnrSound'
<1>1. /\ UNCHANGED <<now, spots, rawRows, snr, seasonSnr, folded, meta>>
      /\ job.pc = "cover" /\ OnDay /\ Reading
  BY DEF Recheck, OnDay, Reading
<1>2. CASE job' = Stopped("stopped")
  BY <1>1, <1>2, StopKeeps
<1>3. CASE StillCovered /\ job' = [job EXCEPT !.pc = "write", !.batch = 0, !.attempt = 1]
  <2>1. JobType /\ JobSound /\ ReadSound
    BY DEF SnrSound, SnrTypeOK
  <2>2. /\ job'.pc = "write" /\ job'.batch = 0 /\ job'.day = job.day /\ job'.agg = job.agg
        /\ job'.newSince = job.newSince /\ job'.progress = job.progress /\ job'.refolded = job.refolded
        /\ JobType'
    BY <1>3, <2>1 DEF JobType
  <2>3. job.day \in 0 .. DeployDay
    BY <1>1, DayFacts
  <2>4. CoveredFrom(Start(job.day))
    BY <1>3 DEF StillCovered, Start, Day
  <2>5. \A k \in RowKeys : job.agg[k] = Early(job.day, k)
    BY <1>1, <2>1, <2>3, <2>4, ReadAll DEF ReadSound
  <2>6. meta.progress = job.progress
    BY <1>1, <2>1 DEF JobSound
  <2>7. WriteSound'
    <3>1. \A k \in EarlyKeys(job.day) : ~(EarlyBatch(job.day, k) < 0)
      <4>1. \A k \in RowKeys : EarlyBatch(job.day, k) \in Nat
        BY BatchFacts
      <4>2. \A n \in Nat : ~(n < 0)
        OBVIOUS
      <4>3. QED
        BY <4>1, <4>2 DEF EarlyKeys
    <3>2. 0 <= EarlyBatches(job.day)
      BY BatchFacts
    <3>3. meta.progress = IF 0 <= job.progress THEN job.progress ELSE 0 - 1
      <4>1. meta.progress \in -1 .. EarlyBatches(DeployDay) - 1 /\ EarlyBatches(DeployDay) \in Nat
        BY BatchFacts DEF SnrSound, SnrTypeOK
      <4>2. QED
        BY <4>1, <2>6
    <3>4. QED
      BY <1>1, <2>2, <2>5, <3>1, <3>2, <3>3 DEF WriteSound
  <2>8. OnDay' /\ ~Reading' /\ ~DaysOver'
    BY <2>2 DEF OnDay, Reading, DaysOver
  <2>9. JobSound'
    BY <1>1, <2>1, <2>2, <2>6, <2>8, RunnerOnly DEF JobSound
  <2>10. QED
    BY <1>1, <2>2, <2>7, <2>8, <2>9, RunnerOnly DEF SnrSound, ReadSound, SeasonSound
<1>4. QED
  BY <1>2, <1>3 DEF Recheck

\* The batches of the day under way are those of its early spots.
LEMMA WriteFacts ==
  ASSUME SnrSound, job.pc = "write"
  PROVE  /\ Entries = EarlyKeys(job.day)
         /\ NumBatches = EarlyBatches(job.day)
         /\ \A k : BatchOf(k) = EarlyBatch(job.day, k)
         /\ \A k \in RowKeys : job.agg[k] = Early(job.day, k)
<1>1. \A k \in RowKeys : job.agg[k] = Early(job.day, k)
  BY DEF SnrSound, WriteSound
<1>2. Entries = EarlyKeys(job.day)
  BY <1>1 DEF Entries, EarlyKeys
<1>3. IsPartial(job.day) <=> job.day = DeployDay
  BY DayFacts DEF OnDay
<1>4. QED
  BY <1>1, <1>2, <1>3 DEF NumBatches, EarlyBatches, BatchOf, EarlyBatch, Day

\* After its last batch a day is complete.
LEMMA DayWritten ==
  ASSUME SnrSound, job.pc = "write", job.batch >= NumBatches
  PROVE  Complete(job.day)
<1>1. OnDay
  BY DEF OnDay
<1>2. job.day \in 0 .. DeployDay /\ DeployDay \in RowDays /\ DeployDay \in Nat
  BY <1>1, DayFacts, DeployFacts
<1>3. /\ EarlyBatches(job.day) \in Nat /\ (job.day = DeployDay => EarlyBatches(job.day) >= 1)
      /\ job.batch \in Nat /\ job.batch <= EarlyBatches(job.day) /\ job.batch >= EarlyBatches(job.day)
  BY WriteFacts, BatchFacts DEF SnrSound, WriteSound, SnrTypeOK, JobType
<1>4. job.batch = EarlyBatches(job.day)
  BY <1>3
<1>5. CASE job.day = DeployDay
  <2>1. meta.progress = IF job.batch <= job.progress THEN job.progress ELSE job.batch - 1
    BY <1>5 DEF SnrSound, WriteSound
  <2>2. meta.progress \in -1 .. EarlyBatches(DeployDay) - 1 /\ job.progress \in Int
    BY DEF SnrSound, SnrTypeOK, JobType
  <2>3. meta.progress = EarlyBatches(DeployDay) - 1
    BY <1>3, <1>4, <1>5, <2>1, <2>2
  <2>4. QED
    BY <1>5, <2>3 DEF SnrSound, MetaSound, Complete
<1>6. CASE job.day # DeployDay
  <2>1. job.day < DeployDay /\ job.day \in RowDays
    BY <1>2, <1>6, DeployFacts DEF RowDays
  <2> SUFFICES ASSUME NEW k \in RowKeys PROVE snr[job.day][k] = Early(job.day, k)
    BY <1>6 DEF Complete
  <2>2. snr[job.day][k] \in {0, Early(job.day, k)}
    BY <2>1 DEF SnrSound, CountersExact
  <2>3. CASE k \in EarlyKeys(job.day)
    <3>1. EarlyBatch(job.day, k) < job.batch
      BY <1>4, <2>3, BatchFacts
    <3>2. QED
      BY <2>1, <2>3, <3>1 DEF SnrSound, WriteSound
  <2>4. CASE k \notin EarlyKeys(job.day)
    <3>1. Early(job.day, k) = 0
      BY <2>4, EarlyFinite DEF EarlyKeys
    <3>2. QED
      BY <2>2, <3>1
  <2>5. QED
    BY <2>3, <2>4
<1>7. QED
  BY <1>5, <1>6

\* The next batch that is not there yet, or the next day.
LEMMA NextBatchKeeps == ASSUME SnrSound, NextBatch PROVE SnrSound'
<1>1. /\ UNCHANGED <<now, spots, rawRows, snr, seasonSnr, folded, meta>>
      /\ job.pc = "write" /\ OnDay
  BY DEF NextBatch, OnDay
<1>2. /\ JobType /\ JobSound /\ WriteSound /\ job.day \in 0 .. DeployDay /\ job.day \in Nat
      /\ job.batch \in Nat /\ DeployDay \in Nat
  BY <1>1, DayFacts DEF SnrSound, SnrTypeOK, JobType
<1>3. CASE job.batch >= NumBatches
  <2>1. job' = BeginDay(job, job.day + 1)
    BY <1>3 DEF NextBatch, Day
  <2>2. Complete(job.day)
    BY <1>1, <1>3, DayWritten
  <2>3. /\ job.newSince <= job.day /\ job.progress <= meta.progress /\ ~meta.done
        /\ job.refolded = {} /\ (job.day < DeployDay => meta.progress = job.progress)
        /\ job.newSince \in Nat
    BY <1>1, <1>2 DEF JobSound, JobType
  <2>4. \A e \in job.newSince .. (job.day + 1) - 1 : Complete(e)
    <3>1. \A e \in job.newSince .. job.day - 1 : Complete(e)
      BY <1>1, <1>2 DEF JobSound
    <3>2. QED
      BY <1>2, <2>2, <2>3, <3>1
  <2>5. job \in [pc : {"start", "write"},
             newSince : Nat, day : Nat, window : Nat, agg : [RowKeys -> Nat], batch : Nat,
             attempt : Nat, progress : Int, refolded : SUBSET Nat, round : Nat, w : Int]
    BY <1>1, <1>2 DEF JobType
  <2>6. /\ job.day + 1 \in Nat /\ job.day + 1 <= DeployDay + 1 /\ job.newSince <= job.day + 1
        /\ job.day + 1 <= DeployDay => meta.progress = job.progress
    BY <1>2, <2>3
  <2>7. QED
    BY <1>1, <2>1, <2>3, <2>4, <2>5, <2>6, BeginKeeps
<1>4. CASE ~(job.batch >= NumBatches)
  <2> DEFINE n == job.batch + 1
  <2>1. job' = [job EXCEPT !.batch = n] /\ Resumed /\ n \in Nat
    BY <1>2, <1>4 DEF NextBatch
  <2>2. job.day = DeployDay /\ job.batch <= job.progress
    BY <1>1, <1>2, <2>1, DayFacts DEF Resumed, Day
  <2>3. job.batch < EarlyBatches(job.day) /\ n <= EarlyBatches(job.day)
    BY <1>1, <1>2, <1>4, WriteFacts, BatchFacts
  <2>4. meta.progress = IF n <= job.progress THEN job.progress ELSE n - 1
    <3>1. meta.progress = job.progress /\ job.progress \in Int
      BY <1>1, <1>2, <2>2 DEF WriteSound, JobType
    <3>2. QED
      BY <1>2, <2>2, <3>1
  <2> HIDE DEF n
  <2>5. /\ job'.pc = "write" /\ job'.batch = n /\ job'.day = job.day /\ job'.agg = job.agg
        /\ job'.newSince = job.newSince /\ job'.progress = job.progress /\ job'.refolded = job.refolded
        /\ JobType'
    BY <1>1, <1>2, <2>1 DEF JobType
  <2>6. OnDay' /\ ~Reading /\ ~Reading' /\ ~DaysOver'
    BY <1>1, <2>5 DEF OnDay, Reading, DaysOver
  <2>7. JobSound'
    BY <1>1, <1>2, <2>5, <2>6, RunnerOnly DEF JobSound
  <2>8. WriteSound'
    BY <1>1, <1>2, <2>2, <2>3, <2>4, <2>5 DEF WriteSound
  <2>9. QED
    BY <1>1, <2>5, <2>6, <2>7, <2>8, RunnerOnly DEF SnrSound, ReadSound, SeasonSound
<1>5. QED
  BY <1>3, <1>4

\* A lock timeout changes the number of attempts and no more.
LEMMA TimeoutKeeps == ASSUME SnrSound, LockTimeout PROVE SnrSound'
<1>1. /\ UNCHANGED <<now, spots, rawRows, snr, seasonSnr, folded, meta>>
      /\ job.pc = "write"
  BY DEF LockTimeout, MayWrite
<1>2. CASE job' = Stopped("stopped")
  BY <1>1, <1>2, StopKeeps
<1>3. CASE job' = [job EXCEPT !.attempt = @ + 1]
  <2>1. JobType /\ JobSound /\ WriteSound
    BY DEF SnrSound, SnrTypeOK
  <2>2. job.attempt \in Nat /\ job.attempt + 1 \in Nat
    BY <2>1 DEF JobType
  <2>3. /\ job'.pc = "write" /\ job'.batch = job.batch /\ job'.day = job.day /\ job'.agg = job.agg
        /\ job'.newSince = job.newSince /\ job'.progress = job.progress /\ job'.refolded = job.refolded
        /\ JobType'
    BY <1>1, <1>3, <2>1, <2>2 DEF JobType
  <2>4. (OnDay' <=> OnDay) /\ ~Reading' /\ ~DaysOver'
    BY <1>1, <2>3 DEF OnDay, Reading, DaysOver
  <2>5. JobSound'
    BY <1>1, <2>1, <2>3, <2>4, RunnerOnly DEF JobSound
  <2>6. WriteSound'
    BY <1>1, <2>1, <2>3 DEF WriteSound
  <2>7. QED
    BY <1>1, <2>3, <2>4, <2>5, <2>6, RunnerOnly DEF SnrSound, ReadSound, SeasonSound
<1>4. QED
  BY <1>2, <1>3 DEF LockTimeout

\* The watermark is read, and can only grow from there.
LEMMA WatermarkKeeps == ASSUME SnrSound, ReadWatermark PROVE SnrSound'
<1>1. /\ UNCHANGED <<now, spots, rawRows, snr, seasonSnr, folded, meta>>
      /\ job.pc = "watermark" /\ DaysOver
      /\ job' = [job EXCEPT !.w = folded, !.pc = "refold"]
  BY DEF ReadWatermark, DaysOver
<1>2. JobType /\ JobSound /\ SeasonSound /\ folded \in Int
  BY DEF SnrSound, SnrTypeOK
<1>3. /\ job'.pc = "refold" /\ job'.w = folded /\ job'.day = job.day
      /\ job'.newSince = job.newSince /\ job'.progress = job.progress /\ job'.refolded = job.refolded
      /\ JobType'
  BY <1>1, <1>2 DEF JobType
<1>4. ~OnDay' /\ ~Reading' /\ DaysOver'
  BY <1>3 DEF OnDay, Reading, DaysOver
<1>5. JobSound'
  BY <1>1, <1>2, <1>3, <1>4, RunnerOnly DEF JobSound
<1>6. SeasonSound'
  BY <1>1, <1>2, <1>3, <1>4, RunnerOnly DEF SeasonSound
<1>7. QED
  BY <1>1, <1>3, <1>4, <1>5, <1>6, RunnerOnly DEF SnrSound, ReadSound, WriteSound, Reading

\* What a batch's transaction does to the rows: a full day's keys get their
\* early spots, the deploy day's keys get them added.
LEMMA CommitEffect ==
  ASSUME SnrSound, MayWrite, CommitBatch
  PROVE  /\ \A k \in BatchKeys : almanacSNRBackfillMerge(job.day, k)
                = Early(job.day, k) + (IF job.day = DeployDay THEN Late(job.day, k) ELSE 0)
         /\ snr' = [snr EXCEPT ![job.day] =
                      [k \in RowKeys |-> IF k \in BatchKeys THEN almanacSNRBackfillMerge(job.day, k) ELSE @[k]]]
         /\ job.day < DeployDay => meta' = meta
         /\ job.day = DeployDay =>
              /\ meta.progress = job.batch - 1
              /\ meta' = [meta EXCEPT !.progress = job.batch,
                                      !.partialDone = @ \/ job.batch = EarlyBatches(DeployDay) - 1]
         /\ BatchKeys = {k \in EarlyKeys(job.day) : EarlyBatch(job.day, k) = job.batch}
         /\ job.batch < EarlyBatches(job.day) /\ job.batch \in Nat
<1>1. job.pc = "write" /\ OnDay /\ ~Resumed /\ job.batch < NumBatches
  BY DEF MayWrite, OnDay
<1>2. /\ SnrTypeOK /\ JobType /\ WriteSound /\ job.day \in 0 .. DeployDay
      /\ job.day \in RowDays /\ DeployDay \in Nat
      /\ job.batch \in Nat /\ (IsPartial(job.day) <=> job.day = DeployDay)
  <2>1. SnrTypeOK /\ JobType /\ WriteSound
    BY DEF SnrSound, SnrTypeOK
  <2>2. job.batch \in Nat
    BY <2>1 DEF JobType
  <2>3. job.day \in 0 .. DeployDay /\ DeployDay \in Nat /\ job.day \in Int
    BY <1>1, DayFacts
  <2>4. IsPartial(job.day) <=> job.day = DeployDay
    BY <1>1, <2>3, DayFacts
  <2>5. job.day \in RowDays
    BY <2>3, DeployFacts DEF RowDays
  <2>6. QED
    BY <1>1, <2>1, <2>2, <2>3, <2>4, <2>5
<1>3. /\ Entries = EarlyKeys(job.day) /\ NumBatches = EarlyBatches(job.day)
      /\ \A k : BatchOf(k) = EarlyBatch(job.day, k)
      /\ \A k \in RowKeys : job.agg[k] = Early(job.day, k)
  BY <1>1, WriteFacts
<1>4. BatchKeys = {k \in EarlyKeys(job.day) : EarlyBatch(job.day, k) = job.batch}
  BY <1>3 DEF BatchKeys
<1>5. job.day = DeployDay => meta.progress = job.batch - 1
  <2> SUFFICES ASSUME job.day = DeployDay PROVE meta.progress = job.batch - 1
    OBVIOUS
  <2>1. ~(job.batch <= job.progress)
    BY <1>1, <1>2 DEF Resumed, Day
  <2>2. QED
    BY <1>1, <1>2, <2>1 DEF WriteSound
<1>6. ~AlreadyCommitted
  BY <1>2, <1>5 DEF AlreadyCommitted, Day
<1>7. snr' = [snr EXCEPT ![job.day] =
               [k \in RowKeys |-> IF k \in BatchKeys THEN almanacSNRBackfillMerge(job.day, k) ELSE @[k]]]
  BY <1>6 DEF CommitBatch, Day
<1>8. /\ job.day < DeployDay => meta' = meta
      /\ job.day = DeployDay =>
           meta' = [meta EXCEPT !.progress = job.batch,
                                !.partialDone = @ \/ job.batch = EarlyBatches(DeployDay) - 1]
  <2>1. meta' = IF ~IsPartial(job.day) THEN meta
                ELSE [meta EXCEPT !.progress = job.batch,
                                  !.partialDone = @ \/ job.batch = NumBatches - 1]
    BY <1>6 DEF CommitBatch, Day
  <2>2. CASE job.day = DeployDay
    <3>1. NumBatches = EarlyBatches(DeployDay)
      BY <1>3, <2>2
    <3>2. meta' = [meta EXCEPT !.progress = job.batch,
                               !.partialDone = @ \/ job.batch = NumBatches - 1]
      BY <1>2, <2>1, <2>2
    <3>3. QED
      BY <1>2, <2>2, <3>1, <3>2
  <2>3. CASE job.day # DeployDay
    BY <1>2, <2>1, <2>3
  <2>4. QED
    BY <2>2, <2>3
<1>9. ASSUME NEW k \in BatchKeys
      PROVE  almanacSNRBackfillMerge(job.day, k)
                = Early(job.day, k) + (IF job.day = DeployDay THEN Late(job.day, k) ELSE 0)
  <2>1. k \in RowKeys /\ k \in EarlyKeys(job.day) /\ EarlyBatch(job.day, k) = job.batch
    BY <1>4, <1>9 DEF EarlyKeys
  <2>2. SpotCount(job.day, k) = Early(job.day, k) + Late(job.day, k) + 1
    BY <1>2, LateFinite DEF SpotCount
  <2>3. Early(job.day, k) \in Nat /\ Late(job.day, k) \in Nat
    BY <1>2, EarlyFinite, LateFinite
  <2>4. job.agg[k] = Early(job.day, k)
    BY <1>3, <2>1
  <2>5. CASE job.day = DeployDay
    <3>1. snr[job.day][k] = Late(job.day, k) + (IF job.batch <= meta.progress THEN Early(job.day, k) ELSE 0)
      BY <1>2, <2>1, <2>5 DEF SnrSound, CountersExact
    <3>2. snr[job.day][k] = Late(job.day, k)
      BY <1>2, <1>5, <2>3, <2>5, <3>1
    <3>3. QED
      BY <1>2, <2>2, <2>3, <2>4, <2>5, <3>2 DEF almanacSNRBackfillMerge, Least
  <2>6. CASE job.day # DeployDay
    BY <1>2, <2>2, <2>3, <2>4, <2>6 DEF almanacSNRBackfillMerge, Least
  <2>7. QED
    BY <2>5, <2>6
<1>10. QED
  BY <1>1, <1>2, <1>3, <1>4, <1>5, <1>7, <1>8, <1>9

\* So the counters stay exact, and the days complete.
LEMMA CommitKeeps ==
  ASSUME SnrSound, MayWrite, CommitBatch, JobType',
         UNCHANGED <<now, spots, rawRows, seasonSnr, folded>>
  PROVE  /\ SnrTypeOK' /\ PrunedFromBelow' /\ CountersExact' /\ MetaSound'
         /\ meta'.since = meta.since /\ meta'.done = meta.done
         /\ meta'.progress = IF job.day = DeployDay THEN job.batch ELSE meta.progress
         /\ \A d \in Int : Complete(d) => Complete(d)'
         /\ \A d \in RowDays : meta'.since <= d /\ d <= folded' => SeasonExact(d)'
         /\ job.day < DeployDay =>
              \A k \in EarlyKeys(job.day) :
                 EarlyBatch(job.day, k) < job.batch + 1 => snr'[job.day][k] = Early(job.day, k)
<1>1. /\ job.pc = "write" /\ OnDay /\ SnrTypeOK /\ CountersExact /\ MetaSound /\ WriteSound
      /\ job.day \in 0 .. DeployDay /\ DeployDay \in Nat
      /\ meta.since = DeployDay + 1
  BY DayFacts DEF MayWrite, OnDay, SnrSound
<1>2. job.day \in RowDays
  BY <1>1, DeployFacts DEF RowDays
<1> DEFINE m(k) == almanacSNRBackfillMerge(job.day, k)
           B == BatchKeys
<1>3. /\ \A k \in B : m(k) = Early(job.day, k) + (IF job.day = DeployDay THEN Late(job.day, k) ELSE 0)
      /\ snr' = [snr EXCEPT ![job.day] = [k \in RowKeys |-> IF k \in B THEN m(k) ELSE @[k]]]
      /\ job.day < DeployDay => meta' = meta
      /\ job.day = DeployDay =>
           /\ meta.progress = job.batch - 1
           /\ meta' = [meta EXCEPT !.progress = job.batch,
                                   !.partialDone = @ \/ job.batch = EarlyBatches(DeployDay) - 1]
      /\ B = {k \in EarlyKeys(job.day) : EarlyBatch(job.day, k) = job.batch}
      /\ job.batch < EarlyBatches(job.day) /\ job.batch \in Nat
  BY CommitEffect
<1> HIDE DEF m, B
<1>4. \A d, k : Early(d, k) \in Nat /\ Late(d, k) \in Nat /\ Late(d, k)' = Late(d, k)
  BY <1>1, EarlyFinite, LateFinite, LateSame
<1>5. \A k \in B : m(k) \in Nat
  BY <1>3, <1>4
<1>6. snr \in [RowDays -> [RowKeys -> Nat]]
  BY <1>1 DEF SnrTypeOK
<1>7. /\ snr' \in [RowDays -> [RowKeys -> Nat]]
      /\ \A d \in RowDays, k \in RowKeys :
           snr'[d][k] = IF d = job.day /\ k \in B THEN m(k) ELSE snr[d][k]
  BY <1>2, <1>3, <1>5, <1>6
<1>8. meta \in [since : 0 .. DeployDay + 1, done : BOOLEAN, partialDone : BOOLEAN,
                progress : -1 .. EarlyBatches(DeployDay) - 1]
  BY <1>1 DEF SnrTypeOK
<1>9. EarlyBatches(DeployDay) \in Nat
  BY BatchFacts
<1>10. /\ meta' \in [since : 0 .. DeployDay + 1, done : BOOLEAN, partialDone : BOOLEAN,
                     progress : -1 .. EarlyBatches(DeployDay) - 1]
       /\ meta'.since = meta.since /\ meta'.done = meta.done
       /\ meta'.progress = IF job.day = DeployDay THEN job.batch ELSE meta.progress
       /\ meta'.partialDone <=> meta.partialDone
                                \/ (job.day = DeployDay /\ job.batch = EarlyBatches(DeployDay) - 1)
  <2>1. CASE job.day = DeployDay
    <3>1. job.batch \in -1 .. EarlyBatches(DeployDay) - 1
      BY <1>3, <1>9, <2>1
    <3> DEFINE pd == meta.partialDone \/ job.batch = EarlyBatches(DeployDay) - 1
    <3>2. meta' = [meta EXCEPT !.progress = job.batch, !.partialDone = pd] /\ pd \in BOOLEAN
      BY <1>3, <2>1
    <3> HIDE DEF pd
    <3>3. /\ meta' \in [since : 0 .. DeployDay + 1, done : BOOLEAN, partialDone : BOOLEAN,
                     progress : -1 .. EarlyBatches(DeployDay) - 1]
          /\ meta'.since = meta.since /\ meta'.done = meta.done
          /\ meta'.progress = job.batch /\ meta'.partialDone = pd
      BY <1>8, <3>1, <3>2
    <3>4. QED
      BY <2>1, <3>3 DEF pd
  <2>2. CASE job.day # DeployDay
    <3>1. job.day < DeployDay /\ meta' = meta
      BY <1>1, <1>3, <2>2
    <3>2. QED
      BY <1>8, <2>2, <3>1
  <2>3. QED
    BY <2>1, <2>2
<1>11. SnrTypeOK'
  BY <1>1, <1>7, <1>10 DEF SnrTypeOK
<1>12. PrunedFromBelow'
  BY DEF SnrSound, PrunedFromBelow
<1>13. CountersExact'
  <2> SUFFICES ASSUME NEW d \in RowDays, NEW k \in RowKeys
               PROVE  /\ d < DeployDay => snr'[d][k] \in {0, Early(d, k)}
                      /\ d = DeployDay =>
                           snr'[d][k] = Late(d, k)
                             + (IF EarlyBatch(d, k) <= meta'.progress THEN Early(d, k) ELSE 0)
                      /\ d > DeployDay => snr'[d][k] = Late(d, k)
    BY <1>4 DEF CountersExact
  <2>1. /\ d < DeployDay => snr[d][k] \in {0, Early(d, k)}
        /\ d = DeployDay =>
             snr[d][k] = Late(d, k) + (IF EarlyBatch(d, k) <= meta.progress THEN Early(d, k) ELSE 0)
        /\ d > DeployDay => snr[d][k] = Late(d, k)
    BY <1>1 DEF CountersExact
  <2>2. CASE d # job.day
    <3>1. snr'[d][k] = snr[d][k]
      BY <1>7, <2>2
    <3>2. d = DeployDay => meta'.progress = meta.progress
      BY <1>10, <2>2
    <3>3. QED
      BY <2>1, <3>1, <3>2
  <2>3. CASE d = job.day /\ d # DeployDay
    <3>1. d < DeployDay
      BY <1>1, <2>3
    <3>2. k \in B => m(k) = Early(d, k) + 0
      BY <1>3, <2>3
    <3>3. snr'[d][k] = IF k \in B THEN m(k) ELSE snr[d][k]
      BY <1>7, <2>3
    <3>4. QED
      BY <1>1, <1>4, <2>1, <2>3, <3>1, <3>2, <3>3
  <2>4. CASE d = job.day /\ d = DeployDay
    <3>1. snr'[d][k] = IF k \in B THEN m(k) ELSE snr[d][k]
      BY <1>7, <2>4
    <3>2. meta'.progress = job.batch /\ meta.progress = job.batch - 1 /\ job.batch \in Nat
      BY <1>3, <1>10, <2>4
    <3>3. k \in B => /\ m(k) = Early(d, k) + Late(d, k) /\ EarlyBatch(d, k) = job.batch
      BY <1>3, <2>4
    <3>4. k \notin B => EarlyBatch(d, k) # job.batch \/ Early(d, k) = 0
      BY <1>3, <1>4, <2>4 DEF EarlyKeys
    <3>5. EarlyBatch(d, k) \in Nat /\ Early(d, k) \in Nat /\ Late(d, k) \in Nat
      BY <1>4, BatchFacts
    <3>6. snr'[d][k] = Late(d, k) + (IF EarlyBatch(d, k) <= meta'.progress THEN Early(d, k) ELSE 0)
      <4>1. CASE k \in B
        BY <3>1, <3>2, <3>3, <3>5, <4>1
      <4>2. CASE k \notin B
        BY <2>1, <2>4, <3>1, <3>2, <3>4, <3>5, <4>2
      <4>3. QED
        BY <4>1, <4>2
    <3>7. QED
      BY <2>4, <3>6, <1>1
  <2>5. QED
    BY <2>2, <2>3, <2>4
<1>14. \A d \in Int : Complete(d) => Complete(d)'
  <2> SUFFICES ASSUME NEW d \in Int, Complete(d) PROVE Complete(d)'
    OBVIOUS
  <2>1. CASE d = DeployDay
    BY <1>10, <2>1 DEF Complete
  <2>2. CASE d # DeployDay
    <3>1. ASSUME NEW k \in RowKeys PROVE snr'[d][k] = Early(d, k)
      <4>1. snr[d][k] = Early(d, k)
        BY <2>2 DEF Complete
      <4>2. CASE d \in RowDays
        <5>1. d = job.day /\ k \in B => m(k) = Early(d, k) + 0
          BY <1>3, <2>2
        <5>2. QED
          BY <1>4, <1>7, <4>1, <4>2, <5>1
      <4>3. CASE d \notin RowDays
        BY <1>2, <1>3, <1>6, <4>1, <4>3
      <4>4. QED
        BY <4>2, <4>3
    <3>2. QED
      BY <2>2, <3>1 DEF Complete
  <2>3. QED
    BY <2>1, <2>2
<1>15. MetaSound'
  <2>1. meta'.partialDone <=> meta'.progress = EarlyBatches(DeployDay) - 1
    <3>1. meta.partialDone <=> meta.progress = EarlyBatches(DeployDay) - 1
      BY <1>1 DEF MetaSound
    <3>2. CASE job.day = DeployDay
      BY <1>3, <1>9, <1>10, <3>1, <3>2
    <3>3. CASE job.day # DeployDay
      BY <1>10, <3>1, <3>3
    <3>4. QED
      BY <3>2, <3>3
  <2>2. \A d \in meta'.since .. DeployDay : Complete(d)'
    BY <1>1, <1>10
  <2>3. QED
    BY <1>1, <1>10, <2>1, <2>2 DEF MetaSound
<1>16. \A d \in RowDays : meta'.since <= d /\ d <= folded' => SeasonExact(d)'
  BY <1>4, <1>10 DEF SnrSound, SeasonSound, SeasonExact
<1>17. ASSUME job.day < DeployDay, NEW k \in EarlyKeys(job.day), EarlyBatch(job.day, k) < job.batch + 1
       PROVE  snr'[job.day][k] = Early(job.day, k)
  <2>1. k \in RowKeys /\ EarlyBatch(job.day, k) \in Nat
    BY <1>17, BatchFacts DEF EarlyKeys
  <2>2. snr'[job.day][k] = IF k \in B THEN m(k) ELSE snr[job.day][k]
    BY <1>2, <1>7, <2>1
  <2>3. k \in B => m(k) = Early(job.day, k) + 0
    BY <1>1, <1>3, <1>17
  <2>4. k \notin B => EarlyBatch(job.day, k) < job.batch
    BY <1>3, <1>17, <2>1
  <2>5. k \notin B => snr[job.day][k] = Early(job.day, k)
    BY <1>1, <1>17, <2>4 DEF WriteSound
  <2>6. QED
    BY <1>4, <2>2, <2>3, <2>5
<1>18. QED
  BY <1>10, <1>11, <1>12, <1>13, <1>14, <1>15, <1>16, <1>17

\* A batch that is committed, whether the answer arrives or not.
LEMMA WriteKeeps == ASSUME SnrSound, WriteBatch \/ WriteBatchUnacked PROVE SnrSound'
<1>1. /\ UNCHANGED <<now, spots, rawRows, seasonSnr, folded>>
      /\ MayWrite /\ CommitBatch /\ job.pc = "write" /\ OnDay
  BY DEF WriteBatch, WriteBatchUnacked, MayWrite, OnDay
<1>2. CASE job' = Stopped("stopped")
  <2>1. JobType' /\ JobSound' /\ ReadSound' /\ WriteSound' /\ ~DaysOver'
    BY <1>2, AtRest
  <2>2. /\ SnrTypeOK' /\ PrunedFromBelow' /\ CountersExact' /\ MetaSound'
        /\ \A d \in RowDays : meta'.since <= d /\ d <= folded' => SeasonExact(d)'
    BY <1>1, <2>1, CommitKeeps
  <2>3. QED
    BY <2>1, <2>2 DEF SnrSound, SeasonSound
<1>3. CASE job' = [job EXCEPT !.batch = @ + 1, !.attempt = 1]
  <2>1. JobType /\ JobSound /\ WriteSound /\ job.batch \in Nat /\ job.batch + 1 \in Nat
    BY DEF SnrSound, SnrTypeOK, JobType
  <2> DEFINE n == job.batch + 1
  <2>2. job' = [job EXCEPT !.batch = n, !.attempt = 1] /\ n \in Nat
    BY <1>3, <2>1
  <2> HIDE DEF n
  <2>3. /\ job'.pc = "write" /\ job'.batch = n /\ job'.day = job.day /\ job'.agg = job.agg
        /\ job'.newSince = job.newSince /\ job'.progress = job.progress /\ job'.refolded = job.refolded
        /\ JobType'
    BY <1>1, <2>1, <2>2 DEF JobType
  <2>4. /\ SnrTypeOK' /\ PrunedFromBelow' /\ CountersExact' /\ MetaSound'
        /\ meta'.since = meta.since /\ meta'.done = meta.done
        /\ meta'.progress = IF job.day = DeployDay THEN job.batch ELSE meta.progress
        /\ \A d \in Int : Complete(d) => Complete(d)'
        /\ \A d \in RowDays : meta'.since <= d /\ d <= folded' => SeasonExact(d)'
        /\ job.day < DeployDay =>
             \A k \in EarlyKeys(job.day) :
                EarlyBatch(job.day, k) < n => snr'[job.day][k] = Early(job.day, k)
    BY <1>1, <2>3, CommitKeeps DEF n
  <2>5. OnDay' /\ ~Reading' /\ ~DaysOver'
    BY <2>3 DEF OnDay, Reading, DaysOver
  <2>6. /\ job.day = DeployDay => meta.progress = job.batch - 1 /\ ~(job.batch <= job.progress)
        /\ job.batch < EarlyBatches(job.day)
        /\ job.progress \in Int /\ job.newSince \in Nat /\ job.day \in 0 .. DeployDay /\ DeployDay \in Nat
        /\ IsPartial(job.day) <=> job.day = DeployDay
    <3>1. /\ job.day = DeployDay => meta.progress = job.batch - 1
          /\ job.batch < EarlyBatches(job.day)
      BY <1>1, CommitEffect
    <3>2. job.day \in 0 .. DeployDay /\ DeployDay \in Nat /\ (IsPartial(job.day) <=> job.day = DeployDay)
      BY <1>1, DayFacts
    <3>3. job.day = DeployDay => ~(job.batch <= job.progress)
      BY <1>1, <3>2 DEF MayWrite, Resumed, Day
    <3>4. QED
      BY <2>1, <3>1, <3>2, <3>3 DEF JobType
  <2>7. JobSound'
    <3>1. /\ ~meta'.done /\ job'.newSince <= job'.day /\ job'.day <= DeployDay + 1
          /\ job'.refolded = {} /\ job'.day <= DeployDay
      BY <1>1, <2>1, <2>3, <2>4 DEF JobSound
    <3>2. job'.progress <= meta'.progress
      <4>1. CASE job.day = DeployDay
        BY <2>1, <2>3, <2>4, <2>6, <4>1
      <4>2. CASE job.day # DeployDay
        BY <1>1, <2>1, <2>3, <2>4, <4>2 DEF JobSound
      <4>3. QED
        BY <4>1, <4>2
    <3>3. job'.day < DeployDay => meta'.progress = job'.progress
      BY <1>1, <2>1, <2>3, <2>4, <2>6 DEF JobSound
    <3>4. \A d \in job'.newSince .. job'.day - 1 : Complete(d)'
      <4>1. \A d \in job.newSince .. job.day - 1 : Complete(d)
        BY <1>1, <2>1 DEF JobSound
      <4>2. QED
        BY <2>3, <2>4, <2>6, <4>1
    <3>5. QED
      BY <2>5, <3>1, <3>2, <3>3, <3>4 DEF JobSound
  <2>8. WriteSound'
    <3>1. \A k \in RowKeys : job.agg[k] = Early(job.day, k)
      BY <1>1, <2>1 DEF WriteSound
    <3>2. n <= EarlyBatches(job.day)
      BY <2>1, <2>6, BatchFacts DEF n
    <3>3. job.day = DeployDay => meta'.progress = IF n <= job.progress THEN job.progress ELSE n - 1
      BY <2>1, <2>4, <2>6 DEF n
    <3>4. QED
      BY <2>3, <2>4, <3>1, <3>2, <3>3 DEF WriteSound
  <2>9. ReadSound' /\ SeasonSound'
    BY <2>3, <2>4, <2>5 DEF ReadSound, SeasonSound
  <2>10. QED
    BY <2>4, <2>7, <2>8, <2>9 DEF SnrSound
<1>4. QED
  BY <1>2, <1>3 DEF WriteBatch, WriteBatchUnacked

\* The counters of a complete day, and of every later one, count each spot.
LEMMA CompleteExact ==
  ASSUME SnrSound, NoneBelated, NEW d \in RowDays, d > DeployDay \/ Complete(d)
  PROVE  \A k \in RowKeys : snr[d][k] = Early(d, k) + Late(d, k)
<1> SUFFICES ASSUME NEW k \in RowKeys PROVE snr[d][k] = Early(d, k) + Late(d, k)
  OBVIOUS
<1>1. /\ d \in Nat /\ DeployDay \in Nat /\ Early(d, k) \in Nat /\ Late(d, k) \in Nat
      /\ SnrTypeOK /\ CountersExact
  BY DeployFacts, EarlyFinite, LateFinite DEF SnrSound, RowDays
<1>2. CASE d > DeployDay
  <2>1. Early(d, k) = 0
    BY <1>1, <1>2, EarlyFinite
  <2>2. QED
    BY <1>1, <1>2, <2>1 DEF CountersExact
<1>3. CASE d = DeployDay
  <2>1. meta.progress = EarlyBatches(d) - 1 /\ EarlyBatches(d) \in Nat
    BY <1>1, <1>3, BatchFacts DEF SnrSound, MetaSound, Complete
  <2>2. snr[d][k] = Late(d, k) + (IF EarlyBatch(d, k) <= meta.progress THEN Early(d, k) ELSE 0)
    BY <1>1, <1>3 DEF CountersExact
  <2>3. EarlyBatch(d, k) \in Nat /\ (k \in EarlyKeys(d) => EarlyBatch(d, k) < EarlyBatches(d))
    BY BatchFacts
  <2>4. k \notin EarlyKeys(d) => Early(d, k) = 0
    BY <1>1 DEF EarlyKeys
  <2>5. QED
    BY <1>1, <2>1, <2>2, <2>3, <2>4
<1>4. CASE d < DeployDay
  <2>1. Late(d, k) = 0
    BY <1>1, <1>4, LateNone
  <2>2. snr[d][k] = Early(d, k)
    BY <1>1, <1>4 DEF Complete
  <2>3. QED
    BY <1>1, <2>1, <2>2
<1>5. QED
  BY <1>1, <1>2, <1>3, <1>4

\* The seasonal record changes for one day: it is right for that day if the
\* daily counters are, and as right as before for the others.
LEMMA SeasonChange ==
  ASSUME SnrSound, NoneBelated, NEW d \in RowDays, d > DeployDay \/ Complete(d),
         seasonSnr' = foldDayInTx(d, TRUE), UNCHANGED spots
  PROVE  /\ seasonSnr' \in [RowDays -> [RowKeys -> Nat]]
         /\ SeasonExact(d)'
         /\ \A e \in RowDays : SeasonExact(e) => SeasonExact(e)'
<1>1. \A k \in RowKeys : snr[d][k] = Early(d, k) + Late(d, k)
  BY CompleteExact
<1>2. /\ seasonSnr \in [RowDays -> [RowKeys -> Nat]] /\ snr \in [RowDays -> [RowKeys -> Nat]]
  BY DEF SnrSound, SnrTypeOK
<1>3. seasonSnr' = [seasonSnr EXCEPT ![d] = [k \in RowKeys |-> snr[d][k]]]
  BY DEF foldDayInTx
<1>4. /\ seasonSnr' \in [RowDays -> [RowKeys -> Nat]]
      /\ \A e \in RowDays, k \in RowKeys : seasonSnr'[e][k] = IF e = d THEN snr[d][k] ELSE seasonSnr[e][k]
  BY <1>2, <1>3
<1>5. \A e, k : Late(e, k)' = Late(e, k)
  BY LateSame
<1>6. QED
  BY <1>1, <1>4, <1>5 DEF SeasonExact

\* refoldDay of a planned day, which is complete by then.
LEMMA RefoldKeeps == ASSUME SnrSound, NoneBelated, RefoldDay PROVE SnrSound'
<1>1. /\ UNCHANGED <<now, spots, rawRows, snr, folded, meta>>
      /\ job.pc = "refold" /\ DaysOver
  BY DEF RefoldDay, DaysOver
<1>2. PICK d \in Pending(job.w) : /\ seasonSnr' = foldDayInTx(d, TRUE)
                                  /\ job' = [job EXCEPT !.refolded = @ \cup {d}]
  BY DEF RefoldDay
<1>3. JobType /\ JobSound /\ SeasonSound /\ SnrTypeOK /\ meta.since = DeployDay + 1 /\ DeployDay \in Nat
  BY <1>1, DeployFacts DEF SnrSound, SnrTypeOK, JobSound, MetaSound
<1>4. /\ d \in job.newSince .. DeployDay /\ d <= job.w /\ d \in Nat /\ d \in RowDays
  BY <1>3, DeployFacts DEF Pending, PlannedDays, RowDays, JobType
<1>5. Complete(d)
  BY <1>1, <1>3, <1>4 DEF JobSound
<1>6. /\ seasonSnr' \in [RowDays -> [RowKeys -> Nat]]
      /\ SeasonExact(d)'
      /\ \A e \in RowDays : SeasonExact(e) => SeasonExact(e)'
  BY <1>1, <1>2, <1>4, <1>5, SeasonChange
<1>7. job.w <= folded /\ d <= folded
  <2>1. job.w <= folded
    BY <1>1, <1>3 DEF SeasonSound
  <2>2. job.w \in Int
    BY <1>3 DEF JobType
  <2>3. folded \in Int
    BY <1>3 DEF SnrTypeOK
  <2>4. QED
    BY <1>4, <2>1, <2>2, <2>3
<1>8. /\ job'.pc = "refold" /\ job'.w = job.w /\ job'.day = job.day
      /\ job'.newSince = job.newSince /\ job'.progress = job.progress
      /\ job'.refolded = job.refolded \cup {d}
      /\ JobType'
  BY <1>1, <1>2, <1>3, <1>4 DEF JobType
<1>9. ~OnDay' /\ ~Reading' /\ DaysOver' /\ (\A e : Complete(e)' <=> Complete(e))
  BY <1>1, <1>8 DEF OnDay, Reading, DaysOver, Complete
<1>10. SnrTypeOK' /\ PrunedFromBelow'
  BY <1>1, <1>3, <1>6, <1>8 DEF SnrSound, SnrTypeOK, PrunedFromBelow
<1>11. CountersExact'
  BY <1>1, LateSame DEF SnrSound, CountersExact
<1>12. MetaSound'
  BY <1>1, <1>9 DEF SnrSound, MetaSound
<1>13. JobSound'
  BY <1>1, <1>3, <1>8, <1>9 DEF JobSound
<1>14. SeasonSound'
  <2>1. \A e \in RowDays : meta'.since <= e /\ e <= folded' => SeasonExact(e)'
    BY <1>1, <1>3, <1>6 DEF SeasonSound
  <2>2. \A e \in job'.refolded : e \in RowDays /\ e <= folded' /\ SeasonExact(e)'
    BY <1>1, <1>3, <1>4, <1>6, <1>7, <1>8 DEF SeasonSound
  <2>3. QED
    BY <1>1, <1>7, <1>8, <2>1, <2>2 DEF SeasonSound
<1>15. QED
  BY <1>8, <1>9, <1>10, <1>11, <1>12, <1>13, <1>14 DEF SnrSound, ReadSound, WriteSound

\* The day in the meta table moves when every planned day the fold has passed
\* has been folded again.
LEMMA FinalizeKeeps == ASSUME SnrSound, Finalize PROVE SnrSound'
<1>1. /\ UNCHANGED <<now, spots, rawRows, snr, seasonSnr, folded>>
      /\ job.pc = "refold" /\ DaysOver
  BY DEF Finalize, DaysOver
<1>2. JobType /\ JobSound /\ SeasonSound /\ SnrTypeOK /\ meta.since = DeployDay + 1 /\ DeployDay \in Nat
  BY <1>1, DeployFacts DEF SnrSound, SnrTypeOK, JobSound, MetaSound
<1>3. CASE UNCHANGED meta /\ job' = Stopped("stopped")
  BY <1>1, <1>3, StopKeeps
<1>4. CASE UNCHANGED meta /\ job' = [job EXCEPT !.round = @ + 1, !.pc = "watermark"]
  <2>1. job.round \in Nat /\ job.round + 1 \in Nat
    BY <1>2 DEF JobType
  <2>2. /\ job'.pc = "watermark" /\ job'.day = job.day
        /\ job'.newSince = job.newSince /\ job'.progress = job.progress /\ job'.refolded = job.refolded
        /\ JobType'
    BY <1>2, <1>4, <2>1 DEF JobType
  <2>3. ~OnDay' /\ ~Reading' /\ DaysOver'
    BY <2>2 DEF OnDay, Reading, DaysOver
  <2>4. JobSound'
    BY <1>1, <1>2, <1>4, <2>2, <2>3, RunnerOnly DEF JobSound
  <2>5. SeasonSound'
    BY <1>1, <1>2, <1>4, <2>2, <2>3, RunnerOnly DEF SeasonSound
  <2>6. QED
    BY <1>1, <1>4, <2>2, <2>3, <2>4, <2>5, RunnerOnly DEF SnrSound, ReadSound, WriteSound
<1>5. CASE /\ PendingAtFinalize = {}
           /\ meta' = [meta EXCEPT !.done = TRUE, !.since = Least(@, job.newSince)]
           /\ job' = Stopped("stopped")
  <2>1. JobType' /\ JobSound' /\ ReadSound' /\ WriteSound' /\ ~DaysOver'
    BY <1>5, AtRest
  <2>2. job.newSince \in 0 .. DeployDay + 1
    BY <1>1, <1>2 DEF JobSound, JobType
  <2>3. Least(meta.since, job.newSince) = job.newSince
    BY <1>2, <2>2 DEF Least
  <2>4. meta' = [meta EXCEPT !.done = TRUE, !.since = job.newSince]
    BY <1>5, <2>3
  <2>5. meta \in [since : 0 .. DeployDay + 1, done : BOOLEAN, partialDone : BOOLEAN,
                  progress : -1 .. EarlyBatches(DeployDay) - 1]
    BY <1>2 DEF SnrTypeOK
  <2>6. /\ meta' \in [since : 0 .. DeployDay + 1, done : BOOLEAN, partialDone : BOOLEAN,
                      progress : -1 .. EarlyBatches(DeployDay) - 1]
        /\ meta'.done = TRUE /\ meta'.since = job.newSince
        /\ meta'.partialDone = meta.partialDone /\ meta'.progress = meta.progress
    BY <2>2, <2>4, <2>5
  <2>7. SnrTypeOK' /\ PrunedFromBelow'
    BY <1>1, <1>2, <2>1, <2>6 DEF SnrSound, SnrTypeOK, PrunedFromBelow
  <2>8. CountersExact'
    BY <1>1, <2>6, LateSame DEF SnrSound, CountersExact
  <2>9. \A d : Complete(d)' <=> Complete(d)
    BY <1>1, <2>6 DEF Complete
  <2>10. MetaSound'
    BY <1>1, <1>2, <2>6, <2>9 DEF SnrSound, MetaSound, JobSound
  <2>11. SeasonSound'
    <3>1. ASSUME NEW d \in RowDays, job.newSince <= d, d <= folded PROVE SeasonExact(d)
      <4>1. CASE d <= DeployDay
        <5>1. d \in PlannedDays
          BY <1>2, <2>2, <3>1, <4>1 DEF PlannedDays, RowDays
        <5>2. d \in job.refolded
          BY <1>5, <3>1, <5>1 DEF PendingAtFinalize, Pending
        <5>3. QED
          BY <1>1, <1>2, <5>2 DEF SeasonSound
      <4>2. CASE ~(d <= DeployDay)
        BY <1>2, <3>1, <4>2 DEF SeasonSound, RowDays
      <4>3. QED
        BY <4>1, <4>2
    <3>2. \A d : SeasonExact(d)' <=> SeasonExact(d)
      BY <1>1, LateSame DEF SeasonExact
    <3>3. QED
      BY <1>1, <2>1, <2>6, <3>1, <3>2 DEF SeasonSound
  <2>12. QED
    BY <2>1, <2>7, <2>8, <2>10, <2>11 DEF SnrSound
<1>6. QED
  BY <1>3, <1>4, <1>5 DEF Finalize

(***************************************************************************)
(* What runs beside the job.                                               *)
(***************************************************************************)
\* A step that leaves the counters, the meta table and the runner alone.
LEMMA RunnerRests ==
  ASSUME UNCHANGED <<spots, snr, meta, job>>
  PROVE  /\ \A d, k : Late(d, k)' = Late(d, k)
         /\ \A d : Complete(d)' <=> Complete(d)
         /\ CountersExact' <=> CountersExact
         /\ MetaSound' <=> MetaSound
         /\ JobSound' <=> JobSound
         /\ WriteSound' <=> WriteSound
         /\ JobType' <=> JobType
<1>1. /\ \A d, k : Late(d, k)' = Late(d, k)
      /\ \A d : Complete(d)' <=> Complete(d)
  BY LateSame DEF Complete
<1>2. CountersExact' <=> CountersExact
  BY <1>1 DEF CountersExact
<1>3. MetaSound' <=> MetaSound
  BY <1>1 DEF MetaSound
<1>4. JobSound' <=> JobSound
  BY <1>1 DEF JobSound, OnDay, DaysOver, Reading
<1>5. WriteSound' <=> WriteSound
  BY DEF WriteSound
<1>6. JobType' <=> JobType
  BY DEF JobType
<1>7. QED
  BY <1>1, <1>2, <1>3, <1>4, <1>5, <1>6

\* The fold ticker folds the next final day; from the day in the meta table on
\* its counters are complete.
LEMMA FoldKeeps == ASSUME SnrSound, NoneBelated, SnrFoldDay PROVE SnrSound'
<1> DEFINE d == folded + 1
           withSNR == d >= meta.since
<1>1. /\ UNCHANGED <<now, spots, rawRows, snr, meta, job>>
      /\ d + 2 <= DayOf(now) /\ folded' = d
      /\ seasonSnr' = [seasonSnr EXCEPT ![d] = [k \in RowKeys |-> IF withSNR THEN snr[d][k] ELSE 0]]
  BY DEF SnrFoldDay, foldDayInTx
<1>2. /\ SnrTypeOK /\ MetaSound /\ SeasonSound /\ folded \in Int
      /\ meta.since \in Nat /\ DeployDay \in Nat
      /\ seasonSnr \in [RowDays -> [RowKeys -> Nat]] /\ snr \in [RowDays -> [RowKeys -> Nat]]
  BY DeployFacts DEF SnrSound, SnrTypeOK
<1>3. d \in Int /\ folded < d
  BY <1>2
<1>4. withSNR \in BOOLEAN
  OBVIOUS
<1>5. withSNR <=> d >= meta.since
  OBVIOUS
<1> HIDE DEF d, withSNR
<1>6. /\ seasonSnr' \in [RowDays -> [RowKeys -> Nat]]
      /\ \A e \in RowDays, k \in RowKeys :
           seasonSnr'[e][k] = IF e = d THEN (IF withSNR THEN snr[d][k] ELSE 0) ELSE seasonSnr[e][k]
  <2>1. CASE d \in RowDays
    BY <1>1, <1>2, <2>1
  <2>2. CASE d \notin RowDays
    <3>1. seasonSnr' = seasonSnr
      BY <1>1, <1>2, <2>2
    <3>2. QED
      BY <1>2, <2>2, <3>1
  <2>3. QED
    BY <2>1, <2>2
<1>7. \A e, k : Late(e, k)' = Late(e, k)
  BY <1>1, LateSame
<1>8. ASSUME NEW e \in RowDays, e # d, SeasonExact(e) PROVE SeasonExact(e)'
  BY <1>6, <1>7, <1>8 DEF SeasonExact
<1>9. ASSUME NEW e \in RowDays, e = d, meta.since <= e PROVE SeasonExact(e)'
  <2>1. e > DeployDay \/ Complete(e)
    BY <1>2, <1>3, <1>9 DEF MetaSound
  <2>2. \A k \in RowKeys : snr[e][k] = Early(e, k) + Late(e, k)
    BY <1>9, <2>1, CompleteExact
  <2>3. \A k \in RowKeys : seasonSnr'[e][k] = snr[e][k]
    BY <1>2, <1>3, <1>5, <1>6, <1>9
  <2>4. QED
    BY <1>7, <2>2, <2>3 DEF SeasonExact
<1>10. SeasonSound'
  <2>1. ASSUME NEW e \in RowDays, meta.since <= e, e <= d PROVE SeasonExact(e)'
    <3>1. CASE e = d
      BY <1>9, <2>1, <3>1
    <3>2. CASE e # d
      <4>1. e <= folded
        BY <1>2, <1>3, <2>1, <3>2 DEF d, RowDays
      <4>2. SeasonExact(e)
        BY <1>2, <2>1, <4>1 DEF SeasonSound
      <4>3. QED
        BY <1>8, <3>2, <4>2
    <3>3. QED
      BY <3>1, <3>2
  <2>2. DaysOver' <=> DaysOver
    BY <1>1 DEF DaysOver
  <2>3. ASSUME DaysOver, NEW e \in job.refolded
        PROVE  e \in RowDays /\ e <= d /\ SeasonExact(e)'
    <3>1. e \in RowDays /\ e <= folded /\ SeasonExact(e)
      BY <1>2, <2>3 DEF SeasonSound
    <3>2. e \in Int
      BY <3>1 DEF RowDays
    <3>3. e # d /\ e <= d
      BY <1>2, <1>3, <3>1, <3>2
    <3>4. QED
      BY <1>8, <3>1, <3>3
  <2>4. ASSUME DaysOver, job.pc = "refold" PROVE job.w <= d
    <3>1. job.w <= folded
      BY <1>2, <2>4 DEF SeasonSound
    <3>2. job.w \in Int
      BY <1>2 DEF SnrTypeOK, JobType
    <3>3. QED
      BY <1>2, <1>3, <3>1, <3>2
  <2>5. QED
    BY <1>1, <2>1, <2>2, <2>3, <2>4 DEF SeasonSound
<1>11. SnrTypeOK'
  BY <1>1, <1>2, <1>3, <1>6, RunnerRests DEF SnrTypeOK
<1>12. PrunedFromBelow' /\ ReadSound'
  BY <1>1 DEF SnrSound, PrunedFromBelow, ReadSound, Reading, CoveredFrom
<1>13. QED
  BY <1>1, <1>10, <1>11, <1>12, RunnerRests DEF SnrSound

\* The clock.
LEMMA TickKeeps == ASSUME SnrSound, SnrTick PROVE SnrSound'
<1>1. /\ UNCHANGED <<spots, rawRows, snr, seasonSnr, folded, meta, job>>
      /\ now' = now + 1 /\ now < SnrMaxClock
  BY DEF SnrTick
<1>2. /\ SnrTypeOK /\ now \in Nat /\ SnrCutoff \in Nat /\ SnrMaxClock \in Nat
      /\ now \in SnrCutoff .. SnrMaxClock /\ folded \in Int
      /\ folded + 2 <= DayOf(now)
  BY DeployFacts DEF SnrSound, SnrTypeOK
<1>3. DayOf(now) <= DayOf(now')
  <2>1. now' \in Nat
    BY <1>1, <1>2
  <2>2. DayOf(now) \in Nat /\ DayOf(now') \in Nat /\ Start(DayOf(now)) <= now
    BY <1>2, <2>1, DayBounds
  <2>3. DayOf(now') < DayOf(now) <=> now' < Start(DayOf(now))
    BY <2>1, <2>2, DayIs
  <2>4. Start(DayOf(now)) \in Int
    BY <2>2, StartInt
  <2>5. QED
    BY <1>1, <1>2, <2>2, <2>3, <2>4
<1>4. folded + 2 <= DayOf(now')
  <2>1. DayOf(now) \in Nat /\ DayOf(now') \in Nat
    BY <1>1, <1>2, DayBounds
  <2>2. QED
    BY <1>2, <1>3, <2>1
<1>5. \A i \in DOMAIN spots : spots[i][1] <= now + 1
  <2>1. ASSUME NEW i \in DOMAIN spots PROVE spots[i][1] \in Nat /\ spots[i][1] <= now
    <3>1. spots \in Seq(Nat \X RowKeys) /\ spots[i][1] <= now
      BY <1>2, <2>1 DEF SnrTypeOK
    <3>2. spots[i] \in Nat \X RowKeys
      BY <3>1
    <3>3. QED
      BY <3>1, <3>2
  <2>2. QED
    BY <1>2, <2>1
<1>6. SnrTypeOK'
  <2>1. now + 1 \in SnrCutoff .. SnrMaxClock
    BY <1>1, <1>2
  <2>2. QED
    BY <1>1, <1>2, <1>4, <1>5, <2>1, RunnerRests DEF SnrTypeOK
<1>7. PrunedFromBelow' /\ ReadSound' /\ SeasonSound'
  BY <1>1, RunnerRests DEF SnrSound, PrunedFromBelow, ReadSound, Reading, CoveredFrom,
     SeasonSound, DaysOver, SeasonExact
<1>8. QED
  BY <1>1, <1>6, <1>7, RunnerRests DEF SnrSound

\* pruneRawSpotsOlderThan, whole seconds at a time: a window that is covered
\* after it was covered before it.
LEMMA PruneKeeps ==
  ASSUME SnrSound, ~SplitTimes, NEW i \in rawRows, PruneRaw(i)
  PROVE  SnrSound'
<1>1. /\ UNCHANGED <<now, spots, snr, seasonSnr, folded, meta, job>>
      /\ \A j \in rawRows : spots[i][1] <= spots[j][1]
      /\ rawRows' = {j \in rawRows : j # i /\ spots[j][1] # spots[i][1]}
  BY DEF PruneRaw
<1>2. SnrTypeOK /\ PrunedFromBelow /\ ReadSound /\ rawRows \subseteq DOMAIN spots
  BY DEF SnrSound, SnrTypeOK
<1>3. \A j \in DOMAIN spots : spots[j][1] \in Nat
  <2>1. spots \in Seq(Nat \X RowKeys)
    BY <1>2 DEF SnrTypeOK
  <2>2. \A j \in DOMAIN spots : spots[j] \in Nat \X RowKeys
    BY <2>1
  <2>3. QED
    BY <2>2
<1>4. SnrTypeOK'
  <2>1. rawRows' \in SUBSET DOMAIN spots
    BY <1>1, <1>2
  <2>2. QED
    BY <1>1, <1>2, <2>1, RunnerRests DEF SnrTypeOK
<1>5. PrunedFromBelow'
  <2> SUFFICES ASSUME NEW a \in DOMAIN Before \ rawRows', NEW j \in rawRows'
               PROVE  spots[a][1] < spots[j][1]
    BY <1>1 DEF PrunedFromBelow
  <2>1. j \in rawRows /\ spots[j][1] # spots[i][1] /\ spots[i][1] <= spots[j][1]
    BY <1>1
  <2>2. CASE a \in rawRows
    <3>1. spots[a][1] = spots[i][1]
      BY <1>1, <2>2
    <3>2. QED
      BY <1>2, <1>3, <2>1, <3>1
  <2>3. CASE a \notin rawRows
    BY <1>2, <2>1, <2>3 DEF PrunedFromBelow
  <2>4. QED
    BY <2>2, <2>3
<1>6. ReadSound'
  BY <1>1, <1>2 DEF ReadSound, Reading, CoveredFrom
<1>7. SeasonSound'
  BY <1>1, RunnerRests DEF SnrSound, SeasonSound, DaysOver, SeasonExact
<1>8. QED
  BY <1>1, <1>4, <1>5, <1>6, <1>7, RunnerRests DEF SnrSound

\* A live spot's place in the log and in time: it is the newest entry, of the
\* deploy day or later, and of a day the fold has yet to reach.
LEMMA SpotPlace ==
  ASSUME SnrSound, NoneBelated', SnrMaxLate <= Windows,
         NEW t \in now - SnrMaxLate .. now, NEW k \in RowKeys, LiveSpot(t, k)
  PROVE  /\ t \in Nat /\ SnrCutoff <= t /\ NoneBelated
         /\ DayOf(t) \in RowDays /\ DeployDay <= DayOf(t) /\ folded < DayOf(t)
         /\ Len(spots) \in Nat /\ Len(Before) <= Len(spots)
         /\ DOMAIN spots = 1 .. Len(spots) /\ DOMAIN spots' = 1 .. Len(spots) + 1
         /\ spots' \in Seq(Nat \X RowKeys) /\ Len(spots') = Len(spots) + 1
         /\ \A i \in DOMAIN spots : spots'[i] = spots[i]
         /\ spots'[Len(spots) + 1] = <<t, k>>
<1>1. /\ SnrTypeOK /\ spots \in Seq(Nat \X RowKeys) /\ Len(Before) <= Len(spots)
      /\ now \in SnrCutoff .. SnrMaxClock /\ folded \in Int /\ folded + 2 <= DayOf(now)
      /\ SnrCutoff \in Nat /\ SnrMaxClock \in Nat /\ SnrMaxLate \in Nat /\ Windows \in Nat
      /\ SnrMaxLate <= SnrCutoff
  BY SnrConstants DEF SnrSound, SnrTypeOK
<1>2. t \in Nat /\ now \in Nat /\ t <= now /\ now - Windows <= t /\ t <= SnrMaxClock
  BY <1>1
<1>3. /\ Len(spots) \in Nat /\ DOMAIN spots = 1 .. Len(spots) /\ DOMAIN spots' = 1 .. Len(spots) + 1
      /\ spots' \in Seq(Nat \X RowKeys) /\ Len(spots') = Len(spots) + 1
      /\ \A i \in DOMAIN spots : spots'[i] = spots[i]
      /\ spots'[Len(spots) + 1] = <<t, k>>
  <2>1. spots' = Append(spots, <<t, k>>) /\ <<t, k>> \in Nat \X RowKeys
    BY <1>2 DEF LiveSpot
  <2>2. QED
    BY <1>1, <2>1
<1>4. Len(Before) \in Nat
  BY SnrConstants
<1>5. SnrCutoff <= t
  <2>1. Len(spots) + 1 \in DOMAIN spots' /\ Len(spots) + 1 > Len(Before)
    BY <1>1, <1>3, <1>4
  <2>2. spots'[Len(spots) + 1][1] >= SnrCutoff
    BY <2>1 DEF NoneBelated
  <2>3. QED
    BY <1>1, <1>2, <1>3, <2>2
<1>6. NoneBelated
  <2> SUFFICES ASSUME NEW i \in DOMAIN spots, i > Len(Before) PROVE spots[i][1] >= SnrCutoff
    BY DEF NoneBelated
  <2>1. i \in DOMAIN spots' /\ spots'[i] = spots[i]
    BY <1>3
  <2>2. QED
    BY <2>1 DEF NoneBelated
<1>7. DayOf(t) \in RowDays /\ DayOf(t) \in Nat /\ DayOf(now) \in Nat
  BY <1>2, RowDay, DayBounds
<1>8. DeployDay <= DayOf(t)
  <2>1. DayOf(t) < DeployDay <=> t < Start(DeployDay)
    BY <1>2, DayIs, DeployFacts
  <2>2. Start(DeployDay) \in Int /\ Start(DeployDay) < SnrCutoff /\ DeployDay \in Nat
    BY StartInt, DeployFacts
  <2>3. QED
    BY <1>1, <1>2, <1>5, <1>7, <2>1, <2>2
<1>9. folded < DayOf(t)
  <2> DEFINE e == DayOf(now) - 1
  <2>1. e \in Int /\ e + 1 = DayOf(now)
    BY <1>7
  <2>2. Start(e) \in Int /\ Start(e + 1) = Start(e) + Windows
    BY <2>1, StartInt
  <2>3. DayOf(t) < e <=> t < Start(e)
    BY <1>2, <2>1, DayIs
  <2>4. Start(DayOf(now)) <= now
    BY <1>2, DayBounds
  <2> HIDE DEF e
  <2>5. ~(t < Start(e))
    BY <1>1, <1>2, <2>1, <2>2, <2>4
  <2>6. QED
    BY <1>1, <1>7, <2>1, <2>3, <2>5
<1>10. QED
  BY <1>1, <1>2, <1>3, <1>5, <1>6, <1>7, <1>8, <1>9

\* It is counted once among the live spots, and once in its row.
LEMMA SpotCounted ==
  ASSUME SnrSound, NoneBelated', SnrMaxLate <= Windows,
         NEW t \in now - SnrMaxLate .. now, NEW k \in RowKeys, LiveSpot(t, k)
  PROVE  /\ \A d, l : Late(d, l)' = Late(d, l) + (IF d = DayOf(t) /\ l = k THEN 1 ELSE 0)
         /\ snr' \in [RowDays -> [RowKeys -> Nat]]
         /\ \A d \in RowDays, l \in RowKeys :
               snr'[d][l] = snr[d][l] + (IF d = DayOf(t) /\ l = k THEN 1 ELSE 0)
<1> DEFINE n == Len(spots) + 1
           day == DayOf(t)
<1>1. /\ t \in Nat /\ day \in RowDays
      /\ n \in Nat /\ Len(Before) \in Nat /\ n > Len(Before)
      /\ DOMAIN spots' = DOMAIN spots \cup {n} /\ n \notin DOMAIN spots
      /\ \A i \in DOMAIN spots : spots'[i] = spots[i]
      /\ spots'[n] = <<t, k>>
  <2>1. Len(Before) \in Nat
    BY SnrConstants
  <2>2. /\ t \in Nat /\ day \in RowDays
        /\ Len(spots) \in Nat /\ Len(Before) <= Len(spots)
        /\ DOMAIN spots = 1 .. Len(spots) /\ DOMAIN spots' = 1 .. Len(spots) + 1
        /\ \A i \in DOMAIN spots : spots'[i] = spots[i]
        /\ spots'[Len(spots) + 1] = <<t, k>>
    BY SpotPlace
  <2> HIDE DEF day
  <2>3. n \in Nat /\ n > Len(Before) /\ DOMAIN spots' = DOMAIN spots \cup {n} /\ n \notin DOMAIN spots
    BY <2>1, <2>2
  <2>4. QED
    BY <2>1, <2>2, <2>3
<1>2. SnrTypeOK
  BY DEF SnrSound
<1> HIDE DEF n
<1>3. ASSUME NEW d, NEW l
      PROVE  Late(d, l)' = Late(d, l) + (IF d = DayOf(t) /\ l = k THEN 1 ELSE 0)
  <2>1. IsFiniteSet(LateOf(d, l)) /\ Late(d, l) \in Nat
    BY <1>2, LateFinite
  <2>2. CASE d = DayOf(t) /\ l = k
    <3>1. LateOf(d, l)' = LateOf(d, l) \cup {n}
      BY <1>1, <2>2 DEF LateOf
    <3>2. n \notin LateOf(d, l)
      BY <1>1 DEF LateOf
    <3>3. Cardinality(LateOf(d, l) \cup {n}) = Cardinality(LateOf(d, l)) + 1
      BY <2>1, <3>2, FS_AddElement
    <3>4. QED
      BY <2>2, <3>1, <3>3 DEF Late
  <2>3. CASE ~(d = DayOf(t) /\ l = k)
    <3>1. LateOf(d, l)' = LateOf(d, l)
      BY <1>1, <2>3 DEF LateOf
    <3>2. QED
      BY <2>1, <2>3, <3>1 DEF Late
  <2>4. QED
    BY <2>2, <2>3
<1>4. snr \in [RowDays -> [RowKeys -> Nat]]
  BY <1>2 DEF SnrTypeOK
<1>5. snr' = [snr EXCEPT ![day][k] = @ + 1]
  BY DEF LiveSpot
<1> HIDE DEF day
<1>6. /\ snr' \in [RowDays -> [RowKeys -> Nat]]
      /\ \A d \in RowDays, l \in RowKeys :
            snr'[d][l] = snr[d][l] + (IF d = day /\ l = k THEN 1 ELSE 0)
  <2>1. snr[day][k] \in Nat /\ snr[day][k] + 1 \in Nat
    BY <1>1, <1>4
  <2>2. snr' \in [RowDays -> [RowKeys -> Nat]]
    BY <1>1, <1>4, <1>5, <2>1
  <2>3. ASSUME NEW d \in RowDays, NEW l \in RowKeys
        PROVE  snr'[d][l] = snr[d][l] + (IF d = day /\ l = k THEN 1 ELSE 0)
    <3>1. snr[d] \in [RowKeys -> Nat] /\ snr[d][l] \in Nat
      BY <1>4
    <3>2. snr'[d][l] = IF d = day /\ l = k THEN snr[d][l] + 1 ELSE snr[d][l]
      BY <1>4, <1>5, <3>1
    <3>3. QED
      BY <3>1, <3>2
  <2>4. QED
    BY <2>2, <2>3
<1>7. QED
  BY <1>3, <1>6 DEF day

\* observe() and the flushes: a live spot adds to the deploy day or a later
\* one that is not folded yet, and to no window the job reads.
LEMMA LiveKeeps ==
  ASSUME SnrSound, NoneBelated', SnrMaxLate <= Windows,
         NEW t \in now - SnrMaxLate .. now, NEW k \in RowKeys, LiveSpot(t, k)
  PROVE  SnrSound'
<1> DEFINE n == Len(spots) + 1
           x(d, l) == IF d = DayOf(t) /\ l = k THEN 1 ELSE 0
<1>1. /\ UNCHANGED <<now, seasonSnr, folded, meta, job>>
      /\ rawRows' = rawRows \cup {Len(spots')}
  BY DEF LiveSpot
<1>2. /\ t \in Nat /\ SnrCutoff <= t /\ NoneBelated
      /\ DayOf(t) \in RowDays /\ DeployDay <= DayOf(t) /\ folded < DayOf(t)
      /\ Len(spots) \in Nat /\ Len(Before) <= Len(spots)
      /\ DOMAIN spots = 1 .. Len(spots) /\ DOMAIN spots' = 1 .. n
      /\ spots' \in Seq(Nat \X RowKeys) /\ Len(spots') = n
      /\ \A i \in DOMAIN spots : spots'[i] = spots[i]
      /\ spots'[n] = <<t, k>>
  BY SpotPlace
<1> HIDE DEF x
<1>new. n \in Nat /\ n > Len(Before) /\ n \notin DOMAIN spots /\ DOMAIN spots' = DOMAIN spots \cup {n}
  <2>1. Len(Before) \in Nat
    BY SnrConstants
  <2>2. QED
    BY <1>2, <2>1
<1> HIDE DEF n
<1>3. /\ \A d, l : Late(d, l)' = Late(d, l) + x(d, l)
      /\ snr' \in [RowDays -> [RowKeys -> Nat]]
      /\ \A d \in RowDays, l \in RowKeys : snr'[d][l] = snr[d][l] + x(d, l)
  BY SpotCounted DEF x
<1>4. \A d, l : (d # DayOf(t) => x(d, l) = 0) /\ x(d, l) \in Nat
  BY DEF x
<1>5. /\ SnrTypeOK /\ JobType /\ DeployDay \in Nat /\ SnrCutoff \in Nat /\ now \in Nat /\ t <= now
      /\ Len(Before) \in Nat /\ DOMAIN Before = 1 .. Len(Before)
      /\ folded \in Int /\ snr \in [RowDays -> [RowKeys -> Nat]] /\ rawRows \subseteq DOMAIN spots
      /\ \A i \in DOMAIN Before : spots[i] = Before[i]
  <2>1. SnrTypeOK
    BY DEF SnrSound
  <2>2. /\ now \in SnrCutoff .. SnrMaxClock /\ JobType
        /\ folded \in Int /\ snr \in [RowDays -> [RowKeys -> Nat]] /\ rawRows \subseteq DOMAIN spots
        /\ \A i \in DOMAIN Before : spots[i] = Before[i]
    BY <2>1 DEF SnrTypeOK
  <2>3. DeployDay \in Nat /\ SnrCutoff \in Nat /\ SnrMaxLate \in Nat
    BY DeployFacts, SnrConstants
  <2>4. now \in Nat /\ t <= now
    BY <2>2, <2>3
  <2>5. Len(Before) \in Nat /\ DOMAIN Before = 1 .. Len(Before)
    BY SnrConstants
  <2>6. QED
    BY <2>1, <2>2, <2>3, <2>4, <2>5
<1>6. \A d, l : Early(d, l) \in Nat /\ Late(d, l) \in Nat
  BY <1>5, EarlyFinite, LateFinite
<1>7. JobType'
  BY <1>1, <1>5 DEF JobType
<1>8. SnrTypeOK'
  <2>1. \A i \in DOMAIN spots' : spots'[i][1] <= now
    <3>1. \A i \in DOMAIN spots : spots[i][1] <= now
      BY <1>5 DEF SnrTypeOK
    <3>2. spots'[n][1] = t
      BY <1>2
    <3>3. QED
      BY <1>2, <1>5, <1>new, <3>1, <3>2
  <2>2. \A i \in DOMAIN Before : spots'[i] = Before[i]
    BY <1>2, <1>5
  <2>3. rawRows' \in SUBSET DOMAIN spots' /\ Len(Before) <= Len(spots')
    BY <1>1, <1>2, <1>5, <1>new
  <2>4. QED
    BY <1>1, <1>2, <1>3, <1>5, <1>7, <2>1, <2>2, <2>3 DEF SnrTypeOK
<1>9. PrunedFromBelow'
  <2> SUFFICES ASSUME NEW a \in DOMAIN Before \ rawRows', NEW j \in rawRows'
               PROVE  spots'[a][1] < spots'[j][1]
    BY DEF PrunedFromBelow
  <2>1. a \in DOMAIN Before \ rawRows /\ a \in DOMAIN spots /\ spots'[a] = spots[a] /\ spots[a] = Before[a]
    BY <1>1, <1>2, <1>5
  <2>2. CASE j \in rawRows
    <3>1. j \in DOMAIN spots /\ spots'[j] = spots[j]
      BY <1>2, <1>5, <2>2
    <3>2. spots[a][1] < spots[j][1]
      BY <2>1, <2>2 DEF SnrSound, PrunedFromBelow
    <3>3. QED
      BY <2>1, <3>1, <3>2
  <2>3. CASE j = n
    <3>1. Before[a][1] \in Nat /\ Before[a][1] < SnrCutoff
      BY <2>1, EarlyTimes
    <3>2. spots'[j][1] = t
      BY <1>2, <2>3
    <3>3. QED
      BY <1>2, <1>5, <2>1, <3>1, <3>2
  <2>4. QED
    BY <1>1, <1>2, <2>2, <2>3
<1>10. CountersExact'
  <2> SUFFICES ASSUME NEW d \in RowDays, NEW l \in RowKeys
               PROVE  /\ d < DeployDay => snr'[d][l] \in {0, Early(d, l)}
                      /\ d = DeployDay =>
                           snr'[d][l] = Late(d, l)'
                             + (IF EarlyBatch(d, l) <= meta'.progress THEN Early(d, l) ELSE 0)
                      /\ d > DeployDay => snr'[d][l] = Late(d, l)'
    BY DEF CountersExact
  <2>1. /\ d < DeployDay => snr[d][l] \in {0, Early(d, l)}
        /\ d = DeployDay =>
             snr[d][l] = Late(d, l) + (IF EarlyBatch(d, l) <= meta.progress THEN Early(d, l) ELSE 0)
        /\ d > DeployDay => snr[d][l] = Late(d, l)
    BY DEF SnrSound, CountersExact
  <2>2. /\ snr'[d][l] = snr[d][l] + x(d, l) /\ Late(d, l)' = Late(d, l) + x(d, l)
        /\ x(d, l) \in Nat /\ d \in Nat
        /\ Early(d, l) \in Nat /\ Late(d, l) \in Nat /\ (d # DayOf(t) => x(d, l) = 0)
    BY <1>3, <1>4, <1>6 DEF RowDays
  <2>3. DayOf(t) \in Nat
    BY <1>2 DEF RowDays
  <2>4. meta' = meta
    BY <1>1
  <2>5. CASE d < DeployDay
    <3>1. x(d, l) = 0
      BY <1>2, <1>5, <2>2, <2>3, <2>5
    <3>2. QED
      BY <1>5, <2>1, <2>2, <2>5, <3>1
  <2>6. CASE d = DeployDay
    BY <1>5, <2>1, <2>2, <2>4, <2>6
  <2>7. CASE d > DeployDay
    BY <1>5, <2>1, <2>2, <2>7
  <2>8. QED
    BY <1>5, <2>2, <2>5, <2>6, <2>7
<1>11. \A d \in 0 .. DeployDay - 1, l \in RowKeys : snr'[d][l] = snr[d][l]
  <2> SUFFICES ASSUME NEW d \in 0 .. DeployDay - 1, NEW l \in RowKeys PROVE snr'[d][l] = snr[d][l]
    OBVIOUS
  <2>1. d \in RowDays /\ d # DayOf(t)
    <3>1. DayOf(t) \in Nat /\ DeployDay <= DayOf(t)
      BY <1>2 DEF RowDays
    <3>2. DeployDay \in 0 .. DayOf(SnrMaxClock) /\ DayOf(SnrMaxClock) \in Nat
      BY DeployFacts DEF RowDays
    <3>3. d \in 0 .. DayOf(SnrMaxClock) /\ d # DayOf(t)
      BY <3>1, <3>2
    <3>4. QED
      BY <3>3 DEF RowDays
  <2>2. snr'[d][l] = snr[d][l] + x(d, l) /\ x(d, l) = 0 /\ snr[d][l] \in Nat
    BY <1>3, <1>4, <1>5, <2>1
  <2>3. QED
    BY <2>2
<1>12. \A d \in 0 .. DeployDay : Complete(d) => Complete(d)'
  <2> SUFFICES ASSUME NEW d \in 0 .. DeployDay, Complete(d) PROVE Complete(d)'
    OBVIOUS
  <2>1. CASE d = DeployDay
    BY <1>1, <2>1 DEF Complete
  <2>2. CASE d # DeployDay
    BY <1>5, <1>11, <2>2 DEF Complete
  <2>3. QED
    BY <2>1, <2>2
<1>13. MetaSound'
  <2>1. meta.since \in Nat
    BY <1>5 DEF SnrTypeOK
  <2>2. QED
    BY <1>1, <1>5, <1>12, <2>1 DEF SnrSound, MetaSound
<1>14. /\ OnDay' <=> OnDay
       /\ DaysOver' <=> DaysOver
       /\ Reading' <=> Reading
       /\ Reading \/ job.pc = "write" => OnDay
  BY <1>1 DEF OnDay, DaysOver, Reading
<1>15. JobSound'
  <2>1. job.newSince \in Nat /\ job.day \in Nat
    BY <1>5 DEF JobType
  <2>2. JobSound
    BY DEF SnrSound
  <2>3. OnDay => \A d \in job.newSince .. job.day - 1 : Complete(d)'
    BY <1>5, <1>12, <2>1, <2>2 DEF JobSound
  <2>4. DaysOver => \A d \in job.newSince .. DeployDay : Complete(d)'
    BY <1>5, <1>12, <2>1, <2>2 DEF JobSound
  <2>5. QED
    BY <1>1, <1>14, <2>2, <2>3, <2>4 DEF JobSound
<1>16. ReadSound'
  <2>1. ASSUME Reading, CoveredFrom(Start(job.day))' PROVE CoveredFrom(Start(job.day))
    <3>1. job.day \in 0 .. DeployDay
      BY <1>14, <2>1, DayFacts
    <3>2. Start(job.day) <= Start(DeployDay) /\ Start(job.day) \in Int /\ Start(DeployDay) \in Int
      <4>1. job.day \in Int /\ DeployDay \in Int
        BY <1>5, <3>1
      <4>2. Start(job.day) \in Int /\ Start(DeployDay) \in Int
        BY <4>1, StartInt
      <4>3. job.day < DeployDay => Start(job.day) + Windows <= Start(DeployDay)
        BY <4>1, StartMono
      <4>4. Windows \in Nat
        BY SnrConstants
      <4>5. CASE job.day = DeployDay
        BY <4>2, <4>5
      <4>6. CASE job.day < DeployDay
        BY <4>2, <4>3, <4>4, <4>6
      <4>7. QED
        BY <1>5, <3>1, <4>2, <4>5, <4>6
    <3>3. PICK j \in rawRows' : spots'[j][1] <= Start(job.day)
      BY <1>1, <2>1 DEF CoveredFrom
    <3>4. j # n
      <4>1. spots'[n][1] = t
        BY <1>2
      <4>2. Start(DeployDay) < SnrCutoff
        BY DeployFacts
      <4>3. ~(t <= Start(job.day))
        BY <1>2, <1>5, <3>2, <4>2
      <4>4. QED
        BY <3>3, <4>1, <4>3
    <3>5. j \in rawRows /\ j \in DOMAIN spots
      BY <1>1, <1>2, <1>5, <3>3, <3>4
    <3>6. QED
      BY <1>2, <3>3, <3>5 DEF CoveredFrom
  <2>2. ReadSound
    BY DEF SnrSound
  <2>3. job' = job
    BY <1>1
  <2>4. Reading /\ CoveredFrom(Start(job.day))' =>
           \A l \in RowKeys : job.agg[l] = ReadSoFar(job.day, l, job.window)
    BY <2>1, <2>2 DEF ReadSound
  <2>5. CoveredFrom(Start(job.day))' <=> \E j \in rawRows' : spots'[j][1] <= Start(job.day)
    BY <2>3 DEF CoveredFrom
  <2> DEFINE cov == \E j \in rawRows' : spots'[j][1] <= Start(job.day)
  <2>6. Reading /\ cov => \A l \in RowKeys : job.agg[l] = ReadSoFar(job.day, l, job.window)
    BY <2>4, <2>5
  <2>7. Reading' /\ CoveredFrom(Start(job.day))' <=> Reading /\ cov
    BY <1>14, <2>5
  <2> HIDE DEF cov
  <2>8. (Reading /\ CoveredFrom(Start(job.day)) =>
           \A l \in RowKeys : job.agg[l] = ReadSoFar(job.day, l, job.window))'
    BY <2>3, <2>6, <2>7 DEF ReadSoFar, EarlyOf
  <2>9. QED
    BY <2>2, <2>3, <2>8 DEF ReadSound
<1>17. WriteSound'
  <2>1. WriteSound /\ job' = job /\ meta' = meta
    BY <1>1 DEF SnrSound
  <2>2. job.day \in Nat
    BY <1>5 DEF JobType
  <2>3. \A l \in EarlyKeys(job.day) : job.day < DeployDay => snr'[job.day][l] = snr[job.day][l]
    BY <1>5, <1>11, <2>2 DEF EarlyKeys
  <2>4. QED
    BY <2>1, <2>3 DEF WriteSound
<1>18. SeasonSound'
  <2>1. ASSUME NEW d \in RowDays, d <= folded, SeasonExact(d) PROVE SeasonExact(d)'
    <3>1. d # DayOf(t)
      BY <1>2, <1>5, <2>1 DEF RowDays
    <3>2. \A l : Late(d, l)' = Late(d, l)
      BY <1>3, <1>4, <1>6, <3>1
    <3>3. QED
      BY <1>1, <2>1, <3>2 DEF SeasonExact
  <2>2. QED
    BY <1>1, <1>14, <2>1 DEF SnrSound, SeasonSound
<1>19. QED
  BY <1>8, <1>9, <1>10, <1>13, <1>15, <1>16, <1>17, <1>18 DEF SnrSound

(***************************************************************************)
(* The invariant and what follows from it.                                 *)
(***************************************************************************)
\* At the deploy: nothing counted, nothing committed, nothing pruned.
LEMMA InitSound == ASSUME SnrInit PROVE SnrSound
<1>1. /\ now = SnrCutoff /\ spots = Before /\ rawRows = DOMAIN Before
      /\ snr = [d \in RowDays |-> NoAgg] /\ seasonSnr = [d \in RowDays |-> NoAgg]
      /\ folded = DeployDay - 2
      /\ meta = [since |-> DeployDay + 1, done |-> FALSE, partialDone |-> FALSE, progress |-> -1]
      /\ job = Stopped("start")
  BY DEF SnrInit
<1>2. /\ DeployDay \in Nat /\ SnrCutoff \in Nat /\ SnrMaxClock \in Nat /\ SnrCutoff <= SnrMaxClock
      /\ EarlyBatches(DeployDay) \in Nat /\ EarlyBatches(DeployDay) >= 1
      /\ Len(Before) \in Nat /\ DOMAIN Before = 1 .. Len(Before)
  BY DeployFacts, BatchFacts, SnrConstants
<1>3. job.pc = "start" /\ JobType
  BY <1>1 DEF JobType, Stopped, NoAgg
<1>4. \A d \in RowDays, k \in RowKeys : snr[d][k] = 0 /\ seasonSnr[d][k] = 0
  BY <1>1 DEF NoAgg
<1>5. SnrTypeOK
  <2>1. now \in SnrCutoff .. SnrMaxClock
    BY <1>1, <1>2
  <2>2. spots \in Seq(Nat \X RowKeys) /\ Len(Before) <= Len(spots)
    <3>1. (0 .. SnrCutoff - 1) \X RowKeys \subseteq Nat \X RowKeys
      BY <1>2
    <3>2. Before \in Seq((0 .. SnrCutoff - 1) \X RowKeys)
      BY SnrConstants
    <3>3. \A i \in 1 .. Len(Before) : Before[i] \in Nat \X RowKeys
      BY <3>1, <3>2
    <3>4. QED
      BY <1>1, <1>2, <3>2, <3>3
  <2>3. \A i \in DOMAIN spots : spots[i][1] <= now
    BY <1>1, <1>2, EarlyTimes
  <2>4. /\ \A i \in DOMAIN Before : spots[i] = Before[i]
        /\ rawRows \in SUBSET DOMAIN spots
    BY <1>1
  <2>5. /\ snr \in [RowDays -> [RowKeys -> Nat]]
        /\ seasonSnr \in [RowDays -> [RowKeys -> Nat]]
    BY <1>1, NoAggType
  <2>6. folded \in Int /\ folded + 2 <= DayOf(now)
    BY <1>1, <1>2 DEF DeployDay
  <2>7. meta \in [since : 0 .. DeployDay + 1, done : BOOLEAN, partialDone : BOOLEAN,
                  progress : -1 .. EarlyBatches(DeployDay) - 1]
    BY <1>1, <1>2
  <2>8. QED
    BY <1>3, <2>1, <2>2, <2>3, <2>4, <2>5, <2>6, <2>7 DEF SnrTypeOK
<1>6. PrunedFromBelow
  BY <1>1 DEF PrunedFromBelow
<1>7. CountersExact
  <2>1. ASSUME NEW d, NEW k PROVE Late(d, k) = 0
    <3>1. LateOf(d, k) = {}
      BY <1>1, <1>2 DEF LateOf
    <3>2. QED
      BY <3>1, FS_EmptySet DEF Late
  <2>2. \A d : \A k \in RowKeys : EarlyBatch(d, k) \in Nat
    BY BatchFacts
  <2>3. \A d : \A k \in RowKeys : ~(EarlyBatch(d, k) <= meta.progress)
    BY <1>1, <2>2
  <2>4. ASSUME NEW d \in RowDays, NEW k \in RowKeys
        PROVE  /\ snr[d][k] \in {0, Early(d, k)}
               /\ snr[d][k] = Late(d, k)
               /\ snr[d][k] = Late(d, k) + (IF EarlyBatch(d, k) <= meta.progress THEN Early(d, k) ELSE 0)
    <3>1. snr[d][k] = 0 /\ Late(d, k) = 0 /\ ~(EarlyBatch(d, k) <= meta.progress)
      BY <1>4, <2>1, <2>3
    <3>2. QED
      BY <3>1
  <2>5. QED
    BY <2>4 DEF CountersExact
<1>8. MetaSound
  BY <1>1, <1>2 DEF MetaSound
<1>9. JobSound /\ ReadSound /\ WriteSound
  BY <1>3 DEF JobSound, ReadSound, WriteSound, OnDay, DaysOver, Reading
<1>10. SeasonSound
  BY <1>1, <1>2, <1>3 DEF SeasonSound, DaysOver, RowDays
<1>11. QED
  BY <1>5, <1>6, <1>7, <1>8, <1>9, <1>10 DEF SnrSound

\* The log only grows, so a spot that is belated stays it.
LEMMA LogKeeps ==
  ASSUME SnrLog, [SnrNext]_snrVars
  PROVE  SnrLog' /\ (NoneBelated' => NoneBelated)
<1>1. now \in Nat /\ SnrCutoff \in Nat /\ SnrMaxClock \in Nat /\ SnrMaxLate \in Nat /\ SnrMaxLate <= SnrCutoff
  <2>1. SnrCutoff \in Nat /\ SnrMaxClock \in Nat /\ SnrMaxLate \in Nat /\ SnrMaxLate <= SnrCutoff
    BY SnrConstants
  <2>2. QED
    BY <2>1 DEF SnrLog
<1>2. ASSUME NEW t \in now - SnrMaxLate .. now, NEW k \in RowKeys, LiveSpot(t, k)
      PROVE  SnrLog' /\ (NoneBelated' => NoneBelated)
  <2>1. spots' = Append(spots, <<t, k>>) /\ now' = now
    BY <1>2 DEF LiveSpot
  <2>2. now \in SnrCutoff .. SnrMaxClock /\ spots \in Seq(Nat \X RowKeys)
    BY DEF SnrLog
  <2>3. t \in Nat
    BY <1>1, <2>2
  <2>4. <<t, k>> \in Nat \X RowKeys
    BY <2>3
  <2>5. SnrLog'
    BY <2>1, <2>2, <2>4 DEF SnrLog
  <2>6. \A i \in DOMAIN spots : i \in DOMAIN spots' /\ spots'[i] = spots[i]
    BY <2>1, <2>2, <2>4
  <2>7. QED
    BY <2>5, <2>6 DEF NoneBelated
<1>3. ASSUME spots' = spots, now' = now PROVE SnrLog' /\ (NoneBelated' => NoneBelated)
  BY <1>3 DEF SnrLog, NoneBelated
<1>4. ASSUME SnrTick PROVE SnrLog' /\ (NoneBelated' => NoneBelated)
  <2>1. spots' = spots /\ now' = now + 1 /\ now < SnrMaxClock
    BY <1>4 DEF SnrTick
  <2>2. now' \in SnrCutoff .. SnrMaxClock
    BY <1>1, <2>1 DEF SnrLog
  <2>3. QED
    BY <2>1, <2>2 DEF SnrLog, NoneBelated
<1>5. ASSUME SnrJobStep PROVE spots' = spots /\ now' = now
  BY <1>5 DEF SnrJobStep, SnrStart, ReadWindow, Recheck, NextBatch, WriteBatch, WriteBatchUnacked,
     LockTimeout, ReadWatermark, RefoldDay, Finalize, SnrFail
<1>6. ASSUME SnrFoldDay \/ (\E i \in rawRows : PruneRaw(i)) \/ SnrRestart \/ UNCHANGED snrVars
      PROVE  spots' = spots /\ now' = now
  BY <1>6 DEF SnrFoldDay, PruneRaw, SnrRestart, snrVars
<1>7. QED
  BY <1>2, <1>3, <1>4, <1>5, <1>6 DEF SnrNext

\* Every step keeps the counters and the record sound.
LEMMA StepSound ==
  ASSUME SnrSound, NoneBelated, NoneBelated', [SnrNext]_snrVars, ~SplitTimes, SnrMaxLate <= Windows
  PROVE  SnrSound'
<1>1. ASSUME NEW t \in now - SnrMaxLate .. now, NEW k \in RowKeys, LiveSpot(t, k) PROVE SnrSound'
  BY <1>1, LiveKeeps
<1>2. ASSUME SnrFoldDay PROVE SnrSound'
  BY <1>2, FoldKeeps
<1>3. ASSUME NEW i \in rawRows, PruneRaw(i) PROVE SnrSound'
  BY <1>3, PruneKeeps
<1>4. ASSUME SnrTick PROVE SnrSound'
  BY <1>4, TickKeeps
<1>5. ASSUME SnrJobStep PROVE SnrSound'
  <2>1. ASSUME SnrFail PROVE SnrSound'
    BY <2>1, StopKeeps DEF SnrFail
  <2>2. QED
    BY <1>5, <2>1, StartKeeps, ReadKeeps, RecheckKeeps, NextBatchKeeps, WriteKeeps, TimeoutKeeps,
       WatermarkKeeps, RefoldKeeps, FinalizeKeeps DEF SnrJobStep
<1>6. ASSUME SnrRestart PROVE SnrSound'
  BY <1>6, StopKeeps DEF SnrRestart
<1>7. ASSUME UNCHANGED snrVars PROVE SnrSound'
  <2>1. UNCHANGED <<now, spots, rawRows, snr, seasonSnr, folded, meta, job>>
    BY <1>7 DEF snrVars
  <2>2. JobType'
    BY <2>1 DEF SnrSound, SnrTypeOK, JobType
  <2>3. JobSound' /\ WriteSound' /\ SnrTypeOK' /\ PrunedFromBelow' /\ CountersExact' /\ MetaSound'
    BY <2>1, <2>2, RunnerOnly, RunnerRests DEF SnrSound
  <2>4. ReadSound'
    BY <2>1 DEF SnrSound, ReadSound, Reading, CoveredFrom
  <2>5. SeasonSound'
    BY <2>1, <2>2, RunnerOnly DEF SnrSound, SeasonSound, DaysOver
  <2>6. QED
    BY <2>3, <2>4, <2>5 DEF SnrSound
<1>8. QED
  BY <1>1, <1>2, <1>3, <1>4, <1>5, <1>6, <1>7 DEF SnrNext

\* The invariant holds in every state.
LEMMA SnrInvariant ==
  ASSUME ~SplitTimes, SnrMaxLate <= Windows
  PROVE  SnrSpec => []SnrInv
<1>1. SnrInit => SnrInv
  <2> SUFFICES ASSUME SnrInit PROVE SnrInv
    OBVIOUS
  <2>1. SnrSound
    BY InitSound
  <2>2. SnrLog
    BY <2>1 DEF SnrSound, SnrTypeOK, SnrLog
  <2>3. QED
    BY <2>1, <2>2 DEF SnrInv
<1>2. SnrInv /\ [SnrNext]_snrVars => SnrInv'
  <2> SUFFICES ASSUME SnrInv, [SnrNext]_snrVars PROVE SnrInv'
    OBVIOUS
  <2>1. SnrLog' /\ (NoneBelated' => NoneBelated)
    BY LogKeeps DEF SnrInv
  <2>2. ASSUME NoneBelated' PROVE SnrSound'
    <3>1. NoneBelated /\ SnrSound
      BY <2>1, <2>2 DEF SnrInv
    <3>2. QED
      BY <2>2, <3>1, StepSound
  <2>3. QED
    BY <2>1, <2>2 DEF SnrInv
<1>3. QED
  BY <1>1, <1>2, PTL DEF SnrSpec

\* SnrNeverTwice, for every day, key, batch size, clock and interleaving:
\* however often the job is retried, resumed, cut off after a commit or
\* restarted, no spot is in the SNR counters of its row twice, as long as no
\* spot from before the columns were added arrives after it.  The raw prune
\* removes the rows of one time together; a spot is at most a day late.
THEOREM SnrCounted ==
  ASSUME ~SplitTimes, SnrMaxLate <= Windows
  PROVE  SnrSpec => [](NoneBelated => SnrNeverTwice)
<1>1. SnrInv => (NoneBelated => SnrNeverTwice)
  <2> SUFFICES ASSUME SnrSound, NEW d \in RowDays, NEW k \in RowKeys
               PROVE  snr[d][k] <= Cardinality(SpotsOf(d, k))
    BY DEF SnrInv, SnrNeverTwice
  <2>1. /\ d \in Int /\ DeployDay \in Nat /\ Early(d, k) \in Nat /\ Late(d, k) \in Nat
        /\ Cardinality(SpotsOf(d, k)) = Early(d, k) + Late(d, k)
    BY DeployFacts, EarlyFinite, LateFinite DEF SnrSound, RowDays
  <2>2. /\ d < DeployDay => snr[d][k] \in {0, Early(d, k)}
        /\ d = DeployDay =>
             snr[d][k] = Late(d, k) + (IF EarlyBatch(d, k) <= meta.progress THEN Early(d, k) ELSE 0)
        /\ d > DeployDay => snr[d][k] = Late(d, k)
    BY DEF SnrSound, CountersExact
  <2>3. QED
    BY <2>1, <2>2
<1>2. SnrSpec => []SnrInv
  BY SnrInvariant
<1>3. QED
  BY <1>1, <1>2, PTL

\* SinceIsHonest, for every day, key, batch size, clock and interleaving: every
\* folded day from the shown since-day on has the SNR of all its spots in the
\* seasonal record, although the fold ticker, the raw prune, the job's failures
\* and the restarts come in between.  The same three conditions.
THEOREM SinceCorrect ==
  ASSUME ~SplitTimes, SnrMaxLate <= Windows
  PROVE  SnrSpec => [](NoneBelated => SinceIsHonest)
<1>1. SnrInv => (NoneBelated => SinceIsHonest)
  <2> SUFFICES ASSUME SnrSound, NEW d \in RowDays, NEW k \in RowKeys, meta.since <= d, d <= folded
               PROVE  seasonSnr[d][k] = Cardinality(SpotsOf(d, k))
    BY DEF SnrInv, SinceIsHonest
  <2>1. Cardinality(SpotsOf(d, k)) = Early(d, k) + Late(d, k)
    BY LateFinite DEF SnrSound
  <2>2. SeasonExact(d)
    BY DEF SnrSound, SeasonSound
  <2>3. QED
    BY <2>1, <2>2 DEF SeasonExact
<1>2. SnrSpec => []SnrInv
  BY SnrInvariant
<1>3. QED
  BY <1>1, <1>2, PTL
=============================================================================
