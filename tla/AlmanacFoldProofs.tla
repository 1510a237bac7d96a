-------------------------- MODULE AlmanacFoldProofs --------------------------
(***************************************************************************)
(* Proofs about AlmanacFold, for every choice of its constants: the type   *)
(* invariant, and - when no clock boundary falls between the clamp and the *)
(* queueing of a spot (ObserveLag = 0) - that the Almanac's view of every  *)
(* kept day is exact and that its ingest totals are.  The second part does *)
(* without that assumption: the published watermark never runs ahead of    *)
(* the stored one, the stored one passes no day unaccounted for, and what  *)
(* is queued is counted once.                                              *)
(***************************************************************************)
EXTENDS AlmanacFold, TLAPS

-----------------------------------------------------------------------------
(* The UTC day of a timestamp (utcDayIndex).                                *)

\* A timestamp lies on an integral day.
LEMMA DayInt == ASSUME NEW t \in Int PROVE utcDayIndex(t) \in Int
  BY AlmanacConstants DEF utcDayIndex

\* One day earlier is the day before.
LEMMA DayBefore ==
  ASSUME NEW t \in Int PROVE utcDayIndex(t - DayLen) = utcDayIndex(t) - 1
  BY AlmanacConstants DEF utcDayIndex

\* Later timestamps lie on later or equal days.
LEMMA DayMonotone ==
  ASSUME NEW t \in Int, NEW u \in Int, t <= u
  PROVE  utcDayIndex(t) <= utcDayIndex(u)
  BY AlmanacConstants DEF utcDayIndex

\* The late-spot clamp admits today and yesterday, never an older day: the
\* oldest day it admits is one day later than the newest day the fold may close.
LEMMA ClampKeepsOutOldDays ==
  ASSUME NEW ts \in Int, NEW now \in Int, almanacRegionTimestampAccepted(ts, now)
  PROVE  utcDayIndex(ts) >= utcDayIndex(now) - 1
<1>1. now - DayLen \in Int /\ now - DayLen <= ts
  BY AlmanacConstants DEF almanacRegionTimestampAccepted, almanacLateSpotMaxAge
<1>2. utcDayIndex(now - DayLen) <= utcDayIndex(ts)
  BY <1>1, DayMonotone
<1>3. QED
  BY <1>2, DayBefore, DayInt

-----------------------------------------------------------------------------
(* Type correctness.                                                        *)

\* The empty values are well typed.
LEMMA Constants ==
  /\ Zero \in [Days -> Nat]
  /\ Idle \in [busy : BOOLEAN, day : Days, at : Nat]
  /\ FoldIdle \in [pc : {"idle", "ensure", "publish", "check", "final", "tx"},
                   now : Nat, w : Int, n : Nat]
  /\ PruneIdle \in [pc : {"idle", "gate", "force", "advance", "delete"},
                    cutoff : Int, below : Int, new : Int]
  /\ Days \subseteq Nat
  BY AlmanacConstants DEF Zero, Idle, FoldIdle, PruneIdle, Days

LEMMA TypeInit == Init => TypeOK
<1> SUFFICES ASSUME Init PROVE TypeOK
  OBVIOUS
<1>1. daily \in [Days -> Nat]
  BY PreDeployAssumption DEF Init
<1>2. obs \in [Ingesters -> [busy : BOOLEAN, day : Days, at : Nat]]
  BY Constants DEF Init
<1>3. hasWatermark \in BOOLEAN
  BY DEF Init
<1>4. /\ fold \in [pc : {"idle", "ensure", "publish", "check", "final", "tx"},
                 now : Nat, w : Int, n : Nat]
      /\ prune \in [pc : {"idle", "gate", "force", "advance", "delete"},
                  cutoff : Int, below : Int, new : Int]
  BY Constants DEF Init
<1>5. /\ pending \in [Days -> Nat] /\ inflight \in [Days -> Nat]
      /\ ingest \in [Days -> Nat] /\ season \in [Days -> Nat]
      /\ accepted \in [Days -> Nat] /\ committed \in [Days -> Nat]
  BY <1>1, Constants DEF Init
<1>6. /\ clock \in Nat /\ lastFlushOK \in Nat /\ watermark \in Int
      /\ lost \subseteq Days /\ initial \in Int /\ memWatermark \in Int
      /\ spots \in Nat /\ crashes \in Nat /\ flusher = "idle"
  BY AlmanacConstants DEF Init
<1>7. QED
  BY <1>1, <1>2, <1>3, <1>4, <1>5, <1>6 DEF TypeOK

\* A caller of ensureWatermark gets an integral watermark.
LEMMA EnsureType ==
  ASSUME TypeOK, NEW today \in Int, ensureWatermark(today)
  PROVE  /\ watermark' \in Int /\ hasWatermark' \in BOOLEAN
         /\ lost' \subseteq Days /\ initial' \in Int
<1>1. CASE hasWatermark /\ UNCHANGED markVars
  BY <1>1 DEF TypeOK, markVars
<1>2. CASE ~hasWatermark
  <2>1. almanacInitialWatermark(today)
    BY <1>2 DEF ensureWatermark
  <2>1a. hasWatermark' = TRUE /\ initial' = watermark'
    BY <1>2 DEF ensureWatermark
  <2>2. DailyDays \subseteq Days
    BY DEF DailyDays
  <2>3. lost \subseteq Days /\ Days \subseteq Int
    BY Constants DEF TypeOK
  <2>3a. watermark' \in Int /\ lost' \subseteq Days
    <3>1. CASE DailyDays = {} /\ watermark' = today - 1 /\ lost' = lost
      BY <3>1, <2>3
    <3>2. ASSUME NEW minDay \in DailyDays, watermark' = minDay, lost' = lost \cup {minDay}
          PROVE  watermark' \in Int /\ lost' \subseteq Days
      BY <3>2, <2>2, <2>3
    <3>3. QED
      BY <2>1, <3>1, <3>2 DEF almanacInitialWatermark
  <2>4. QED
    BY <2>1a, <2>3a
<1>3. QED
  BY <1>1, <1>2 DEF ensureWatermark

\* The prune decision is a pair of integral days.
LEMMA DecideType ==
  ASSUME NEW cutoff \in Int, NEW w \in Int, NEW over \in BOOLEAN
  PROVE  almanacPruneDecide(cutoff, w, over)
           \in [below : Int, force : BOOLEAN, new : Int]
  BY AlmanacConstants DEF almanacPruneDecide

\* The fold transaction writes counters.
LEMMA FoldTxType ==
  ASSUME TypeOK, NEW d \in Int, foldDayInTx(d)
  PROVE  season' \in [Days -> Nat] /\ ingest' \in [Days -> Nat] /\ daily' = daily
<1>1. CASE d \in Days
  <2>1. daily[d] \in Nat /\ ingest[d] \in Nat
    BY <1>1 DEF TypeOK
  <2>2. satAdd8(daily[d]) \in Nat /\ MaxOf(ingest[d], daily[d]) \in Nat
    BY <2>1, AlmanacConstants DEF satAdd8, MinOf, MaxOf
  <2>3. QED
    BY <1>1, <2>2 DEF foldDayInTx, TypeOK
<1>2. CASE d \notin Days
  BY <1>2 DEF foldDayInTx, TypeOK
<1>3. QED
  BY <1>1, <1>2

LEMMA TypeStep == TypeOK /\ [Next]_vars => TypeOK'
<1> SUFFICES ASSUME TypeOK, [Next]_vars PROVE TypeOK'
  OBVIOUS
<1>1. ASSUME NEW i \in Ingesters, NEW ts \in clock - almanacLateSpotMaxAge .. clock + FutureSkew,
             ObserveClamp(i, ts)
      PROVE  TypeOK'
  BY <1>1 DEF TypeOK, ObserveClamp, tableVars, markVars, procVars
<1>2. ASSUME NEW i \in Ingesters, ObserveQueue(i) PROVE TypeOK'
  <2>1. obs[i].day \in Days
    BY DEF TypeOK
  <2>2. pending' \in [Days -> Nat] /\ accepted' \in [Days -> Nat]
    <3>0. pending \in [Days -> Nat] /\ accepted \in [Days -> Nat]
      BY DEF TypeOK
    <3>1. pending[obs[i].day] + 1 \in Nat /\ accepted[obs[i].day] + 1 \in Nat
      BY <2>1, <3>0
    <3>2. QED
      BY <1>2, <2>1, <3>1 DEF ObserveQueue, TypeOK
  <2>3. QED
    BY <1>2, <2>2, Constants DEF ObserveQueue, TypeOK, tableVars, markVars, procVars
<1>3. CASE FlushEmpty
  BY <1>3 DEF TypeOK, FlushEmpty, tableVars, markVars, procVars, histVars
<1>4. CASE FlushSwap
  BY <1>4, Constants DEF TypeOK, FlushSwap, tableVars, markVars, procVars, histVars
<1>5. CASE FlushCommit
  BY <1>5 DEF TypeOK, FlushCommit, ApplyBatch, markVars, procVars
<1>6. CASE FlushFail
  BY <1>6 DEF TypeOK, FlushFail, mergePendingBack, tableVars, markVars, procVars, histVars
<1>7. CASE FlushUnacked
  BY <1>7 DEF TypeOK, FlushUnacked, ApplyBatch, mergePendingBack, markVars, procVars
<1>8. CASE FlushClear
  BY <1>8, Constants DEF TypeOK, FlushClear, tableVars, markVars, procVars, histVars
<1>9. CASE recordFlushSuccess
  BY <1>9 DEF TypeOK, recordFlushSuccess, tableVars, markVars, procVars, histVars
<1>10. CASE FoldStart
  BY <1>10 DEF TypeOK, FoldStart, queueVars, tableVars, markVars, histVars
<1>11. CASE FoldEnsure
  <2>1. utcDayIndex(fold.now) \in Int
    BY DayInt DEF TypeOK
  <2>2. /\ watermark' \in Int /\ hasWatermark' \in BOOLEAN
        /\ lost' \subseteq Days /\ initial' \in Int
    BY <1>11, <2>1, EnsureType DEF FoldEnsure
  <2>3. QED
    BY <1>11, <2>2 DEF TypeOK, FoldEnsure, queueVars, tableVars, histVars
<1>12. CASE FoldPublish
  BY <1>12 DEF TypeOK, FoldPublish, queueVars, tableVars, markVars, histVars
<1>13. CASE FoldReadPending
  <2>1. fold' \in [pc : {"idle", "ensure", "publish", "check", "final", "tx"},
                  now : Nat, w : Int, n : Nat]
    <3>1. [fold EXCEPT !.pc = "final", !.n = @ + 1]
             \in [pc : {"idle", "ensure", "publish", "check", "final", "tx"},
                  now : Nat, w : Int, n : Nat]
      <4>1. fold \in [pc : {"idle", "ensure", "publish", "check", "final", "tx"},
                     now : Nat, w : Int, n : Nat]
        BY DEF TypeOK
      <4>2. fold.n + 1 \in Nat
        BY <4>1
      <4>3. QED
        BY <4>1, <4>2
    <3>2. fold' = [fold EXCEPT !.pc = "final", !.n = @ + 1] \/ fold' = FoldIdle
      BY <1>13 DEF FoldReadPending
    <3>3. QED
      BY <3>1, <3>2, Constants
  <2>2. QED
    BY <2>1, <1>13 DEF TypeOK, FoldReadPending, queueVars, tableVars, markVars, histVars
<1>13a. CASE FoldReadFlush
  <2>1. fold' = [fold EXCEPT !.pc = "tx"] \/ fold' = FoldIdle
    BY <1>13a DEF FoldReadFlush
  <2>2. fold' \in [pc : {"idle", "ensure", "publish", "check", "final", "tx"},
                  now : Nat, w : Int, n : Nat]
    BY <2>1, Constants DEF TypeOK
  <2>3. QED
    BY <2>2, <1>13a DEF TypeOK, FoldReadFlush, queueVars, tableVars, markVars, histVars
<1>14. CASE FoldDay
  <2> DEFINE d == fold.w + 1
  <2>1. CASE watermark >= d
    BY <1>14, <2>1 DEF TypeOK, FoldDay, queueVars, tableVars, histVars
  <2>2. CASE ~(watermark >= d)
    <3>1. foldDayInTx(d)
      BY <1>14, <2>2 DEF FoldDay
    <3>1a. season' \in [Days -> Nat] /\ ingest' \in [Days -> Nat] /\ daily' = daily
      BY <3>1, FoldTxType DEF TypeOK
    <3>2. watermark' \in Int
      BY <1>14, <2>2 DEF TypeOK, FoldDay, MaxOf
    <3>3. QED
      BY <1>14, <3>1a, <3>2 DEF TypeOK, FoldDay, queueVars, histVars
  <2>3. QED
    BY <2>1, <2>2
<1>15. CASE FoldFail
  BY <1>15, Constants DEF TypeOK, FoldFail, queueVars, tableVars, markVars, histVars
<1>16. CASE PruneStart
  <2>1. utcDayIndex(clock) - Retention \in Int
    BY DayInt, AlmanacConstants DEF TypeOK
  <2>2. QED
    BY <1>16, <2>1 DEF TypeOK, PruneStart, queueVars, tableVars, markVars, histVars
<1>17. ASSUME NEW over \in BOOLEAN, PruneGate(over) PROVE TypeOK'
  <2> DEFINE dec == almanacPruneDecide(prune.cutoff, watermark', over)
  <2>1. utcDayIndex(clock) \in Int
    BY DayInt DEF TypeOK
  <2>2. /\ watermark' \in Int /\ hasWatermark' \in BOOLEAN
        /\ lost' \subseteq Days /\ initial' \in Int
    BY <1>17, <2>1, EnsureType DEF PruneGate
  <2>3. dec \in [below : Int, force : BOOLEAN, new : Int]
    BY <2>2, DecideType DEF TypeOK
  <2>4. prune' = [pc |-> IF dec.force THEN "force" ELSE "delete",
                  cutoff |-> 0, below |-> dec.below, new |-> dec.new]
    BY <1>17 DEF PruneGate
  <2> HIDE DEF dec
  <2>5. prune' \in [pc : {"idle", "gate", "force", "advance", "delete"},
                    cutoff : Int, below : Int, new : Int]
    BY <2>3, <2>4
  <2>6. QED
    BY <1>17, <2>2, <2>5 DEF TypeOK, PruneGate, queueVars, tableVars, histVars
<1>18. CASE PruneForce
  BY <1>18 DEF TypeOK, PruneForce, almanacLostDayRange, MaxOf, queueVars, tableVars, histVars
<1>19. CASE PruneAdvance
  <2>1. memWatermark \in Int /\ prune.new \in Int
    BY DEF TypeOK
  <2>2. MaxOf(memWatermark, prune.new) \in Int
    BY <2>1 DEF MaxOf
  <2>3. prune' \in [pc : {"idle", "gate", "force", "advance", "delete"},
                   cutoff : Int, below : Int, new : Int]
    <3>1. prune \in [pc : {"idle", "gate", "force", "advance", "delete"},
                    cutoff : Int, below : Int, new : Int]
      BY DEF TypeOK
    <3>2. prune' = [pc |-> "delete", cutoff |-> 0, below |-> prune.below, new |-> 0]
      BY <1>19 DEF PruneAdvance, PruneIdle
    <3>3. QED
      BY <3>1, <3>2
  <2>4. memWatermark' \in Int
    BY <1>19, <2>2 DEF PruneAdvance
  <2>5. UNCHANGED <<clock, queueVars, tableVars, markVars, fold, histVars, crashes>>
    BY <1>19 DEF PruneAdvance
  <2>6. QED
    BY <2>3, <2>4, <2>5 DEF TypeOK, queueVars, tableVars, markVars, histVars
<1>20. ASSUME NEW d \in Days, PruneDelete(d) PROVE TypeOK'
  BY <1>20 DEF TypeOK, PruneDelete, queueVars, markVars, procVars, histVars
<1>21. CASE PruneEnd
  BY <1>21, Constants DEF TypeOK, PruneEnd, queueVars, tableVars, markVars, histVars
<1>22. CASE Tick
  BY <1>22 DEF TypeOK, Tick, queueVars, tableVars, markVars, procVars, histVars
<1>23. CASE Crash
  BY <1>23, Constants DEF TypeOK, Crash, tableVars, markVars, histVars
<1>24. CASE UNCHANGED vars
  BY <1>24 DEF TypeOK, vars, queueVars, tableVars, markVars, procVars, histVars
<1>25. QED
  BY <1>1, <1>2, <1>3, <1>4, <1>5, <1>6, <1>7, <1>8, <1>9, <1>10, <1>11, <1>12,
     <1>13, <1>13a, <1>14, <1>15, <1>16, <1>17, <1>18, <1>19, <1>20, <1>21, <1>22, <1>23, <1>24
  DEF Next, Observe, Flush, runOnce, pruneRegionBaselines

\* TypeOK holds of every reachable state, for every value of the constants.
THEOREM TypeCorrect == Spec => []TypeOK
  BY TypeInit, TypeStep, PTL DEF Spec

-----------------------------------------------------------------------------
(* The view is exact.                                                       *)

\* The forced cutoff is the day after the new watermark; the unforced one is
\* at most the day after the current watermark.
LEMMA DecideSound ==
  ASSUME NEW cutoff \in Int, NEW w \in Int, NEW over \in BOOLEAN
  PROVE  LET dec == almanacPruneDecide(cutoff, w, over) IN
         /\ dec.force => dec.below = dec.new + 1
         /\ ~dec.force => dec.below <= w + 1
  BY AlmanacConstants DEF almanacPruneDecide

\* The fold of the first day above the watermark stores that day exactly.
LEMMA FoldTxEffect ==
  ASSUME TypeOK, UnfoldedIntact, NEW d \in Days, d > watermark, foldDayInTx(d)
  PROVE  /\ season'[d] = satAdd8(committed[d])
         /\ ingest'[d] = committed[d]
         /\ \A e \in Days : e # d => season'[e] = season[e] /\ ingest'[e] = ingest[e]
<1>1. daily[d] = committed[d] /\ ingest[d] <= daily[d] /\ season[d] = 0
  BY DEF UnfoldedIntact
<1>2. daily[d] \in Nat /\ ingest[d] \in Nat
  BY DEF TypeOK
<1>3. satAdd8(0) = 0
  BY AlmanacConstants DEF satAdd8, MinOf
<1>4. MaxOf(ingest[d], daily[d]) = committed[d]
  BY <1>1, <1>2 DEF MaxOf
<1>5. ingest'[d] = MaxOf(ingest[d], daily[d])
  BY DEF foldDayInTx, TypeOK
<1>6. season'[d] = satAdd8(committed[d])
  <2>1. CASE daily[d] > 0
    BY <1>1, <2>1 DEF foldDayInTx, TypeOK
  <2>2. CASE ~(daily[d] > 0)
    <3>1. daily[d] = 0 /\ season' = season
      BY <1>2, <2>2 DEF foldDayInTx
    <3>2. QED
      BY <1>1, <1>3, <3>1
  <2>3. QED
    BY <2>1, <2>2
<1>7. \A e \in Days : e # d => season'[e] = season[e] /\ ingest'[e] = ingest[e]
  BY DEF foldDayInTx, TypeOK
<1>8. QED
  BY <1>4, <1>5, <1>6, <1>7

\* ensureWatermark closes no day: over an initialised table it changes nothing,
\* and a first watermark is the initial one.
LEMMA EnsureSound ==
  ASSUME TypeOK, FoldedClosed, UnfoldedIntact, NEW today \in Int, ensureWatermark(today),
         UNCHANGED <<clock, queueVars, tableVars, histVars>>
  PROVE  /\ hasWatermark' /\ watermark' \in Int /\ initial' <= watermark'
         /\ hasWatermark => watermark' = watermark /\ initial' = initial
         /\ FoldedClosed' /\ UnfoldedIntact'
<1>1. watermark' \in Int /\ initial' \in Int
  BY EnsureType
<1>2. CASE hasWatermark /\ UNCHANGED markVars
  <2>1. initial' <= watermark' /\ hasWatermark' /\ watermark' = watermark /\ initial' = initial
    BY <1>2 DEF FoldedClosed, markVars
  <2>2. FoldedClosed'
    BY <1>2 DEF FoldedClosed, Quiet, Kept, queueVars, tableVars, markVars, histVars
  <2>3. UnfoldedIntact'
    BY <1>2 DEF UnfoldedIntact, tableVars, markVars, histVars
  <2>4. QED
    BY <1>1, <2>1, <2>2, <2>3
<1>3. CASE ~hasWatermark
  <2>1. hasWatermark' = TRUE /\ initial' = watermark'
    BY <1>3 DEF ensureWatermark
  <2>2. \A d \in Days : ~(d > initial' /\ d <= watermark')
    BY <1>1, <2>1, Constants
  <2>3. initial' <= watermark'
    BY <1>1, <2>1
  <2>4. FoldedClosed'
    BY <2>2, <2>3 DEF FoldedClosed, Kept
  <2>5. UnfoldedIntact'
    BY <1>3 DEF UnfoldedIntact, tableVars, histVars
  <2>6. QED
    BY <1>1, <1>3, <2>1, <2>3, <2>4, <2>5
<1>4. QED
  BY <1>2, <1>3 DEF ensureWatermark

LEMMA IndStep ==
  ASSUME ObserveLag = 0, TypeOK, IndInv, [Next]_vars
  PROVE  IndInv'
<1> USE DEF IndInv
<1>1. ASSUME NEW i \in Ingesters, NEW ts \in clock - almanacLateSpotMaxAge .. clock + FutureSkew,
             ObserveClamp(i, ts)
      PROVE  IndInv'
  <2>1. SpotsRecent'
    <3>1. utcDayIndex(ts) >= utcDayIndex(clock) - 1
      <4>1. ts \in Int /\ clock \in Int
        BY AlmanacConstants DEF TypeOK, almanacLateSpotMaxAge
      <4>2. QED
        BY <1>1, <4>1, ClampKeepsOutOldDays DEF ObserveClamp
    <3>2. QED
      BY <1>1, <3>1 DEF TypeOK, ObserveClamp, SpotsRecent
  <2>2. FoldSound'
    BY <1>1 DEF TypeOK, ObserveClamp, FoldSound, Quiet, queueVars, tableVars, markVars, procVars, histVars
  <2>3. PruneSound'
    BY <1>1 DEF TypeOK, ObserveClamp, PruneSound, queueVars, tableVars, markVars, procVars, histVars
  <2>4. FoldedClosed'
    BY <1>1 DEF TypeOK, ObserveClamp, FoldedClosed, Quiet, Kept, queueVars, tableVars, markVars, procVars, histVars
  <2>5. UnfoldedIntact'
    BY <1>1 DEF TypeOK, ObserveClamp, UnfoldedIntact, queueVars, tableVars, markVars, procVars, histVars
  <2>6. QED
    BY <2>1, <2>2, <2>3, <2>4, <2>5
<1>2. ASSUME NEW i \in Ingesters, ObserveQueue(i)
      PROVE  IndInv'
  <2>1. SpotsRecent'
    BY <1>2 DEF TypeOK, ObserveQueue, SpotsRecent, Idle
  <2>2. FoldSound'
    <3>1. fold.pc \in {"final", "tx"} => fold.w + 1 # obs[i].day
      <4>1. obs[i].day \in Int /\ obs[i].day >= utcDayIndex(clock) - 1
        <5>1. obs[i].day \in Days
          BY DEF TypeOK
        <5>2. obs[i].day >= utcDayIndex(clock) - 1
          BY <1>2 DEF ObserveQueue, SpotsRecent
        <5>3. obs[i].day \in Int
          BY <5>1, AlmanacConstants DEF Days
        <5>4. QED
          BY <5>2, <5>3
      <4>2. utcDayIndex(clock) \in Int
        BY DayInt DEF TypeOK
      <4>3. QED
        BY <4>1, <4>2 DEF FoldSound, Quiet
    <3>2. QED
      BY <1>2, <3>1 DEF TypeOK, ObserveQueue, FoldSound, Quiet, markVars, procVars
  <2>3. PruneSound'
    BY <1>2 DEF TypeOK, ObserveQueue, PruneSound, queueVars, tableVars, markVars, procVars, histVars
  <2>4. FoldedClosed'
    <3>1. ASSUME NEW d \in Days, d <= utcDayIndex(clock) - 2
          PROVE  d # obs[i].day
      <4>1. obs[i].day \in Int /\ obs[i].day >= utcDayIndex(clock) - 1
        <5>1. obs[i].day \in Days
          BY DEF TypeOK
        <5>2. obs[i].day >= utcDayIndex(clock) - 1
          BY <1>2 DEF ObserveQueue, SpotsRecent
        <5>3. obs[i].day \in Int
          BY <5>1, AlmanacConstants DEF Days
        <5>4. QED
          BY <5>2, <5>3
      <4>2. utcDayIndex(clock) \in Int /\ d \in Int
        BY DayInt, Constants DEF TypeOK
      <4>3. QED
        BY <3>1, <4>1, <4>2
    <3>2. QED
      BY <1>2, <3>1 DEF TypeOK, ObserveQueue, FoldedClosed, Quiet, Kept, tableVars, markVars
  <2>5. UnfoldedIntact'
    BY <1>2 DEF TypeOK, ObserveQueue, UnfoldedIntact, queueVars, tableVars, markVars, procVars, histVars
  <2>6. QED
    BY <2>1, <2>2, <2>3, <2>4, <2>5
<1>3. CASE FlushEmpty
  <2>1. SpotsRecent'
    BY <1>3 DEF TypeOK, FlushEmpty, SpotsRecent, queueVars, tableVars, markVars, procVars, histVars
  <2>2. FoldSound'
    BY <1>3 DEF TypeOK, FlushEmpty, FoldSound, Quiet, queueVars, tableVars, markVars, procVars, histVars
  <2>3. PruneSound'
    BY <1>3 DEF TypeOK, FlushEmpty, PruneSound, queueVars, tableVars, markVars, procVars, histVars
  <2>4. FoldedClosed'
    BY <1>3 DEF TypeOK, FlushEmpty, FoldedClosed, Quiet, Kept, queueVars, tableVars, markVars, procVars, histVars
  <2>5. UnfoldedIntact'
    BY <1>3 DEF TypeOK, FlushEmpty, UnfoldedIntact, queueVars, tableVars, markVars, procVars, histVars
  <2>6. QED
    BY <2>1, <2>2, <2>3, <2>4, <2>5
<1>4. CASE FlushSwap
  <2>1. SpotsRecent'
    BY <1>4 DEF TypeOK, FlushSwap, SpotsRecent, queueVars, tableVars, markVars, procVars, histVars
  <2>2. FoldSound'
    BY <1>4 DEF TypeOK, FlushSwap, FoldSound, Quiet, Zero, markVars, procVars
  <2>3. PruneSound'
    BY <1>4 DEF TypeOK, FlushSwap, PruneSound, queueVars, tableVars, markVars, procVars, histVars
  <2>4. FoldedClosed'
    BY <1>4 DEF TypeOK, FlushSwap, FoldedClosed, Quiet, Kept, Zero, tableVars, markVars, histVars
  <2>5. UnfoldedIntact'
    BY <1>4 DEF TypeOK, FlushSwap, UnfoldedIntact, queueVars, tableVars, markVars, procVars, histVars
  <2>6. QED
    BY <2>1, <2>2, <2>3, <2>4, <2>5
<1>5. CASE FlushCommit
  <2>1. SpotsRecent'
    BY <1>5 DEF TypeOK, FlushCommit, ApplyBatch, SpotsRecent, queueVars, tableVars, markVars, procVars, histVars
  <2>2. FoldSound'
    BY <1>5 DEF TypeOK, FlushCommit, ApplyBatch, FoldSound, Quiet, queueVars, tableVars, markVars, procVars, histVars
  <2>3. PruneSound'
    BY <1>5 DEF TypeOK, FlushCommit, ApplyBatch, PruneSound, queueVars, tableVars, markVars, procVars, histVars
  <2>4. FoldedClosed'
    BY <1>5 DEF TypeOK, FlushCommit, ApplyBatch, FoldedClosed, Quiet, Kept, queueVars, tableVars, markVars, procVars, histVars
  <2>5. UnfoldedIntact'
    BY <1>5 DEF TypeOK, FlushCommit, ApplyBatch, UnfoldedIntact, queueVars, tableVars, markVars, procVars, histVars
  <2>6. QED
    BY <2>1, <2>2, <2>3, <2>4, <2>5
<1>6. CASE FlushFail
  <2>1. SpotsRecent'
    BY <1>6 DEF TypeOK, FlushFail, mergePendingBack, SpotsRecent, queueVars, tableVars, markVars, procVars, histVars
  <2>2. FoldSound'
    BY <1>6 DEF TypeOK, FlushFail, mergePendingBack, FoldSound, Quiet, queueVars, tableVars, markVars, procVars, histVars
  <2>3. PruneSound'
    BY <1>6 DEF TypeOK, FlushFail, mergePendingBack, PruneSound, queueVars, tableVars, markVars, procVars, histVars
  <2>4. FoldedClosed'
    BY <1>6 DEF TypeOK, FlushFail, mergePendingBack, FoldedClosed, Quiet, Kept, queueVars, tableVars, markVars, procVars, histVars
  <2>5. UnfoldedIntact'
    BY <1>6 DEF TypeOK, FlushFail, mergePendingBack, UnfoldedIntact, queueVars, tableVars, markVars, procVars, histVars
  <2>6. QED
    BY <2>1, <2>2, <2>3, <2>4, <2>5
<1>7. CASE FlushUnacked
  <2>1. SpotsRecent'
    BY <1>7 DEF TypeOK, FlushUnacked, ApplyBatch, mergePendingBack, SpotsRecent, queueVars, tableVars, markVars, procVars, histVars
  <2>2. FoldSound'
    BY <1>7 DEF TypeOK, FlushUnacked, ApplyBatch, mergePendingBack, FoldSound, Quiet, queueVars, tableVars, markVars, procVars, histVars
  <2>3. PruneSound'
    BY <1>7 DEF TypeOK, FlushUnacked, ApplyBatch, mergePendingBack, PruneSound, queueVars, tableVars, markVars, procVars, histVars
  <2>4. FoldedClosed'
    BY <1>7 DEF TypeOK, FlushUnacked, ApplyBatch, mergePendingBack, FoldedClosed, Quiet, Kept, queueVars, tableVars, markVars, procVars, histVars
  <2>5. UnfoldedIntact'
    BY <1>7 DEF TypeOK, FlushUnacked, ApplyBatch, mergePendingBack, UnfoldedIntact, queueVars, tableVars, markVars, procVars, histVars
  <2>6. QED
    BY <2>1, <2>2, <2>3, <2>4, <2>5
<1>8. CASE FlushClear
  <2>1. SpotsRecent'
    BY <1>8 DEF TypeOK, FlushClear, SpotsRecent, queueVars, tableVars, markVars, procVars, histVars
  <2>2. FoldSound'
    BY <1>8 DEF TypeOK, FlushClear, FoldSound, Quiet, Zero, markVars, procVars
  <2>3. PruneSound'
    BY <1>8 DEF TypeOK, FlushClear, PruneSound, queueVars, tableVars, markVars, procVars, histVars
  <2>4. FoldedClosed'
    BY <1>8 DEF TypeOK, FlushClear, FoldedClosed, Quiet, Kept, Zero, tableVars, markVars, histVars
  <2>5. UnfoldedIntact'
    BY <1>8 DEF TypeOK, FlushClear, UnfoldedIntact, queueVars, tableVars, markVars, procVars, histVars
  <2>6. QED
    BY <2>1, <2>2, <2>3, <2>4, <2>5
<1>9. CASE recordFlushSuccess
  <2>1. SpotsRecent'
    BY <1>9 DEF TypeOK, recordFlushSuccess, SpotsRecent, queueVars, tableVars, markVars, procVars, histVars
  <2>2. FoldSound'
    BY <1>9 DEF TypeOK, recordFlushSuccess, FoldSound, Quiet, queueVars, tableVars, markVars, procVars, histVars
  <2>3. PruneSound'
    BY <1>9 DEF TypeOK, recordFlushSuccess, PruneSound, queueVars, tableVars, markVars, procVars, histVars
  <2>4. FoldedClosed'
    BY <1>9 DEF TypeOK, recordFlushSuccess, FoldedClosed, Quiet, Kept, queueVars, tableVars, markVars, procVars, histVars
  <2>5. UnfoldedIntact'
    BY <1>9 DEF TypeOK, recordFlushSuccess, UnfoldedIntact, queueVars, tableVars, markVars, procVars, histVars
  <2>6. QED
    BY <2>1, <2>2, <2>3, <2>4, <2>5
<1>10. CASE FoldStart
  <2>1. SpotsRecent'
    BY <1>10 DEF TypeOK, FoldStart, SpotsRecent, queueVars, tableVars, markVars, procVars, histVars
  <2>2. FoldSound'
    BY <1>10 DEF TypeOK, FoldStart, FoldSound, Quiet, queueVars, tableVars, markVars, procVars, histVars
  <2>3. PruneSound'
    BY <1>10 DEF TypeOK, FoldStart, PruneSound, queueVars, tableVars, markVars, procVars, histVars
  <2>4. FoldedClosed'
    BY <1>10 DEF TypeOK, FoldStart, FoldedClosed, Quiet, Kept, queueVars, tableVars, markVars, procVars, histVars
  <2>5. UnfoldedIntact'
    BY <1>10 DEF TypeOK, FoldStart, UnfoldedIntact, queueVars, tableVars, markVars, procVars, histVars
  <2>6. QED
    BY <2>1, <2>2, <2>3, <2>4, <2>5
<1>11. CASE FoldEnsure
  <2>1. SpotsRecent'
    BY <1>11 DEF TypeOK, FoldEnsure, SpotsRecent, queueVars, tableVars, markVars, procVars, histVars
  <2>2. FoldSound'
    <3>1. ensureWatermark(utcDayIndex(fold.now)) /\ utcDayIndex(fold.now) \in Int
      BY <1>11, DayInt DEF TypeOK, FoldEnsure
    <3>2. UNCHANGED <<clock, queueVars, tableVars, histVars>>
      BY <1>11 DEF FoldEnsure
    <3>3. hasWatermark' /\ watermark' \in Int /\ initial' <= watermark'
      BY <3>1, <3>2, EnsureSound
    <3>4. fold' = [fold EXCEPT !.pc = "publish", !.w = watermark']
      BY <1>11 DEF FoldEnsure
    <3>5. QED
      BY <3>2, <3>3, <3>4 DEF TypeOK, FoldSound
  <2>3. PruneSound'
    <3>1. ensureWatermark(utcDayIndex(fold.now)) /\ utcDayIndex(fold.now) \in Int
      BY <1>11, DayInt DEF TypeOK, FoldEnsure
    <3>2. UNCHANGED <<clock, queueVars, tableVars, histVars>>
      BY <1>11 DEF FoldEnsure
    <3>3. hasWatermark' /\ watermark' \in Int /\ (hasWatermark => watermark' = watermark)
      BY <3>1, <3>2, EnsureSound
    <3>4. prune' = prune
      BY <1>11 DEF FoldEnsure
    <3>5. QED
      BY <3>3, <3>4 DEF TypeOK, PruneSound
  <2>4. FoldedClosed'
    <3>1. ensureWatermark(utcDayIndex(fold.now)) /\ utcDayIndex(fold.now) \in Int
      BY <1>11, DayInt DEF TypeOK, FoldEnsure
    <3>2. UNCHANGED <<clock, queueVars, tableVars, histVars>>
      BY <1>11 DEF FoldEnsure
    <3>3. QED
      BY <3>1, <3>2, EnsureSound
  <2>5. UnfoldedIntact'
    <3>1. ensureWatermark(utcDayIndex(fold.now)) /\ utcDayIndex(fold.now) \in Int
      BY <1>11, DayInt DEF TypeOK, FoldEnsure
    <3>2. UNCHANGED <<clock, queueVars, tableVars, histVars>>
      BY <1>11 DEF FoldEnsure
    <3>3. QED
      BY <3>1, <3>2, EnsureSound
  <2>6. QED
    BY <2>1, <2>2, <2>3, <2>4, <2>5
<1>12. CASE FoldPublish
  <2>1. SpotsRecent'
    BY <1>12 DEF TypeOK, FoldPublish, SpotsRecent, queueVars, tableVars, markVars, procVars, histVars
  <2>2. FoldSound'
    BY <1>12 DEF TypeOK, FoldPublish, FoldSound, Quiet, queueVars, tableVars, markVars, procVars, histVars
  <2>3. PruneSound'
    BY <1>12 DEF TypeOK, FoldPublish, PruneSound, queueVars, tableVars, markVars, procVars, histVars
  <2>4. FoldedClosed'
    BY <1>12 DEF TypeOK, FoldPublish, FoldedClosed, Quiet, Kept, queueVars, tableVars, markVars, procVars, histVars
  <2>5. UnfoldedIntact'
    BY <1>12 DEF TypeOK, FoldPublish, UnfoldedIntact, queueVars, tableVars, markVars, procVars, histVars
  <2>6. QED
    BY <2>1, <2>2, <2>3, <2>4, <2>5
<1>13. CASE FoldReadPending
  <2>1. SpotsRecent'
    BY <1>13 DEF TypeOK, FoldReadPending, SpotsRecent, queueVars, tableVars, markVars, procVars, histVars
  <2>2. FoldSound'
    <3>1. CASE fold' = FoldIdle
      <4>1. fold'.pc = "idle" /\ fold'.now = 0
        BY <3>1 DEF FoldIdle
      <4>2. clock' \in Nat
        BY <1>13 DEF TypeOK, FoldReadPending
      <4>3. QED
        BY <4>1, <4>2 DEF FoldSound
    <3>2. CASE fold' # FoldIdle
      <4>1. /\ fold' = [fold EXCEPT !.pc = "final", !.n = @ + 1]
            /\ fold.w + 1 \in Days
            /\ almanacDayQuiet(fold.w + 1, fold.now)
        BY <1>13, <3>2 DEF FoldReadPending
      <4>2. pending[fold.w + 1] = 0 /\ inflight[fold.w + 1] = 0
        BY <4>1, Constants DEF almanacDayQuiet, pendingRegionDays, TypeOK
      <4>3. fold.w + 1 <= utcDayIndex(clock) - 2
        <5>1. fold.now \in Int /\ clock \in Int /\ fold.w \in Int /\ fold.now <= clock
          BY DEF TypeOK, FoldSound
        <5>2. utcDayIndex(fold.now) <= utcDayIndex(clock)
          BY <5>1, DayMonotone
        <5>3. utcDayIndex(fold.now) \in Int /\ utcDayIndex(clock) \in Int
          BY <5>1, DayInt
        <5>4. fold.w + 1 <= utcDayIndex(fold.now) - 2
          BY <4>1 DEF almanacDayQuiet
        <5>5. QED
          BY <5>1, <5>2, <5>3, <5>4
      <4>4. QED
        BY <1>13, <4>1, <4>2, <4>3 DEF TypeOK, FoldReadPending, FoldSound, Quiet, queueVars, markVars
    <3>3. QED
      BY <3>1, <3>2
  <2>3. PruneSound'
    BY <1>13 DEF TypeOK, FoldReadPending, PruneSound, queueVars, tableVars, markVars, procVars, histVars
  <2>4. FoldedClosed'
    BY <1>13 DEF TypeOK, FoldReadPending, FoldedClosed, Quiet, Kept, queueVars, tableVars, markVars, procVars, histVars
  <2>5. UnfoldedIntact'
    BY <1>13 DEF TypeOK, FoldReadPending, UnfoldedIntact, queueVars, tableVars, markVars, procVars, histVars
  <2>6. QED
    BY <2>1, <2>2, <2>3, <2>4, <2>5
<1>13a. CASE FoldReadFlush
  <2>1. SpotsRecent'
    BY <1>13a DEF TypeOK, FoldReadFlush, SpotsRecent, queueVars, tableVars, markVars, procVars, histVars
  <2>2. FoldSound'
    <3>1. CASE fold' = FoldIdle
      <4>1. fold'.pc = "idle" /\ fold'.now = 0
        BY <3>1 DEF FoldIdle
      <4>2. clock' \in Nat
        BY <1>13a DEF TypeOK, FoldReadFlush
      <4>3. QED
        BY <4>1, <4>2 DEF FoldSound
    <3>2. CASE fold' # FoldIdle
      <4>1. fold' = [fold EXCEPT !.pc = "tx"] /\ fold.pc = "final"
        BY <1>13a, <3>2 DEF FoldReadFlush
      <4>2. QED
        BY <1>13a, <4>1 DEF TypeOK, FoldReadFlush, FoldSound, Quiet, queueVars, markVars
    <3>3. QED
      BY <3>1, <3>2
  <2>3. PruneSound'
    BY <1>13a DEF TypeOK, FoldReadFlush, PruneSound, queueVars, tableVars, markVars, procVars, histVars
  <2>4. FoldedClosed'
    BY <1>13a DEF TypeOK, FoldReadFlush, FoldedClosed, Quiet, Kept, queueVars, tableVars, markVars, procVars, histVars
  <2>5. UnfoldedIntact'
    BY <1>13a DEF TypeOK, FoldReadFlush, UnfoldedIntact, queueVars, tableVars, markVars, procVars, histVars
  <2>6. QED
    BY <2>1, <2>2, <2>3, <2>4, <2>5
<1>14. CASE FoldDay
  <2> DEFINE d == fold.w + 1
  <2>1. SpotsRecent'
    BY <1>14 DEF TypeOK, FoldDay, SpotsRecent, queueVars, tableVars, markVars, procVars, histVars
  <2>2. FoldSound'
    <3>0. fold.pc = "tx" /\ d \in Days /\ hasWatermark /\ initial <= fold.w /\ fold.w <= watermark /\ Quiet(d)
      BY <1>14 DEF FoldDay, FoldSound
    <3>1. watermark \in Int /\ fold.w \in Int /\ initial \in Int /\ Days \subseteq Int
      BY Constants DEF TypeOK
    <3>2. UNCHANGED <<clock, queueVars, hasWatermark, lost, initial, prune, histVars>>
      BY <1>14 DEF FoldDay
    <3>3. watermark' \in Int /\ watermark' >= watermark /\ watermark' >= d
      BY <1>14, <3>1 DEF FoldDay, MaxOf
    <3>4. fold' = [fold EXCEPT !.pc = "publish", !.w = watermark']
      BY <1>14 DEF FoldDay
    <3>5. QED
      BY <3>0, <3>1, <3>2, <3>3, <3>4 DEF TypeOK, FoldSound
  <2>3. PruneSound'
    <3>0. fold.pc = "tx" /\ d \in Days /\ hasWatermark /\ initial <= fold.w /\ fold.w <= watermark /\ Quiet(d)
      BY <1>14 DEF FoldDay, FoldSound
    <3>1. watermark \in Int /\ fold.w \in Int /\ initial \in Int /\ Days \subseteq Int
      BY Constants DEF TypeOK
    <3>2. UNCHANGED <<clock, queueVars, hasWatermark, lost, initial, prune, histVars>>
      BY <1>14 DEF FoldDay
    <3>3. watermark' \in Int /\ watermark' >= watermark /\ watermark' >= d
      BY <1>14, <3>1 DEF FoldDay, MaxOf
    <3>4. QED
      BY <3>0, <3>1, <3>2, <3>3 DEF TypeOK, PruneSound
  <2>4. FoldedClosed'
    <3>0. fold.pc = "tx" /\ d \in Days /\ hasWatermark /\ initial <= fold.w /\ fold.w <= watermark /\ Quiet(d)
      BY <1>14 DEF FoldDay, FoldSound
    <3>1. watermark \in Int /\ fold.w \in Int /\ initial \in Int /\ Days \subseteq Int
      BY Constants DEF TypeOK
    <3>2. UNCHANGED <<clock, queueVars, hasWatermark, lost, initial, prune, histVars>>
      BY <1>14 DEF FoldDay
    <3>3. watermark' \in Int /\ watermark' >= watermark /\ watermark' >= d
      BY <1>14, <3>1 DEF FoldDay, MaxOf
    <3>4. CASE watermark >= d
      <4>1. UNCHANGED <<tableVars, watermark>>
        BY <1>14, <3>4 DEF FoldDay
      <4>2. QED
        BY <3>2, <4>1 DEF FoldedClosed, Quiet, Kept, queueVars, tableVars, histVars
    <3>5. CASE ~(watermark >= d)
      <4>1. watermark = fold.w /\ watermark' = d
        BY <1>14, <3>0, <3>1, <3>5 DEF FoldDay, MaxOf
      <4>2. foldDayInTx(d)
        BY <1>14, <3>5 DEF FoldDay
      <4>3. /\ season'[d] = satAdd8(committed[d]) /\ ingest'[d] = committed[d]
            /\ \A e \in Days : e # d => season'[e] = season[e] /\ ingest'[e] = ingest[e]
        BY <3>0, <3>1, <4>1, <4>2, FoldTxEffect DEF d
      <4>4. initial' <= watermark'
        BY <3>0, <3>1, <3>2, <4>1
      <4>5. ASSUME NEW e \in Days, Kept(e)', e <= watermark'
            PROVE  Quiet(e)' /\ season'[e] = satAdd8(committed'[e]) /\ ingest'[e] = committed'[e]
        <5>1. CASE e = d
          BY <3>0, <3>2, <4>3, <5>1 DEF Quiet, queueVars, histVars
        <5>2. CASE e # d
          <6>1. Kept(e) /\ e <= watermark
            BY <3>1, <3>2, <4>1, <4>5, <5>2 DEF Kept
          <6>2. QED
            BY <3>0, <3>2, <4>3, <5>2, <6>1 DEF FoldedClosed, Quiet, queueVars, histVars
        <5>3. QED
          BY <5>1, <5>2
      <4>6. QED
        BY <4>4, <4>5 DEF FoldedClosed
    <3>6. QED
      BY <3>4, <3>5
  <2>5. UnfoldedIntact'
    <3>0. fold.pc = "tx" /\ d \in Days /\ hasWatermark /\ initial <= fold.w /\ fold.w <= watermark /\ Quiet(d)
      BY <1>14 DEF FoldDay, FoldSound
    <3>1. watermark \in Int /\ fold.w \in Int /\ initial \in Int /\ Days \subseteq Int
      BY Constants DEF TypeOK
    <3>2. UNCHANGED <<clock, queueVars, hasWatermark, lost, initial, prune, histVars>>
      BY <1>14 DEF FoldDay
    <3>3. watermark' \in Int /\ watermark' >= watermark /\ watermark' >= d
      BY <1>14, <3>1 DEF FoldDay, MaxOf
    <3>4. CASE watermark >= d
      BY <1>14, <3>2, <3>4 DEF FoldDay, UnfoldedIntact, tableVars, histVars
    <3>5. CASE ~(watermark >= d)
      <4>1. foldDayInTx(d)
        BY <1>14, <3>5 DEF FoldDay
      <4>2. /\ daily' = daily
            /\ \A e \in Days : e # d => season'[e] = season[e] /\ ingest'[e] = ingest[e]
        BY <3>0, <4>1 DEF foldDayInTx, TypeOK
      <4>3. QED
        BY <3>0, <3>1, <3>2, <3>3, <4>2 DEF UnfoldedIntact, histVars
    <3>6. QED
      BY <3>4, <3>5
  <2>6. QED
    BY <2>1, <2>2, <2>3, <2>4, <2>5
<1>15. CASE FoldFail
  <2>1. SpotsRecent'
    BY <1>15 DEF TypeOK, FoldFail, SpotsRecent, queueVars, tableVars, markVars, procVars, histVars
  <2>2. FoldSound'
    BY <1>15 DEF TypeOK, FoldFail, FoldIdle, FoldSound
  <2>3. PruneSound'
    BY <1>15 DEF TypeOK, FoldFail, PruneSound, queueVars, tableVars, markVars, procVars, histVars
  <2>4. FoldedClosed'
    BY <1>15 DEF TypeOK, FoldFail, FoldedClosed, Quiet, Kept, queueVars, tableVars, markVars, procVars, histVars
  <2>5. UnfoldedIntact'
    BY <1>15 DEF TypeOK, FoldFail, UnfoldedIntact, queueVars, tableVars, markVars, procVars, histVars
  <2>6. QED
    BY <2>1, <2>2, <2>3, <2>4, <2>5
<1>16. CASE PruneStart
  <2>1. SpotsRecent'
    BY <1>16 DEF TypeOK, PruneStart, SpotsRecent, queueVars, tableVars, markVars, procVars, histVars
  <2>2. FoldSound'
    BY <1>16 DEF TypeOK, PruneStart, FoldSound, Quiet, queueVars, tableVars, markVars, procVars, histVars
  <2>3. PruneSound'
    BY <1>16 DEF TypeOK, PruneStart, PruneSound, queueVars, tableVars, markVars, procVars, histVars
  <2>4. FoldedClosed'
    BY <1>16 DEF TypeOK, PruneStart, FoldedClosed, Quiet, Kept, queueVars, tableVars, markVars, procVars, histVars
  <2>5. UnfoldedIntact'
    BY <1>16 DEF TypeOK, PruneStart, UnfoldedIntact, queueVars, tableVars, markVars, procVars, histVars
  <2>6. QED
    BY <2>1, <2>2, <2>3, <2>4, <2>5
<1>17. ASSUME NEW over \in BOOLEAN, PruneGate(over)
      PROVE  IndInv'
  <2>1. SpotsRecent'
    BY <1>17 DEF TypeOK, PruneGate, SpotsRecent, queueVars, tableVars, markVars, procVars, histVars
  <2>2. FoldSound'
    <3>1. ensureWatermark(utcDayIndex(clock)) /\ utcDayIndex(clock) \in Int
      BY <1>17, DayInt DEF TypeOK, PruneGate
    <3>2. UNCHANGED <<clock, queueVars, tableVars, histVars>>
      BY <1>17 DEF PruneGate
    <3>3. hasWatermark' /\ (hasWatermark => watermark' = watermark /\ initial' = initial)
      BY <3>1, <3>2, EnsureSound
    <3>4. fold' = fold
      BY <1>17 DEF PruneGate
    <3>5. QED
      BY <3>2, <3>3, <3>4 DEF TypeOK, FoldSound, Quiet, queueVars
  <2>3. PruneSound'
    <3>1. ensureWatermark(utcDayIndex(clock)) /\ utcDayIndex(clock) \in Int
      BY <1>17, DayInt DEF TypeOK, PruneGate
    <3>2. UNCHANGED <<clock, queueVars, tableVars, histVars>>
      BY <1>17 DEF PruneGate
    <3>3. hasWatermark' /\ watermark' \in Int
      BY <3>1, <3>2, EnsureSound
    <3> DEFINE dec == almanacPruneDecide(prune.cutoff, watermark', over)
    <3>4. /\ prune'.below = dec.below /\ prune'.new = dec.new
          /\ prune'.pc = IF dec.force THEN "force" ELSE "delete"
      BY <1>17 DEF PruneGate
    <3>5. /\ dec.force => dec.below = dec.new + 1
          /\ ~dec.force => dec.below <= watermark' + 1
      BY <3>3, DecideSound DEF TypeOK
    <3>6. QED
      BY <3>3, <3>4, <3>5 DEF PruneSound
  <2>4. FoldedClosed'
    <3>1. ensureWatermark(utcDayIndex(clock)) /\ utcDayIndex(clock) \in Int
      BY <1>17, DayInt DEF TypeOK, PruneGate
    <3>2. UNCHANGED <<clock, queueVars, tableVars, histVars>>
      BY <1>17 DEF PruneGate
    <3>3. QED
      BY <3>1, <3>2, EnsureSound
  <2>5. UnfoldedIntact'
    <3>1. ensureWatermark(utcDayIndex(clock)) /\ utcDayIndex(clock) \in Int
      BY <1>17, DayInt DEF TypeOK, PruneGate
    <3>2. UNCHANGED <<clock, queueVars, tableVars, histVars>>
      BY <1>17 DEF PruneGate
    <3>3. QED
      BY <3>1, <3>2, EnsureSound
  <2>6. QED
    BY <2>1, <2>2, <2>3, <2>4, <2>5
<1>18. CASE PruneForce
  <2>1. SpotsRecent'
    BY <1>18 DEF TypeOK, PruneForce, SpotsRecent, queueVars, tableVars, markVars, procVars, histVars
  <2>2. FoldSound'
    <3>1. watermark \in Int /\ prune.new \in Int /\ fold.w \in Int
      BY DEF TypeOK
    <3>2. watermark' >= watermark /\ watermark' \in Int
      BY <1>18, <3>1 DEF PruneForce, MaxOf
    <3>3. QED
      BY <1>18, <3>1, <3>2 DEF PruneForce, FoldSound, Quiet, queueVars
  <2>3. PruneSound'
    <3>1. watermark \in Int /\ prune.new \in Int /\ prune.below = prune.new + 1 /\ hasWatermark
      BY <1>18 DEF TypeOK, PruneForce, PruneSound
    <3>2. watermark' >= prune.new /\ watermark' \in Int
      BY <1>18, <3>1 DEF PruneForce, MaxOf
    <3>3. prune'.pc = "advance" /\ prune'.below = prune.below /\ hasWatermark' = hasWatermark
      BY <1>18 DEF TypeOK, PruneForce
    <3>4. QED
      BY <3>1, <3>2, <3>3 DEF PruneSound
  <2>4. FoldedClosed'
    <3>1. watermark \in Int /\ prune.new \in Int /\ initial \in Int /\ Days \subseteq Int
      BY Constants DEF TypeOK
    <3>2. watermark' = MaxOf(watermark, prune.new) /\ lost' = lost \cup almanacLostDayRange(watermark, prune.new)
      BY <1>18 DEF PruneForce
    <3>3. ASSUME NEW d \in Days, d \notin lost', d <= watermark'
          PROVE  d \notin lost /\ d <= watermark
      BY <3>1, <3>2, <3>3 DEF MaxOf, almanacLostDayRange
    <3>4. watermark' >= watermark /\ watermark' \in Int
      BY <3>1, <3>2 DEF MaxOf
    <3>5. UNCHANGED <<clock, queueVars, tableVars, hasWatermark, initial, histVars>>
      BY <1>18 DEF PruneForce
    <3>6. hasWatermark => initial' <= watermark'
      BY <3>1, <3>4, <3>5 DEF FoldedClosed
    <3>7. ASSUME hasWatermark, NEW d \in Days, Kept(d)', d <= watermark'
          PROVE  Quiet(d)' /\ season'[d] = satAdd8(committed'[d]) /\ ingest'[d] = committed'[d]
      <4>1. Kept(d) /\ d <= watermark
        BY <3>3, <3>5, <3>7 DEF Kept
      <4>2. QED
        BY <3>5, <3>7, <4>1 DEF FoldedClosed, Quiet, queueVars, tableVars, histVars
    <3>8. QED
      BY <3>5, <3>6, <3>7 DEF FoldedClosed
  <2>5. UnfoldedIntact'
    <3>1. watermark \in Int /\ prune.new \in Int /\ Days \subseteq Int
      BY Constants DEF TypeOK
    <3>2. watermark' >= watermark /\ watermark' \in Int
      BY <1>18, <3>1 DEF PruneForce, MaxOf
    <3>3. UNCHANGED <<hasWatermark, tableVars, histVars>>
      BY <1>18 DEF PruneForce
    <3>4. QED
      BY <3>1, <3>2, <3>3 DEF UnfoldedIntact, tableVars, histVars
  <2>6. QED
    BY <2>1, <2>2, <2>3, <2>4, <2>5
<1>19. CASE PruneAdvance
  <2>1. SpotsRecent'
    BY <1>19 DEF TypeOK, PruneAdvance, SpotsRecent, queueVars, tableVars, markVars, procVars, histVars
  <2>2. FoldSound'
    BY <1>19 DEF TypeOK, PruneAdvance, FoldSound, Quiet, queueVars, tableVars, markVars, procVars, histVars
  <2>3. PruneSound'
    BY <1>19 DEF TypeOK, PruneAdvance, PruneSound, queueVars, tableVars, markVars, procVars, histVars
  <2>4. FoldedClosed'
    BY <1>19 DEF TypeOK, PruneAdvance, FoldedClosed, Quiet, Kept, queueVars, tableVars, markVars, procVars, histVars
  <2>5. UnfoldedIntact'
    BY <1>19 DEF TypeOK, PruneAdvance, UnfoldedIntact, queueVars, tableVars, markVars, procVars, histVars
  <2>6. QED
    BY <2>1, <2>2, <2>3, <2>4, <2>5
<1>20. ASSUME NEW e \in Days, PruneDelete(e)
      PROVE  IndInv'
  <2>1. SpotsRecent'
    BY <1>20 DEF TypeOK, PruneDelete, SpotsRecent, queueVars, tableVars, markVars, procVars, histVars
  <2>2. FoldSound'
    BY <1>20 DEF TypeOK, PruneDelete, FoldSound, Quiet, queueVars, tableVars, markVars, procVars, histVars
  <2>3. PruneSound'
    BY <1>20 DEF TypeOK, PruneDelete, PruneSound, queueVars, tableVars, markVars, procVars, histVars
  <2>4. FoldedClosed'
    BY <1>20 DEF TypeOK, PruneDelete, FoldedClosed, Quiet, Kept, queueVars, tableVars, markVars, procVars, histVars
  <2>5. UnfoldedIntact'
    <3>1. hasWatermark /\ e <= watermark
      BY <1>20, Constants DEF TypeOK, PruneDelete, PruneSound
    <3>2. QED
      BY <1>20, <3>1, Constants DEF TypeOK, PruneDelete, UnfoldedIntact, markVars, histVars
  <2>6. QED
    BY <2>1, <2>2, <2>3, <2>4, <2>5
<1>21. CASE PruneEnd
  <2>1. SpotsRecent'
    BY <1>21 DEF TypeOK, PruneEnd, SpotsRecent, queueVars, tableVars, markVars, procVars, histVars
  <2>2. FoldSound'
    BY <1>21 DEF TypeOK, PruneEnd, FoldSound, Quiet, queueVars, tableVars, markVars, procVars, histVars
  <2>3. PruneSound'
    BY <1>21 DEF TypeOK, PruneEnd, PruneIdle, PruneSound
  <2>4. FoldedClosed'
    BY <1>21 DEF TypeOK, PruneEnd, FoldedClosed, Quiet, Kept, queueVars, tableVars, markVars, procVars, histVars
  <2>5. UnfoldedIntact'
    BY <1>21 DEF TypeOK, PruneEnd, UnfoldedIntact, queueVars, tableVars, markVars, procVars, histVars
  <2>6. QED
    BY <2>1, <2>2, <2>3, <2>4, <2>5
<1>22. CASE Tick
  <2>1. SpotsRecent'
    BY <1>22 DEF TypeOK, Tick, SpotsRecent, queueVars, tableVars, markVars, procVars, histVars
  <2>2. FoldSound'
    <3>1. clock \in Int /\ clock + 1 \in Int /\ clock <= clock + 1
      BY DEF TypeOK
    <3>2. /\ utcDayIndex(clock) <= utcDayIndex(clock + 1)
          /\ utcDayIndex(clock) \in Int /\ utcDayIndex(clock + 1) \in Int
      BY <3>1, DayMonotone, DayInt
    <3>3. clock' = clock + 1
      BY <1>22 DEF Tick
    <3>4. \A d \in Days : Quiet(d) => Quiet(d)'
      <4> SUFFICES ASSUME NEW d \in Days, Quiet(d) PROVE Quiet(d)'
        OBVIOUS
      <4>1. d \in Int /\ d <= utcDayIndex(clock) - 2
        BY Constants DEF Quiet
      <4>2. d <= utcDayIndex(clock + 1) - 2
        BY <4>1, <3>2
      <4>3. pending' = pending /\ inflight' = inflight
        BY <1>22 DEF Tick, queueVars
      <4>4. QED
        BY <3>3, <4>2, <4>3 DEF Quiet
    <3>5. UNCHANGED <<fold, hasWatermark, watermark, initial>>
      BY <1>22 DEF Tick, procVars, markVars
    <3>6. QED
      BY <3>1, <3>3, <3>4, <3>5 DEF TypeOK, FoldSound
  <2>3. PruneSound'
    BY <1>22 DEF TypeOK, Tick, PruneSound, queueVars, tableVars, markVars, procVars, histVars
  <2>4. FoldedClosed'
    <3>1. clock \in Int /\ clock + 1 \in Int /\ clock <= clock + 1
      BY DEF TypeOK
    <3>2. /\ utcDayIndex(clock) <= utcDayIndex(clock + 1)
          /\ utcDayIndex(clock) \in Int /\ utcDayIndex(clock + 1) \in Int
      BY <3>1, DayMonotone, DayInt
    <3>3. clock' = clock + 1
      BY <1>22 DEF Tick
    <3>4. \A d \in Days : Quiet(d) => Quiet(d)'
      <4> SUFFICES ASSUME NEW d \in Days, Quiet(d) PROVE Quiet(d)'
        OBVIOUS
      <4>1. d \in Int /\ d <= utcDayIndex(clock) - 2
        BY Constants DEF Quiet
      <4>2. d <= utcDayIndex(clock + 1) - 2
        BY <4>1, <3>2
      <4>3. pending' = pending /\ inflight' = inflight
        BY <1>22 DEF Tick, queueVars
      <4>4. QED
        BY <3>3, <4>2, <4>3 DEF Quiet
    <3>5. UNCHANGED <<markVars, tableVars, histVars>>
      BY <1>22 DEF Tick
    <3>6. QED
      BY <3>4, <3>5 DEF FoldedClosed, Kept, markVars, tableVars, histVars
  <2>5. UnfoldedIntact'
    BY <1>22 DEF TypeOK, Tick, UnfoldedIntact, queueVars, tableVars, markVars, procVars, histVars
  <2>6. QED
    BY <2>1, <2>2, <2>3, <2>4, <2>5
<1>23. CASE Crash
  <2>1. SpotsRecent'
    BY <1>23 DEF Crash, Idle, SpotsRecent
  <2>2. FoldSound'
    BY <1>23 DEF TypeOK, Crash, FoldIdle, FoldSound
  <2>3. PruneSound'
    BY <1>23 DEF Crash, PruneIdle, PruneSound
  <2>4. FoldedClosed'
    BY <1>23 DEF Crash, Zero, FoldedClosed, Quiet, Kept, tableVars, markVars, histVars
  <2>5. UnfoldedIntact'
    BY <1>23 DEF TypeOK, Crash, UnfoldedIntact, queueVars, tableVars, markVars, procVars, histVars
  <2>6. QED
    BY <2>1, <2>2, <2>3, <2>4, <2>5
<1>24. CASE UNCHANGED vars
  <2>1. SpotsRecent'
    BY <1>24 DEF TypeOK, vars, SpotsRecent, queueVars, tableVars, markVars, procVars, histVars
  <2>2. FoldSound'
    BY <1>24 DEF TypeOK, vars, FoldSound, Quiet, queueVars, tableVars, markVars, procVars, histVars
  <2>3. PruneSound'
    BY <1>24 DEF TypeOK, vars, PruneSound, queueVars, tableVars, markVars, procVars, histVars
  <2>4. FoldedClosed'
    BY <1>24 DEF TypeOK, vars, FoldedClosed, Quiet, Kept, queueVars, tableVars, markVars, procVars, histVars
  <2>5. UnfoldedIntact'
    BY <1>24 DEF TypeOK, vars, UnfoldedIntact, queueVars, tableVars, markVars, procVars, histVars
  <2>6. QED
    BY <2>1, <2>2, <2>3, <2>4, <2>5
<1>25. QED
  BY <1>1, <1>2, <1>3, <1>4, <1>5, <1>6, <1>7, <1>8, <1>9, <1>10, <1>11, <1>12, <1>13, <1>13a, <1>14, <1>15, <1>16, <1>17, <1>18, <1>19, <1>20, <1>21, <1>22, <1>23, <1>24
  DEF Next, Observe, Flush, runOnce, pruneRegionBaselines

\* Nothing is folded before the first watermark.
LEMMA IndInit == Init => IndInv
<1> SUFFICES ASSUME Init PROVE IndInv
  OBVIOUS
<1>1. daily \in [Days -> Nat]
  BY PreDeployAssumption DEF Init
<1>2. SpotsRecent
  BY DEF Init, SpotsRecent, Idle
<1>3. FoldSound /\ PruneSound /\ FoldedClosed
  BY AlmanacConstants DEF Init, FoldSound, PruneSound, FoldedClosed, FoldIdle, PruneIdle
<1>4. UnfoldedIntact
  BY <1>1 DEF Init, UnfoldedIntact, Zero
<1>5. QED
  BY <1>2, <1>3, <1>4 DEF IndInv

\* What the invariant says of a kept day is what the Almanac's readers need.
LEMMA IndImplies == TypeOK /\ IndInv => ViewExact /\ IngestExact
<1> SUFFICES ASSUME TypeOK, IndInv, hasWatermark, NEW d \in Days, Kept(d)
             PROVE  /\ AlmanacView(d) = satAdd8(committed[d])
                    /\ d <= watermark => ingest[d] = committed[d]
  BY DEF ViewExact, IngestExact
<1>1. CASE d <= watermark
  BY <1>1 DEF IndInv, FoldedClosed, AlmanacView
<1>2. CASE ~(d <= watermark)
  <2>1. d > watermark
    BY <1>2, Constants DEF TypeOK
  <2>2. daily[d] = committed[d]
    BY <2>1 DEF IndInv, UnfoldedIntact
  <2>3. QED
    BY <1>2, <2>2 DEF AlmanacView
<1>3. QED
  BY <1>1, <1>2

\* When no clock boundary falls between clamp and queueing, every interleaving
\* of flush, fold, forced and ordinary prune, failure and crash leaves the
\* Almanac's view and the ingest totals of every kept day exact.
THEOREM ViewCorrect ==
  ASSUME ObserveLag = 0
  PROVE  Spec => [](ViewExact /\ IngestExact)
<1>1. Init => TypeOK /\ IndInv
  BY TypeInit, IndInit
<1>2. TypeOK /\ IndInv /\ [Next]_vars => TypeOK' /\ IndInv'
  BY TypeStep, IndStep
<1>3. TypeOK /\ IndInv => ViewExact /\ IngestExact
  BY IndImplies
<1>4. QED
  BY <1>1, <1>2, <1>3, PTL DEF Spec

\* The ingest totals in particular: a day that was folded into them is counted
\* exactly once, however often the fold was retried after a crash or a lost
\* answer of the commit.
THEOREM IngestCorrect ==
  ASSUME ObserveLag = 0
  PROVE  Spec => []IngestExact
BY ViewCorrect, PTL


(***************************************************************************)
(* The watermark.                                                          *)
(***************************************************************************)
\* The conjuncts of MarkInv, by what they speak of.
MarkFold ==
    fold.pc \in {"publish", "check", "final", "tx"} => hasWatermark /\ fold.w <= watermark
MarkPrune ==
    /\ prune.pc = "force" => hasWatermark
    /\ prune.pc = "advance" => hasWatermark /\ prune.new <= watermark
MarkSeason == \A d \in Days : (hasWatermark => d > watermark) => season[d] = 0

\* The invariant is the conjunction of its parts.
LEMMA MarkParts == MarkInv <=> MarkFold /\ MarkPrune /\ MarkSeason /\ MemNeverAhead
  BY DEF MarkInv, MarkFold, MarkPrune, MarkSeason

\* At the start nothing is marked, folded or published.
LEMMA MarkInit == Init => MarkInv
<1> SUFFICES ASSUME Init PROVE MarkInv
  OBVIOUS
<1>1. MarkFold /\ MarkPrune /\ MemNeverAhead
  BY DEF Init, MarkFold, MarkPrune, MemNeverAhead, FoldIdle, PruneIdle
<1>2. MarkSeason
  BY DEF Init, MarkSeason, Zero
<1>3. QED
  BY <1>1, <1>2, MarkParts

\* Whoever calls ensureWatermark finds or stores a watermark; one that is
\* stored is not changed.
LEMMA EnsureMark ==
  ASSUME TypeOK, MarkInv, NEW today \in Int, ensureWatermark(today),
         memWatermark' = memWatermark, season' = season
  PROVE  /\ hasWatermark' /\ watermark' \in Int
         /\ hasWatermark => watermark' = watermark
         /\ MarkSeason' /\ MemNeverAhead'
<1> USE MarkParts
<1>1. watermark' \in Int
  BY EnsureType
<1>2. CASE hasWatermark /\ UNCHANGED markVars
  BY <1>1, <1>2 DEF markVars, MarkSeason, MemNeverAhead
<1>3. CASE ~hasWatermark
  <2>1. hasWatermark' = TRUE
    BY <1>3 DEF ensureWatermark
  <2>2. MarkSeason'
    BY <1>3 DEF MarkSeason
  <2>3. MemNeverAhead'
    BY <1>3 DEF MemNeverAhead
  <2>4. QED
    BY <1>1, <1>3, <2>1, <2>2, <2>3
<1>4. QED
  BY <1>2, <1>3 DEF ensureWatermark

\* The fold transaction writes no segment but its own day's.
LEMMA FoldTxSeason ==
  ASSUME TypeOK, NEW d \in Int, foldDayInTx(d)
  PROVE  /\ \A e \in Days : e # d => season'[e] = season[e]
         /\ d \in Days /\ season[d] = 0 => season'[d] = satAdd8(daily[d])
<1>1. \A e \in Days : e # d => season'[e] = season[e]
  BY DEF foldDayInTx, TypeOK
<1>2. ASSUME d \in Days, season[d] = 0
      PROVE  season'[d] = satAdd8(daily[d])
  <2>1. daily[d] \in Nat
    BY <1>2 DEF TypeOK
  <2>2. CASE daily[d] > 0
    BY <1>2, <2>2 DEF foldDayInTx, TypeOK
  <2>3. CASE ~(daily[d] > 0)
    <3>1. daily[d] = 0 /\ season' = season
      BY <2>1, <2>3 DEF foldDayInTx
    <3>2. satAdd8(0) = 0
      BY AlmanacConstants DEF satAdd8, MinOf
    <3>3. QED
      BY <1>2, <3>1, <3>2
  <2>4. QED
    BY <2>2, <2>3
<1>3. QED
  BY <1>1, <1>2

\* What a step does to the watermark and to the segments above it.
Accounts ==
    hasWatermark =>
        /\ watermark' >= watermark
        /\ \A d \in Days : watermark < d /\ d <= watermark' =>
              d \in lost' \/ season'[d] = satAdd8(daily[d])

\* A step that leaves the watermark alone passes no day.
LEMMA NoAdvance ==
  ASSUME TypeOK, hasWatermark => watermark' = watermark
  PROVE  Accounts
  BY Constants DEF Accounts, TypeOK

\* A step outside the fold and the prune that touches neither the mark nor the
\* segments keeps everything.
LEMMA MarkUntouched ==
  ASSUME TypeOK, MarkInv, UNCHANGED <<season, markVars, procVars>>
  PROVE  MarkInv' /\ Accounts
<1>1. MarkFold' /\ MarkPrune' /\ MarkSeason' /\ MemNeverAhead'
  BY MarkParts DEF MarkFold, MarkPrune, MarkSeason, MemNeverAhead, markVars, procVars
<1>2. MarkInv'
  BY <1>1, MarkParts DEF MarkInv, MarkFold, MarkPrune, MarkSeason
<1>3. QED
  BY <1>2, NoAdvance DEF markVars

\* Every step keeps the invariant and accounts for the days it passes.
LEMMA MarkStep ==
  ASSUME TypeOK, MarkInv, [Next]_vars
  PROVE  MarkInv' /\ Accounts
<1> DEFINE Parts == MarkFold' /\ MarkPrune' /\ MarkSeason' /\ MemNeverAhead'
<1>a. MarkFold /\ MarkPrune /\ MarkSeason /\ MemNeverAhead
  BY MarkParts
<1>b. Parts => MarkInv'
  BY DEF MarkInv, MarkFold, MarkPrune, MarkSeason
<1>1. ASSUME NEW i \in Ingesters, NEW ts \in clock - almanacLateSpotMaxAge .. clock + FutureSkew,
             ObserveClamp(i, ts)
      PROVE  MarkInv' /\ Accounts
  BY <1>1, MarkUntouched DEF ObserveClamp, tableVars
<1>2. ASSUME NEW i \in Ingesters, ObserveQueue(i)
      PROVE  MarkInv' /\ Accounts
  BY <1>2, MarkUntouched DEF ObserveQueue, tableVars
<1>3. CASE Flush
  <2>1. UNCHANGED <<season, markVars, procVars>>
    BY <1>3 DEF Flush, FlushEmpty, FlushSwap, FlushCommit, FlushFail, FlushUnacked,
                FlushClear, recordFlushSuccess, ApplyBatch, tableVars
  <2>2. QED
    BY <2>1, MarkUntouched
<1>4. CASE FoldStart
  <2>1. Parts
    BY <1>a, <1>4 DEF FoldStart, MarkFold, MarkPrune, MarkSeason, MemNeverAhead, TypeOK, tableVars, markVars
  <2>2. QED
    BY <1>4, <1>b, <2>1, NoAdvance DEF FoldStart, markVars
<1>5. CASE FoldEnsure
  <2>1. utcDayIndex(fold.now) \in Int
    BY DayInt DEF TypeOK
  <2>2. /\ hasWatermark' /\ watermark' \in Int
        /\ hasWatermark => watermark' = watermark
        /\ MarkSeason' /\ MemNeverAhead'
    BY <1>5, <2>1, EnsureMark DEF FoldEnsure, tableVars
  <2>3. MarkFold'
    BY <1>5, <2>2 DEF FoldEnsure, MarkFold, TypeOK
  <2>4. MarkPrune'
    BY <1>5, <1>a, <2>2 DEF FoldEnsure, MarkPrune
  <2>5. QED
    BY <1>b, <2>2, <2>3, <2>4, NoAdvance
<1>6. CASE FoldPublish
  <2>1. hasWatermark /\ fold.w <= watermark
    BY <1>6, <1>a DEF FoldPublish, MarkFold
  <2>2. Parts
    BY <1>a, <1>6, <2>1 DEF FoldPublish, MarkFold, MarkPrune, MarkSeason, MemNeverAhead, TypeOK, tableVars, markVars
  <2>3. QED
    BY <1>6, <1>b, <2>2, NoAdvance DEF FoldPublish, markVars
<1>7. CASE FoldReadPending
  <2>1. Parts
    BY <1>a, <1>7 DEF FoldReadPending, FoldIdle, MarkFold, MarkPrune, MarkSeason, MemNeverAhead, TypeOK, tableVars, markVars
  <2>2. QED
    BY <1>7, <1>b, <2>1, NoAdvance DEF FoldReadPending, markVars
<1>8. CASE FoldReadFlush
  <2>1. Parts
    BY <1>a, <1>8 DEF FoldReadFlush, FoldIdle, MarkFold, MarkPrune, MarkSeason, MemNeverAhead, TypeOK, tableVars, markVars
  <2>2. QED
    BY <1>8, <1>b, <2>1, NoAdvance DEF FoldReadFlush, markVars
<1>9. CASE FoldDay
  <2> DEFINE d == fold.w + 1
  <2>1. d \in Int /\ fold.w \in Int /\ watermark \in Int /\ hasWatermark /\ fold.w <= watermark
    BY <1>9, <1>a DEF FoldDay, MarkFold, TypeOK
  <2>2. CASE watermark >= d
    <3>1. season' = season /\ watermark' = watermark
      BY <1>9, <2>2 DEF FoldDay, tableVars
    <3>2. Parts
      BY <1>a, <1>9, <2>1, <3>1 DEF FoldDay, MarkFold, MarkPrune, MarkSeason, MemNeverAhead, TypeOK
    <3>3. QED
      BY <1>b, <3>1, <3>2, NoAdvance
  <2>3. CASE ~(watermark >= d)
    <3>1. foldDayInTx(d) /\ watermark' = d /\ d = watermark + 1
      <4>1. foldDayInTx(d)
        BY <1>9, <2>3, Zenon DEF FoldDay
      <4>2. watermark' = MaxOf(watermark, d)
        BY <1>9, <2>3, Zenon DEF FoldDay
      <4>3. d = watermark + 1
        BY <2>1, <2>3
      <4>4. watermark' = d
        BY <2>1, <4>2, <4>3 DEF MaxOf
      <4>5. QED
        BY <4>1, <4>3, <4>4
    <3>2. /\ \A e \in Days : e # d => season'[e] = season[e]
          /\ d \in Days /\ season[d] = 0 => season'[d] = satAdd8(daily[d])
      BY <2>1, <3>1, FoldTxSeason
    <3>3. d \in Days => season[d] = 0
      BY <1>a, <2>1, <3>1 DEF MarkSeason
    <3>4. MarkSeason'
      <4>1. ASSUME NEW e \in Days, hasWatermark' => e > watermark'
            PROVE  season'[e] = 0
        <5>1. hasWatermark' /\ e \in Int
          BY <1>9, <2>1, Constants DEF FoldDay
        <5>2. e # d /\ e > watermark
          BY <2>1, <3>1, <4>1, <5>1
        <5>3. QED
          BY <1>a, <3>2, <5>2 DEF MarkSeason
      <4>2. QED
        BY <4>1 DEF MarkSeason
    <3>5. MarkFold' /\ MarkPrune' /\ MemNeverAhead'
      BY <1>a, <1>9, <2>1, <3>1 DEF FoldDay, MarkFold, MarkPrune, MemNeverAhead, TypeOK
    <3>6. Accounts
      <4>1. ASSUME NEW e \in Days, watermark < e, e <= watermark'
            PROVE  season'[e] = satAdd8(daily[e])
        <5>1. e = d
          BY <2>1, <3>1, <4>1, Constants
        <5>2. QED
          BY <3>2, <3>3, <5>1
      <4>2. watermark' >= watermark
        BY <2>1, <3>1
      <4>3. QED
        BY <4>1, <4>2 DEF Accounts
    <3>7. QED
      BY <1>b, <3>4, <3>5, <3>6
  <2>4. QED
    BY <2>2, <2>3
<1>10. CASE FoldFail
  <2>1. Parts
    BY <1>a, <1>10 DEF FoldFail, FoldIdle, MarkFold, MarkPrune, MarkSeason, MemNeverAhead, TypeOK, tableVars, markVars
  <2>2. QED
    BY <1>10, <1>b, <2>1, NoAdvance DEF FoldFail, markVars
<1>11. CASE PruneStart
  <2>1. Parts
    BY <1>a, <1>11 DEF PruneStart, MarkFold, MarkPrune, MarkSeason, MemNeverAhead, TypeOK, tableVars, markVars
  <2>2. QED
    BY <1>11, <1>b, <2>1, NoAdvance DEF PruneStart, markVars
<1>12. ASSUME NEW over \in BOOLEAN, PruneGate(over)
       PROVE  MarkInv' /\ Accounts
  <2>1. utcDayIndex(clock) \in Int
    BY DayInt DEF TypeOK
  <2>2. /\ hasWatermark' /\ watermark' \in Int
        /\ hasWatermark => watermark' = watermark
        /\ MarkSeason' /\ MemNeverAhead'
    BY <1>12, <2>1, EnsureMark DEF PruneGate, tableVars
  <2>3. MarkFold'
    BY <1>12, <1>a, <2>2 DEF PruneGate, MarkFold
  <2>4. MarkPrune'
    BY <1>12, <2>2 DEF PruneGate, MarkPrune
  <2>5. QED
    BY <1>b, <2>2, <2>3, <2>4, NoAdvance
<1>13. CASE PruneForce
  <2>1. watermark \in Int /\ prune.new \in Int /\ hasWatermark /\ hasWatermark' = hasWatermark
    BY <1>13, <1>a DEF PruneForce, MarkPrune, TypeOK
  <2>2. watermark' \in Int /\ watermark' >= watermark /\ watermark' >= prune.new
    BY <1>13, <2>1 DEF PruneForce, MaxOf
  <2>3. MarkFold' /\ MarkPrune' /\ MemNeverAhead'
    BY <1>a, <1>13, <2>1, <2>2 DEF PruneForce, MarkFold, MarkPrune, MemNeverAhead, TypeOK
  <2>4. MarkSeason'
    <3>1. ASSUME NEW e \in Days, hasWatermark' => e > watermark'
          PROVE  season'[e] = 0
      <4>1. e > watermark
        BY <2>1, <2>2, <3>1, Constants
      <4>2. QED
        BY <1>13, <1>a, <4>1 DEF PruneForce, MarkSeason, tableVars
    <3>2. QED
      BY <3>1 DEF MarkSeason
  <2>5. Accounts
    <3>1. ASSUME NEW e \in Days, watermark < e, e <= watermark'
          PROVE  e \in lost'
      <4>1. e <= prune.new
        BY <1>13, <2>1, <3>1, Constants DEF PruneForce, MaxOf
      <4>2. QED
        BY <1>13, <3>1, <4>1 DEF PruneForce, almanacLostDayRange
    <3>2. QED
      BY <2>2, <3>1 DEF Accounts
  <2>6. QED
    BY <1>b, <2>3, <2>4, <2>5
<1>14. CASE PruneAdvance
  <2>1. hasWatermark /\ prune.new <= watermark
    BY <1>14, <1>a DEF PruneAdvance, MarkPrune
  <2>2. MemNeverAhead'
    BY <1>a, <1>14, <2>1 DEF PruneAdvance, MaxOf, MemNeverAhead, TypeOK, markVars
  <2>3. MarkFold' /\ MarkPrune' /\ MarkSeason'
    BY <1>a, <1>14 DEF PruneAdvance, PruneIdle, MarkFold, MarkPrune, MarkSeason, TypeOK, tableVars, markVars
  <2>4. QED
    BY <1>14, <1>b, <2>2, <2>3, NoAdvance DEF PruneAdvance, markVars
<1>15. ASSUME NEW d \in Days, PruneDelete(d)
       PROVE  MarkInv' /\ Accounts
  BY <1>15, MarkUntouched DEF PruneDelete
<1>16. CASE PruneEnd
  <2>1. Parts
    BY <1>a, <1>16 DEF PruneEnd, PruneIdle, MarkFold, MarkPrune, MarkSeason, MemNeverAhead, TypeOK, tableVars, markVars
  <2>2. QED
    BY <1>16, <1>b, <2>1, NoAdvance DEF PruneEnd, markVars
<1>17. CASE Tick
  BY <1>17, MarkUntouched DEF Tick, tableVars
<1>18. CASE Crash
  <2>1. Parts
    BY <1>a, <1>18 DEF Crash, FoldIdle, PruneIdle, MarkFold, MarkPrune, MarkSeason, MemNeverAhead, tableVars, markVars
  <2>2. QED
    BY <1>18, <1>b, <2>1, NoAdvance DEF Crash, markVars
<1>19. CASE UNCHANGED vars
  BY <1>19, MarkUntouched DEF vars, tableVars
<1>20. QED
  BY <1>1, <1>2, <1>3, <1>4, <1>5, <1>6, <1>7, <1>8, <1>9, <1>10, <1>11, <1>12, <1>13, <1>14,
     <1>15, <1>16, <1>17, <1>18, <1>19
  DEF Next, Observe, runOnce, pruneRegionBaselines

\* The watermark that keys the Almanac's caches is never ahead of the one in
\* the database, whatever fold, forced prune, failures and crashes do.
THEOREM MarkCorrect == Spec => []MemNeverAhead
<1>1. Init => TypeOK /\ MarkInv
  BY TypeInit, MarkInit
<1>2. TypeOK /\ MarkInv /\ [Next]_vars => TypeOK' /\ MarkInv'
  BY TypeStep, MarkStep
<1>3. MarkInv => MemNeverAhead
  BY MarkParts
<1>4. QED
  BY <1>1, <1>2, <1>3, PTL DEF Spec

\* The stored watermark never moves back, and every day it passes is folded in
\* that very step or recorded lost, for every interleaving of the fold with a
\* forced prune.
THEOREM WatermarkCorrect == Spec => WatermarkAccounts
<1>1. Init => TypeOK /\ MarkInv
  BY TypeInit, MarkInit
<1>2. TypeOK /\ MarkInv /\ [Next]_vars => TypeOK' /\ MarkInv'
  BY TypeStep, MarkStep
<1>3. TypeOK /\ MarkInv /\ [Next]_vars => [Accounts]_vars
  BY MarkStep
<1>4. Spec => [][Accounts]_vars
  BY <1>1, <1>2, <1>3, PTL DEF Spec
<1>5. QED
  BY <1>4 DEF WatermarkAccounts, Accounts

-----------------------------------------------------------------------------
(* The flusher: when no commit loses its acknowledgement (MaxRepeats = 0),   *)
(* failing flushes neither lose nor repeat a delta.                          *)

\* What the deltas are counted in.
flushVars == <<pending, inflight, flusher, accepted, committed, crashes>>

\* What FlushConserves says of one day.
Conserved(d) ==
    /\ committed[d] + Queued(d) <= accepted[d]
    /\ crashes = 0 => committed[d] + Queued(d) = accepted[d]

\* FlushConserves, day by day.
LEMMA ConservesByDay == FlushConserves <=> \A d \in Days : Conserved(d)
  BY DEF FlushConserves, Conserved

\* At the start everything accepted is committed.
LEMMA FlushInit == Init => FlushConserves
<1> SUFFICES ASSUME Init, NEW d \in Days PROVE Conserved(d)
  BY ConservesByDay
<1>1. daily[d] \in Nat
  BY PreDeployAssumption DEF Init
<1>2. Queued(d) = 0
  BY DEF Init, Queued, Zero
<1>3. QED
  BY <1>1, <1>2 DEF Init, Conserved

\* Steps of the fold, the prune, the clock and the clamp touch no delta.
LEMMA FlushUntouched ==
  ASSUME FlushConserves, UNCHANGED flushVars
  PROVE  FlushConserves'
  BY DEF FlushConserves, Queued, flushVars

\* Every step conserves the deltas of every day.
LEMMA FlushStep ==
  ASSUME MaxRepeats = 0, TypeOK, FlushConserves, [Next]_vars
  PROVE  FlushConserves'
<1>a. \A d \in Days : Conserved(d) /\ pending[d] \in Nat /\ inflight[d] \in Nat
                        /\ committed[d] \in Nat /\ accepted[d] \in Nat
  BY ConservesByDay DEF TypeOK
<1>b. (\A d \in Days : Conserved(d)') => FlushConserves'
  BY DEF FlushConserves, Conserved
<1>1. ASSUME NEW i \in Ingesters, ObserveQueue(i)
      PROVE  FlushConserves'
  <2>1. ASSUME NEW d \in Days PROVE Conserved(d)'
    <3>1. CASE d = obs[i].day
      <4>1. pending'[d] = pending[d] + 1 /\ accepted'[d] = accepted[d] + 1
        BY <1>1, <3>1 DEF ObserveQueue, TypeOK
      <4>2. QED
        BY <1>1, <1>a, <4>1 DEF ObserveQueue, Conserved, Queued
    <3>2. CASE d # obs[i].day
      <4>1. pending'[d] = pending[d] /\ accepted'[d] = accepted[d]
        BY <1>1, <3>2 DEF ObserveQueue, TypeOK
      <4>2. QED
        BY <1>1, <1>a, <4>1 DEF ObserveQueue, Conserved, Queued
    <3>3. QED
      BY <3>1, <3>2
  <2>2. QED
    BY <1>b, <2>1
<1>2. CASE FlushSwap
  <2>1. ASSUME NEW d \in Days PROVE Conserved(d)'
    <3>1. Queued(d)' = pending[d] /\ Queued(d) = pending[d]
      BY <1>2, <1>a DEF FlushSwap, Queued, Zero
    <3>2. QED
      BY <1>2, <1>a, <3>1 DEF FlushSwap, Conserved, histVars
  <2>2. QED
    BY <1>b, <2>1
<1>3. CASE FlushCommit
  <2>1. ASSUME NEW d \in Days PROVE Conserved(d)'
    <3>1. Queued(d) = pending[d] + inflight[d] /\ Queued(d)' = pending[d]
      BY <1>3, <1>a DEF FlushCommit, Queued
    <3>2. committed'[d] = committed[d] + inflight[d]
      BY <1>3 DEF FlushCommit, ApplyBatch
    <3>3. QED
      BY <1>3, <1>a, <3>1, <3>2 DEF FlushCommit, Conserved
  <2>2. QED
    BY <1>b, <2>1
<1>4. CASE FlushFail
  <2>1. ASSUME NEW d \in Days PROVE Conserved(d)'
    <3>1. Queued(d) = pending[d] + inflight[d] /\ Queued(d)' = pending[d] + inflight[d]
      BY <1>4, <1>a DEF FlushFail, mergePendingBack, Queued
    <3>2. QED
      BY <1>4, <1>a, <3>1 DEF FlushFail, Conserved, histVars
  <2>2. QED
    BY <1>b, <2>1
<1>5. CASE FlushUnacked
  <2>1. ASSUME NEW d \in Days PROVE Conserved(d)'
    <3>1. inflight[d] = 0
      BY <1>5, <1>a DEF FlushUnacked
    <3>2. Queued(d) = pending[d] /\ Queued(d)' = pending[d]
      BY <1>5, <1>a, <3>1 DEF FlushUnacked, mergePendingBack, Queued
    <3>3. committed'[d] = committed[d]
      BY <1>5, <1>a, <3>1 DEF FlushUnacked, ApplyBatch
    <3>4. QED
      BY <1>5, <1>a, <3>2, <3>3 DEF FlushUnacked, Conserved
  <2>2. QED
    BY <1>b, <2>1
<1>6. CASE FlushClear
  <2>1. ASSUME NEW d \in Days PROVE Conserved(d)'
    <3>1. Queued(d) = pending[d] /\ Queued(d)' = pending[d]
      BY <1>6, <1>a DEF FlushClear, Queued
    <3>2. QED
      BY <1>6, <1>a, <3>1 DEF FlushClear, Conserved, histVars
  <2>2. QED
    BY <1>b, <2>1
<1>7. CASE recordFlushSuccess
  <2>1. ASSUME NEW d \in Days PROVE Conserved(d)'
    <3>1. Queued(d) = pending[d] /\ Queued(d)' = pending[d]
      BY <1>7, <1>a DEF recordFlushSuccess, Queued
    <3>2. QED
      BY <1>7, <1>a, <3>1 DEF recordFlushSuccess, Conserved, histVars
  <2>2. QED
    BY <1>b, <2>1
<1>8. CASE Crash
  <2>1. ASSUME NEW d \in Days PROVE Conserved(d)'
    <3>1. Queued(d) \in Nat /\ Queued(d)' = 0 /\ crashes' # 0
      BY <1>8, <1>a DEF Crash, Queued, Zero, TypeOK
    <3>2. QED
      BY <1>8, <1>a, <3>1 DEF Crash, Conserved, histVars
  <2>2. QED
    BY <1>b, <2>1
<1>9. ASSUME \/ \E i \in Ingesters, ts \in clock - almanacLateSpotMaxAge .. clock + FutureSkew : ObserveClamp(i, ts)
             \/ FlushEmpty \/ runOnce \/ pruneRegionBaselines \/ Tick \/ UNCHANGED vars
      PROVE  FlushConserves'
  <2>1. UNCHANGED flushVars
    BY <1>9 DEF flushVars, ObserveClamp, FlushEmpty, runOnce, FoldStart, FoldEnsure, FoldPublish,
       FoldReadPending, FoldReadFlush, FoldDay, FoldFail, pruneRegionBaselines, PruneStart,
       PruneGate, PruneForce, PruneAdvance, PruneDelete, PruneEnd, Tick, vars, queueVars, histVars
  <2>2. QED
    BY <2>1, FlushUntouched
<1>10. QED
  BY <1>1, <1>2, <1>3, <1>4, <1>5, <1>6, <1>7, <1>8, <1>9 DEF Next, Observe, Flush

\* Unless the acknowledgement of a commit is lost, no delta that observe()
\* queued is counted twice, and short of a crash none is dropped: whatever
\* arrives while a flush is under way, and however often one fails.
THEOREM FlushCorrect ==
  ASSUME MaxRepeats = 0
  PROVE  Spec => []FlushConserves
<1>1. Init => TypeOK /\ FlushConserves
  BY TypeInit, FlushInit
<1>2. TypeOK /\ FlushConserves /\ [Next]_vars => TypeOK' /\ FlushConserves'
  BY TypeStep, FlushStep
<1>3. QED
  BY <1>1, <1>2, PTL DEF Spec

=============================================================================
