---------------------------- MODULE ServerProofs ----------------------------
(***************************************************************************)
(* Proofs about four parts of the server that share nothing but the        *)
(* process, each for every value of its constants: the live WSPR poller    *)
(* takes each row once (WsprDeduped), a refresh never blanks the baseline  *)
(* pairs (PairsServed), the archive's bundle cache serves honest answers   *)
(* (HistoryHonest), and the push store evicts the oldest and keeps what    *)
(* lives (PushEviction, PushLiveKept).  Each part has its invariant, a     *)
(* lemma for each action that disturbs it, and the theorem.                *)
(***************************************************************************)
EXTENDS WsprLive, BaselinePairs, HistoryApi, PushStore,
        SequenceTheorems, FiniteSetTheorems, WellFoundedInduction, TLAPS

(***************************************************************************)
(* The live WSPR poller.                                                   *)
(***************************************************************************)
\* The types the argument needs.
WlTypeOK ==
    /\ DOMAIN air \subseteq WlIds /\ air \in [DOMAIN air -> [t : Int, kind : WlAllKinds]]
    /\ DOMAIN seen \subseteq WlIds \X Int /\ seen \in [DOMAIN seen -> Int]
    /\ asked \in [at : Int, rows : SUBSET WlIds]
    /\ wsprRows \in [wsprKeys -> Nat]
    /\ forwarded \in [WlIds -> Nat] /\ observed \in [WlIds -> Nat]
    /\ wlNow \in Int /\ unseeded \in Nat

\* A row keeps its key when its time parses.
Parsed(i) == i \in DOMAIN air /\ air[i].kind # "badTime"
RowKey(i) == <<i, air[i].t>>

\* No row is from the future, no key was seen before its own time, and what was
\* counted, stored or seen was uploaded.
WlPast ==
    /\ \A i \in DOMAIN air : air[i].t <= wlNow
    /\ \A k \in DOMAIN seen : seen[k] >= k[2]
    /\ \A k \in wsprKeys : wsprRows[k] > 0 =>
         k[1] \in DOMAIN air /\ k[2] <= wlNow /\ (Parsed(k[1]) => k = RowKey(k[1]))
    /\ \A i \in WlIds : observed[i] > 0 => i \in DOMAIN air

\* The poll in flight is not older than its time-out and holds its window.
PollBounded ==
    asked # NotAsked =>
        /\ wlNow - asked.at <= WlLatency
        /\ asked.rows \subseteq DOMAIN air
        /\ \A i \in asked.rows : air[i].t > asked.at - WlLookback

\* A key of the last two windows.
Recent(i) == air[i].t >= wlNow - wsprSeenTTL

\* A row was counted at most once; if a poll may still bring it again, its key
\* is remembered.
CountedOnce ==
    \A i \in WlIds :
        /\ forwarded[i] <= observed[i]
        /\ Parsed(i) => observed[i] <= 1
        /\ Parsed(i) /\ observed[i] > 0 /\ Recent(i) => RowKey(i) \in DOMAIN seen

\* And it is stored at most once for each start that could not know of it.
KeptOnce ==
    \A i \in WlIds :
        Parsed(i) /\ RowKey(i) \in wsprKeys =>
            /\ wsprRows[RowKey(i)] <= 1 + unseeded
            /\ Recent(i) /\ RowKey(i) \notin DOMAIN seen => wsprRows[RowKey(i)] <= unseeded

\* The inductive invariant of WsprStoredOnce.
WlInv == WlTypeOK /\ WlPast /\ PollBounded /\ CountedOnce /\ KeptOnce

\* The invariant says what the property says.
LEMMA WlInvImplies == WlInv => WsprStoredOnce
<1> SUFFICES ASSUME WlInv, NEW i \in DOMAIN air, air[i].kind # "badTime"
             PROVE  /\ forwarded[i] <= 1 /\ observed[i] <= 1
                    /\ \A k \in wsprKeys : k[1] = i => wsprRows[k] <= 1 + unseeded
  BY DEF WsprStoredOnce
<1>1. i \in WlIds /\ Parsed(i) /\ forwarded[i] \in Nat /\ observed[i] \in Nat
  BY DEF WlInv, WlTypeOK, Parsed
<1>2. forwarded[i] <= observed[i] /\ observed[i] <= 1
  BY <1>1 DEF WlInv, CountedOnce
<1>3. ASSUME NEW k \in wsprKeys, k[1] = i
      PROVE  wsprRows[k] <= 1 + unseeded
  <2>1. wsprRows[k] \in Nat /\ unseeded \in Nat
    BY DEF WlInv, WlTypeOK
  <2>2. CASE wsprRows[k] > 0
    <3>1. k = RowKey(i)
      BY <1>1, <1>3, <2>2 DEF WlInv, WlPast
    <3>2. QED
      BY <1>1, <3>1 DEF WlInv, KeptOnce
  <2>3. QED
    BY <2>1, <2>2
<1>4. QED
  BY <1>1, <1>2, <1>3

\* Nothing was uploaded or seen.
LEMMA WlInvInit == WlInit => WlInv
<1> SUFFICES ASSUME WlInit PROVE WlInv
  OBVIOUS
<1>1. air = <<>> /\ DOMAIN air = {} /\ seen = <<>> /\ DOMAIN seen = {}
  BY DEF WlInit
<1>2. WlTypeOK
  BY <1>1, WlAssumption DEF WlInit, WlTypeOK, NotAsked, NoneYet
<1>3. WlPast /\ PollBounded
  BY <1>1 DEF WlInit, WlPast, PollBounded, NoneYet
<1>4. CountedOnce /\ KeptOnce
  BY <1>1 DEF WlInit, CountedOnce, KeptOnce, NoneYet, Parsed
<1>5. QED
  BY <1>2, <1>3, <1>4 DEF WlInv

\* A new row has not been seen, counted or stored.
LEMMA UploadKeeps ==
  ASSUME WlInv, Upload
  PROVE  WlInv'
<1>1. PICK id \in WlIds \ DOMAIN air, lag \in 0..WlUploadLag, kind \in WlKinds :
         air' = [i \in DOMAIN air \cup {id} |->
                    IF i = id THEN [t |-> wlNow - lag, kind |-> kind] ELSE air[i]]
  BY DEF Upload
<1>2. UNCHANGED <<seen, asked, wsprRows, forwarded, observed, wlNow, unseeded>>
  BY DEF Upload
<1>3. kind \in WlAllKinds /\ lag \in Nat
  BY <1>1, WlAssumption
<1>4. /\ DOMAIN air' = DOMAIN air \cup {id}
      /\ air'[id] = [t |-> wlNow - lag, kind |-> kind]
      /\ \A i \in DOMAIN air : air'[i] = air[i]
  BY <1>1
<1>5. wlNow - lag \in Int /\ wlNow - lag <= wlNow
  BY <1>3 DEF WlInv, WlTypeOK
<1>6. WlTypeOK'
  <2>1. \A i \in DOMAIN air' : air'[i] \in [t : Int, kind : WlAllKinds]
    BY <1>3, <1>4, <1>5 DEF WlInv, WlTypeOK
  <2>2. air' = [i \in DOMAIN air' |-> air'[i]]
    BY <1>1
  <2>3. QED
    BY <1>1, <1>2, <1>4, <2>1, <2>2 DEF WlInv, WlTypeOK
<1>7. WlPast'
  BY <1>1, <1>2, <1>4, <1>5 DEF WlInv, WlPast, Parsed, RowKey
<1>8. PollBounded'
  BY <1>1, <1>2, <1>4 DEF WlInv, PollBounded
<1>9. observed[id] = 0 /\ \A k \in wsprKeys : k[1] = id => wsprRows[k] = 0
  BY <1>1 DEF WlInv, WlTypeOK, WlPast
<1>10. CountedOnce'
  <2> SUFFICES ASSUME NEW i \in WlIds
               PROVE  /\ forwarded[i] <= observed[i]
                      /\ Parsed(i)' => observed[i] <= 1
                      /\ Parsed(i)' /\ observed[i] > 0 /\ Recent(i)' => RowKey(i)' \in DOMAIN seen
    BY <1>2 DEF CountedOnce
  <2>1. CASE i = id
    BY <2>1, <1>9 DEF WlInv, CountedOnce
  <2>2. CASE i # id
    <3>1. Parsed(i)' => Parsed(i) /\ RowKey(i)' = RowKey(i) /\ (Recent(i)' => Recent(i))
      BY <2>2, <1>2, <1>4 DEF Parsed, RowKey, Recent
    <3>2. QED
      BY <3>1 DEF WlInv, CountedOnce
  <2>3. QED
    BY <2>1, <2>2
<1>11. KeptOnce'
  <2> SUFFICES ASSUME NEW i \in WlIds, Parsed(i)', RowKey(i)' \in wsprKeys
               PROVE  /\ wsprRows[RowKey(i)'] <= 1 + unseeded
                      /\ Recent(i)' /\ RowKey(i)' \notin DOMAIN seen => wsprRows[RowKey(i)'] <= unseeded
    BY <1>2 DEF KeptOnce
  <2>1. unseeded \in Nat
    BY DEF WlInv, WlTypeOK
  <2>2. CASE i = id
    <3>1. RowKey(i)'[1] = id
      BY <2>2 DEF RowKey
    <3>2. wsprRows[RowKey(i)'] = 0
      BY <1>9, <3>1
    <3>3. QED
      BY <2>1, <3>2
  <2>3. CASE i # id
    <3>1. Parsed(i) /\ RowKey(i)' = RowKey(i) /\ (Recent(i)' => Recent(i))
      BY <2>3, <1>2, <1>4 DEF Parsed, RowKey, Recent
    <3>2. QED
      BY <3>1 DEF WlInv, KeptOnce
  <2>4. QED
    BY <2>2, <2>3
<1>12. QED
  BY <1>6, <1>7, <1>8, <1>10, <1>11 DEF WlInv

\* Only time passes: what was recent may become old.
LEMMA WlTickKeeps ==
  ASSUME WlInv, WlTick
  PROVE  WlInv'
<1>1. /\ wlNow' = wlNow + 1 /\ (asked # NotAsked => wlNow - asked.at < WlLatency)
      /\ UNCHANGED <<air, seen, asked, wsprRows, forwarded, observed, unseeded>>
  BY DEF WlTick
<1>2. wlNow \in Int /\ wlNow' \in Int
  BY <1>1 DEF WlInv, WlTypeOK
<1>3. WlTypeOK'
  BY <1>1, <1>2 DEF WlInv, WlTypeOK
<1>4. \A x \in Int : x <= wlNow => x <= wlNow + 1
  BY <1>2
<1>5. (\A i \in DOMAIN air : air[i].t \in Int) /\ (\A k \in wsprKeys : k[2] \in Int)
  BY DEF WlInv, WlTypeOK, wsprKeys
<1>6. WlPast'
  BY <1>1, <1>4, <1>5 DEF WlInv, WlPast, Parsed, RowKey
<1>7. PollBounded'
  <2>1. asked.at \in Int /\ WlLatency \in Nat
    BY WlAssumption DEF WlInv, WlTypeOK
  <2>2. wlNow - asked.at < WlLatency => wlNow + 1 - asked.at <= WlLatency
    BY <1>2, <2>1
  <2>3. UNCHANGED <<asked, air>> /\ wlNow' = wlNow + 1
    BY <1>1
  <2>4. NotAsked' = NotAsked /\ WlLatency' = WlLatency /\ WlLookback' = WlLookback
    BY DEF NotAsked
  <2>5. CASE asked = NotAsked
    BY <2>3, <2>4, <2>5 DEF PollBounded
  <2>6. CASE asked # NotAsked
    <3>1. /\ asked.rows \subseteq DOMAIN air
          /\ \A i \in asked.rows : air[i].t > asked.at - WlLookback
      BY <2>6 DEF WlInv, PollBounded
    <3>2. wlNow + 1 - asked.at <= WlLatency
      BY <1>1, <2>2, <2>6
    <3>3. (wlNow - asked.at <= WlLatency)'
      BY <1>2, <2>1, <2>3, <3>2
    <3>4. /\ asked'.rows \subseteq DOMAIN air'
          /\ \A i \in asked'.rows : air'[i].t > asked'.at - WlLookback
      BY <2>3, <3>1
    <3>5. QED
      BY <3>3, <3>4 DEF PollBounded
  <2>7. QED
    BY <2>5, <2>6
<1>8. \A i \in DOMAIN air : Recent(i)' => Recent(i)
  <2>1. wsprSeenTTL \in Int
    BY WlAssumption DEF wsprSeenTTL
  <2>2. \A x \in Int : x >= wlNow + 1 - wsprSeenTTL => x >= wlNow - wsprSeenTTL
    BY <1>2, <2>1
  <2>3. wsprSeenTTL' = wsprSeenTTL
    BY DEF wsprSeenTTL
  <2>4. ASSUME NEW i \in DOMAIN air, Recent(i)'
        PROVE  Recent(i)
    <3>1. air'[i].t >= wlNow' - wsprSeenTTL'
      BY <2>4 DEF Recent
    <3>2. air' = air /\ wlNow' = wlNow + 1
      BY <1>1
    <3>3. air[i].t >= wlNow + 1 - wsprSeenTTL
      BY <1>2, <1>5, <2>1, <2>3, <3>1, <3>2
    <3>4. QED
      BY <1>5, <2>2, <3>3 DEF Recent
  <2>5. QED
    BY <2>4
<1>9. CountedOnce' /\ KeptOnce'
  BY <1>1, <1>8 DEF WlInv, CountedOnce, KeptOnce, Parsed, RowKey
<1>10. QED
  BY <1>3, <1>6, <1>7, <1>9 DEF WlInv

\* The process starts again: what is stored and may come again is in the set,
\* or the failed backfill is counted.
LEMMA WlRestartKeeps ==
  ASSUME WlInv, WlRestart
  PROVE  WlInv'
<1>1. /\ asked' = NotAsked /\ forwarded' = NoneYet /\ observed' = NoneYet
      /\ UNCHANGED <<air, wsprRows, wlNow>>
      /\ \/ seen' = seedFromHistory(wlNow) /\ UNCHANGED unseeded
         \/ seen' = <<>> /\ unseeded' = unseeded + 1
  BY DEF WlRestart
<1>2. wlNow \in Int /\ unseeded \in Nat /\ unseeded' \in Nat /\ unseeded' >= unseeded
  BY <1>1 DEF WlInv, WlTypeOK
<1>3. \/ /\ DOMAIN seen' = {x \in wsprKeys : wsprRows[x] > 0 /\ x[2] >= wlNow - wsprSeenTTL}
         /\ \A k \in DOMAIN seen' : seen'[k] = wlNow
         /\ seen' \in [DOMAIN seen' -> Int] /\ unseeded' = unseeded
      \/ DOMAIN seen' = {} /\ seen' \in [DOMAIN seen' -> Int] /\ unseeded' = unseeded + 1
  <2>1. CASE seen' = seedFromHistory(wlNow) /\ UNCHANGED unseeded
    <3> DEFINE S == {x \in wsprKeys : wsprRows[x] > 0 /\ x[2] >= wlNow - wsprSeenTTL}
    <3>1. seen' = [k \in S |-> wlNow]
      BY <2>1 DEF seedFromHistory
    <3> HIDE DEF S
    <3>2. DOMAIN seen' = S /\ (\A k \in S : seen'[k] = wlNow) /\ seen' \in [S -> Int]
      BY <1>2, <3>1
    <3>3. QED
      BY <2>1, <3>2 DEF S
  <2>2. CASE seen' = <<>> /\ unseeded' = unseeded + 1
    BY <2>2
  <2>3. QED
    BY <1>1, <2>1, <2>2
<1>4. DOMAIN seen' \subseteq WlIds \X Int
  BY <1>3 DEF wsprKeys
<1>5. WlTypeOK'
  <2>1. asked' \in [at : Int, rows : SUBSET WlIds] /\ forwarded' \in [WlIds -> Nat] /\ observed' \in [WlIds -> Nat]
    BY <1>1 DEF NotAsked, NoneYet
  <2>2. QED
    BY <1>1, <1>2, <1>3, <1>4, <2>1 DEF WlInv, WlTypeOK
<1>6. WlPast'
  <2>1. \A k \in DOMAIN seen' : seen'[k] >= k[2]
    BY <1>3 DEF WlInv, WlPast
  <2>2. \A i \in WlIds : observed'[i] = 0
    BY <1>1 DEF NoneYet
  <2>3. QED
    BY <1>1, <2>1, <2>2 DEF WlInv, WlPast, Parsed, RowKey
<1>7. PollBounded' /\ CountedOnce'
  BY <1>1 DEF PollBounded, CountedOnce, NoneYet
<1>8. KeptOnce'
  <2> SUFFICES ASSUME NEW i \in WlIds, Parsed(i), RowKey(i) \in wsprKeys
               PROVE  /\ wsprRows[RowKey(i)] <= 1 + unseeded'
                      /\ Recent(i) /\ RowKey(i) \notin DOMAIN seen' => wsprRows[RowKey(i)] <= unseeded'
    BY <1>1 DEF KeptOnce, Parsed, RowKey, Recent
  <2>1. wsprRows[RowKey(i)] \in Nat /\ wsprRows[RowKey(i)] <= 1 + unseeded
    BY DEF WlInv, WlTypeOK, KeptOnce
  <2>2. wsprRows[RowKey(i)] <= 1 + unseeded'
    BY <1>2, <2>1
  <2>3. ASSUME Recent(i), RowKey(i) \notin DOMAIN seen'
        PROVE  wsprRows[RowKey(i)] <= unseeded'
    <3>1. CASE unseeded' = unseeded + 1
      BY <3>1, <1>2, <2>1
    <3>2. CASE DOMAIN seen' = {x \in wsprKeys : wsprRows[x] > 0 /\ x[2] >= wlNow - wsprSeenTTL}
      <4>1. RowKey(i)[2] >= wlNow - wsprSeenTTL
        BY <2>3 DEF RowKey, Recent
      <4>2. ~(wsprRows[RowKey(i)] > 0)
        BY <2>3, <3>2, <4>1
      <4>3. QED
        BY <1>2, <2>1, <4>2
    <3>3. QED
      BY <1>3, <3>1, <3>2
  <2>4. QED
    BY <2>2, <2>3
<1>9. QED
  BY <1>5, <1>6, <1>7, <1>8 DEF WlInv

\* The rows of a poll arrive: a row that was counted or stored before is still
\* in the set after the prune, because the poll is not older than its time-out.
LEMMA FetchKeeps ==
  ASSUME WlInv, fetchWSPRSpots
  PROVE  WlInv'
<1> DEFINE held == wsprPrune(wlNow)
           new == {i \in asked.rows : wsprMessageFromRow(i) /\ wsprKeyFor(i, wlNow) \notin DOMAIN held}
           keys == {wsprKeyFor(i, wlNow) : i \in new}
<1>1. /\ asked # NotAsked /\ asked' = NotAsked
      /\ seen' = [k \in DOMAIN held \cup keys |-> IF k \in keys THEN wlNow ELSE held[k]]
      /\ UNCHANGED <<air, wlNow, unseeded>>
  BY DEF fetchWSPRSpots
<1>2. PICK failing \in SUBSET new :
        /\ wsprRows' = [k \in wsprKeys |->
              wsprRows[k] + IF k[1] \in new \ failing /\ wsprKeyFor(k[1], wlNow) = k THEN 1 ELSE 0]
        /\ observed' = [i \in WlIds |-> observed[i] + IF i \in new THEN 1 ELSE 0]
        /\ forwarded' = [i \in WlIds |-> forwarded[i] + IF i \in new /\ isWSPRSpotUsableForLive(i) THEN 1 ELSE 0]
  BY DEF fetchWSPRSpots, ingestWSPRMessage
<1>3. DOMAIN held = {x \in DOMAIN seen : seen[x] >= wlNow - wsprSeenTTL} /\ \A k \in DOMAIN held : held[k] = seen[k]
  BY DEF wsprPrune
<1>4. wlNow \in Int /\ unseeded \in Nat /\ new \subseteq DOMAIN air /\ DOMAIN air \subseteq WlIds /\ new \subseteq asked.rows
  BY <1>1 DEF WlInv, WlTypeOK, PollBounded
<1>5. \A i \in DOMAIN air : air[i].t \in Int /\ air[i].t <= wlNow
  BY DEF WlInv, WlTypeOK, WlPast
<1>6. \A i \in DOMAIN air : /\ wsprKeyFor(i, wlNow) \in WlIds \X Int /\ wsprKeyFor(i, wlNow)[2] <= wlNow
                            /\ wsprKeyFor(i, wlNow)[1] = i
                            /\ Parsed(i) => wsprKeyFor(i, wlNow) = RowKey(i)
  BY <1>4, <1>5 DEF wsprKeyFor, wsprMessageTime, Parsed, RowKey
<1>7. \A i \in new : wsprKeyFor(i, wlNow) \notin DOMAIN held
  OBVIOUS
<1>8. \A k \in keys : k[1] \in DOMAIN air /\ k[2] <= wlNow /\ k \in WlIds \X Int
  BY <1>4, <1>6
<1>9. \A i \in new : wsprKeyFor(i, wlNow) \in keys
  OBVIOUS
<1> HIDE DEF held, new, keys
<1>10. \A i \in new : Parsed(i) => Recent(i) /\ RowKey(i) \notin DOMAIN seen
  <2> TAKE i \in new
  <2> HAVE Parsed(i)
  <2>1. asked.at \in Int /\ wlNow - asked.at <= WlLatency /\ air[i].t > asked.at - WlLookback
    BY <1>1, <1>4 DEF WlInv, WlTypeOK, PollBounded
  <2>2. WlLookback \in Nat /\ WlLatency \in Nat /\ WlLatency <= WlLookback
    BY WlAssumption
  <2>3. air[i].t \in Int /\ air[i].t >= wlNow - 2 * WlLookback
    BY <1>4, <1>5, <2>1, <2>2
  <2>4. Recent(i)
    BY <2>3 DEF Recent, wsprSeenTTL
  <2>5. ASSUME RowKey(i) \in DOMAIN seen PROVE FALSE
    <3>1. seen[RowKey(i)] >= air[i].t /\ seen[RowKey(i)] \in Int
      BY <2>5 DEF WlInv, WlPast, WlTypeOK, RowKey
    <3>2. seen[RowKey(i)] >= wlNow - wsprSeenTTL
      <4>1. wsprSeenTTL \in Int /\ air[i].t >= wlNow - wsprSeenTTL
        BY <2>2, <2>4 DEF Recent, wsprSeenTTL
      <4>2. QED
        BY <1>4, <2>3, <3>1, <4>1
    <3>3. RowKey(i) \in DOMAIN held
      BY <1>3, <2>5, <3>2
    <3>4. QED
      BY <1>4, <1>6, <1>7, <3>3
  <2>6. QED
    BY <2>4, <2>5
<1>11. \A i \in DOMAIN air : Recent(i) /\ RowKey(i) \in DOMAIN seen => RowKey(i) \in DOMAIN held
  <2> TAKE i \in DOMAIN air
  <2> HAVE Recent(i) /\ RowKey(i) \in DOMAIN seen
  <2>1. seen[RowKey(i)] >= air[i].t /\ seen[RowKey(i)] \in Int /\ wsprSeenTTL \in Int
    BY WlAssumption DEF WlInv, WlPast, WlTypeOK, RowKey, wsprSeenTTL
  <2>2. air[i].t >= wlNow - wsprSeenTTL /\ air[i].t \in Int
    BY <1>5 DEF Recent
  <2>3. seen[RowKey(i)] >= wlNow - wsprSeenTTL
    BY <1>4, <2>1, <2>2
  <2>4. QED
    BY <1>3, <2>3
<1>12. DOMAIN seen' = DOMAIN held \cup keys /\ \A k \in DOMAIN seen' : seen'[k] = IF k \in keys THEN wlNow ELSE seen[k]
  BY <1>1, <1>3
<1>13. WlTypeOK'
  <2>1. DOMAIN seen' \subseteq WlIds \X Int
    BY <1>3, <1>8, <1>12 DEF WlInv, WlTypeOK
  <2>2. seen' \in [DOMAIN seen' -> Int]
    <3>1. seen' = [k \in DOMAIN seen' |-> seen'[k]]
      BY <1>1
    <3>2. \A k \in DOMAIN seen' : seen'[k] \in Int
      BY <1>3, <1>4, <1>12 DEF WlInv, WlTypeOK
    <3>3. QED
      BY <3>1, <3>2
  <2>3. wsprRows' \in [wsprKeys -> Nat] /\ observed' \in [WlIds -> Nat] /\ forwarded' \in [WlIds -> Nat]
    BY <1>2 DEF WlInv, WlTypeOK
  <2>4. asked' \in [at : Int, rows : SUBSET WlIds]
    BY <1>1 DEF NotAsked
  <2>5. QED
    BY <1>1, <2>1, <2>2, <2>3, <2>4 DEF WlInv, WlTypeOK
<1>14. WlPast'
  <2>1. \A k \in DOMAIN seen' : seen'[k] >= k[2]
    <3> TAKE k \in DOMAIN seen'
    <3>1. CASE k \in keys
      BY <3>1, <1>4, <1>8, <1>12
    <3>2. CASE k \notin keys
      BY <3>2, <1>3, <1>12 DEF WlInv, WlPast
    <3>3. QED
      BY <3>1, <3>2
  <2>2. ASSUME NEW k \in wsprKeys, wsprRows'[k] > 0
        PROVE  k[1] \in DOMAIN air /\ k[2] <= wlNow /\ (Parsed(k[1]) => k = RowKey(k[1]))
    <3>1. wsprRows[k] \in Nat
      BY DEF WlInv, WlTypeOK
    <3>2. CASE wsprRows[k] > 0
      BY <3>2 DEF WlInv, WlPast
    <3>3. CASE ~(wsprRows[k] > 0)
      <4>1. k[1] \in new \ failing /\ wsprKeyFor(k[1], wlNow) = k
        BY <1>2, <2>2, <3>1, <3>3
      <4>2. QED
        BY <4>1, <1>4, <1>6
    <3>4. QED
      BY <3>2, <3>3
  <2>3. ASSUME NEW i \in WlIds, observed'[i] > 0
        PROVE  i \in DOMAIN air
    <3>1. CASE i \in new
      BY <3>1, <1>4
    <3>2. CASE i \notin new
      <4>1. observed'[i] = observed[i]
        BY <3>2, <1>2 DEF WlInv, WlTypeOK
      <4>2. QED
        BY <2>3, <4>1 DEF WlInv, WlPast
    <3>3. QED
      BY <3>1, <3>2
  <2>4. \A i \in DOMAIN air' : air'[i].t <= wlNow'
    BY <1>1, <1>5
  <2>5. QED
    BY <1>1, <2>1, <2>2, <2>3, <2>4 DEF WlPast, Parsed, RowKey
<1>15. PollBounded'
  BY <1>1 DEF PollBounded
<1>16. CountedOnce'
  <2> SUFFICES ASSUME NEW i \in WlIds
               PROVE  /\ forwarded'[i] <= observed'[i]
                      /\ Parsed(i) => observed'[i] <= 1
                      /\ Parsed(i) /\ observed'[i] > 0 /\ Recent(i) => RowKey(i) \in DOMAIN seen'
    BY <1>1 DEF CountedOnce, Parsed, RowKey, Recent
  <2>1. forwarded[i] \in Nat /\ observed[i] \in Nat /\ forwarded[i] <= observed[i]
    BY DEF WlInv, WlTypeOK, CountedOnce
  <2>2. CASE i \in new
    <3>1. /\ observed'[i] = observed[i] + 1
          /\ forwarded'[i] = forwarded[i] + 1 \/ forwarded'[i] = forwarded[i]
      BY <1>2, <2>1, <2>2
    <3>2. Parsed(i) => ~(observed[i] > 0)
      BY <1>10, <2>2 DEF WlInv, CountedOnce
    <3>3. Parsed(i) => RowKey(i) \in DOMAIN seen'
      BY <1>4, <1>6, <1>9, <1>12, <2>2
    <3>4. QED
      BY <2>1, <3>1, <3>2, <3>3
  <2>3. CASE i \notin new
    <3>1. observed'[i] = observed[i] /\ forwarded'[i] = forwarded[i]
      BY <1>2, <2>1, <2>3
    <3>2. Parsed(i) /\ observed[i] > 0 /\ Recent(i) => RowKey(i) \in DOMAIN seen'
      BY <1>11, <1>12 DEF WlInv, CountedOnce, Parsed
    <3>3. QED
      BY <2>1, <3>1, <3>2 DEF WlInv, CountedOnce
  <2>4. QED
    BY <2>2, <2>3
<1>17. KeptOnce'
  <2> SUFFICES ASSUME NEW i \in WlIds, Parsed(i), RowKey(i) \in wsprKeys
               PROVE  /\ wsprRows'[RowKey(i)] <= 1 + unseeded
                      /\ Recent(i) /\ RowKey(i) \notin DOMAIN seen' => wsprRows'[RowKey(i)] <= unseeded
    BY <1>1 DEF KeptOnce, Parsed, RowKey, Recent
  <2>1. wsprRows[RowKey(i)] \in Nat /\ wsprRows[RowKey(i)] <= 1 + unseeded
    BY DEF WlInv, WlTypeOK, KeptOnce
  <2>2. i \in DOMAIN air /\ wsprKeyFor(i, wlNow) = RowKey(i) /\ RowKey(i)[1] = i
    BY <1>6 DEF Parsed, RowKey
  <2>3. CASE i \in new
    <3>1. wsprRows[RowKey(i)] <= unseeded
      BY <1>10, <2>3 DEF WlInv, KeptOnce
    <3>2. RowKey(i) \in DOMAIN seen'
      BY <1>9, <1>12, <2>2, <2>3
    <3>3. wsprRows'[RowKey(i)] <= wsprRows[RowKey(i)] + 1
      <4>1. wsprRows'[RowKey(i)] = wsprRows[RowKey(i)] + 1 \/ wsprRows'[RowKey(i)] = wsprRows[RowKey(i)] + 0
        BY <1>2
      <4>2. QED
        BY <2>1, <4>1
    <3>4. wsprRows'[RowKey(i)] \in Nat
      BY <1>13 DEF WlTypeOK
    <3>5. QED
      BY <1>4, <2>1, <3>1, <3>2, <3>3, <3>4
  <2>4. CASE i \notin new
    <3>1. wsprRows'[RowKey(i)] = wsprRows[RowKey(i)]
      BY <1>2, <2>1, <2>2, <2>4
    <3>2. Recent(i) /\ RowKey(i) \notin DOMAIN seen' => RowKey(i) \notin DOMAIN seen
      BY <1>11, <1>12, <2>2
    <3>3. QED
      BY <2>1, <3>1, <3>2 DEF WlInv, KeptOnce
  <2>5. QED
    BY <2>3, <2>4
<1>18. QED
  BY <1>13, <1>14, <1>15, <1>16, <1>17 DEF WlInv

\* Every step keeps the invariant.
LEMMA WlInvStep == WlInv /\ [WlNext]_wlVars => WlInv'
<1> SUFFICES ASSUME WlInv, [WlNext]_wlVars PROVE WlInv'
  OBVIOUS
<1>1. CASE startWSPRIngest
  <2>1. /\ asked' = [at |-> wlNow, rows |-> {i \in DOMAIN air : air[i].t > wlNow - WlLookback}]
        /\ UNCHANGED <<air, seen, wsprRows, forwarded, observed, wlNow, unseeded>>
    BY <1>1 DEF startWSPRIngest
  <2>2. asked' \in [at : Int, rows : SUBSET WlIds]
    BY <2>1 DEF WlInv, WlTypeOK
  <2>3. WlTypeOK' /\ WlPast' /\ CountedOnce' /\ KeptOnce'
    BY <2>1, <2>2 DEF WlInv, WlTypeOK, WlPast, CountedOnce, KeptOnce, Parsed, RowKey, Recent
  <2>4. PollBounded'
    <3>1. wlNow - wlNow <= WlLatency
      BY WlAssumption DEF WlInv, WlTypeOK
    <3>2. QED
      BY <2>1, <3>1 DEF PollBounded
  <2>5. QED
    BY <2>3, <2>4 DEF WlInv
<1>2. CASE PollFails
  <2>1. asked' = NotAsked /\ UNCHANGED <<air, seen, wsprRows, forwarded, observed, wlNow, unseeded>>
    BY <1>2 DEF PollFails
  <2>2. asked' \in [at : Int, rows : SUBSET WlIds] /\ PollBounded'
    BY <2>1 DEF NotAsked, PollBounded
  <2>3. QED
    BY <2>1, <2>2 DEF WlInv, WlTypeOK, WlPast, CountedOnce, KeptOnce, Parsed, RowKey, Recent
<1>3. CASE UNCHANGED wlVars
  BY <1>3 DEF wlVars, WlInv, WlTypeOK, WlPast, PollBounded, CountedOnce, KeptOnce, Parsed, RowKey, Recent
<1>4. QED
  BY <1>1, <1>2, <1>3, UploadKeeps, FetchKeeps, WlTickKeeps, WlRestartKeeps DEF WlNext

\* For every look-back window, poll time-out and upload lag, whatever polls
\* overlap with late uploads, failed inserts and restarts: a row whose time
\* parses is broadcast and counted at most once by a process, and stored at most
\* once more for each start that could not read its history.
THEOREM WsprDeduped == WlSpec => []WsprStoredOnce
BY WlInvInit, WlInvStep, WlInvImplies, PTL DEF WlSpec

(***************************************************************************)
(* The cache of baseline indexes.                                          *)
(***************************************************************************)
\* A time, or Absent.
BpTimes == Nat \cup {Absent}
\* An entry, and what a request holds.
BpEntry == [at : BpTimes, failAt : BpTimes]
BpReq == [st : {"idle", "wait", "load", "next"}, key : bpKeys, obj : Nat, now : Nat]

\* The types the argument needs.
BpTypeOK ==
    /\ objects \in Seq(BpEntry)
    /\ DOMAIN pairs \subseteq bpKeys /\ IsFiniteSet(DOMAIN pairs)
    /\ pairs \in [DOMAIN pairs -> 1..Len(objects)]
    /\ bpReqs \in [BpRequests -> BpReq]
    /\ loadedAt \in [bpKeys -> BpTimes]
    /\ bpNow \in Nat

\* No two keys have the same entry, and the entry a request holds is that of
\* its own key or of none.
OwnEntry ==
    /\ \A k, o \in DOMAIN pairs : pairs[k] = pairs[o] => k = o
    /\ \A r \in BpRequests : bpReqs[r].st \in {"wait", "load"} =>
         /\ bpReqs[r].obj \in 1..Len(objects)
         /\ \A k \in DOMAIN pairs : pairs[k] = bpReqs[r].obj => k = bpReqs[r].key

\* The entry of a key carries the time it was last loaded.
LoadedShown == \A k \in DOMAIN pairs : objects[pairs[k]].at = loadedAt[k]

\* The inductive invariant of PairsNeverBlank.
BpInv == BpTypeOK /\ OwnEntry /\ LoadedShown /\ PairsNeverBlank

\* A non-empty set of natural numbers has a smallest element.
LEMMA SmallestOf ==
  ASSUME NEW T, T \subseteq Nat, T # {}
  PROVE  \E x \in T : \A y \in T : x <= y
<1> DEFINE R == {p \in Nat \X Nat : p[1] < p[2]}
<1>1. R = OpToRel(<, Nat)
  BY DEF OpToRel
<1>2. IsWellFoundedOn(R, Nat)
  BY <1>1, NatLessThanWellFounded
<1> HIDE DEF R
<1>3. PICK x \in T : \A y \in T : ~(<<y, x>> \in R)
  BY <1>2, WFMin
<1>4. \A y \in T : <<y, x>> \in Nat \X Nat /\ ~(y < x)
  BY <1>3 DEF R
<1>5. \A p, q \in Nat : ~(q < p) => p <= q
  OBVIOUS
<1>6. x \in Nat /\ \A y \in T : y \in Nat
  BY <1>3
<1>7. \A y \in T : x <= y
  BY <1>4, <1>5, <1>6
<1>8. QED
  BY <1>3, <1>7

\* Times are ordered as the natural numbers from Absent on are.
LEMMA FromAbsent ==
  /\ \A t \in BpTimes : t - Absent \in Nat
  /\ \A t, u \in BpTimes : t - Absent <= u - Absent => t <= u
BY DEF BpTimes, Absent

\* Some cluster can be displaced whenever the cache holds one.
LEMMA VictimFound ==
  ASSUME BpTypeOK, DOMAIN pairs \ {""} # {}
  PROVE  victims # {}
<1> DEFINE age(k) == objects[pairs[k]].at - Absent
           T == {age(k) : k \in DOMAIN pairs \ {""}}
<1>1. \A k \in DOMAIN pairs : objects[pairs[k]].at \in BpTimes
  <2> TAKE k \in DOMAIN pairs
  <2>1. objects[pairs[k]] \in BpEntry
    BY ElementOfSeq DEF BpTypeOK
  <2>2. QED
    BY <2>1 DEF BpEntry
<1>2. \A k \in DOMAIN pairs : age(k) \in Nat
  BY <1>1, FromAbsent
<1>3. T \subseteq Nat /\ T # {}
  BY <1>2
<1>4. PICK x \in T : \A y \in T : x <= y
  BY <1>3, SmallestOf
<1>5. PICK k \in DOMAIN pairs \ {""} : x = age(k)
  BY <1>4
<1>6. \A o \in DOMAIN pairs \ {""} : age(k) <= age(o)
  BY <1>4, <1>5
<1>7. \A o \in DOMAIN pairs \ {""} : objects[pairs[k]].at <= objects[pairs[o]].at
  BY <1>1, <1>5, <1>6, FromAbsent
<1>8. QED
  BY <1>5, <1>7 DEF victims

\* Nothing is cached at first.
LEMMA BpInvInit == BpInit => BpInv
<1> SUFFICES ASSUME BpInit PROVE BpInv
  OBVIOUS
<1>1. pairs = <<>> /\ DOMAIN pairs = {} /\ objects = <<>>
  BY DEF BpInit
<1>2. IsFiniteSet(DOMAIN pairs) /\ Cardinality(DOMAIN pairs) = 0
  BY <1>1, FS_EmptySet
<1>3. objects \in Seq(BpEntry) /\ pairs \in [DOMAIN pairs -> 1..Len(objects)]
  BY <1>1
<1>4. bpReqs \in [BpRequests -> BpReq] /\ loadedAt \in [bpKeys -> BpTimes] /\ bpNow \in Nat
  BY DEF BpInit, BpIdle, BpReq, BpTimes, bpKeys
<1>5. OwnEntry
  BY <1>1 DEF BpInit, BpIdle, OwnEntry
<1>6. PairsNeverBlank
  <2>1. BpMaxClusters \in Nat
    BY BpAssumption
  <2>2. \A n \in Nat : 0 <= n + 1
    OBVIOUS
  <2>3. QED
    BY <1>2, <2>1, <2>2 DEF BpInit, PairsNeverBlank
<1>7. QED
  BY <1>1, <1>2, <1>3, <1>4, <1>5, <1>6 DEF BpInv, BpTypeOK, LoadedShown

\* A request takes the entry of a key. A new entry is nobody else's, and it
\* displaces a cluster when the cache is full.
LEMMA EntryKeeps ==
  ASSUME BpInv, NEW r \in BpRequests, NEW key \in bpKeys, NEW now \in Nat, entry(r, key, now),
         UNCHANGED <<blanks, bpNow>>
  PROVE  BpInv'
<1>1. CASE key \in DOMAIN pairs
  <2>1. bpReqs' = [bpReqs EXCEPT ![r] = [st |-> "wait", key |-> key, obj |-> pairs[key], now |-> now]]
        /\ UNCHANGED <<pairs, objects, loadedAt>>
    BY <1>1 DEF entry
  <2>2. Len(objects) \in Nat
    BY LenProperties DEF BpInv, BpTypeOK
  <2> DEFINE q == [st |-> "wait", key |-> key, obj |-> pairs[key], now |-> now]
  <2>3. q \in BpReq /\ q.obj \in 1..Len(objects) /\ q.obj = pairs[key] /\ q.key = key
    BY <1>1, <2>2 DEF BpInv, BpTypeOK, BpReq
  <2>4. bpReqs' = [bpReqs EXCEPT ![r] = q]
    BY <2>1
  <2> HIDE DEF q
  <2>5. bpReqs' \in [BpRequests -> BpReq] /\ \A o \in BpRequests : bpReqs'[o] = IF o = r THEN q ELSE bpReqs[o]
    BY <2>3, <2>4 DEF BpInv, BpTypeOK
  <2>6. OwnEntry'
    BY <1>1, <2>1, <2>3, <2>5 DEF BpInv, OwnEntry
  <2>7. QED
    BY <2>1, <2>5, <2>6 DEF BpInv, BpTypeOK, LoadedShown, PairsNeverBlank
<1>2. CASE key \notin DOMAIN pairs
  <2> DEFINE e == [at |-> Absent, failAt |-> Absent]
  <2>1. PICK out \in IF Cardinality(DOMAIN pairs) > BpMaxClusters /\ victims # {}
                     THEN {{v} : v \in victims} ELSE {{}} :
           /\ objects' = Append(objects, e)
           /\ pairs' = [k \in (DOMAIN pairs \ out) \cup {key} |->
                            IF k = key THEN Len(objects') ELSE pairs[k]]
           /\ loadedAt' = [k \in bpKeys |-> IF k \in out \cup {key} THEN Absent ELSE loadedAt[k]]
           /\ bpReqs' = [bpReqs EXCEPT ![r] =
                            [st |-> "wait", key |-> key, obj |-> Len(objects'), now |-> now]]
    BY <1>2 DEF entry
  <2>2. e \in BpEntry /\ e.at = Absent
    BY DEF BpEntry, BpTimes
  <2>3. objects \in Seq(BpEntry) /\ Len(objects) \in Nat
    BY LenProperties DEF BpInv, BpTypeOK
  <2> HIDE DEF e
  <2>4. /\ objects' \in Seq(BpEntry) /\ Len(objects') = Len(objects) + 1
        /\ objects'[Len(objects) + 1] = e /\ \A i \in 1..Len(objects) : objects'[i] = objects[i]
    BY <2>1, <2>2, <2>3, AppendProperties
  <2>5. /\ Len(objects') \in 1..Len(objects') /\ Len(objects') \in Nat /\ Len(objects') \notin 1..Len(objects)
        /\ \A i \in 1..Len(objects) : i \in 1..Len(objects')
    BY <2>3, <2>4
  <2>6. /\ DOMAIN pairs' = (DOMAIN pairs \ out) \cup {key} /\ pairs'[key] = Len(objects')
        /\ \A k \in DOMAIN pairs \ out : pairs'[k] = pairs[k] /\ pairs[k] \in 1..Len(objects)
    BY <1>2, <2>1 DEF BpInv, BpTypeOK
  <2>7. pairs' \in [DOMAIN pairs' -> 1..Len(objects')]
    <3>1. pairs' = [k \in DOMAIN pairs' |-> pairs'[k]]
      BY <2>1
    <3>2. \A k \in DOMAIN pairs' : pairs'[k] \in 1..Len(objects')
      BY <2>5, <2>6
    <3>3. QED
      BY <3>1, <3>2
  <2>8. out \subseteq DOMAIN pairs
    BY <2>1 DEF victims
  <2>9. IsFiniteSet(DOMAIN pairs \ out) /\ IsFiniteSet(DOMAIN pairs') /\ DOMAIN pairs' \subseteq bpKeys
    <3>1. IsFiniteSet(DOMAIN pairs) /\ DOMAIN pairs \ out \in SUBSET DOMAIN pairs
      BY DEF BpInv, BpTypeOK
    <3>2. IsFiniteSet(DOMAIN pairs \ out)
      BY <3>1, FS_Subset
    <3>3. IsFiniteSet(DOMAIN pairs')
      <4>1. IsFiniteSet((DOMAIN pairs \ out) \cup {key})
        BY <3>2, FS_AddElement
      <4>2. QED
        BY <2>6, <4>1
    <3>4. DOMAIN pairs' \subseteq bpKeys
      BY <2>6 DEF BpInv, BpTypeOK
    <3>5. QED
      BY <3>2, <3>3, <3>4
  <2>10. Cardinality(DOMAIN pairs') <= BpMaxClusters + 1
    <3>1. Cardinality(DOMAIN pairs) \in Nat /\ BpMaxClusters \in Nat \ {0} /\ Cardinality(DOMAIN pairs) <= BpMaxClusters + 1
      BY BpAssumption, FS_CardinalityType DEF BpInv, BpTypeOK, PairsNeverBlank
    <3>2. Cardinality(DOMAIN pairs') = Cardinality(DOMAIN pairs \ out) + 1
      BY <1>2, <2>6, <2>9, FS_AddElement
    <3>3. CASE Cardinality(DOMAIN pairs) > BpMaxClusters
      <4>1. DOMAIN pairs \ {""} # {}
        <5>1. SUFFICES ASSUME DOMAIN pairs \subseteq {""} PROVE FALSE
          OBVIOUS
        <5>2. IsFiniteSet({""}) /\ Cardinality({""}) = 1
          BY FS_Singleton
        <5>3. Cardinality(DOMAIN pairs) <= 1
          BY <5>1, <5>2, FS_Subset
        <5>4. QED
          BY <3>1, <3>3, <5>3
      <4>2. victims # {}
        BY <4>1, VictimFound DEF BpInv
      <4>3. PICK v \in victims : out = {v}
        BY <2>1, <3>3, <4>2
      <4>4. v \in DOMAIN pairs
        BY <4>3 DEF victims
      <4>5. Cardinality(DOMAIN pairs \ out) = Cardinality(DOMAIN pairs) - 1
        BY <4>3, <4>4, FS_RemoveElement DEF BpInv, BpTypeOK
      <4>6. QED
        BY <3>1, <3>2, <4>5
    <3>4. CASE ~(Cardinality(DOMAIN pairs) > BpMaxClusters)
      <4>1. out = {}
        BY <2>1, <3>4
      <4>2. DOMAIN pairs \ out = DOMAIN pairs
        BY <4>1
      <4>3. QED
        BY <3>1, <3>2, <3>4, <4>2
    <3>5. QED
      BY <3>3, <3>4
  <2> DEFINE q == [st |-> "wait", key |-> key, obj |-> Len(objects'), now |-> now]
  <2>11. q \in BpReq /\ q.obj = Len(objects') /\ q.key = key
    BY <2>5 DEF BpReq
  <2>12. bpReqs' = [bpReqs EXCEPT ![r] = q]
    BY <2>1
  <2> HIDE DEF q
  <2>13. bpReqs' \in [BpRequests -> BpReq] /\ \A o \in BpRequests : bpReqs'[o] = IF o = r THEN q ELSE bpReqs[o]
    BY <2>11, <2>12 DEF BpInv, BpTypeOK
  <2>14. loadedAt' \in [bpKeys -> BpTimes]
    BY <2>1 DEF BpInv, BpTypeOK, BpTimes
  <2>15. OwnEntry'
    <3>1. \A k, o \in DOMAIN pairs' : pairs'[k] = pairs'[o] => k = o
      BY <2>5, <2>6 DEF BpInv, OwnEntry
    <3>2. ASSUME NEW o \in BpRequests, bpReqs'[o].st \in {"wait", "load"}
          PROVE  /\ bpReqs'[o].obj \in 1..Len(objects')
                 /\ \A k \in DOMAIN pairs' : pairs'[k] = bpReqs'[o].obj => k = bpReqs'[o].key
      <4>1. CASE o = r
        BY <4>1, <2>5, <2>6, <2>11, <2>13
      <4>2. CASE o # r
        <5>1. bpReqs'[o] = bpReqs[o] /\ bpReqs[o].obj \in 1..Len(objects)
              /\ \A k \in DOMAIN pairs : pairs[k] = bpReqs[o].obj => k = bpReqs[o].key
          BY <3>2, <4>2, <2>13 DEF BpInv, OwnEntry
        <5>2. QED
          BY <5>1, <2>5, <2>6
      <4>3. QED
        BY <4>1, <4>2
    <3>3. QED
      BY <3>1, <3>2 DEF OwnEntry
  <2>16. LoadedShown'
    <3> SUFFICES ASSUME NEW k \in DOMAIN pairs' PROVE objects'[pairs'[k]].at = loadedAt'[k]
      BY DEF LoadedShown
    <3>1. CASE k = key
      BY <3>1, <2>1, <2>2, <2>4, <2>6
    <3>2. CASE k # key
      <4>1. k \in DOMAIN pairs \ out /\ k \in bpKeys
        BY <3>2, <2>6 DEF BpInv, BpTypeOK
      <4>2. objects'[pairs'[k]] = objects[pairs[k]]
        BY <4>1, <2>4, <2>6
      <4>3. loadedAt'[k] = loadedAt[k]
        BY <3>2, <4>1, <2>1
      <4>4. QED
        BY <4>1, <4>2, <4>3 DEF BpInv, LoadedShown
    <3>3. QED
      BY <3>1, <3>2
  <2>17. QED
    BY <2>4, <2>7, <2>9, <2>10, <2>13, <2>14, <2>15, <2>16 DEF BpInv, BpTypeOK, PairsNeverBlank
<1>3. QED
  BY <1>1, <1>2

\* A request that changes its state but not its entry.
LEMMA RequestKeeps ==
  ASSUME BpInv, NEW r \in BpRequests, NEW q \in BpReq, bpReqs' = [bpReqs EXCEPT ![r] = q],
         q.st \in {"wait", "load"} => bpReqs[r].st \in {"wait", "load"} /\ q.obj = bpReqs[r].obj /\ q.key = bpReqs[r].key,
         UNCHANGED <<pairs, objects, loadedAt>>
  PROVE  bpReqs' \in [BpRequests -> BpReq] /\ OwnEntry' /\ LoadedShown'
<1>1. bpReqs' \in [BpRequests -> BpReq] /\ \A o \in BpRequests : bpReqs'[o] = IF o = r THEN q ELSE bpReqs[o]
  BY DEF BpInv, BpTypeOK
<1>2. OwnEntry'
  BY <1>1 DEF BpInv, OwnEntry
<1>3. QED
  BY <1>1, <1>2 DEF BpInv, LoadedShown

\* A blank answer is given only when there is no copy to bridge with.
LEMMA BlankKeeps ==
  ASSUME BpInv, NEW r \in BpRequests, bpReqs[r].st \in {"wait", "load"}, ~staleOK(r), Blank(r)
  PROVE  /\ \A b \in blanks' : b.loaded = Absent \/ b.now - b.loaded >= BpStaleOK
         /\ bpReqs' = [bpReqs EXCEPT ![r] = BpIdle] /\ BpIdle \in BpReq
<1> DEFINE loaded == IF bpReqs[r].key \in DOMAIN pairs /\ pairs[bpReqs[r].key] = bpReqs[r].obj
                     THEN loadedAt[bpReqs[r].key] ELSE Absent
           b == [key |-> bpReqs[r].key, now |-> bpReqs[r].now, loaded |-> loaded]
<1>1. blanks' = blanks \cup {b} /\ bpReqs' = [bpReqs EXCEPT ![r] = BpIdle]
  BY DEF Blank
<1>2. loaded = Absent \/ (loaded = copy(r).at /\ copy(r).at # Absent)
  BY DEF copy, BpInv, LoadedShown
<1>3. copy(r).at = Absent \/ bpReqs[r].now - copy(r).at >= BpStaleOK
  <2>1. bpReqs[r].now \in Nat
    BY DEF BpInv, BpTypeOK, BpReq
  <2>2. copy(r) \in BpEntry
    BY ElementOfSeq DEF copy, BpInv, BpTypeOK, OwnEntry
  <2>3. copy(r).at = Absent \/ copy(r).at \in Nat
    BY <2>2 DEF BpEntry, BpTimes
  <2>4. \A m, t, d \in Nat : ~(m - t < d) => m - t >= d
    OBVIOUS
  <2>5. QED
    BY <2>1, <2>3, <2>4, BpAssumption DEF staleOK
<1> HIDE DEF loaded
<1>4. b.loaded = Absent \/ b.now - b.loaded >= BpStaleOK
  BY <1>2, <1>3
<1> HIDE DEF b
<1>5. BpIdle \in BpReq
  BY DEF BpIdle, BpReq, bpKeys
<1>6. QED
  BY <1>1, <1>4, <1>5 DEF BpInv, PairsNeverBlank

\* What a finished request goes on to.
LEMMA NextIndexKeeps ==
  ASSUME BpInv, NEW r \in BpRequests, NextIndex(r), UNCHANGED <<blanks, bpNow>>
  PROVE  BpInv'
<1>1. bpReqs[r].now \in Nat /\ "" \in bpKeys /\ BpIdle \in BpReq /\ BpIdle.st = "idle"
  BY DEF BpInv, BpTypeOK, BpReq, bpKeys, BpIdle
<1>2. CASE bpReqs[r].key # ""
  BY <1>1, <1>2, EntryKeeps DEF NextIndex
<1>3. CASE bpReqs[r].key = ""
  <2>1. bpReqs' = [bpReqs EXCEPT ![r] = BpIdle] /\ UNCHANGED <<pairs, objects, loadedAt>>
    BY <1>3 DEF NextIndex
  <2>2. bpReqs' \in [BpRequests -> BpReq] /\ OwnEntry' /\ LoadedShown'
    BY <1>1, <2>1, RequestKeeps
  <2>3. QED
    BY <2>1, <2>2 DEF BpInv, BpTypeOK, PairsNeverBlank
<1>4. QED
  BY <1>2, <1>3

\* Replacing one entry leaves the others.
LEMMA EntryReplaced ==
  ASSUME NEW s \in Seq(BpEntry), NEW i \in 1..Len(s), NEW e \in BpEntry
  PROVE  /\ [s EXCEPT ![i] = e] \in Seq(BpEntry) /\ Len([s EXCEPT ![i] = e]) = Len(s)
         /\ \A j \in 1..Len(s) : [s EXCEPT ![i] = e][j] = IF j = i THEN e ELSE s[j]
BY ExceptSeq, LenProperties

\* A load answers with the time its request arrived at, in the entry it holds
\* and, if that is still the key's, in the key's.
LEMMA LoadKeeps ==
  ASSUME BpInv, NEW r \in BpRequests, loadDone(r)
  PROVE  BpInv'
<1> DEFINE q == bpReqs[r]
           e == [at |-> q.now, failAt |-> Absent]
<1>1. /\ q.st = "load" /\ objects' = [objects EXCEPT ![q.obj] = e]
      /\ loadedAt' = IF q.key \in DOMAIN pairs /\ pairs[q.key] = q.obj
                     THEN [loadedAt EXCEPT ![q.key] = q.now] ELSE loadedAt
      /\ bpReqs' = [bpReqs EXCEPT ![r] = IF q.key # "" THEN [q EXCEPT !.st = "next"] ELSE BpIdle]
      /\ UNCHANGED <<pairs, blanks, bpNow>>
  BY DEF loadDone
<1>2. q \in BpReq /\ q.obj \in 1..Len(objects) /\ \A k \in DOMAIN pairs : pairs[k] = q.obj => k = q.key
  BY <1>1 DEF BpInv, BpTypeOK, OwnEntry
<1>3. q.now \in Nat /\ q.key \in bpKeys
  BY <1>2 DEF BpReq
<1>4. e \in BpEntry /\ e.at = q.now
  BY <1>3 DEF BpEntry, BpTimes
<1>5. objects \in Seq(BpEntry) /\ Len(objects) \in Nat
  BY LenProperties DEF BpInv, BpTypeOK
<1> HIDE DEF e
<1>6. /\ objects' \in Seq(BpEntry) /\ Len(objects') = Len(objects)
      /\ \A i \in 1..Len(objects) : objects'[i] = IF i = q.obj THEN e ELSE objects[i]
  <2>1. objects' = [objects EXCEPT ![q.obj] = e]
    BY <1>1
  <2> HIDE DEF q
  <2>2. QED
    BY <1>2, <1>4, <1>5, <2>1, EntryReplaced
<1> DEFINE p == IF q.key # "" THEN [q EXCEPT !.st = "next"] ELSE BpIdle
<1>7. p \in BpReq /\ p.st \notin {"wait", "load"}
  BY <1>2 DEF BpReq, BpIdle, bpKeys
<1>8. bpReqs' = [bpReqs EXCEPT ![r] = p]
  BY <1>1
<1> HIDE DEF p
<1>9. bpReqs' \in [BpRequests -> BpReq] /\ \A o \in BpRequests : bpReqs'[o] = IF o = r THEN p ELSE bpReqs[o]
  BY <1>7, <1>8 DEF BpInv, BpTypeOK
<1>10. OwnEntry'
  BY <1>1, <1>6, <1>7, <1>9 DEF BpInv, OwnEntry
<1>11. loadedAt' \in [bpKeys -> BpTimes]
  BY <1>1, <1>3 DEF BpInv, BpTypeOK, BpTimes
<1>12. LoadedShown'
  <2> SUFFICES ASSUME NEW k \in DOMAIN pairs PROVE objects'[pairs[k]].at = loadedAt'[k]
    BY <1>1 DEF LoadedShown
  <2>1. pairs[k] \in 1..Len(objects) /\ k \in bpKeys /\ objects[pairs[k]].at = loadedAt[k]
    BY DEF BpInv, BpTypeOK, LoadedShown
  <2>2. CASE pairs[k] = q.obj
    BY <2>1, <2>2, <1>1, <1>2, <1>4, <1>6 DEF BpInv, BpTypeOK
  <2>3. CASE pairs[k] # q.obj
    <3>1. objects'[pairs[k]] = objects[pairs[k]]
      BY <2>1, <2>3, <1>6
    <3>2. loadedAt'[k] = loadedAt[k]
      BY <2>1, <2>3, <1>1 DEF BpInv, BpTypeOK
    <3>3. QED
      BY <2>1, <3>1, <3>2
  <2>4. QED
    BY <2>2, <2>3
<1>13. QED
  BY <1>1, <1>6, <1>9, <1>10, <1>11, <1>12 DEF BpInv, BpTypeOK, PairsNeverBlank

\* A failed load is noted in the entry and answered from its copy if it can be.
LEMMA FailKeeps ==
  ASSUME BpInv, NEW r \in BpRequests, loadFails(r)
  PROVE  BpInv'
<1> DEFINE q == bpReqs[r]
<1>1. /\ q.st = "load" /\ objects' = [objects EXCEPT ![q.obj].failAt = q.now]
      /\ UNCHANGED <<pairs, loadedAt, bpNow>>
  BY DEF loadFails
<1>2. q \in BpReq /\ q.obj \in 1..Len(objects)
  BY <1>1 DEF BpInv, BpTypeOK, OwnEntry
<1>3. objects \in Seq(BpEntry) /\ Len(objects) \in Nat /\ objects[q.obj] \in BpEntry
  BY <1>2, LenProperties, ElementOfSeq DEF BpInv, BpTypeOK
<1> DEFINE e == [objects[q.obj] EXCEPT !.failAt = q.now]
<1>4. e \in BpEntry /\ e.at = objects[q.obj].at
  BY <1>2, <1>3 DEF BpEntry, BpTimes, BpReq
<1>5. objects' = [objects EXCEPT ![q.obj] = e]
  BY <1>1
<1> HIDE DEF e
<1>6. /\ objects' \in Seq(BpEntry) /\ Len(objects') = Len(objects)
      /\ \A i \in 1..Len(objects) : objects'[i] = IF i = q.obj THEN e ELSE objects[i]
  BY <1>2, <1>3, <1>4, <1>5, EntryReplaced
<1> DEFINE p == IF staleOK(r) /\ q.key # "" THEN [q EXCEPT !.st = "next"] ELSE BpIdle
<1>7. p \in BpReq /\ p.st \notin {"wait", "load"}
  BY <1>2 DEF BpReq, BpIdle, bpKeys
<1>8. bpReqs' = [bpReqs EXCEPT ![r] = p] /\ \A b \in blanks' : b.loaded = Absent \/ b.now - b.loaded >= BpStaleOK
  <2>1. CASE staleOK(r)
    <3>1. UNCHANGED blanks /\ bpReqs' = [bpReqs EXCEPT ![r] = p]
      BY <2>1 DEF loadFails
    <3>2. QED
      BY <3>1 DEF BpInv, PairsNeverBlank
  <2>2. CASE ~staleOK(r)
    <3>1. Blank(r)
      BY <2>2 DEF loadFails
    <3>2. QED
      BY <1>1, <2>2, <3>1, BlankKeeps
  <2>3. QED
    BY <2>1, <2>2
<1> HIDE DEF p
<1>9. bpReqs' \in [BpRequests -> BpReq] /\ \A o \in BpRequests : bpReqs'[o] = IF o = r THEN p ELSE bpReqs[o]
  BY <1>7, <1>8 DEF BpInv, BpTypeOK
<1>10. OwnEntry'
  BY <1>1, <1>6, <1>7, <1>9 DEF BpInv, OwnEntry
<1>11. LoadedShown'
  <2> SUFFICES ASSUME NEW k \in DOMAIN pairs PROVE objects'[pairs[k]].at = loadedAt[k]
    BY <1>1 DEF LoadedShown
  <2>1. pairs[k] \in 1..Len(objects) /\ objects[pairs[k]].at = loadedAt[k]
    BY DEF BpInv, BpTypeOK, LoadedShown
  <2>2. QED
    BY <2>1, <1>4, <1>6
<1>12. QED
  BY <1>1, <1>6, <1>8, <1>9, <1>10, <1>11 DEF BpInv, BpTypeOK, PairsNeverBlank

\* Every step keeps the invariant.
LEMMA BpInvStep == BpInv /\ [BpNext]_bpVars => BpInv'
<1> SUFFICES ASSUME BpInv, [BpNext]_bpVars PROVE BpInv'
  OBVIOUS
<1>1. ASSUME NEW r \in BpRequests, allBandBaselinePairs(r) PROVE BpInv'
  <2>1. \E key \in bpKeys : entry(r, key, bpNow)
    BY <1>1 DEF allBandBaselinePairs
  <2>2. UNCHANGED <<blanks, bpNow>> /\ bpNow \in Nat
    BY <1>1 DEF allBandBaselinePairs, BpInv, BpTypeOK
  <2>3. QED
    BY <2>1, <2>2, EntryKeeps
<1>2. ASSUME NEW r \in BpRequests, lockEntry(r) PROVE BpInv'
  <2>1. bpReqs[r].st = "wait" /\ UNCHANGED bpNow
    BY <1>2 DEF lockEntry
  <2>2. \/ NextIndex(r) /\ UNCHANGED blanks
        \/ ~staleOK(r) /\ Blank(r) /\ UNCHANGED <<pairs, objects, loadedAt>>
        \/ bpReqs' = [bpReqs EXCEPT ![r].st = "load"] /\ UNCHANGED <<pairs, objects, loadedAt, blanks>>
    BY <1>2 DEF lockEntry
  <2>3. CASE NextIndex(r) /\ UNCHANGED blanks
    BY <2>1, <2>3, NextIndexKeeps
  <2>4. CASE ~staleOK(r) /\ Blank(r) /\ UNCHANGED <<pairs, objects, loadedAt>>
    <3>1. /\ \A b \in blanks' : b.loaded = Absent \/ b.now - b.loaded >= BpStaleOK
          /\ bpReqs' = [bpReqs EXCEPT ![r] = BpIdle] /\ BpIdle \in BpReq
      BY <2>1, <2>4, BlankKeeps
    <3>2. BpIdle.st = "idle"
      BY DEF BpIdle
    <3>3. bpReqs' \in [BpRequests -> BpReq] /\ OwnEntry' /\ LoadedShown'
      BY <2>4, <3>1, <3>2, RequestKeeps
    <3>4. QED
      BY <2>1, <2>4, <3>1, <3>3 DEF BpInv, BpTypeOK, PairsNeverBlank
  <2>5. CASE bpReqs' = [bpReqs EXCEPT ![r].st = "load"] /\ UNCHANGED <<pairs, objects, loadedAt, blanks>>
    <3> DEFINE q == [bpReqs[r] EXCEPT !.st = "load"]
    <3>1. bpReqs[r] \in BpReq
      BY DEF BpInv, BpTypeOK
    <3>2. q \in BpReq /\ q.obj = bpReqs[r].obj /\ q.key = bpReqs[r].key /\ bpReqs' = [bpReqs EXCEPT ![r] = q]
      BY <2>5, <3>1 DEF BpReq
    <3> HIDE DEF q
    <3>3. bpReqs' \in [BpRequests -> BpReq] /\ OwnEntry' /\ LoadedShown'
      BY <2>1, <2>5, <3>2, RequestKeeps
    <3>4. QED
      BY <2>1, <2>5, <3>3 DEF BpInv, BpTypeOK, PairsNeverBlank
  <2>6. QED
    BY <2>2, <2>3, <2>4, <2>5
<1>3. ASSUME NEW r \in BpRequests, loadDone(r) PROVE BpInv'
  BY <1>3, LoadKeeps
<1>4. ASSUME NEW r \in BpRequests, loadFails(r) PROVE BpInv'
  BY <1>4, FailKeeps
<1>5. ASSUME NEW r \in BpRequests, globalIndex(r) PROVE BpInv'
  <2>1. bpReqs[r].now \in Nat /\ "" \in bpKeys
    BY DEF BpInv, BpTypeOK, BpReq, bpKeys
  <2>2. entry(r, "", bpReqs[r].now) /\ UNCHANGED <<blanks, bpNow>>
    BY <1>5 DEF globalIndex
  <2>3. QED
    BY <2>1, <2>2, EntryKeeps
<1>6. CASE BpTick
  BY <1>6 DEF BpTick, BpInv, BpTypeOK, OwnEntry, LoadedShown, PairsNeverBlank
<1>7. CASE UNCHANGED bpVars
  BY <1>7 DEF bpVars, BpInv, BpTypeOK, OwnEntry, LoadedShown, PairsNeverBlank
<1>8. QED
  BY <1>1, <1>2, <1>3, <1>4, <1>5, <1>6, <1>7 DEF BpNext

\* For every number of requests and clusters and every order of failures,
\* waiters with old clocks and evictions during a load, an error is answered
\* only when there was nothing recent enough to serve, and the cache keeps
\* within its limit.
THEOREM PairsServed == BpSpec => []PairsNeverBlank
<1>1. BpInv => PairsNeverBlank
  BY DEF BpInv
<1>2. QED
  BY <1>1, BpInvInit, BpInvStep, PTL DEF BpSpec

(***************************************************************************)
(* The bundle cache of GET /api/history.                                   *)
(***************************************************************************)
\* The fields of a request.
HaFields == {"st", "t0", "t1", "near", "now", "spots", "from"}

\* Spots and the types of what refers to them.
HaTypeOK ==
    /\ haNow \in Int
    /\ \A i \in DOMAIN archive : archive[i].t \in Int /\ archive[i].at \in Int
    /\ haReqs = [h \in HaRequests |-> haReqs[h]]
    /\ \A h \in HaRequests : haReqs[h].now \in Int /\ DOMAIN haReqs[h] = HaFields
    /\ \A k \in DOMAIN entries : entries[k].cachedAt \in Int

\* No spot reached the archive in the future.
ArchivePast == \A i \in DOMAIN archive : archive[i].at <= haNow

\* What an answer to the window k with the filter near must hold when it was
\* asked for at the time since.
Missing(k, near, since, spots) ==
    {i \in DOMAIN archive : /\ archive[i].t \in k[1]..k[2] /\ matchAndCreateSpot(i, near)
                            /\ archive[i].at < since /\ i \notin spots}

\* A request is in time, and its answer from the archive holds every spot that
\* was there when it began.
AnswersWhole ==
    \A h \in HaRequests : haReqs[h].st # "idle" =>
        /\ haReqs[h].now <= haNow /\ haNow <= haReqs[h].now + HaQueryTime
        /\ haReqs[h].st = "answer" /\ haReqs[h].from = "archive" =>
             /\ haReqs[h].spots \subseteq DOMAIN archive
             /\ Missing(<<haReqs[h].t0, haReqs[h].t1>>, haReqs[h].near, haReqs[h].now, haReqs[h].spots) = {}

\* A cached bundle lacks only spots that came after its query, or older ones
\* when it was truncated.
BundleWhole(k, e) ==
    e.from = "archive" =>
        /\ e.spots \subseteq DOMAIN archive
        /\ \A i \in Missing(k, e.near, e.cachedAt - HaQueryTime, e.spots) :
             e.truncated /\ \A j \in e.spots : archive[i].t <= archive[j].t
BundlesWhole == \A k \in DOMAIN entries : entries[k].cachedAt <= haNow /\ BundleWhole(k, entries[k])

\* The inductive invariant of HistoryHitHonest.
HaInv == HaTypeOK /\ ArchivePast /\ AnswersWhole /\ BundlesWhole

\* A hit is at most a time to live old, so what it may lack is recent.
LEMMA HaInvImplies == HaInv => HistoryHitHonest
<1> SUFFICES ASSUME HaInv, NEW k \in DOMAIN entries, historyGet(k), entries[k].from = "archive",
                    NEW i \in DOMAIN archive,
                    archive[i].t \in k[1]..k[2], matchAndCreateSpot(i, entries[k].near),
                    archive[i].at < haNow - HaTTL - HaQueryTime, i \notin entries[k].spots
             PROVE  entries[k].truncated /\ \A j \in entries[k].spots : archive[i].t <= archive[j].t
  BY DEF HistoryHitHonest
<1>1. /\ haNow \in Int /\ entries[k].cachedAt \in Int /\ archive[i].at \in Int
      /\ HaTTL \in Int /\ HaQueryTime \in Int
  BY HaAssumption DEF HaInv, HaTypeOK
<1>2. ~(haNow - entries[k].cachedAt > HaTTL)
  BY DEF historyGet, expired
<1>3. archive[i].at < entries[k].cachedAt - HaQueryTime
  BY <1>1, <1>2
<1>4. i \in Missing(k, entries[k].near, entries[k].cachedAt - HaQueryTime, entries[k].spots)
  BY <1>3 DEF Missing
<1>5. QED
  BY <1>4 DEF HaInv, BundlesWhole, BundleWhole

\* Nothing was stored, asked or cached.
LEMMA HaInvInit == HaInit => HaInv
<1> SUFFICES ASSUME HaInit PROVE HaInv
  OBVIOUS
<1>1. DOMAIN archive = {} /\ DOMAIN entries = {}
  BY DEF HaInit
<1>2. \A h \in HaRequests : haReqs[h].st = "idle" /\ haReqs[h].now = 0 /\ DOMAIN haReqs[h] = HaFields
  BY DEF HaInit, HaIdle, HaFields
<1>3. haReqs = [h \in HaRequests |-> haReqs[h]]
  BY DEF HaInit
<1>4. QED
  BY <1>1, <1>2, <1>3, HaAssumption
     DEF HaInit, HaInv, HaTypeOK, ArchivePast, AnswersWhole, BundlesWhole

\* Fewer or the same bundles, and no new spot.
LEMMA BundlesKept ==
  ASSUME HaInv, UNCHANGED archive, haNow' \in Int, haNow <= haNow',
         DOMAIN entries' \subseteq DOMAIN entries,
         \A k \in DOMAIN entries' : entries'[k] = entries[k]
  PROVE  ArchivePast' /\ BundlesWhole' /\ \A k \in DOMAIN entries' : entries'[k].cachedAt \in Int
<1>1. haNow \in Int /\ \A k \in DOMAIN entries : entries[k].cachedAt \in Int
  BY DEF HaInv, HaTypeOK
<1>2. \A i \in DOMAIN archive : archive[i].at \in Int /\ archive[i].at <= haNow
  BY DEF HaInv, HaTypeOK, ArchivePast
<1>3. ArchivePast'
  BY <1>1, <1>2 DEF ArchivePast
<1>4. ASSUME NEW k \in DOMAIN entries'
      PROVE  entries'[k].cachedAt <= haNow' /\ BundleWhole(k, entries[k])'
  <2>1. k \in DOMAIN entries /\ entries'[k] = entries[k]
    OBVIOUS
  <2>2. entries[k].cachedAt <= haNow /\ BundleWhole(k, entries[k])
    BY <2>1 DEF HaInv, BundlesWhole
  <2>3. entries[k].cachedAt <= haNow'
    BY <1>1, <2>1, <2>2
  <2>4. BundleWhole(k, entries[k])'
    <3>1. archive' = archive /\ entries'[k] = entries[k]
      BY <2>1
    <3>2. QED
      BY <2>2, <3>1 DEF BundleWhole, Missing, matchAndCreateSpot
  <2>5. QED
    BY <2>1, <2>3, <2>4
<1>5. BundlesWhole'
  BY <1>4 DEF BundlesWhole
<1>6. QED
  BY <1>1, <1>3, <1>5

\* Nothing but requests that keep their answers changed.
LEMMA AnswersKept ==
  ASSUME HaInv, UNCHANGED <<archive, haNow>>, NEW g \in HaRequests, NEW r,
         haReqs' = [haReqs EXCEPT ![g] = r], r.now \in Int, DOMAIN r = HaFields,
         r.st # "idle" =>
            /\ r.now <= haNow /\ haNow <= r.now + HaQueryTime
            /\ r.st = "answer" /\ r.from = "archive" =>
                 r.spots \subseteq DOMAIN archive /\ Missing(<<r.t0, r.t1>>, r.near, r.now, r.spots) = {}
  PROVE  /\ AnswersWhole' /\ haReqs' = [h \in HaRequests |-> haReqs'[h]]
         /\ \A h \in HaRequests : haReqs'[h].now \in Int /\ DOMAIN haReqs'[h] = HaFields
<1>1. haReqs = [h \in HaRequests |-> haReqs[h]] /\ DOMAIN haReqs = HaRequests
  BY DEF HaInv, HaTypeOK
<1>2. haReqs' = [h \in HaRequests |-> haReqs'[h]]
  BY <1>1
<1>3. haReqs'[g] = r /\ \A h \in HaRequests \ {g} : haReqs'[h] = haReqs[h]
  BY <1>1
<1>4. \A h \in HaRequests : haReqs'[h].now \in Int /\ DOMAIN haReqs'[h] = HaFields
  BY <1>3 DEF HaInv, HaTypeOK
<1>5. ASSUME NEW h \in HaRequests, haReqs'[h].st # "idle"
      PROVE  /\ haReqs'[h].now <= haNow /\ haNow <= haReqs'[h].now + HaQueryTime
             /\ haReqs'[h].st = "answer" /\ haReqs'[h].from = "archive" =>
                  /\ haReqs'[h].spots \subseteq DOMAIN archive
                  /\ Missing(<<haReqs'[h].t0, haReqs'[h].t1>>, haReqs'[h].near, haReqs'[h].now, haReqs'[h].spots) = {}
  <2>1. CASE h = g
    BY <1>3, <1>5, <2>1
  <2>2. CASE h # g
    <3>1. haReqs'[h] = haReqs[h]
      BY <1>3, <2>2
    <3>2. QED
      BY <1>5, <3>1 DEF HaInv, AnswersWhole
  <2>3. QED
    BY <2>1, <2>2
<1>6. \A k, near, since, spots : Missing(k, near, since, spots)' = Missing(k', near', since', spots')
  BY DEF Missing, matchAndCreateSpot
<1>7. AnswersWhole'
  BY <1>5 DEF AnswersWhole, Missing, matchAndCreateSpot
<1>8. QED
  BY <1>2, <1>4, <1>7

\* The same requests, spots and clock.
LEMMA AnswersSame ==
  ASSUME HaInv, UNCHANGED <<archive, haNow, haReqs>>
  PROVE  /\ AnswersWhole' /\ haReqs' = [h \in HaRequests |-> haReqs'[h]]
         /\ \A h \in HaRequests : haReqs'[h].now \in Int /\ DOMAIN haReqs'[h] = HaFields
<1>1. AnswersWhole'
  BY DEF HaInv, AnswersWhole, Missing, matchAndCreateSpot
<1>2. QED
  BY <1>1 DEF HaInv, HaTypeOK

\* The parts put together.
LEMMA HaParts ==
  ASSUME HaInv, UNCHANGED archive, haNow' \in Int,
         ArchivePast', BundlesWhole', AnswersWhole',
         haReqs' = [h \in HaRequests |-> haReqs'[h]],
         \A h \in HaRequests : haReqs'[h].now \in Int /\ DOMAIN haReqs'[h] = HaFields,
         \A k \in DOMAIN entries' : entries'[k].cachedAt \in Int
  PROVE  HaInv'
BY DEF HaInv, HaTypeOK

\* A request is limited, answered from the cache, refused or let through.
LEMMA HandlerKeeps ==
  ASSUME HaInv, NEW g \in HaRequests, historyHandler(g)
  PROVE  HaInv'
<1>1. UNCHANGED <<archive, haNow>> /\ haNow \in Int
  BY DEF historyHandler, HaInv, HaTypeOK
<1>2. PICK askedFor \in HaWindows, near \in BOOLEAN :
        LET range == resolveHistoryRange(askedFor, haNow) IN
        IF ~historyAllowed THEN UNCHANGED <<entries, haReqs>>
        ELSE /\ entries' = afterGet(range)
             /\ haReqs' = IF historyGet(range) \/ Cardinality(inFlight) >= HaMaxConcurrent THEN haReqs
                          ELSE [haReqs EXCEPT ![g] = [HaIdle EXCEPT !.st = "query",
                                   !.t0 = range[1], !.t1 = range[2], !.near = near, !.now = haNow]]
  BY DEF historyHandler
<1> DEFINE range == resolveHistoryRange(askedFor, haNow)
           new == [HaIdle EXCEPT !.st = "query", !.t0 = range[1], !.t1 = range[2], !.near = near, !.now = haNow]
<1>3. entries' = entries \/ entries' = afterGet(range)
  BY <1>2
<1>4. haReqs' = haReqs \/ haReqs' = [haReqs EXCEPT ![g] = new]
  BY <1>2
<1>5. DOMAIN entries' \subseteq DOMAIN entries /\ \A k \in DOMAIN entries' : entries'[k] = entries[k]
  <2>1. CASE entries' = afterGet(range)
    BY <2>1 DEF afterGet, Drop
  <2>2. QED
    BY <1>3, <2>1
<1>6. ArchivePast' /\ BundlesWhole' /\ \A k \in DOMAIN entries' : entries'[k].cachedAt \in Int
  BY <1>1, <1>5, BundlesKept
<1>7. new.st = "query" /\ new.now = haNow /\ DOMAIN new = HaFields
  BY DEF HaIdle, HaFields
<1> HIDE DEF new
<1>8. /\ AnswersWhole' /\ haReqs' = [h \in HaRequests |-> haReqs'[h]]
      /\ \A h \in HaRequests : haReqs'[h].now \in Int /\ DOMAIN haReqs'[h] = HaFields
  <2>1. CASE haReqs' = haReqs
    BY <1>1, <2>1, AnswersSame
  <2>2. CASE haReqs' = [haReqs EXCEPT ![g] = new]
    <3>1. new.now <= haNow /\ haNow <= new.now + HaQueryTime
      BY <1>1, <1>7, HaAssumption
    <3>2. new.now \in Int /\ ~(new.st = "answer" /\ new.from = "archive")
      BY <1>1, <1>7
    <3>3. QED
      BY <1>1, <1>7, <2>2, <3>1, <3>2, AnswersKept
  <2>3. QED
    BY <1>4, <2>1, <2>2
<1>9. QED
  BY <1>1, <1>6, <1>8, HaParts

\* The archive answers with what it holds.
LEMMA ArchiveAnswerKeeps ==
  ASSUME HaInv, NEW g \in HaRequests, loadSpotsRangeForTargets(g)
  PROVE  HaInv'
<1> DEFINE r == haReqs[g]
           found == {i \in DOMAIN archive : archive[i].t \in r.t0..r.t1 /\ matchAndCreateSpot(i, r.near)}
           new == [r EXCEPT !.st = "answer", !.from = "archive", !.spots = found]
<1>1. /\ UNCHANGED <<archive, haNow, entries>> /\ haNow \in Int
      /\ r.st = "query" /\ haReqs' = [haReqs EXCEPT ![g] = new]
  BY DEF loadSpotsRangeForTargets, HaInv, HaTypeOK
<1>2. r.now \in Int /\ r.now <= haNow /\ haNow <= r.now + HaQueryTime
  BY <1>1 DEF HaInv, HaTypeOK, AnswersWhole
<1>3. DOMAIN r = HaFields
  BY DEF HaInv, HaTypeOK
<1>4. /\ new.now = r.now /\ new.t0 = r.t0 /\ new.t1 = r.t1 /\ new.near = r.near
      /\ new.spots = found /\ new.st = "answer" /\ new.from = "archive" /\ DOMAIN new = HaFields
  BY <1>3 DEF HaFields
<1>5. ArchivePast' /\ BundlesWhole' /\ \A k \in DOMAIN entries' : entries'[k].cachedAt \in Int
  BY <1>1, BundlesKept
<1>6. found \subseteq DOMAIN archive /\ Missing(<<r.t0, r.t1>>, r.near, r.now, found) = {}
  BY DEF Missing
<1> HIDE DEF new, found
<1>7. /\ new.spots \subseteq DOMAIN archive /\ Missing(<<new.t0, new.t1>>, new.near, new.now, new.spots) = {}
      /\ new.now \in Int /\ new.now <= haNow /\ haNow <= new.now + HaQueryTime
  BY <1>2, <1>4, <1>6
<1>8. /\ AnswersWhole' /\ haReqs' = [h \in HaRequests |-> haReqs'[h]]
      /\ \A h \in HaRequests : haReqs'[h].now \in Int /\ DOMAIN haReqs'[h] = HaFields
  <2> HIDE DEF r
  <2>1. QED
    BY <1>1, <1>4, <1>7, AnswersKept
<1>9. QED
  BY <1>1, <1>5, <1>8, HaParts

\* The live history answers: nothing is claimed of that answer.
LEMMA LiveAnswerKeeps ==
  ASSUME HaInv, NEW g \in HaRequests, historyMessagesFromHub(g)
  PROVE  HaInv'
<1> DEFINE r == haReqs[g]
<1>1. UNCHANGED <<archive, haNow, entries>> /\ haNow \in Int /\ r.st = "query"
  BY DEF historyMessagesFromHub, HaInv, HaTypeOK
<1>2. r.now \in Int /\ r.now <= haNow /\ haNow <= r.now + HaQueryTime /\ DOMAIN r = HaFields
  BY <1>1 DEF HaInv, HaTypeOK, AnswersWhole
<1>3. \/ haReqs' = [haReqs EXCEPT ![g] = HaIdle]
      \/ \E n \in searchResults(r.t0) :
           haReqs' = [haReqs EXCEPT ![g] = [r EXCEPT !.st = "answer", !.from = "live", !.spots =
               {i \in {live[j] : j \in n..Len(live)} :
                   archive[i].t <= r.t1 /\ matchAndCreateSpot(i, r.near)}]]
  BY DEF historyMessagesFromHub
<1>4. ArchivePast' /\ BundlesWhole' /\ \A k \in DOMAIN entries' : entries'[k].cachedAt \in Int
  BY <1>1, BundlesKept
<1>5. /\ AnswersWhole' /\ haReqs' = [h \in HaRequests |-> haReqs'[h]]
      /\ \A h \in HaRequests : haReqs'[h].now \in Int /\ DOMAIN haReqs'[h] = HaFields
  <2>1. CASE haReqs' = [haReqs EXCEPT ![g] = HaIdle]
    <3>1. HaIdle.st = "idle" /\ HaIdle.now \in Int /\ DOMAIN HaIdle = HaFields
      BY DEF HaIdle, HaFields
    <3>2. QED
      BY <1>1, <2>1, <3>1, AnswersKept
  <2>2. ASSUME NEW found, haReqs' = [haReqs EXCEPT ![g] = [r EXCEPT !.st = "answer", !.from = "live", !.spots = found]]
        PROVE  /\ AnswersWhole' /\ haReqs' = [h \in HaRequests |-> haReqs'[h]]
               /\ \A h \in HaRequests : haReqs'[h].now \in Int /\ DOMAIN haReqs'[h] = HaFields
    <3> DEFINE new == [r EXCEPT !.st = "answer", !.from = "live", !.spots = found]
    <3>1. new.now = r.now /\ new.from = "live" /\ DOMAIN new = HaFields
      BY <1>2 DEF HaFields
    <3>2. haReqs' = [haReqs EXCEPT ![g] = new]
      BY <2>2
    <3> HIDE DEF new
    <3>3. new.now \in Int /\ new.now <= haNow /\ haNow <= new.now + HaQueryTime /\ new.from # "archive"
      BY <1>2, <3>1
    <3> HIDE DEF r
    <3>4. QED
      BY <1>1, <3>1, <3>2, <3>3, AnswersKept
  <2>3. QED
    BY <1>3, <2>1, <2>2
<1>6. QED
  BY <1>1, <1>4, <1>5, HaParts

\* What putting a bundle does to the cache, whatever it evicts.
LEMMA PutEffect ==
  ASSUME NEW k, NEW e, historyPut(k, e)
  PROVE  \A x \in DOMAIN entries' : (x = k /\ entries'[x] = e) \/ (x \in DOMAIN entries /\ entries'[x] = entries[x])
<1>1. CASE k \in DOMAIN entries
  BY <1>1 DEF historyPut
<1>2. CASE k \notin DOMAIN entries
  <2> DEFINE all == [x \in DOMAIN entries \cup {k} |-> IF x = k THEN e ELSE entries[x]]
  <2>1. PICK left \in SUBSET (DOMAIN entries \cup {k}) : entries' = [x \in left |-> all[x]]
    <3> DEFINE list == Append(eviction, k)
               rest(n) == DOMAIN all \ {list[i] : i \in 1..n}
               pops == {n \in 0..Len(list) : Cardinality(rest(n)) <= HaMaxEntries}
               m == CHOOSE x \in pops : \A y \in pops : x <= y
    <3>1. entries' = [x \in rest(m) |-> all[x]]
      BY <1>2 DEF historyPut
    <3>2. rest(m) \in SUBSET (DOMAIN entries \cup {k})
      OBVIOUS
    <3>3. QED
      BY <3>1, <3>2
  <2>2. QED
    BY <2>1
<1>3. QED
  BY <1>1, <1>2

\* A bundle that is cached holds what the archive held when it was asked.
LEMMA EncodeKeeps ==
  ASSUME HaInv, NEW g \in HaRequests, encodeHistoryBody(g)
  PROVE  HaInv'
<1> DEFINE r == haReqs[g]
           k == <<r.t0, r.t1>>
<1>1. /\ UNCHANGED <<archive, haNow>> /\ haNow \in Int
      /\ r.st = "answer" /\ haReqs' = [haReqs EXCEPT ![g] = HaIdle]
  BY DEF encodeHistoryBody, HaInv, HaTypeOK
<1>2. PICK body \in newest(r.spots) :
        \/ historyPut(k, [spots |-> body, cachedAt |-> haNow, near |-> r.near,
                          from |-> r.from, truncated |-> body # r.spots])
        \/ entries' = entries
  BY DEF encodeHistoryBody, historyCacheKey
<1> DEFINE e == [spots |-> body, cachedAt |-> haNow, near |-> r.near,
                 from |-> r.from, truncated |-> body # r.spots]
<1>3. body = r.spots \/ (body \subseteq r.spots /\ \A i \in body, j \in r.spots \ body : archive[j].t <= archive[i].t)
  BY DEF newest
<1>4. /\ r.now \in Int /\ r.now <= haNow /\ haNow <= r.now + HaQueryTime
      /\ r.from = "archive" => r.spots \subseteq DOMAIN archive /\ Missing(k, r.near, r.now, r.spots) = {}
  BY <1>1 DEF HaInv, HaTypeOK, AnswersWhole
<1>5. \A i \in DOMAIN archive : archive[i].at \in Int
  BY DEF HaInv, HaTypeOK
<1>6. BundleWhole(k, e)
  <2> SUFFICES ASSUME r.from = "archive"
               PROVE  /\ body \subseteq DOMAIN archive
                      /\ \A i \in Missing(k, r.near, haNow - HaQueryTime, body) :
                           body # r.spots /\ \A j \in body : archive[i].t <= archive[j].t
    BY DEF BundleWhole
  <2>1. body \subseteq DOMAIN archive
    BY <1>3, <1>4
  <2>2. ASSUME NEW i \in Missing(k, r.near, haNow - HaQueryTime, body)
        PROVE  body # r.spots /\ \A j \in body : archive[i].t <= archive[j].t
    <3>1. archive[i].at < r.now
      <4>1. archive[i].at \in Int /\ archive[i].at < haNow - HaQueryTime /\ HaQueryTime \in Int
        BY <1>5, HaAssumption DEF Missing
      <4>2. QED
        BY <1>1, <1>4, <4>1
    <3>2. i \in r.spots
      BY <1>4, <3>1 DEF Missing
    <3>3. i \notin body
      BY DEF Missing
    <3>4. QED
      BY <1>3, <3>2, <3>3
  <2>3. QED
    BY <2>1, <2>2
<1>7. e.cachedAt = haNow
  OBVIOUS
<1>8. \A x \in DOMAIN entries' : (x = k /\ entries'[x] = e) \/ (x \in DOMAIN entries /\ entries'[x] = entries[x])
  BY <1>2, PutEffect
<1> HIDE DEF e, k
<1>9. ASSUME NEW x \in DOMAIN entries'
      PROVE  entries'[x].cachedAt \in Int /\ (entries[x].cachedAt <= haNow /\ BundleWhole(x, entries[x]))'
  <2>1. \A y, c : (c = entries'[x] /\ BundleWhole(y, c)) => (y = x => BundleWhole(x, entries[x])')
    BY <1>1 DEF BundleWhole, Missing, matchAndCreateSpot
  <2>2. CASE x = k /\ entries'[x] = e
    BY <1>1, <1>6, <1>7, <2>1, <2>2
  <2>3. CASE x \in DOMAIN entries /\ entries'[x] = entries[x]
    <3>1. entries[x].cachedAt \in Int /\ entries[x].cachedAt <= haNow /\ BundleWhole(x, entries[x])
      BY <2>3 DEF HaInv, HaTypeOK, BundlesWhole
    <3>2. QED
      BY <1>1, <2>1, <2>3, <3>1
  <2>4. QED
    BY <1>8, <2>2, <2>3
<1>10. BundlesWhole' /\ \A x \in DOMAIN entries' : entries'[x].cachedAt \in Int
  BY <1>9 DEF BundlesWhole
<1>11. ArchivePast'
  BY <1>1 DEF HaInv, ArchivePast
<1>12. HaIdle.st = "idle" /\ HaIdle.now \in Int /\ DOMAIN HaIdle = HaFields
  BY DEF HaIdle, HaFields
<1>13. /\ AnswersWhole' /\ haReqs' = [h \in HaRequests |-> haReqs'[h]]
       /\ \A h \in HaRequests : haReqs'[h].now \in Int /\ DOMAIN haReqs'[h] = HaFields
  BY <1>1, <1>12, AnswersKept
<1>14. QED
  BY <1>1, <1>10, <1>11, <1>13, HaParts

\* A new spot came now: no answer and no old enough bundle lacks it.
LEMMA SpotKeeps ==
  ASSUME HaInv, HaSpot
  PROVE  HaInv'
<1>1. PICK id \in HaIds \ DOMAIN archive, late \in 0..HaLateness, near \in BOOLEAN :
        archive' = [i \in DOMAIN archive \cup {id} |->
               IF i = id THEN [t |-> haNow - late, near |-> near, at |-> haNow] ELSE archive[i]]
  BY DEF HaSpot
<1>2. UNCHANGED <<entries, haReqs, haNow>> /\ haNow \in Int /\ late \in Int
  BY <1>1 DEF HaSpot, HaInv, HaTypeOK
<1>3. /\ DOMAIN archive' = DOMAIN archive \cup {id} /\ archive'[id].at = haNow /\ archive'[id].t \in Int
      /\ \A i \in DOMAIN archive : archive'[i] = archive[i]
  BY <1>1, <1>2
<1>4. HaTypeOK' /\ ArchivePast'
  BY <1>2, <1>3 DEF HaInv, HaTypeOK, ArchivePast
<1>5. ASSUME NEW k, NEW nr, NEW since \in Int, NEW spots, since <= haNow
      PROVE  \A i \in DOMAIN archive' : archive'[i].t \in k[1]..k[2] /\ (nr \/ ~archive'[i].near)
                                        /\ archive'[i].at < since /\ i \notin spots
                => i \in Missing(k, nr, since, spots)
  <2> SUFFICES ASSUME NEW i \in DOMAIN archive', archive'[i].t \in k[1]..k[2], nr \/ ~archive'[i].near,
                      archive'[i].at < since, i \notin spots
               PROVE  i \in Missing(k, nr, since, spots)
    OBVIOUS
  <2>1. i # id
    BY <1>2, <1>3, <1>5
  <2>2. QED
    BY <1>3, <2>1 DEF Missing, matchAndCreateSpot
<1>6. AnswersWhole'
  <2> SUFFICES ASSUME NEW h \in HaRequests, haReqs[h].st # "idle"
               PROVE  /\ haReqs[h].now <= haNow /\ haNow <= haReqs[h].now + HaQueryTime
                      /\ haReqs[h].st = "answer" /\ haReqs[h].from = "archive" =>
                           /\ haReqs[h].spots \subseteq DOMAIN archive'
                           /\ \A i \in DOMAIN archive' :
                                ~(/\ archive'[i].t \in (haReqs[h].t0)..(haReqs[h].t1)
                                  /\ (haReqs[h].near \/ ~archive'[i].near)
                                  /\ archive'[i].at < haReqs[h].now /\ i \notin haReqs[h].spots)
    BY <1>2 DEF AnswersWhole, Missing, matchAndCreateSpot
  <2>1. haReqs[h].now \in Int /\ haReqs[h].now <= haNow /\ haNow <= haReqs[h].now + HaQueryTime
    BY DEF HaInv, HaTypeOK, AnswersWhole
  <2>2. haReqs[h].st = "answer" /\ haReqs[h].from = "archive" =>
           /\ haReqs[h].spots \subseteq DOMAIN archive
           /\ Missing(<<haReqs[h].t0, haReqs[h].t1>>, haReqs[h].near, haReqs[h].now, haReqs[h].spots) = {}
    BY DEF HaInv, AnswersWhole
  <2>3. QED
    BY <1>3, <1>5, <2>1, <2>2
<1>7. BundlesWhole'
  <2> SUFFICES ASSUME NEW k \in DOMAIN entries
               PROVE  /\ entries[k].cachedAt <= haNow
                      /\ entries[k].from = "archive" =>
                           /\ entries[k].spots \subseteq DOMAIN archive'
                           /\ \A i \in DOMAIN archive' :
                                /\ archive'[i].t \in k[1]..k[2] /\ (entries[k].near \/ ~archive'[i].near)
                                /\ archive'[i].at < entries[k].cachedAt - HaQueryTime /\ i \notin entries[k].spots
                                => entries[k].truncated /\ \A j \in entries[k].spots : archive'[i].t <= archive'[j].t
    BY <1>2 DEF BundlesWhole, BundleWhole, Missing, matchAndCreateSpot
  <2>1. /\ entries[k].cachedAt \in Int /\ entries[k].cachedAt <= haNow /\ BundleWhole(k, entries[k])
    BY DEF HaInv, HaTypeOK, BundlesWhole
  <2>2. entries[k].cachedAt - HaQueryTime \in Int /\ entries[k].cachedAt - HaQueryTime <= haNow
    BY <1>2, <2>1, HaAssumption
  <2>3. ASSUME entries[k].from = "archive", NEW i \in DOMAIN archive',
               archive'[i].t \in k[1]..k[2], entries[k].near \/ ~archive'[i].near,
               archive'[i].at < entries[k].cachedAt - HaQueryTime, i \notin entries[k].spots
        PROVE  entries[k].truncated /\ \A j \in entries[k].spots : archive'[i].t <= archive'[j].t
    <3>1. i \in Missing(k, entries[k].near, entries[k].cachedAt - HaQueryTime, entries[k].spots)
      BY <1>5, <2>2, <2>3
    <3>2. i \in DOMAIN archive
      BY <3>1 DEF Missing
    <3>3. entries[k].spots \subseteq DOMAIN archive /\ entries[k].truncated
          /\ \A j \in entries[k].spots : archive[i].t <= archive[j].t
      BY <2>1, <2>3, <3>1 DEF BundleWhole
    <3>4. QED
      BY <1>3, <3>2, <3>3
  <2>4. entries[k].from = "archive" => entries[k].spots \subseteq DOMAIN archive'
    BY <1>3, <2>1 DEF BundleWhole
  <2>5. QED
    BY <2>1, <2>3, <2>4
<1>8. QED
  BY <1>4, <1>6, <1>7 DEF HaInv

\* The clock goes on, no further than a query may take.
LEMMA HaTickKeeps ==
  ASSUME HaInv, HaTick
  PROVE  HaInv'
<1>1. /\ haNow' = haNow + 1 /\ UNCHANGED <<archive, entries, haReqs>> /\ haNow \in Int /\ haNow' \in Int
      /\ \A h \in HaRequests : haReqs[h].st # "idle" => haNow - haReqs[h].now < HaQueryTime
  BY DEF HaTick, inFlight, HaInv, HaTypeOK
<1>2. haNow <= haNow'
  BY <1>1
<1>3. ArchivePast' /\ BundlesWhole' /\ \A k \in DOMAIN entries' : entries'[k].cachedAt \in Int
  BY <1>1, <1>2, BundlesKept
<1>4. AnswersWhole'
  <2> SUFFICES ASSUME NEW h \in HaRequests, haReqs[h].st # "idle"
               PROVE  /\ haReqs[h].now <= haNow' /\ haNow' <= haReqs[h].now + HaQueryTime
                      /\ haReqs[h].st = "answer" /\ haReqs[h].from = "archive" =>
                           /\ haReqs[h].spots \subseteq DOMAIN archive
                           /\ Missing(<<haReqs[h].t0, haReqs[h].t1>>, haReqs[h].near, haReqs[h].now, haReqs[h].spots) = {}
    BY <1>1 DEF AnswersWhole, Missing, matchAndCreateSpot
  <2>1. haReqs[h].now \in Int /\ HaQueryTime \in Int
    BY HaAssumption DEF HaInv, HaTypeOK
  <2>2. haReqs[h].now <= haNow
    BY DEF HaInv, AnswersWhole
  <2>3. haNow - haReqs[h].now < HaQueryTime
    BY <1>1
  <2>4. haReqs[h].now <= haNow + 1 /\ haNow + 1 <= haReqs[h].now + HaQueryTime
    BY <1>1, <2>1, <2>2, <2>3
  <2>5. QED
    BY <1>1, <2>4 DEF HaInv, AnswersWhole
<1>5. QED
  BY <1>1, <1>3, <1>4, HaParts DEF HaInv, HaTypeOK

\* Each step keeps the invariant.
LEMMA HaStep == HaInv /\ [HaNext]_haVars => HaInv'
<1> SUFFICES ASSUME HaInv, [HaNext]_haVars PROVE HaInv'
  OBVIOUS
<1>1. ASSUME NEW h \in HaRequests, historyHandler(h) PROVE HaInv'
  BY <1>1, HandlerKeeps
<1>2. ASSUME NEW h \in HaRequests, loadSpotsRangeForTargets(h) PROVE HaInv'
  BY <1>2, ArchiveAnswerKeeps
<1>3. ASSUME NEW h \in HaRequests, historyMessagesFromHub(h) PROVE HaInv'
  BY <1>3, LiveAnswerKeeps
<1>4. ASSUME NEW h \in HaRequests, encodeHistoryBody(h) PROVE HaInv'
  BY <1>4, EncodeKeeps
<1>5. ASSUME HaSpot PROVE HaInv'
  BY <1>5, SpotKeeps
<1>6. ASSUME HaTick PROVE HaInv'
  BY <1>6, HaTickKeeps
<1>7. ASSUME UNCHANGED <<archive, entries, haReqs, haNow>> PROVE HaInv'
  <2>1. haNow \in Int /\ haNow <= haNow
    BY DEF HaInv, HaTypeOK
  <2>2. ArchivePast' /\ BundlesWhole' /\ \A k \in DOMAIN entries' : entries'[k].cachedAt \in Int
    BY <1>7, <2>1, BundlesKept
  <2>3. QED
    BY <1>7, <2>1, <2>2, AnswersSame, HaParts
<1>8. CASE pruneLiveHistory
  BY <1>7, <1>8 DEF pruneLiveHistory
<1>9. CASE UNCHANGED haVars
  BY <1>7, <1>9 DEF haVars
<1>10. QED
  BY <1>1, <1>2, <1>3, <1>4, <1>5, <1>6, <1>8, <1>9 DEF HaNext

(* A bundle /api/history serves from its cache (history.go:155-184) lacks no *)
(* spot that was stored a time to live and a query ago, unless it was        *)
(* truncated and the spot is older than all it holds: for every number of    *)
(* concurrent requests, window, lateness, limit and time to live.            *)
THEOREM HistoryHonest == HaSpec => []HistoryHitHonest
<1>1. HaInit => HaInv
  BY HaInvInit
<1>2. HaInv /\ [HaNext]_haVars => HaInv'
  BY HaStep
<1>3. HaInv => HistoryHitHonest
  BY HaInvImplies
<1>4. QED
  BY <1>1, <1>2, <1>3, PTL DEF HaSpec

(***************************************************************************)
(* Web push: the subscription store.                                       *)
(***************************************************************************)
\* A stored subscription.
PushSub == [prefs : PushPrefs, created : Nat]

\* The stored subscriptions m and the insertion queue s agree: the queue lists
\* exactly the stored endpoints, each once, by their insertion stamp, and every
\* stamp is below the next one, n.
Queued(m, s, n) ==
    /\ m \in [DOMAIN m -> PushSub] /\ DOMAIN m \subseteq PushEndpoints
    /\ IsFiniteSet(DOMAIN m)
    /\ s \in Seq(PushEndpoints)
    /\ \A i \in 1..Len(s) : s[i] \in DOMAIN m
    /\ \A e \in DOMAIN m : \E i \in 1..Len(s) : s[i] = e
    /\ \A i, j \in 1..Len(s) : i < j => m[s[i]].created < m[s[j]].created
    /\ \A e \in DOMAIN m : m[e].created < n

\* The answers a fan-out may be applying: the service disowns only what it revoked.
PushReplies ==
    fanouts \in [PushWorkers -> [todo : SUBSET (PushEndpoints \X PushSurges),
                                 reply : {NoReply} \cup (PushEndpoints \X {"201", "4xx", "410", "error"})]]
AnswersTrue ==
    \A w \in PushWorkers :
        fanouts[w].reply # NoReply /\ fanouts[w].reply[2] = "410" => fanouts[w].reply[1] \in gone

\* The inductive invariant of the push properties.
PushInv ==
    /\ posts \in Nat /\ pushBoots \in Nat /\ wanted \subseteq PushEndpoints
    /\ Queued(subs, order, posts)
    /\ Cardinality(DOMAIN subs) <= PushMaxSubscriptions
    /\ PushReplies /\ AnswersTrue

\* Places in the queue name different endpoints.
LEMMA QueuedOnce ==
  ASSUME NEW m, NEW s, NEW n, Queued(m, s, n), NEW i \in 1..Len(s), NEW j \in 1..Len(s), s[i] = s[j]
  PROVE  i = j
<1>1. Len(s) \in Nat /\ m[s[i]].created \in Nat
  BY LenProperties DEF Queued, PushSub
<1>2. ~(i < j) /\ ~(j < i)
  BY <1>1 DEF Queued
<1>3. QED
  BY <1>1, <1>2

\* Taking one place out of the queue and its endpoint out of the map.
LEMMA QueuedWithout ==
  ASSUME NEW m, NEW s, NEW n, Queued(m, s, n), NEW k \in 1..Len(s),
         NEW r \in Seq(PushEndpoints), Len(r) = Len(s) - 1,
         \A i \in 1..Len(r) : r[i] = IF i < k THEN s[i] ELSE s[i + 1]
  PROVE  Queued(Without(m, s[k]), r, n)
<1> DEFINE f == Without(m, s[k])
           place(i) == IF i < k THEN i ELSE i + 1
<1>1. Len(s) \in Nat /\ Len(r) \in Nat
  BY LenProperties DEF Queued
<1>2. DOMAIN f = DOMAIN m \ {s[k]} /\ (\A x \in DOMAIN f : f[x] = m[x])
  BY DEF Without
<1>3. f \in [DOMAIN f -> PushSub] /\ DOMAIN f \subseteq PushEndpoints
  BY DEF Without, Queued
<1>4. IsFiniteSet(DOMAIN f)
  BY <1>2, FS_RemoveElement DEF Queued
<1> HIDE DEF f
<1>5. \A i \in 1..Len(r) : place(i) \in 1..Len(s) /\ place(i) # k /\ r[i] = s[place(i)]
  BY <1>1
<1>6. \A i, j \in 1..Len(r) : i < j => place(i) < place(j)
  BY <1>1
<1>7. \A j \in 1..Len(s) : j # k => \E i \in 1..Len(r) : place(i) = j
  <2> TAKE j \in 1..Len(s)
  <2>1. CASE j < k
    BY <2>1, <1>1
  <2>2. CASE j > k
    <3>1. j - 1 \in 1..Len(r) /\ place(j - 1) = j
      BY <2>2, <1>1
    <3>2. QED
      BY <3>1
  <2>3. QED
    BY <2>1, <2>2, <1>1
<1> HIDE DEF place
<1>8. \A j \in 1..Len(s) : s[j] = s[k] => j = k
  BY QueuedOnce
<1>9. \A i \in 1..Len(r) : r[i] \in DOMAIN f
  BY <1>2, <1>5, <1>8 DEF Queued
<1>10. \A e \in DOMAIN f : \E i \in 1..Len(r) : r[i] = e
  <2> TAKE e \in DOMAIN f
  <2>1. PICK j \in 1..Len(s) : s[j] = e
    BY <1>2 DEF Queued
  <2>2. j # k
    BY <1>2, <2>1
  <2>3. PICK i \in 1..Len(r) : place(i) = j
    BY <1>7, <2>2
  <2>4. QED
    BY <1>5, <2>1, <2>3
<1>11. \A i, j \in 1..Len(r) : i < j => f[r[i]].created < f[r[j]].created
  <2> TAKE i, j \in 1..Len(r)
  <2>1. f[r[i]] = m[s[place(i)]] /\ f[r[j]] = m[s[place(j)]]
    BY <1>2, <1>5, <1>9
  <2>2. QED
    BY <2>1, <1>5, <1>6 DEF Queued
<1>12. \A e \in DOMAIN f : f[e].created < n
  BY <1>2 DEF Queued
<1>13. QED
  BY <1>3, <1>4, <1>9, <1>10, <1>11, <1>12 DEF Queued, f

\* A newcomer goes to the end of the queue with the next stamp.
LEMMA QueuedWith ==
  ASSUME NEW m, NEW s, NEW n \in Nat, Queued(m, s, n), NEW e \in PushEndpoints, e \notin DOMAIN m,
         NEW p \in PushPrefs
  PROVE  Queued([x \in DOMAIN m \cup {e} |-> IF x = e THEN [prefs |-> p, created |-> n] ELSE m[x]],
                Append(s, e), n + 1)
<1> DEFINE f == [x \in DOMAIN m \cup {e} |-> IF x = e THEN [prefs |-> p, created |-> n] ELSE m[x]]
           r == Append(s, e)
<1>1. DOMAIN f = DOMAIN m \cup {e} /\ f[e].created = n /\ (\A x \in DOMAIN m : f[x] = m[x])
  OBVIOUS
<1>2. f \in [DOMAIN f -> PushSub] /\ DOMAIN f \subseteq PushEndpoints
  BY DEF Queued, PushSub
<1>3. IsFiniteSet(DOMAIN f)
  BY FS_AddElement DEF Queued
<1>4. /\ r \in Seq(PushEndpoints) /\ Len(s) \in Nat /\ Len(r) = Len(s) + 1 /\ r[Len(s) + 1] = e
      /\ \A i \in 1..Len(s) : r[i] = s[i]
  BY AppendProperties, LenProperties DEF Queued
<1> HIDE DEF f, r
<1>5. \A i \in 1..Len(r) : i \in 1..Len(s) \/ i = Len(s) + 1
  BY <1>4
<1>6. (\A i \in 1..Len(s) : i \in 1..Len(r)) /\ Len(s) + 1 \in 1..Len(r)
  BY <1>4
<1>7. \A i \in 1..Len(r) : r[i] \in DOMAIN f
  BY <1>1, <1>4, <1>5 DEF Queued
<1>8. \A x \in DOMAIN f : \E i \in 1..Len(r) : r[i] = x
  <2> TAKE x \in DOMAIN f
  <2>1. CASE x = e
    BY <2>1, <1>4, <1>6
  <2>2. CASE x \in DOMAIN m
    <3>1. PICK i \in 1..Len(s) : s[i] = x
      BY <2>2 DEF Queued
    <3>2. QED
      BY <3>1, <1>4, <1>6
  <2>3. QED
    BY <2>1, <2>2, <1>1
<1>9. \A i, j \in 1..Len(r) : i < j => f[r[i]].created < f[r[j]].created
  <2> TAKE i, j \in 1..Len(r)
  <2> HAVE i < j
  <2>1. i \in 1..Len(s)
    BY <1>4, <1>5
  <2>2. s[i] \in DOMAIN m /\ f[r[i]] = m[s[i]]
    BY <2>1, <1>1, <1>4 DEF Queued
  <2>3. CASE j \in 1..Len(s)
    BY <2>1, <2>2, <2>3, <1>1, <1>4 DEF Queued
  <2>4. CASE j = Len(s) + 1
    BY <2>2, <2>4, <1>1, <1>4 DEF Queued
  <2>5. QED
    BY <2>3, <2>4, <1>5
<1>10. \A x \in DOMAIN f : f[x].created < n + 1
  <2> TAKE x \in DOMAIN f
  <2>1. CASE x = e
    BY <2>1, <1>1
  <2>2. CASE x \in DOMAIN m
    <3>1. m[x].created \in Nat /\ m[x].created < n
      BY <2>2 DEF Queued, PushSub
    <3>2. QED
      BY <3>1, <2>2, <1>1
  <2>3. QED
    BY <2>1, <2>2, <1>1
<1>11. QED
  BY <1>2, <1>3, <1>4, <1>7, <1>8, <1>9, <1>10 DEF Queued, f, r

\* Time passes.
LEMMA QueuedLater ==
  ASSUME NEW m, NEW s, NEW n \in Nat, Queued(m, s, n)
  PROVE  Queued(m, s, n + 1)
<1>1. \A e \in DOMAIN m : m[e].created \in Nat
  BY DEF Queued, PushSub
<1>2. QED
  BY <1>1 DEF Queued

\* A full store evicts the head of its queue, and that is the oldest entry.
LEMMA EvictsHead ==
  ASSUME PushInv
  PROVE  /\ Queued(evictOldest.subs, evictOldest.order, posts)
         /\ Cardinality(DOMAIN evictOldest.subs) + 1 <= PushMaxSubscriptions
         /\ DOMAIN evictOldest.subs \subseteq DOMAIN subs
         /\ \A x \in DOMAIN subs \ DOMAIN evictOldest.subs, y \in DOMAIN subs :
              subs[x].created <= subs[y].created
<1>1. Cardinality(DOMAIN subs) \in Nat /\ PushMaxSubscriptions \in Nat \ {0}
  BY PushAssumption, FS_CardinalityType DEF PushInv, Queued
<1>2. CASE Cardinality(DOMAIN subs) < PushMaxSubscriptions
  <2>1. evictOldest = [subs |-> subs, order |-> order]
    BY <1>2 DEF evictOldest
  <2>2. QED
    BY <1>1, <1>2, <2>1 DEF PushInv
<1>3. CASE ~(Cardinality(DOMAIN subs) < PushMaxSubscriptions)
  <2> DEFINE stored == {i \in DOMAIN order : order[i] \in DOMAIN subs}
             k == CHOOSE i \in stored : \A j \in stored : i <= j
  <2>1. order \in Seq(PushEndpoints) /\ Len(order) \in Nat /\ DOMAIN order = 1..Len(order)
    BY LenProperties DEF PushInv, Queued
  <2>2. stored = 1..Len(order)
    BY <2>1 DEF PushInv, Queued
  <2>3. DOMAIN subs # {}
    BY <1>1, <1>3, FS_EmptySet DEF PushInv, Queued
  <2>4. Len(order) >= 1
    BY <2>1, <2>3 DEF PushInv, Queued
  <2>5. k = 1
    <3>1. 1 \in stored /\ \A j \in stored : 1 <= j
      BY <2>1, <2>2, <2>4
    <3>2. k \in stored /\ \A j \in stored : k <= j
      BY <3>1
    <3>3. QED
      BY <3>1, <3>2, <2>1, <2>2
  <2>6. stored # {}
    BY <2>2, <2>4, <2>1
  <2>7. evictOldest = [subs |-> Without(subs, order[k]), order |-> SubSeq(order, k + 1, Len(order))]
    BY <1>3, <2>6, Zenon DEF evictOldest
  <2> HIDE DEF stored, k
  <2> DEFINE r == SubSeq(order, 2, Len(order))
  <2>8. evictOldest.subs = Without(subs, order[1]) /\ evictOldest.order = r
    BY <2>5, <2>7
  <2>9. /\ r \in Seq(PushEndpoints) /\ Len(r) = Len(order) - 1
        /\ \A i \in 1..Len(r) : r[i] = IF i < 1 THEN order[i] ELSE order[i + 1]
    <3>1. order # <<>> /\ r = Tail(order)
      BY <2>1, <2>4, TailIsSubSeq
    <3> HIDE DEF r
    <3>2. /\ r \in Seq(PushEndpoints) /\ Len(r) = Len(order) - 1
          /\ \A i \in 1..Len(r) : r[i] = order[i + 1]
      BY <3>1, <2>1, HeadTailProperties
    <3>3. QED
      BY <3>2, <2>1
  <2> HIDE DEF r
  <2>10. Queued(Without(subs, order[1]), r, posts)
    BY <2>1, <2>4, <2>9, QueuedWithout DEF PushInv
  <2>11. order[1] \in DOMAIN subs
    BY <2>1, <2>4 DEF PushInv, Queued
  <2>12. DOMAIN evictOldest.subs = DOMAIN subs \ {order[1]}
    BY <2>8 DEF Without
  <2>13. Cardinality(DOMAIN evictOldest.subs) = Cardinality(DOMAIN subs) - 1
    BY <2>11, <2>12, FS_RemoveElement DEF PushInv, Queued
  <2>14. \A y \in DOMAIN subs : subs[order[1]].created <= subs[y].created
    <3> TAKE y \in DOMAIN subs
    <3>1. PICK j \in 1..Len(order) : order[j] = y
      BY DEF PushInv, Queued
    <3>2. subs[y].created \in Nat /\ subs[order[1]].created \in Nat
      BY <2>11 DEF PushInv, Queued, PushSub
    <3>3. CASE j = 1
      BY <3>1, <3>2, <3>3
    <3>4. CASE 1 < j
      BY <3>1, <3>2, <3>4, <2>1, <2>4 DEF PushInv, Queued
    <3>5. QED
      BY <3>3, <3>4, <2>1
  <2>15. QED
    BY <1>1, <2>8, <2>10, <2>12, <2>13, <2>14 DEF PushInv
<1>4. QED
  BY <1>2, <1>3

\* add: a renewal changes no place or stamp, a newcomer costs at most the oldest.
LEMMA AddKeeps ==
  ASSUME PushInv, NEW e \in PushEndpoints, NEW prefs \in PushPrefs, pushAdd(e, prefs), posts' = posts + 1
  PROVE  /\ Queued(subs', order', posts')
         /\ Cardinality(DOMAIN subs') <= PushMaxSubscriptions
         /\ \A x \in DOMAIN subs \ DOMAIN subs', y \in DOMAIN subs : subs[x].created <= subs[y].created
         /\ DOMAIN subs \ DOMAIN subs' # {} => DOMAIN subs' \ DOMAIN subs # {}
<1>1. CASE e \in DOMAIN subs
  <2>1. subs' = [subs EXCEPT ![e].prefs = prefs] /\ order' = order
    BY <1>1 DEF pushAdd
  <2>2. subs \in [DOMAIN subs -> PushSub]
    BY DEF PushInv, Queued
  <2>3. DOMAIN subs' = DOMAIN subs
    BY <2>1
  <2>4. \A x \in DOMAIN subs : subs'[x] \in PushSub /\ subs'[x].created = subs[x].created
    <3> TAKE x \in DOMAIN subs
    <3>1. subs[x] \in PushSub
      BY <2>2
    <3>2. CASE x = e
      <4>1. subs'[x] = [subs[x] EXCEPT !.prefs = prefs]
        BY <2>1, <3>2
      <4>2. QED
        BY <3>1, <4>1 DEF PushSub
    <3>3. CASE x # e
      BY <2>1, <3>1, <3>3
    <3>4. QED
      BY <3>2, <3>3
  <2>5. subs' \in [DOMAIN subs' -> PushSub]
    BY <2>1, <2>2, <2>3, <2>4
  <2>6. Queued(subs', order', posts)
    BY <2>1, <2>3, <2>4, <2>5 DEF PushInv, Queued
  <2>7. QED
    BY <2>3, <2>6, QueuedLater DEF PushInv
<1>2. CASE e \notin DOMAIN subs
  <2> DEFINE m == evictOldest.subs
             s == evictOldest.order
  <2>1. subs' = [x \in DOMAIN m \cup {e} |-> IF x = e THEN [prefs |-> prefs, created |-> posts] ELSE m[x]]
        /\ order' = Append(s, e)
    BY <1>2 DEF pushAdd
  <2>2. /\ Queued(m, s, posts) /\ Cardinality(DOMAIN m) + 1 <= PushMaxSubscriptions
        /\ DOMAIN m \subseteq DOMAIN subs
        /\ \A x \in DOMAIN subs \ DOMAIN m, y \in DOMAIN subs : subs[x].created <= subs[y].created
    BY EvictsHead
  <2> HIDE DEF m, s
  <2>3. e \notin DOMAIN m /\ posts \in Nat
    BY <1>2, <2>2 DEF PushInv
  <2>4. Queued(subs', order', posts')
    BY <2>1, <2>2, <2>3, QueuedWith
  <2>5. DOMAIN subs' = DOMAIN m \cup {e}
    BY <2>1
  <2>6. Cardinality(DOMAIN subs') = Cardinality(DOMAIN m) + 1
    BY <2>2, <2>3, <2>5, FS_AddElement DEF Queued
  <2>7. QED
    BY <1>2, <2>2, <2>4, <2>5, <2>6
<1>3. QED
  BY <1>1, <1>2

\* remove takes the endpoint out of the map and out of its one place in the queue.
LEMMA RemoveKeeps ==
  ASSUME PushInv, NEW e, pushRemove(e)
  PROVE  /\ Queued(subs', order', posts)
         /\ Cardinality(DOMAIN subs') <= PushMaxSubscriptions
         /\ DOMAIN subs' = DOMAIN subs \ {e}
<1>1. CASE e \notin DOMAIN subs
  BY <1>1 DEF pushRemove, PushInv
<1>2. CASE e \in DOMAIN subs
  <2>1. order \in Seq(PushEndpoints) /\ Len(order) \in Nat /\ DOMAIN order = 1..Len(order)
    BY LenProperties DEF PushInv, Queued
  <2>2. PICK k \in 1..Len(order) : order[k] = e
    BY <1>2 DEF PushInv, Queued
  <2> DEFINE I == {i \in 1..Len(order) : order[i] = e}
  <2>3. I = {k}
    BY <2>2, QueuedOnce DEF PushInv
  <2>4. Min(I) = k
    BY <2>1, <2>3 DEF Min
  <2>5. SelectInSeq(order, LAMBDA v : v = e) = k
    BY <2>3, <2>4 DEF SelectInSeq
  <2>6. RemoveFirst(order, e) = RemoveAt(order, k)
    BY <2>2, <2>5 DEF RemoveFirst
  <2> HIDE DEF I
  <2>7. subs' = Without(subs, e) /\ order' = RemoveAt(order, k)
    <3>1. e \in Range(order)
      BY <2>1, <2>2 DEF Range
    <3>2. QED
      BY <1>2, <2>6, <3>1 DEF pushRemove
  <2> DEFINE a == SubSeq(order, 1, k - 1)
             b == SubSeq(order, k + 1, Len(order))
  <2>8. /\ a \in Seq(PushEndpoints) /\ Len(a) = k - 1
        /\ \A i \in 1..k - 1 : a[i] = order[i]
    <3>1. \A i \in 1..k - 1 : order[i] \in PushEndpoints
      BY <2>1, ElementOfSeq
    <3>2. /\ a \in Seq(PushEndpoints) /\ Len(a) = IF 1 <= k - 1 THEN (k - 1) - 1 + 1 ELSE 0
          /\ \A i \in 1..(k - 1) - 1 + 1 : a[i] = order[1 + i - 1]
      BY <2>1, <3>1, SubSeqProperties
    <3> HIDE DEF a
    <3>3. QED
      BY <2>1, <3>2
  <2>9. /\ b \in Seq(PushEndpoints) /\ Len(b) = Len(order) - k
        /\ \A i \in 1..Len(order) - k : b[i] = order[k + i]
    <3>1. \A i \in k + 1..Len(order) : order[i] \in PushEndpoints
      BY <2>1, ElementOfSeq
    <3>2. /\ b \in Seq(PushEndpoints) /\ Len(b) = IF k + 1 <= Len(order) THEN Len(order) - (k + 1) + 1 ELSE 0
          /\ \A i \in 1..Len(order) - (k + 1) + 1 : b[i] = order[k + 1 + i - 1]
      BY <2>1, <3>1, SubSeqProperties
    <3> HIDE DEF b
    <3>3. Len(order) - (k + 1) + 1 = Len(order) - k /\ (\A i \in Nat : k + 1 + i - 1 = k + i)
      BY <2>1
    <3>4. Len(b) = Len(order) - k
      <4>1. CASE k + 1 <= Len(order)
        BY <3>2, <3>3, <4>1
      <4>2. CASE ~(k + 1 <= Len(order))
        <5>0. \A l \in Nat : \A x \in 1..l : ~(x + 1 <= l) => l - x = 0
          OBVIOUS
        <5>1. Len(order) - k = 0
          BY <2>1, <2>2, <4>2, <5>0
        <5>2. QED
          BY <3>2, <4>2, <5>1
      <4>3. QED
        BY <4>1, <4>2
    <3>5. \A i \in 1..Len(order) - k : b[i] = order[k + i]
      <4> TAKE i \in 1..Len(order) - k
      <4>1. b[i] = order[k + 1 + i - 1]
        BY <3>2, <3>3
      <4>2. i \in Nat
        BY <2>1
      <4>3. QED
        BY <3>3, <4>1, <4>2
    <3>6. QED
      BY <3>2, <3>4, <3>5
  <2> HIDE DEF a, b
  <2> DEFINE r == a \o b
  <2>10. /\ r \in Seq(PushEndpoints) /\ Len(r) = Len(a) + Len(b)
         /\ \A i \in 1..Len(a) + Len(b) : r[i] = IF i <= Len(a) THEN a[i] ELSE b[i - Len(a)]
    BY <2>8, <2>9, ConcatProperties
  <2>11. order' = r
    BY <2>7 DEF RemoveAt, a, b
  <2> HIDE DEF r
  <2>12. Len(r) = Len(order) - 1
    BY <2>1, <2>8, <2>9, <2>10
  <2>13. \A i \in 1..Len(r) : r[i] = IF i < k THEN order[i] ELSE order[i + 1]
    <3> TAKE i \in 1..Len(r)
    <3>1. CASE i < k
      BY <3>1, <2>1, <2>8, <2>9, <2>10
    <3>2. CASE ~(i < k)
      <4>1. i - (k - 1) \in 1..Len(order) - k /\ k + (i - (k - 1)) = i + 1 /\ ~(i <= Len(a)) /\ i - Len(a) = i - (k - 1)
        BY <3>2, <2>1, <2>8, <2>12
      <4>2. r[i] = b[i - (k - 1)]
        BY <4>1, <2>10
      <4>3. QED
        BY <3>2, <4>1, <4>2, <2>9
    <3>3. QED
      BY <3>1, <3>2
  <2>14. Queued(subs', order', posts)
    BY <2>2, <2>7, <2>10, <2>11, <2>12, <2>13, QueuedWithout DEF PushInv
  <2>15. DOMAIN subs' = DOMAIN subs \ {e}
    BY <2>7 DEF Without
  <2>16. Cardinality(DOMAIN subs') = Cardinality(DOMAIN subs) - 1 /\ Cardinality(DOMAIN subs) \in Nat
    BY <1>2, <2>15, FS_RemoveElement, FS_CardinalityType DEF PushInv, Queued
  <2>17. QED
    BY <2>14, <2>15, <2>16, PushAssumption DEF PushInv
<1>3. QED
  BY <1>1, <1>2

\* Nothing is stored before the first subscription.
LEMMA PushInvInit == PushInit => PushInv
<1> SUFFICES ASSUME PushInit PROVE PushInv
  OBVIOUS
<1>1. subs = <<>> /\ DOMAIN subs = {} /\ order = <<>> /\ Len(order) = 0 /\ 1..Len(order) = {}
  BY DEF PushInit
<1>2. IsFiniteSet(DOMAIN subs) /\ Cardinality(DOMAIN subs) = 0
  BY <1>1, FS_EmptySet
<1>3. subs \in [DOMAIN subs -> PushSub]
  BY <1>1
<1>4. order \in Seq(PushEndpoints)
  BY <1>1
<1>5. Queued(subs, order, posts)
  BY <1>1, <1>2, <1>3, <1>4 DEF Queued
<1>6. PushReplies /\ AnswersTrue
  BY DEF PushInit, PushReplies, AnswersTrue, pushIdle, NoReply
<1>7. QED
  BY <1>2, <1>5, <1>6, PushAssumption DEF PushInit, PushInv

\* A subscribe request, whatever its limit and its body say.
LEMMA SubscribeStep ==
  ASSUME PushInv, NEW peer, NEW xff, NEW e \in PushEndpoints, NEW prefs \in PushPrefs, NEW valid,
         pushSubscribeHandler(peer, xff, e, prefs, valid)
  PROVE  /\ PushInv'
         /\ \A x \in DOMAIN subs \ DOMAIN subs', y \in DOMAIN subs : subs[x].created <= subs[y].created
         /\ DOMAIN subs \ DOMAIN subs' # {} => DOMAIN subs' \ DOMAIN subs # {}
<1>1. /\ posts' = posts + 1 /\ wanted' = wanted \cup {e} /\ UNCHANGED <<fanouts, gone, pushBoots>>
      /\ pushAdd(e, prefs) \/ UNCHANGED <<subs, order>>
  BY DEF pushSubscribeHandler, outside
<1>2. posts' \in Nat /\ wanted' \subseteq PushEndpoints /\ PushReplies' /\ AnswersTrue'
  BY <1>1 DEF PushInv, PushReplies, AnswersTrue
<1>3. CASE pushAdd(e, prefs)
  BY <1>1, <1>2, <1>3, AddKeeps DEF PushInv
<1>4. CASE UNCHANGED <<subs, order>>
  BY <1>1, <1>2, <1>4, QueuedLater DEF PushInv
<1>5. QED
  BY <1>1, <1>3, <1>4

\* Every step keeps the invariant, evicts only the oldest, and takes from the
\* store only what a newcomer, the browser, the push service or a restart took.
LEMMA PushStep ==
  ASSUME PushInv, [PushNext]_pushVars
  PROVE  /\ PushInv'
         /\ \A x \in DOMAIN subs \ DOMAIN subs', y \in DOMAIN subs :
              DOMAIN subs' \ DOMAIN subs # {} => subs[x].created <= subs[y].created
         /\ \A e \in DOMAIN subs \ DOMAIN subs' :
              e \in gone \/ e \notin wanted' \/ DOMAIN subs' \ DOMAIN subs # {} \/ pushBoots' # pushBoots
<1>1. CASE Subscribe
  BY <1>1, SubscribeStep DEF Subscribe
<1>2. CASE pushSubscriptionStatusHandler
  <2>1. PICK peer \in PushPeers, e \in wanted, prefs \in PushPrefs : pushSubscribeHandler(peer, "", e, prefs, TRUE)
    BY <1>2 DEF pushSubscriptionStatusHandler
  <2>2. e \in PushEndpoints
    BY <2>1 DEF PushInv
  <2>3. QED
    BY <2>1, <2>2, SubscribeStep
<1>3. CASE pushUnsubscribeHandler
  <2>1. PICK e \in wanted : wanted' = wanted \ {e} /\ pushRemove(e) /\ UNCHANGED <<outside, ipWindows, posts>>
    BY <1>3 DEF pushUnsubscribeHandler
  <2>2. /\ Queued(subs', order', posts) /\ Cardinality(DOMAIN subs') <= PushMaxSubscriptions
        /\ DOMAIN subs' = DOMAIN subs \ {e}
    BY <2>1, RemoveKeeps
  <2>3. PushInv'
    BY <2>1, <2>2 DEF PushInv, PushReplies, AnswersTrue, outside
  <2>4. QED
    BY <2>1, <2>2, <2>3
<1>4. ASSUME NEW w \in PushWorkers, NotifySurges(w)
      PROVE  PushInv' /\ UNCHANGED subs
  <2>1. PICK cells \in (SUBSET PushSurges) \ {{}} :
           fanouts' = [fanouts EXCEPT ![w].todo =
             {job \in (DOMAIN subs) \X cells : matches(subs[job[1]].prefs, job[2])}]
    BY <1>4 DEF NotifySurges
  <2> DEFINE T == {job \in (DOMAIN subs) \X cells : matches(subs[job[1]].prefs, job[2])}
  <2>2. T \in SUBSET (PushEndpoints \X PushSurges)
    <3>1. DOMAIN subs \subseteq PushEndpoints /\ cells \subseteq PushSurges
      BY DEF PushInv, Queued
    <3>2. QED
      BY <3>1
  <2> HIDE DEF T
  <2>3. fanouts' = [fanouts EXCEPT ![w] = [fanouts[w] EXCEPT !.todo = T]]
    BY <2>1 DEF T
  <2>4. PushReplies' /\ \A v \in PushWorkers : fanouts'[v].reply = fanouts[v].reply
    BY <2>2, <2>3 DEF PushInv, PushReplies
  <2>5. UNCHANGED <<subs, order, wanted, gone, posts, pushBoots>>
    BY <1>4 DEF NotifySurges
  <2>6. AnswersTrue'
    BY <2>4, <2>5 DEF PushInv, AnswersTrue
  <2>7. QED
    BY <2>4, <2>5, <2>6 DEF PushInv
<1>5. ASSUME NEW w \in PushWorkers, defaultPushSendFunc(w)
      PROVE  PushInv' /\ UNCHANGED subs
  <2>1. PICK job \in fanouts[w].todo : \E status \in Answers(job[1]) :
           fanouts' = [fanouts EXCEPT ![w] = [todo |-> fanouts[w].todo \ {job}, reply |-> <<job[1], status>>]]
    BY <1>5 DEF defaultPushSendFunc
  <2>1a. PICK status \in Answers(job[1]) :
           fanouts' = [fanouts EXCEPT ![w] = [todo |-> fanouts[w].todo \ {job}, reply |-> <<job[1], status>>]]
    BY <2>1
  <2>2. UNCHANGED <<subs, order, wanted, gone, posts, pushBoots>>
    BY <1>5 DEF defaultPushSendFunc
  <2>3. fanouts[w].todo \in SUBSET (PushEndpoints \X PushSurges) /\ job[1] \in PushEndpoints
    BY <2>1 DEF PushInv, PushReplies
  <2>4. status \in {"201", "4xx", "410", "error"} /\ (status = "410" => job[1] \in gone)
    BY <2>1a DEF Answers
  <2> DEFINE f == [todo |-> fanouts[w].todo \ {job}, reply |-> <<job[1], status>>]
  <2>5. /\ f \in [todo : SUBSET (PushEndpoints \X PushSurges),
                  reply : {NoReply} \cup (PushEndpoints \X {"201", "4xx", "410", "error"})]
        /\ f.reply[1] = job[1] /\ f.reply[2] = status
    BY <2>3, <2>4
  <2>6. fanouts' = [fanouts EXCEPT ![w] = f]
    BY <2>1a
  <2> HIDE DEF f
  <2>7. PushReplies'
    BY <2>5, <2>6 DEF PushInv, PushReplies
  <2>8. \A v \in PushWorkers : fanouts'[v] = IF v = w THEN f ELSE fanouts[v]
    BY <2>6 DEF PushInv, PushReplies
  <2>9. AnswersTrue'
    BY <2>2, <2>4, <2>5, <2>8 DEF PushInv, AnswersTrue
  <2>10. QED
    BY <2>2, <2>7, <2>9 DEF PushInv
<1>6. ASSUME NEW w \in PushWorkers, sendPushNotification(w)
      PROVE  PushInv' /\ DOMAIN subs' \subseteq DOMAIN subs /\ DOMAIN subs \ DOMAIN subs' \subseteq gone
  <2>1. /\ fanouts[w].reply # NoReply
        /\ fanouts' = [fanouts EXCEPT ![w] = [fanouts[w] EXCEPT !.reply = NoReply]]
        /\ UNCHANGED <<wanted, gone, posts, pushBoots>>
    BY <1>6 DEF sendPushNotification
  <2>2. PushReplies' /\ \A v \in PushWorkers : fanouts'[v].reply = NoReply \/ fanouts'[v].reply = fanouts[v].reply
    BY <2>1 DEF PushInv, PushReplies
  <2>3. AnswersTrue'
    BY <2>1, <2>2 DEF PushInv, AnswersTrue
  <2>4. CASE endpointGone(fanouts[w].reply[2])
    <3>1. fanouts[w].reply \in PushEndpoints \X {"201", "4xx", "410", "error"}
      BY <2>1 DEF PushInv, PushReplies
    <3>2. fanouts[w].reply[2] = "410"
      BY <2>4, <3>1 DEF endpointGone
    <3>3. fanouts[w].reply[1] \in gone
      BY <2>1, <3>2 DEF PushInv, AnswersTrue
    <3>4. pushRemove(fanouts[w].reply[1])
      BY <1>6, <2>4 DEF sendPushNotification
    <3>5. /\ Queued(subs', order', posts) /\ Cardinality(DOMAIN subs') <= PushMaxSubscriptions
          /\ DOMAIN subs' = DOMAIN subs \ {fanouts[w].reply[1]}
      BY <3>4, RemoveKeeps
    <3>6. QED
      BY <2>1, <2>2, <2>3, <3>3, <3>5 DEF PushInv
  <2>5. CASE ~endpointGone(fanouts[w].reply[2])
    <3>1. UNCHANGED <<subs, order>>
      BY <1>6, <2>5 DEF sendPushNotification
    <3>2. QED
      BY <2>1, <2>2, <2>3, <3>1 DEF PushInv
  <2>6. QED
    BY <2>4, <2>5
<1>7. CASE Revoke
  <2>1. gone \subseteq gone' /\ UNCHANGED <<subs, order, fanouts, wanted, posts, pushBoots>>
    BY <1>7 DEF Revoke
  <2>2. PushInv'
    BY <2>1 DEF PushInv, PushReplies, AnswersTrue
  <2>3. QED
    BY <2>1, <2>2
<1>8. CASE PushTick
  <2>1. UNCHANGED <<subs, order, fanouts, wanted, gone, posts, pushBoots>>
    BY <1>8 DEF PushTick
  <2>2. PushInv'
    BY <2>1 DEF PushInv, PushReplies, AnswersTrue
  <2>3. QED
    BY <2>1, <2>2
<1>9. CASE PushRestart
  <2>1. subs' = <<>> /\ DOMAIN subs' = {} /\ order' = <<>> /\ 1..Len(order') = {}
        /\ fanouts' = [w \in PushWorkers |-> pushIdle] /\ UNCHANGED <<wanted, gone, posts>>
    BY <1>9 DEF PushRestart
  <2>2. IsFiniteSet(DOMAIN subs') /\ Cardinality(DOMAIN subs') = 0
    BY <2>1, FS_EmptySet
  <2>3. subs' \in [DOMAIN subs' -> PushSub] /\ order' \in Seq(PushEndpoints)
    BY <2>1
  <2>4. Queued(subs', order', posts')
    BY <2>1, <2>2, <2>3 DEF Queued
  <2>5. PushReplies' /\ AnswersTrue'
    BY <2>1 DEF PushReplies, AnswersTrue, pushIdle
  <2>6. pushBoots' # pushBoots
    BY <1>9 DEF PushRestart, PushInv
  <2>7. pushBoots' \in Nat
    BY <1>9 DEF PushRestart, PushInv
  <2>8. PushInv'
    BY <2>1, <2>2, <2>4, <2>5, <2>7, PushAssumption DEF PushInv
  <2>9. QED
    BY <2>1, <2>6, <2>8
<1>10. CASE UNCHANGED pushVars
  BY <1>10 DEF pushVars, PushInv, PushReplies, AnswersTrue
<1>11. QED
  BY <1>1, <1>2, <1>3, <1>4, <1>5, <1>6, <1>7, <1>8, <1>9, <1>10 DEF PushNext

\* For every cap, set of endpoints and order of renewals, withdrawals, revoked
\* endpoints and late answers, the store stays within its cap and a newcomer
\* displaces only the subscription stored longest.
THEOREM PushEviction == PushSpec => PushEvictsOldest
<1> DEFINE A == /\ Cardinality(DOMAIN subs') <= PushMaxSubscriptions
                /\ \A x \in DOMAIN subs \ DOMAIN subs', y \in DOMAIN subs :
                     DOMAIN subs' \ DOMAIN subs # {} => subs[x].created <= subs[y].created
<1>1. PushInv /\ [PushNext]_pushVars => PushInv' /\ A
  BY PushStep DEF PushInv
<1> HIDE DEF A
<1>2. PushSpec => [][A]_pushVars
  BY <1>1, PushInvInit, PTL DEF PushSpec
<1>3. QED
  BY <1>2 DEF A, PushEvictsOldest

\* And an endpoint its browser still wants is dropped only for a newcomer, by a
\* restart, or because the push service revoked it: never by an answer that
\* was under way while it was renewed.
THEOREM PushLiveKept == PushSpec => PushKeepsLive
<1> DEFINE A == \A e \in DOMAIN subs \ DOMAIN subs' :
                  \/ e \in gone
                  \/ e \notin wanted'
                  \/ DOMAIN subs' \ DOMAIN subs # {}
                  \/ pushBoots' # pushBoots
<1>1. PushInv /\ [PushNext]_pushVars => PushInv' /\ A
  BY PushStep
<1> HIDE DEF A
<1>2. PushSpec => [][A]_pushVars
  BY <1>1, PushInvInit, PTL DEF PushSpec
<1>3. QED
  BY <1>2 DEF A, PushKeepsLive
=============================================================================
