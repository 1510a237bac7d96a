------------------------------ MODULE Horstprop ------------------------------
(***************************************************************************)
(* horstprop (cmd/horstprop): scores the path from home to a spotted DX    *)
(* station.  Layer 1 is a rolling store of reception reports fed from      *)
(* HorstReporter's stream; the feed reconnects and is then sent the whole  *)
(* window again, so a report may be stored more than once.  The stream     *)
(* says how old a report is, not when it was made; that age is fixed when  *)
(* the stream takes the report up, and the frame may then wait in the      *)
(* channel and on the wire for any time.  Layer 2 is a MUF gate from a     *)
(* cached KC2G snapshot, which is only as fresh as the last poll that      *)
(* succeeded.  Layer 3 abstains (model.Disabled).                          *)
(*                                                                         *)
(* Scores, gates and confidences are percentages.  Grid squares are points *)
(* of a line, so "within n rings" is a distance.                           *)
(***************************************************************************)
EXTENDS Integers, Sequences, FiniteSets, FiniteSetsExt, Bags, BagsExt

CONSTANTS
    HpSquares,      \* grid squares
    HpBands,        \* bands, by their frequency in MHz
    HpSnrs,         \* signal strengths of the reports, in dB
    HpMufs,         \* MUFs the ionosondes measure, in MHz
    HpMatchRings,   \* -match-rings
    HpWindow,       \* WindowMinutes, in ticks of the clock
    HpMaxAge,       \* kc2g maxAge, in ticks of the clock
    HpMaxTime, HpMaxReports, HpMaxDrops     \* bounds

ASSUME HpConstants ==
    /\ HpSquares \subseteq Nat \ {0} /\ HpSnrs \subseteq Int
    /\ HpBands \subseteq Nat \ {0} /\ HpMufs \subseteq Nat \ {0}
    /\ HpMatchRings \in Nat /\ {HpWindow, HpMaxAge} \subseteq Nat \ {0}
    /\ {HpMaxTime, HpMaxReports, HpMaxDrops} \subseteq Nat

VARIABLES
    hpNow,      \* the clock
    hpLog,      \* HorstReporter's history of reports, in order
    hpFeed,     \* runFeed: [up, queue, drops]; the frames on their way to it
    hpStore,    \* buckets: band and square to the bag of reports kept
    hpSondes,   \* kc2g stations: cached [muf, at], or HpNoSonde
    hpHeard     \* ghost: what the feed delivered: [report, sent, got]

hpVars == <<hpNow, hpLog, hpFeed, hpStore, hpSondes, hpHeard>>

HpNone == 0                             \* no square
HpNoSonde == [muf |-> 0, at |-> 0]      \* no measurement
HpSpots ==
    {[grid |-> g, centroid |-> HpNone, freq |-> f] : g \in HpSquares \cup {HpNone}, f \in HpBands}
    \cup {[grid |-> HpNone, centroid |-> sq, freq |-> f] : sq \in HpSquares, f \in HpBands}

(***************************************************************************)
(* The store.                                                              *)
(***************************************************************************)
Fresh(r) == r.at > hpNow - HpWindow

\* Add: only a receiver within the home area counts.
Add(store, r) ==
    IF r.rx = "home" THEN [store EXCEPT ![<<r.band, r.tx>>] = BagAdd(@, [snr |-> r.snr, at |-> r.at])]
    ELSE store

\* Mutant: a bucket with an expired report is deleted.
keptWholeOrNone(reps) == IF \A r \in DOMAIN reps : Fresh(r) THEN reps ELSE EmptyBag

\* The reports of a bucket that have not expired.
kept(reps) == [r \in {x \in DOMAIN reps : Fresh(x)} |-> reps[r]]

Near(sq) == {t \in HpSquares : t - sq \in -HpMatchRings..HpMatchRings}

\* Lookup: what it returns, and what it leaves of the buckets it touches.
Lookup(band, sq) ==
    [r \in UNION {DOMAIN kept(hpStore[<<band, t>>]) : t \in Near(sq)} |->
        MapThenSumSet(LAMBDA t : hpStore[<<band, t>>][r],
                      {t \in Near(sq) : r \in DOMAIN kept(hpStore[<<band, t>>])})]
LookupPrunes(band, sq) ==
    [k \in DOMAIN hpStore |-> IF k[1] = band /\ k[2] \in Near(sq) THEN kept(hpStore[k]) ELSE hpStore[k]]

Prune ==
    /\ hpStore' = [k \in DOMAIN hpStore |-> kept(hpStore[k])]
    /\ UNCHANGED <<hpNow, hpLog, hpFeed, hpSondes, hpHeard>>

(***************************************************************************)
(* The KC2G snapshot: one ionosonde in range of each end of the path and   *)
(* of its midpoint.                                                        *)
(***************************************************************************)
HpPoints == {"near", "mid", "far"}

MUFAt(p) ==
    IF hpSondes[p] = HpNoSonde \/ hpNow - hpSondes[p].at > HpMaxAge THEN 0 ELSE hpSondes[p].muf

\* Refresh: a fetch replaces the whole snapshot, a failed one changes nothing.
Refresh(snapshot) ==
    /\ hpSondes' = snapshot
    /\ UNCHANGED <<hpNow, hpLog, hpFeed, hpStore, hpHeard>>

(***************************************************************************)
(* The engine.                                                             *)
(***************************************************************************)
Clamp(v, lo, hi) == IF v < lo THEN lo ELSE IF v > hi THEN hi ELSE v
Rounded(v, d) == (2 * v + d) \div (2 * d)

\* resolveLocation: the grid of the spot, else the centroid of its entity.
resolveLocation(spot) == IF spot.grid # HpNone THEN spot.grid ELSE spot.centroid

\* ft8SnrToScore: linear between anchors.
ft8SnrToScore(snr) ==
    LET pts == <<<<-25, 8>>, <<-18, 25>>, <<-5, 55>>, <<5, 85>>, <<15, 96>>>> IN
    IF snr <= -25 THEN 8 ELSE IF snr >= 15 THEN 96
    ELSE LET i == CHOOSE i \in 2..5 : snr <= pts[i][1] /\ snr > pts[i - 1][1]
             a == pts[i - 1]
             b == pts[i]
         IN  a[2] + ((b[2] - a[2]) * (snr - a[1])) \div (b[1] - a[1])

\* empiricalConfidence
empiricalConfidence(n, age) ==
    Clamp(((50 + 5 * (n - 1)) * Clamp(100 - (30 * age) \div HpWindow, 70, 100)) \div 100, 50, 92)

\* empirical, of the reports looked up: abstains without any.
empirical(reps) ==
    LET n == BagCardinality(reps)
        snrs == {r.snr : r \in DOMAIN reps}
        upTo(snr) == MapThenSumSet(LAMBDA r : reps[r], {r \in DOMAIN reps : r.snr <= snr})
        age == Clamp(hpNow - Max({r.at : r \in DOMAIN reps}), 0, HpWindow)
        best == Max(snrs)
        med == Min({snr \in snrs : upTo(snr) > n \div 2})
    IN  IF DOMAIN reps = {} THEN [ok |-> FALSE, score |-> 50, conf |-> 15, best |-> 0]
        ELSE [ok |-> TRUE, best |-> best, conf |-> empiricalConfidence(n, age),
              score |-> Rounded((6 * ft8SnrToScore(best) + 4 * ft8SnrToScore(med))
                                    * Clamp(100 - (40 * age) \div HpWindow, 60, 100), 1000)]

\* gateForRatio, of the ratio of frequency to MUF in percent.
gateForRatio(r) ==
    IF r <= 85 THEN 100 ELSE IF r <= 100 THEN 100 - 4 * (r - 85)
    ELSE Max({0, 40 - (4 * (r - 100)) \div 3})

\* mufGate: the lowest MUF of the control points; none on VHF or without a
\* fresh ionosonde in range.
mufGate(freq) ==
    LET mufs == {MUFAt(p) : p \in HpPoints} \ {0} IN
    IF freq >= 50 \/ mufs = {} THEN [ok |-> FALSE, gate |-> 100, conf |-> 0]
    ELSE [ok |-> TRUE, gate |-> gateForRatio((100 * freq) \div Min(mufs)),
          conf |-> LET age == Max({hpNow - hpSondes[p].at : p \in {q \in HpPoints : MUFAt(q) # 0}})
                   IN  Clamp(60 - (75 * age) \div (4 * HpMaxAge), 35, 60)]

\* propcontract.Grade
Grade(score, conf) ==
    CASE conf < 20 -> "?"
      [] conf >= 20 /\ score >= 75 -> "A"
      [] conf >= 20 /\ score \in 55..74 -> "B"
      [] conf >= 20 /\ score \in 35..54 -> "C"
      [] OTHER -> "D"

\* Evidence first, the gate softened by how far the evidence is trusted.
Weighed(l1, l2) ==
    LET trust == (Clamp(((l1.conf - 50) * 100) \div 42, 0, 100) * 85) \div 100
        gate == IF l1.ok THEN l2.gate + ((100 - l2.gate) * trust) \div 100 ELSE l2.gate
        score == Clamp(Rounded(l1.score * gate, 100), 0, 100)
        conf == IF l2.ok /\ l2.gate <= 40 THEN Max({l1.conf, l2.conf})
                ELSE IF l2.ok /\ ~l1.ok THEN l2.conf ELSE l1.conf
    IN  [heard |-> l1.ok, best |-> l1.best, gated |-> l2.ok, score |-> score, grade |-> Grade(score, conf)]

\* Score: of a spot that can be placed.
Score(spot) ==
    LET sq == resolveLocation(spot) IN
    IF sq = HpNone THEN [heard |-> FALSE, best |-> 0, gated |-> FALSE, score |-> 50, grade |-> "?"]
    ELSE Weighed(empirical(Lookup(spot.freq, sq)), mufGate(spot.freq))

\* /v1/score and /v1/debug: answered from the state, expiring what they touch.
handleScore(spot) ==
    /\ resolveLocation(spot) # HpNone
    /\ hpStore' = LookupPrunes(spot.freq, resolveLocation(spot))
    /\ UNCHANGED <<hpNow, hpLog, hpFeed, hpSondes, hpHeard>>

(***************************************************************************)
(* The feed.                                                               *)
(***************************************************************************)
\* matchAndCreateSpot: a frame, its report's age fixed at the time sent.
Frame(r) == [report |-> r, sent |-> hpNow]

\* broadcastMsg: a report enters the history and, with its age of now, the
\* channel of a feed that is connected; one that is full drops it.
HpReport(r) ==
    /\ Len(hpLog) < HpMaxReports
    /\ hpLog' = Append(hpLog, r)
    /\ \/ UNCHANGED hpFeed
       \/ hpFeed.up /\ hpFeed' = [hpFeed EXCEPT !.queue = Append(@, Frame(r))]
    /\ UNCHANGED <<hpNow, hpStore, hpSondes, hpHeard>>

\* Run: a connection is sent what the history holds of the window.
HpConnect ==
    /\ ~hpFeed.up
    /\ \E first \in 1..(Len(hpLog) + 1) :
         /\ \A j \in DOMAIN hpLog : j >= first <=> hpLog[j].at >= hpNow - HpWindow
         /\ LET window == SubSeq(hpLog, first, Len(hpLog))
            IN  hpFeed' = [hpFeed EXCEPT !.up = TRUE, !.queue = [j \in DOMAIN window |-> Frame(window[j])]]
    /\ UNCHANGED <<hpNow, hpLog, hpStore, hpSondes, hpHeard>>

\* mapSpot: the report is dated the reception time less the age in the frame.
mapSpot(f) == [f.report EXCEPT !.at = hpNow - (f.sent - f.report.at)]

\* consume: cluster spots are dropped, everything else is stored.
HpDeliver ==
    /\ hpFeed.queue # <<>>
    /\ LET f == Head(hpFeed.queue)
       IN  /\ hpStore' = IF f.report.src = "dxcluster" THEN hpStore ELSE Add(hpStore, mapSpot(f))
           /\ hpHeard' = hpHeard \cup {[report |-> f.report, sent |-> f.sent, got |-> hpNow]}
    /\ hpFeed' = [hpFeed EXCEPT !.queue = Tail(@)]
    /\ UNCHANGED <<hpNow, hpLog, hpSondes>>

\* The stream ends, and what was under way with it; runFeed comes back in 5 s.
HpDrop ==
    /\ hpFeed.up /\ hpFeed.drops < HpMaxDrops
    /\ hpFeed' = [up |-> FALSE, queue |-> <<>>, drops |-> hpFeed.drops + 1]
    /\ UNCHANGED <<hpNow, hpLog, hpStore, hpSondes, hpHeard>>

HpTick ==
    /\ hpNow < HpMaxTime
    /\ hpNow' = hpNow + 1
    /\ UNCHANGED <<hpLog, hpFeed, hpStore, hpSondes, hpHeard>>

HpInit ==
    /\ hpNow = 0 /\ hpLog = <<>> /\ hpHeard = {}
    /\ hpFeed = [up |-> FALSE, queue |-> <<>>, drops |-> 0]
    /\ hpStore = [k \in HpBands \X HpSquares |-> EmptyBag]
    /\ hpSondes = [p \in HpPoints |-> HpNoSonde]

\* What HorstReporter receives: PSKReporter's reports (mqtt) by the home area,
\* the weak ones from one square, and from there strong ones of its other
\* sources, of which WSPR passes as RBN does, or by a receiver elsewhere.
HpSources == {"mqtt", "rbn", "dxcluster"}
HpReports ==
    {r \in [tx : HpSquares, rx : {"home", "away"}, src : HpSources, band : HpBands, snr : HpSnrs, at : {hpNow}] :
        \/ r.rx = "home" /\ r.src = "mqtt" /\ (r.tx = Min(HpSquares) \/ r.snr = Max(HpSnrs))
        \/ r.tx = Min(HpSquares) /\ r.snr = Max(HpSnrs) /\ (r.rx = "home" \/ r.src = "mqtt")}

\* What KC2G publishes: measurements of now, or none, for two of the points.
HpSnapshots ==
    {[p \in HpPoints |-> IF p \in pts THEN [muf |-> m, at |-> hpNow] ELSE HpNoSonde] :
        pts \in {{}, {"near", "mid"}}, m \in HpMufs}

HpNext ==
    \/ \E r \in HpReports : HpReport(r)
    \/ HpConnect
    \/ HpDeliver
    \/ HpDrop
    \/ Prune
    \/ \E snapshot \in HpSnapshots : Refresh(snapshot)
    \/ \E spot \in HpSpots : handleScore(spot)
    \/ HpTick

HpSpec == HpInit /\ [][HpNext]_hpVars

(***************************************************************************)
(* Properties.                                                             *)
(***************************************************************************)
\* The receptions by the home area that a spot's path may rest on, whatever
\* reports them but a cluster: their age is within the window, the time they
\* were under way not counted.
HpEvidence(spot) ==
    {d.report : d \in {h \in hpHeard :
        /\ h.report.rx = "home" /\ h.report.src # "dxcluster" /\ h.report.band = spot.freq
        /\ h.report.tx \in Near(resolveLocation(spot))
        /\ hpNow - h.report.at < HpWindow + (h.got - h.sent)}}

\* A score says no more than the evidence and the live ionosondes do.
GroundedIn(s, spot, evidence) ==
    LET live == \E p \in HpPoints : hpSondes[p] # HpNoSonde /\ hpNow - hpSondes[p].at <= HpMaxAge
    IN  /\ s.heard <=> evidence # {}
        /\ s.heard => s.best = Max({r.snr : r \in evidence})
        /\ s.gated => live /\ spot.freq < 50
        /\ ~s.heard /\ ~s.gated => s.score = 50 /\ s.grade = "?"

\* "silence is not a low score", "never a synchronous fetch": whenever a spot
\* is scored, its path counts as heard exactly when the feed has delivered a
\* report of that band, from near the DX, by a receiver of the home area, of
\* any source but a cluster, that is no older than the window and the time it
\* was under way, with the best of those signals; it is gated only by
\* ionosondes measured within the maximum age; and a path with neither is
\* neutral, of no grade.  Neither the expiry of other reports, in whatever order
\* prunes and lookups run, nor a reconnect that sends everything again, with
\* ages taken anew, changes that.
ScoreGrounded ==
    \A spot \in HpSpots :
        GroundedIn(Score(spot), spot, IF resolveLocation(spot) = HpNone THEN {} ELSE HpEvidence(spot))
=============================================================================
