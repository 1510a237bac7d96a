------------------------------ MODULE WsprLive ------------------------------
(* The live WSPR poller of horstreporter.  Every poll asks wspr.live for the *)
(* whole look-back window, so a row comes back several times; a set of keys  *)
(* already ingested collapses the repeats.  Keys are forgotten after twice   *)
(* the window, the set dies with the process and is rebuilt at start from    *)
(* the rows that had reached dx_raw_spots.  A poll is a round trip: the      *)
(* window is taken at the service and the rows are processed later.          *)
EXTENDS Integers, FiniteSets

CONSTANTS
    WlIds,          \* rows of wspr.rx: one per time, band, receiver, sender, frequency
    WlKinds,        \* what a row is like, of the four below
    WlLookback,     \* wsprLookbackSeconds, in ticks (wspr.go:74)
    WlLatency,      \* ticks a poll may take: the client's 20 s time-out (wspr.go:215)
    WlUploadLag,    \* ticks by which a row may reach wspr.live late
    WlMaxTime, WlMaxRestarts

\* A row with both callsigns, a band in scope, a parsed time and a receiver
\* locator; one without the locator; one whose time does not parse; and one
\* that wsprMessageFromRow refuses.
WlAllKinds == {"good", "noLocator", "badTime", "refused"}

ASSUME WlAssumption ==
    /\ WlKinds \subseteq WlAllKinds
    /\ WlLookback \in Nat \ {0} /\ {WlLatency, WlUploadLag} \subseteq Nat /\ WlLatency <= WlLookback

VARIABLES
    air,       \* rows of wspr.live: id -> [t, kind] (external)
    seen,      \* wsprSeen: key -> when first seen
    asked,     \* the poll in flight: [at, rows], or NotAsked
    wsprRows,    \* dx_raw_spots: key -> number of rows
    forwarded, \* id -> broadcasts by this process
    observed,  \* id -> spots fed to the climatology by this process
    wlNow, wlRestarts,
    unseeded   \* starts whose history backfill failed

wlVars == <<air, seen, asked, wsprRows, forwarded, observed, wlNow, wlRestarts, unseeded>>

NotAsked == [at |-> -1, rows |-> {}]
wsprKeys == WlIds \X (0..WlMaxTime)
NoneYet == [i \in WlIds |-> 0]

WlInit ==
    /\ air = <<>> /\ seen = <<>> /\ asked = NotAsked
    /\ wsprRows = [k \in wsprKeys |-> 0]
    /\ forwarded = NoneYet /\ observed = NoneYet
    /\ wlNow = WlUploadLag /\ wlRestarts = 0 /\ unseeded = 0

-----------------------------------------------------------------------------

\* wsprSeenTTL
wsprSeenTTL == 2 * WlLookback

\* A time that does not parse becomes the time of the poll.
wsprMessageTime(id, now) == IF air[id].kind = "badTime" THEN now ELSE air[id].t

\* The message's key: the row's identity and its time.
wsprKeyFor(id, now) == <<id, wsprMessageTime(id, now)>>

\* Out-of-scope bands and rows without a callsign are refused.
wsprMessageFromRow(id) == air[id].kind # "refused"

isWSPRSpotUsableForLive(id) == air[id].kind # "noLocator"

\* The set after the keys seen longer ago than the time to live are dropped.
wsprPrune(now) == [k \in {x \in DOMAIN seen : seen[x] >= now - wsprSeenTTL} |-> seen[k]]

\* Mutant: only the rows the map can show are seeded.
seedFromHistoryShown(now) ==
    [k \in {x \in wsprKeys : wsprRows[x] > 0 /\ x[2] >= now - wsprSeenTTL
                             /\ isWSPRSpotUsableForLive(x[1])} |-> now]

\* The keys of the WSPR rows the start-up backfill read from dx_raw_spots.
seedFromHistory(now) ==
    [k \in {x \in wsprKeys : wsprRows[x] > 0 /\ x[2] >= now - wsprSeenTTL} |-> now]

-----------------------------------------------------------------------------

\* A receiver uploads a row, possibly some time after it was heard.
Upload ==
    /\ \E id \in WlIds \ DOMAIN air, lag \in 0..WlUploadLag, kind \in WlKinds :
         air' = [i \in DOMAIN air \cup {id} |->
                    IF i = id THEN [t |-> wlNow - lag, kind |-> kind] ELSE air[i]]
    /\ UNCHANGED <<seen, asked, wsprRows, forwarded, observed, wlNow, wlRestarts, unseeded>>

\* The poller asks for the window ("time > now() - N").
startWSPRIngest ==
    /\ asked = NotAsked
    /\ asked' = [at |-> wlNow, rows |-> {i \in DOMAIN air : air[i].t > wlNow - WlLookback}]
    /\ UNCHANGED <<air, seen, wsprRows, forwarded, observed, wlNow, wlRestarts, unseeded>>

\* The request, the status, the body (cut at 4 MiB) or its parsing fails.
PollFails ==
    /\ asked # NotAsked
    /\ asked' = NotAsked
    /\ UNCHANGED <<air, seen, wsprRows, forwarded, observed, wlNow, wlRestarts, unseeded>>

\* ingestWSPRMessage for each row in new: stored unless the insert fails,
\* observed by the climatology, and broadcast when it can be shown.
ingestWSPRMessage(new, failing) ==
    /\ wsprRows' = [k \in wsprKeys |->
          wsprRows[k] + IF k[1] \in new \ failing /\ wsprKeyFor(k[1], wlNow) = k THEN 1 ELSE 0]
    /\ observed' = [i \in WlIds |-> observed[i] + IF i \in new THEN 1 ELSE 0]
    /\ forwarded' = [i \in WlIds |-> forwarded[i] +
                        IF i \in new /\ isWSPRSpotUsableForLive(i) THEN 1 ELSE 0]

\* The rows arrive: keys are pruned, then each row not seen before is ingested.
fetchWSPRSpots ==
    /\ asked # NotAsked
    /\ asked' = NotAsked
    /\ LET kept == wsprPrune(wlNow)
           new == {i \in asked.rows : wsprMessageFromRow(i) /\ wsprKeyFor(i, wlNow) \notin DOMAIN kept}
           keys == {wsprKeyFor(i, wlNow) : i \in new}
       IN /\ seen' = [k \in DOMAIN kept \cup keys |-> IF k \in keys THEN wlNow ELSE kept[k]]
          /\ \E failing \in SUBSET new : ingestWSPRMessage(new, failing)
    /\ UNCHANGED <<air, wlNow, wlRestarts, unseeded>>

\* Polls are bounded by the client's time-out.
WlTick ==
    /\ wlNow < WlMaxTime
    /\ asked # NotAsked => wlNow - asked.at < WlLatency
    /\ wlNow' = wlNow + 1
    /\ UNCHANGED <<air, seen, asked, wsprRows, forwarded, observed, wlRestarts, unseeded>>

\* The process dies and starts: the history is read back before the poller
\* runs, and a failed read seeds nothing.
WlRestart ==
    /\ wlRestarts < WlMaxRestarts
    /\ wlRestarts' = wlRestarts + 1
    /\ asked' = NotAsked /\ forwarded' = NoneYet /\ observed' = NoneYet
    /\ \/ seen' = seedFromHistory(wlNow) /\ UNCHANGED unseeded
       \/ seen' = <<>> /\ unseeded' = unseeded + 1
    /\ UNCHANGED <<air, wsprRows, wlNow>>

WlNext == Upload \/ startWSPRIngest \/ PollFails \/ fetchWSPRSpots \/ WlTick \/ WlRestart

WlSpec == WlInit /\ [][WlNext]_wlVars

-----------------------------------------------------------------------------

(* wsprSeenSet (wspr.go:71-138): a row whose time parses is broadcast and    *)
(* counted in the climatology at most once by a process, and has at most one *)
(* row in dx_raw_spots for the first start and one more for each start whose *)
(* backfill failed, however polls, late uploads, failed inserts and restarts *)
(* interleave.                                                               *)
WsprStoredOnce ==
    \A i \in DOMAIN air : air[i].kind # "badTime" =>
        /\ forwarded[i] <= 1 /\ observed[i] <= 1
        /\ \A k \in wsprKeys : k[1] = i => wsprRows[k] <= 1 + unseeded
=============================================================================
