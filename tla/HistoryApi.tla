----------------------------- MODULE HistoryApi -----------------------------
(* GET /api/history of horstreporter: the per-address limit, the bundle      *)
(* cache, the gate on concurrent queries, the archive query and its fallback *)
(* to the live history in memory.  A request that misses the cache holds the *)
(* gate while it queries; spots, other requests and the clock go on, and the *)
(* bundle is cached when it is done, under a key that leaves out whether the *)
(* neighbouring squares were asked for.                                      *)
EXTENDS Integers, Sequences, FiniteSets, SequencesExt

CONSTANTS
    HaIds,           \* spots
    HaWindows,       \* the t0 and t1 a page asks for
    HaRequests,      \* concurrent requests
    HaLateness,      \* ticks by which a spot may reach the archive late
    HaRetention,     \* ticks the live history reaches back
    HaMaxSpan,       \* historyMaxSpanSeconds
    HaDefaultSpan,   \* the 15 minutes of a request without t0
    HaLiveEdge,      \* historyLiveEdgeSeconds
    HaTTL,           \* historyCacheTTL
    HaQueryTime,     \* historyQueryTimeout, in ticks
    HaMaxEntries,    \* historyCacheMaxEntries
    HaMaxSpots,      \* historyMaxSpotCount
    HaMaxConcurrent, \* historyMaxConcurrent
    HaRatePerHour, HaHour,
    HaStart, HaMaxTime, HaMaxAsked

ASSUME HaAssumption ==
    /\ HaMaxEntries \in Nat \ {0} /\ HaMaxConcurrent \in Nat \ {0}
    /\ HaMaxSpots \in Nat \ {0} /\ HaTTL \in Nat /\ HaQueryTime \in Nat
    /\ HaStart \in Nat \ {0}

VARIABLES
    archive,   \* dx_raw_spots: id -> [t, near, at]: near spots match only with surroundings
    live,      \* hub.history: ids in ingest order
    entries,   \* cache: window -> [spots, cachedAt, near, from, truncated]
    eviction,  \* the keys in insertion order, with the ones that expired
    haReqs,    \* request -> [st, t0, t1, near, now, spots, from]
    haWindow,  \* the address's rate window: [start, count]
    haNow, haAsked

haVars == <<archive, live, entries, eviction, haReqs, haWindow, haNow, haAsked>>

HaIdle == [st |-> "idle", t0 |-> 0, t1 |-> 0, near |-> FALSE, now |-> 0, spots |-> {}, from |-> "none"]

HaInit ==
    /\ archive = <<>> /\ live = <<>> /\ entries = <<>> /\ eviction = <<>>
    /\ haReqs = [h \in HaRequests |-> HaIdle]
    /\ haWindow = [start |-> HaStart, count |-> 0]
    /\ haNow = HaStart /\ haAsked = 0

-----------------------------------------------------------------------------
(* The cache.                                                                *)

Drop(f, k) == [x \in DOMAIN f \ {k} |-> f[x]]

\* Mutant: a bundle is served for as long as it is held.
expiredNever(e) == FALSE

expired(e) == haNow - e.cachedAt > HaTTL

\* The bundle a lookup returns; an expired one is deleted by the lookup, and
\* its key stays in the eviction list.
historyGet(k) == k \in DOMAIN entries /\ ~expired(entries[k])
afterGet(k) == IF k \in DOMAIN entries /\ expired(entries[k]) THEN Drop(entries, k) ELSE entries

\* A known key is replaced in place; a new one evicts from the head of the list.
historyPut(k, e) ==
    IF k \in DOMAIN entries
    THEN entries' = [entries EXCEPT ![k] = e] /\ UNCHANGED eviction
    ELSE LET all == [x \in DOMAIN entries \cup {k} |-> IF x = k THEN e ELSE entries[x]]
             list == Append(eviction, k)
             \* pops until few enough entries are left
             left(n) == DOMAIN all \ {list[i] : i \in 1..n}
             pops == {n \in 0..Len(list) : Cardinality(left(n)) <= HaMaxEntries}
             n == CHOOSE x \in pops : \A y \in pops : x <= y
         IN /\ entries' = [x \in left(n) |-> all[x]]
            /\ eviction' = SubSeq(list, n + 1, Len(list))

-----------------------------------------------------------------------------
(* The request.                                                              *)

historyAllowed == haNow - haWindow.start >= HaHour \/ haWindow.count < HaRatePerHour
historyAllow ==
    haWindow' = IF haNow - haWindow.start >= HaHour THEN [start |-> haNow, count |-> 1]
                ELSE IF historyAllowed THEN [haWindow EXCEPT !.count = @ + 1]
                ELSE haWindow

\* t1 capped at now, t0 defaulted, the two put in order and the span clamped.
resolveHistoryRange(asked, now) ==
    LET end == IF asked.t1 <= 0 \/ asked.t1 > now THEN now ELSE asked.t1
        begin == IF asked.t0 <= 0 THEN end - HaDefaultSpan ELSE asked.t0
        lo == IF end < begin THEN end ELSE begin
        hi == IF end < begin THEN begin ELSE end
    IN <<IF hi - lo > HaMaxSpan THEN hi - HaMaxSpan ELSE lo, hi>>

\* The parts of the key that vary here; surroundings is not one of them.
historyCacheKey(r) == <<r.t0, r.t1>>

inFlight == {h \in HaRequests : haReqs[h].st # "idle"}

\* The handler up to its query: limited, answered from the cache, refused by
\* the gate, or let through.
historyHandler(h) ==
    /\ haReqs[h].st = "idle"
    /\ haAsked < HaMaxAsked
    /\ haAsked' = haAsked + 1
    /\ historyAllow
    /\ \E asked \in HaWindows, near \in BOOLEAN :
         LET range == resolveHistoryRange(asked, haNow) IN
         IF ~historyAllowed THEN UNCHANGED <<entries, haReqs>>
         ELSE /\ entries' = afterGet(range)
              /\ haReqs' = IF historyGet(range) \/ Cardinality(inFlight) >= HaMaxConcurrent THEN haReqs
                           ELSE [haReqs EXCEPT ![h] = [HaIdle EXCEPT !.st = "query",
                                    !.t0 = range[1], !.t1 = range[2], !.near = near, !.now = haNow]]
    /\ UNCHANGED <<archive, live, eviction, haNow>>

\* The same filter as the live stream's.
matchAndCreateSpot(id, near) == near \/ ~archive[id].near

\* The archive answers with the rows of the window that match the squares.
loadSpotsRangeForTargets(h) ==
    /\ haReqs[h].st = "query"
    /\ LET r == haReqs[h] IN
       haReqs' = [haReqs EXCEPT ![h] = [r EXCEPT !.st = "answer", !.from = "archive", !.spots =
           {i \in DOMAIN archive : archive[i].t \in r.t0..r.t1 /\ matchAndCreateSpot(i, r.near)}]]
    /\ UNCHANGED <<archive, live, entries, eviction, haWindow, haNow, haAsked>>

\* sort.Search over a history in ingest order: an index whose spot is in the
\* window and whose predecessor is before it, wherever the search meets one.
searchResults(t0) ==
    {n \in 1..Len(live) + 1 : /\ n <= Len(live) => archive[live[n]].t >= t0
                              /\ n > 1 => archive[live[n - 1]].t < t0}

\* The archive fails or there is none: the live history answers what it holds;
\* a window before its first spot is answered empty and leaves the gate.
historyMessagesFromHub(h) ==
    /\ haReqs[h].st = "query"
    /\ LET r == haReqs[h] IN
       IF live = <<>> \/ r.t1 < archive[live[1]].t
       THEN haReqs' = [haReqs EXCEPT ![h] = HaIdle]
       ELSE \E n \in searchResults(r.t0) :
              haReqs' = [haReqs EXCEPT ![h] = [r EXCEPT !.st = "answer", !.from = "live", !.spots =
                  {i \in {live[j] : j \in n..Len(live)} :
                      archive[i].t <= r.t1 /\ matchAndCreateSpot(i, r.near)}]]
    /\ UNCHANGED <<archive, live, entries, eviction, haWindow, haNow, haAsked>>

\* The newest spots up to the limit.
newest(spots) ==
    IF Cardinality(spots) <= HaMaxSpots THEN {spots}
    ELSE {s \in SUBSET spots : /\ Cardinality(s) = HaMaxSpots
                               /\ \A i \in s, j \in spots \ s : archive[j].t <= archive[i].t}

\* The bundle is encoded, cached when its window was past the live edge at the
\* start of the request, and sent; the gate is left.
encodeHistoryBody(h) ==
    /\ haReqs[h].st = "answer"
    /\ LET r == haReqs[h] IN
       \E body \in newest(r.spots) :
         IF r.t1 < r.now - HaLiveEdge
         THEN historyPut(historyCacheKey(r), [spots |-> body, cachedAt |-> haNow, near |-> r.near,
                                              from |-> r.from, truncated |-> body # r.spots])
         ELSE UNCHANGED <<entries, eviction>>
    /\ haReqs' = [haReqs EXCEPT ![h] = HaIdle]
    /\ UNCHANGED <<archive, live, haWindow, haNow, haAsked>>

-----------------------------------------------------------------------------

\* A spot is ingested: it joins the live history and reaches the archive.
HaSpot ==
    /\ \E id \in HaIds \ DOMAIN archive, late \in 0..HaLateness, near \in BOOLEAN :
         /\ archive' = [i \in DOMAIN archive \cup {id} |->
               IF i = id THEN [t |-> haNow - late, near |-> near, at |-> haNow] ELSE archive[i]]
         /\ live' = Append(live, id)
    /\ UNCHANGED <<entries, eviction, haReqs, haWindow, haNow, haAsked>>

\* The live history is cut at the index the same search finds.
pruneLiveHistory ==
    /\ \E n \in searchResults(haNow - HaRetention) : n > 1 /\ live' = SubSeq(live, n, Len(live))
    /\ UNCHANGED <<archive, entries, eviction, haReqs, haWindow, haNow, haAsked>>

HaTick ==
    /\ haNow < HaMaxTime
    /\ \A h \in inFlight : haNow - haReqs[h].now < HaQueryTime
    /\ haNow' = haNow + 1
    /\ UNCHANGED <<archive, live, entries, eviction, haReqs, haWindow, haAsked>>

HaNext ==
    \/ \E h \in HaRequests : historyHandler(h)
    \/ \E h \in HaRequests : loadSpotsRangeForTargets(h)
    \/ \E h \in HaRequests : historyMessagesFromHub(h)
    \/ \E h \in HaRequests : encodeHistoryBody(h)
    \/ HaSpot
    \/ pruneLiveHistory
    \/ HaTick

HaSpec == HaInit /\ [][HaNext]_haVars

-----------------------------------------------------------------------------

(* historyCache and historyHandler (history.go:155-184, 382-506): a bundle   *)
(* the cache would serve, drawn from the archive, holds every spot of its    *)
(* window and filter that was stored at least a time to live and a query     *)
(* ago; it may lack spots that came later, though two requests may fill the  *)
(* same key in either order and a slow one restarts the entry's age.  Only a *)
(* truncated bundle lacks older spots, and then none newer than it holds.    *)
HistoryHitHonest ==
    \A k \in DOMAIN entries :
        LET e == entries[k]
            settled == {i \in DOMAIN archive :
                /\ archive[i].t \in k[1]..k[2] /\ matchAndCreateSpot(i, e.near)
                /\ archive[i].at < haNow - HaTTL - HaQueryTime}
        IN historyGet(k) /\ e.from = "archive" =>
             \A i \in settled \ e.spots :
                 e.truncated /\ \A j \in e.spots : archive[i].t <= archive[j].t
=============================================================================
