----------------------------- MODULE WsprClimate -----------------------------
(* The WSPR climatology of horstreporter: spots are counted per cell and day *)
(* in memory and in a pending map that a loop flushes to Postgres; a failed  *)
(* flush is merged back and capped.  The statistics drawn from the table are *)
(* cached: a stale copy is served while one background query refreshes it, a *)
(* missing copy is loaded by one request at a time, and a failed load falls  *)
(* back to the counts in memory.  Flushes, loads and refreshes are round     *)
(* trips during which spots, requests and the other round trips go on.       *)
EXTENDS Integers, FiniteSets, FiniteSetsExt

CONSTANTS
    WcCells,        \* band, slot of day and region
    WcDays,         \* UTC day indexes
    WcMaxPending,   \* wsprClimatologyMaxPending (wspr_climatology.go:99)
    WcTTL,          \* statsCacheTTL, in ticks (wspr_climatology.go:93)
    WcNegTTL,       \* propIntelRegionBaselineNegCacheTTL
    WcQueryTime,    \* ticks a request may wait and query for, below the TTL
    WcRequests,     \* concurrent readers
    WcJobs,         \* background refresh goroutines
    WcMaxSpots, WcMaxTime, WcMaxFlushFails, WcMaxRestarts

ASSUME WcAssumption ==
    /\ WcDays \subseteq Nat \ {0}
    /\ WcMaxPending \in Nat /\ WcNegTTL \in Nat
    /\ WcQueryTime \in Nat /\ WcTTL \in Nat /\ WcQueryTime < WcTTL

VARIABLES
    counts,       \* buckets: cell and day -> spots, in memory
    file,         \* the snapshot on disk, of the same shape
    pending, pendingCount,  \* pendingWsprRegion, pendingWsprCount
    flight,       \* what FlushPending took: [map, count], or NoFlight
    table,        \* wspr_region_baseline_daily
    statsCache, statsAt, statsErrAt, statsRefreshing,
    readers,      \* request -> [st, now, got]
    jobs,         \* refresh goroutine -> [st, now, got]
    wcNow, wcFlushFails, wcRestarts,
    total,        \* spots observed, per cell and day
    doubled,      \* spots in a commit that was reported as failed
    dropped       \* spots given up: by the cap, or with the process

wcStore == <<counts, pending, pendingCount, flight, table, total, doubled, dropped, wcFlushFails>>
wcStats == <<statsCache, statsAt, statsErrAt, statsRefreshing, readers, jobs>>
wcVars == <<wcStore, wcStats, file, wcNow, wcRestarts>>

wcKeys == WcCells \X WcDays
Empty == [k \in wcKeys |-> 0]
Plus(f, g) == [k \in wcKeys |-> f[k] + g[k]]
Queued(f) == {k \in wcKeys : f[k] > 0}
Spots(f) == MapThenSumSet(LAMBDA k : f[k], wcKeys)

NoFlight == [map |-> Empty, count |-> -1]
NoCopy == [from |-> "none", spots |-> Empty]
Never == -1
Reader == [st |-> "idle", now |-> 0, got |-> NoCopy]
Job == [st |-> "idle", now |-> 0, got |-> NoCopy]

WcInit ==
    /\ counts = Empty /\ file = Empty /\ pending = Empty /\ pendingCount = 0
    /\ flight = NoFlight /\ table = Empty
    /\ statsCache = NoCopy /\ statsAt = 0 /\ statsErrAt = Never /\ statsRefreshing = FALSE
    /\ readers = [q \in WcRequests |-> Reader] /\ jobs = [j \in WcJobs |-> Job]
    /\ wcNow = 0 /\ wcFlushFails = 0 /\ wcRestarts = 0
    /\ total = Empty /\ doubled = Empty /\ dropped = Empty

-----------------------------------------------------------------------------
(* Counting and flushing.                                                    *)

\* Spots without a band, a locator or a known region are not counted.
Observe(k) ==
    /\ Spots(total) < WcMaxSpots
    /\ counts' = [counts EXCEPT ![k] = @ + 1]
    /\ pending' = [pending EXCEPT ![k] = @ + 1]
    /\ pendingCount' = pendingCount + 1
    /\ total' = [total EXCEPT ![k] = @ + 1]
    /\ UNCHANGED <<wcStats, file, flight, table, doubled, dropped, wcNow, wcFlushFails, wcRestarts>>

\* FlushPending takes the pending map and leaves an empty one.
FlushPending ==
    /\ flight = NoFlight
    /\ Queued(pending) # {}
    /\ flight' = [map |-> pending, count |-> pendingCount]
    /\ pending' = Empty /\ pendingCount' = 0
    /\ UNCHANGED <<wcStats, file, counts, table, total, doubled, dropped, wcNow, wcFlushFails, wcRestarts>>

\* The transaction adds every count to its row.
FlushPendingWsprRegion ==
    /\ flight # NoFlight
    /\ table' = Plus(table, flight.map)
    /\ flight' = NoFlight
    /\ UNCHANGED <<wcStats, file, counts, pending, pendingCount, total, doubled, dropped,
                   wcNow, wcFlushFails, wcRestarts>>

\* Keeps the days from the middle of the queued range on; counts keys, not spots.
capPendingWsprRegion(p) ==
    LET days == {k[2] : k \in Queued(p)}
        cutoff == Min(days) + (Max(days) - Min(days)) \div 2
        kept == IF Cardinality(Queued(p)) <= WcMaxPending THEN p
                ELSE [k \in wcKeys |-> IF k[2] < cutoff THEN 0 ELSE p[k]]
    IN [map |-> kept, count |-> Cardinality(Queued(kept))]

\* Mutant: the counts that arrived during the flush are overwritten.
mergedBackOverwrites == [k \in wcKeys |-> IF flight.map[k] > 0 THEN flight.map[k] ELSE pending[k]]

mergedBack == Plus(pending, flight.map)

\* The flush fails, or its commit is not confirmed in time, and everything it
\* took is queued again.
FlushFails ==
    /\ flight # NoFlight
    /\ wcFlushFails < WcMaxFlushFails
    /\ wcFlushFails' = wcFlushFails + 1
    /\ LET back == mergedBack
           count == pendingCount + flight.count
           capped == IF count > WcMaxPending THEN capPendingWsprRegion(back)
                     ELSE [map |-> back, count |-> count]
       IN /\ pending' = capped.map /\ pendingCount' = capped.count
          /\ dropped' = [k \in wcKeys |-> dropped[k] + back[k] - capped.map[k]]
    /\ \/ UNCHANGED <<table, doubled>>
       \/ table' = Plus(table, flight.map) /\ doubled' = Plus(doubled, flight.map)
    /\ flight' = NoFlight
    /\ UNCHANGED <<wcStats, file, counts, total, wcNow, wcRestarts>>

\* SaveLoop: a copy of the counts, taken under the lock, replaces the file.
Save ==
    /\ file # counts
    /\ file' = counts
    /\ UNCHANGED <<wcStore, wcStats, wcNow, wcRestarts>>

-----------------------------------------------------------------------------
(* The cached statistics.  A copy is told apart by the counts behind it.     *)

WsprRegionCalendarStats == [from |-> "pg", spots |-> table]
regionCalendarStatsFromMemory ==
    IF counts = Empty THEN NoCopy ELSE [from |-> "memory", spots |-> counts]

fresh(now) == statsCache # NoCopy /\ now - statsAt < WcTTL
failedLately(now) == statsErrAt # Never /\ now - statsErrAt < WcNegTTL

\* Mutant: a refresh may start while another is in flight.
mayRefreshAlways == ~failedLately(wcNow)

mayRefresh == ~statsRefreshing /\ ~failedLately(wcNow)

\* A request finds a stale copy: it is served, and one refresh goes off.
refreshStatsAsync(j) ==
    /\ statsCache # NoCopy /\ ~fresh(wcNow) /\ mayRefresh
    /\ jobs[j].st = "idle"
    /\ statsRefreshing' = TRUE
    /\ jobs' = [jobs EXCEPT ![j] = [st |-> "query", now |-> wcNow, got |-> NoCopy]]
    /\ UNCHANGED <<wcStore, file, wcNow, wcRestarts, statsCache, statsAt, statsErrAt, readers>>

\* The refresh reads the table, or fails.
RefreshQuery(j) ==
    /\ jobs[j].st = "query"
    /\ \E rows \in {NoCopy, WsprRegionCalendarStats} :
         jobs' = [jobs EXCEPT ![j] = [@ EXCEPT !.st = "done", !.got = rows]]
    /\ UNCHANGED <<wcStore, file, wcNow, wcRestarts, statsCache, statsAt, statsErrAt, statsRefreshing, readers>>

\* A failed refresh keeps the copy and notes the failure.
RefreshDone(j) ==
    /\ jobs[j].st = "done"
    /\ statsRefreshing' = FALSE
    /\ IF jobs[j].got = NoCopy
       THEN statsErrAt' = jobs[j].now /\ UNCHANGED <<statsCache, statsAt>>
       ELSE statsCache' = jobs[j].got /\ statsAt' = jobs[j].now /\ statsErrAt' = Never
    /\ jobs' = [jobs EXCEPT ![j] = Job]
    /\ UNCHANGED <<wcStore, file, wcNow, wcRestarts, readers>>

\* A request finds no copy and no recent failure: it queues for the load lock.
RegionCalendarStats(q) ==
    /\ readers[q].st = "idle"
    /\ statsCache = NoCopy /\ ~failedLately(wcNow)
    /\ readers' = [readers EXCEPT ![q] = [Reader EXCEPT !.st = "wait", !.now = wcNow]]
    /\ UNCHANGED <<wcStore, file, wcNow, wcRestarts, statsCache, statsAt, statsErrAt, statsRefreshing, jobs>>

\* Under the load lock the request looks again, with the time it arrived at.
ColdLoad(q) ==
    /\ readers[q].st = "wait"
    /\ \A o \in WcRequests : readers[o].st \notin {"query", "done"}
    /\ LET now == readers[q].now
           served == fresh(now) \/ (statsCache = NoCopy /\ failedLately(now))
       IN readers' = [readers EXCEPT ![q] =
             IF served THEN Reader ELSE [@ EXCEPT !.st = "query"]]
    /\ UNCHANGED <<wcStore, file, wcNow, wcRestarts, statsCache, statsAt, statsErrAt, statsRefreshing, jobs>>

ColdQuery(q) ==
    /\ readers[q].st = "query"
    /\ \E rows \in {NoCopy, WsprRegionCalendarStats} :
         readers' = [readers EXCEPT ![q] = [@ EXCEPT !.st = "done", !.got = rows]]
    /\ UNCHANGED <<wcStore, file, wcNow, wcRestarts, statsCache, statsAt, statsErrAt, statsRefreshing, jobs>>

\* A failed load keeps a copy that appeared meanwhile; without one the counts
\* in memory become the copy, and the failure is forgotten.
ColdDone(q) ==
    /\ readers[q].st = "done"
    /\ readers' = [readers EXCEPT ![q] = Reader]
    /\ IF readers[q].got = NoCopy /\ statsCache # NoCopy
       THEN statsErrAt' = readers[q].now /\ UNCHANGED <<statsCache, statsAt>>
       ELSE /\ statsCache' = IF readers[q].got = NoCopy THEN regionCalendarStatsFromMemory
                             ELSE readers[q].got
            /\ statsAt' = readers[q].now /\ statsErrAt' = Never
    /\ UNCHANGED <<wcStore, file, wcNow, wcRestarts, statsRefreshing, jobs>>

-----------------------------------------------------------------------------

WcTick ==
    /\ wcNow < WcMaxTime
    /\ \A j \in WcJobs : jobs[j].st # "idle" => wcNow - jobs[j].now < WcQueryTime
    /\ \A q \in WcRequests : readers[q].st # "idle" => wcNow - readers[q].now < WcQueryTime
    /\ wcNow' = wcNow + 1
    /\ UNCHANGED <<wcStore, wcStats, file, wcRestarts>>

\* The process dies: Load reads the counts back, the pending ones are gone.
Load ==
    /\ wcRestarts < WcMaxRestarts
    /\ wcRestarts' = wcRestarts + 1
    /\ counts' = file
    /\ dropped' = Plus(dropped, Plus(pending, flight.map))
    /\ pending' = Empty /\ pendingCount' = 0 /\ flight' = NoFlight
    /\ statsCache' = NoCopy /\ statsAt' = 0 /\ statsErrAt' = Never /\ statsRefreshing' = FALSE
    /\ readers' = [q \in WcRequests |-> Reader] /\ jobs' = [j \in WcJobs |-> Job]
    /\ UNCHANGED <<file, table, total, doubled, wcNow, wcFlushFails>>

WcNext ==
    \/ \E k \in wcKeys : Observe(k)
    \/ FlushPending \/ FlushPendingWsprRegion \/ FlushFails \/ Save
    \/ \E j \in WcJobs : refreshStatsAsync(j) \/ RefreshQuery(j) \/ RefreshDone(j)
    \/ \E q \in WcRequests : RegionCalendarStats(q) \/ ColdLoad(q) \/ ColdQuery(q) \/ ColdDone(q)
    \/ WcTick \/ Load

WcSpec == WcInit /\ [][WcNext]_wcVars

-----------------------------------------------------------------------------

(* FlushPending (wspr_climatology.go:304-338): every spot observed is in the *)
(* table, pending or in a flush, or was given up by the cap or a crash, and  *)
(* is in the table twice only if its commit was reported as failed, although *)
(* spots go on arriving while a flush is in flight and may be merged back.   *)
ClimateConserves ==
    Plus(Plus(table, pending), Plus(flight.map, dropped)) = Plus(total, doubled)

(* refreshStatsAsync and the cold load (wspr_climatology.go:410-523): within *)
(* a run of the server, once statistics drawn from the table have been       *)
(* cached they are replaced only by statistics of the same table or a later  *)
(* one, never by the counts in memory or by an overtaken query's answer.     *)
StatsNeverGoBack ==
    [][statsCache.from = "pg" /\ wcRestarts' = wcRestarts =>
         /\ statsCache'.from = "pg"
         /\ \A k \in wcKeys : statsCache'.spots[k] >= statsCache.spots[k]]_wcVars
=============================================================================
