---------------------------- MODULE AlmanacCache ---------------------------
(***************************************************************************)
(* The read path of the Almanac (cmd/horstreporter, almanac_handler.go,    *)
(* almanac_season.go, readAlmanacAccum in almanac_store.go): requests for  *)
(* /api/almanac and /api/almanac/season on two caches, the one serialized  *)
(* slow path to Postgres, the negative cache, the today overlay, and the   *)
(* purge by the SNR backfill.  The fold moves the watermark in the         *)
(* database first and in memory later; time passes between any two steps   *)
(* of a request, which goes on with the time it read at its start.         *)
(*                                                                         *)
(* A result is what the caches compare of it: the watermark and SNR start  *)
(* its transaction read, the day it is for and the radius it chose.        *)
(***************************************************************************)
EXTENDS Integers, Sequences, SequencesExt, FiniteSets

CONSTANTS
    Requests,       \* requests being served at a time
    CacheKeys,      \* almanacCacheKey: grid4, or grid4 and SNR tier
    LandingKey,     \* the bare grid4, whose radius the drill-down takes
    CacheCap,       \* almanacCacheMaxEntries
    DayTicks,       \* ticks per UTC day
    TypicalTTL, TodayTTL, NegTTL,   \* 6 h (the season's, too), 120 s, 30 s
    RadiusAt,       \* watermark -> the radius chooseAlmanacRadius finds then
    AcStart,        \* when the model starts
    AcMaxClock, AcMaxRequests         \* bounds

VARIABLES
    clock,
    fold,           \* db, mem: the watermark in the database and in memory
    snrStart,       \* the day since which there is SNR, and whether the caches were purged
    lru, seasonLru, \* sequences of [key, e], the most recent first
    slow,           \* who holds the slow path: a request or "free"
    req, begun      \* the requests; how many came

acVars == <<clock, fold, snrStart, lru, seasonLru, slow, req, begun>>

None == [wm |-> -2]
Never == -100

ASSUME CacheConstants ==
    /\ LandingKey \in CacheKeys /\ "free" \notin Requests
    /\ {CacheCap, DayTicks} \subseteq Nat \ {0}
    /\ {TypicalTTL, TodayTTL, NegTTL, AcStart, AcMaxClock, AcMaxRequests} \subseteq Nat
    /\ DOMAIN RadiusAt \subseteq Nat /\ 0 \in DOMAIN RadiusAt
    /\ \A w \in DOMAIN RadiusAt : RadiusAt[w] \in Nat

UtcDay(t) == t \div DayTicks

(***************************************************************************)
(* almanacLRU.                                                             *)
(***************************************************************************)
NoEntry == [typical |-> None, typicalAt |-> Never, errAt |-> Never,
            today |-> None, todayAt |-> Never, todayErrAt |-> Never]

Cached(l, key) == \E i \in DOMAIN l : l[i].key = key
peek(l, key) == IF Cached(l, key) THEN (CHOOSE x \in ToSet(l) : x.key = key).e ELSE NoEntry
Without(l, key) == IF Cached(l, key) THEN RemoveAt(l, CHOOSE i \in DOMAIN l : l[i].key = key) ELSE l

\* get: mark recent; with create make room and insert.
lruGet(l, key, create) ==
    IF Cached(l, key) THEN <<[key |-> key, e |-> peek(l, key)]>> \o Without(l, key)
    ELSE IF ~create THEN l
    ELSE <<[key |-> key, e |-> NoEntry]>> \o SubSeq(l, 1, IF Len(l) >= CacheCap THEN CacheCap - 1 ELSE Len(l))
Put(l, key, e) == <<[key |-> key, e |-> e]>> \o Without(l, key)

(***************************************************************************)
(* Validity.                                                               *)
(***************************************************************************)
\* Mutant: a cached part is good until its time is up.
watermarkCurrentAlways(wm) == TRUE

watermarkCurrent(wm) == fold.mem < 0 \/ fold.mem = wm

typicalValid(e, t) ==
    /\ e.typical # None /\ t - e.typicalAt < TypicalTTL
    /\ e.typical.day = UtcDay(t) /\ watermarkCurrent(e.typical.wm)

todayFresh(e, t) == t - e.todayAt < TodayTTL \/ t - e.todayErrAt < NegTTL
fresh(e, t) == typicalValid(e, t) /\ todayFresh(e, t)
negative(e, t) == ~typicalValid(e, t) /\ t - e.errAt < NegTTL

seasonValid(e, t, radius) == typicalValid(e, t) /\ e.typical.radius = radius

(***************************************************************************)
(* get.                                                                    *)
(***************************************************************************)
NoReq == [pc |-> "idle", key |-> LandingKey, season |-> FALSE, t |-> 0, typOK |-> FALSE,
          radius |-> -1, got |-> None, answer |-> NoEntry, beganAt |-> -1, afterPurge |-> FALSE]

Done(r, e) == [NoReq EXCEPT !.pc = "done", !.answer = e,
                            !.beganAt = r.beganAt, !.afterPurge = r.afterPurge]

\* errAlmanacUnavailable: 503.
Unavailable(r) == NoReq

\* An answer of get: the drill-down goes on with its radius.
Answered(r, e) ==
    IF r.season THEN [r EXCEPT !.pc = "season", !.radius = e.typical.radius, !.t = clock,
                              !.typOK = FALSE, !.got = None]
    ELSE Done(r, e)

\* A request arrives.  getSeason first asks for the landing radius: of any
\* valid typical part (typicalRadius), else through get.
AcBegin(r, key, season) ==
    /\ req[r].pc = "idle" /\ begun < AcMaxRequests
    /\ begun' = begun + 1
    /\ season => key = LandingKey
    /\ req' = [req EXCEPT ![r] = [NoReq EXCEPT
                  !.pc = IF season THEN "radius" ELSE "get", !.key = key, !.season = season,
                  !.t = clock, !.beganAt = fold.mem, !.afterPurge = snrStart.purged]]
    /\ UNCHANGED <<clock, fold, snrStart, lru, seasonLru, slow>>

typicalRadius(r) ==
    LET e == peek(lru, req[r].key) IN
    /\ req[r].pc = "radius"
    /\ lru' = lruGet(lru, req[r].key, FALSE)
    /\ req' = [req EXCEPT ![r] = IF typicalValid(e, req[r].t) THEN Answered(req[r], e)
                                 ELSE [req[r] EXCEPT !.pc = "get", !.t = clock]]
    /\ UNCHANGED <<clock, fold, snrStart, seasonLru, slow, begun>>

\* Mutant: the look into the cache before the slow path creates the entry.
LookUpCreates(key) == lruGet(lru, key, TRUE)
LookUp(key) == lruGet(lru, key, FALSE)

\* The check under s.mu only.
GetFast(r) ==
    LET e == peek(lru, req[r].key) IN
    /\ req[r].pc = "get"
    /\ lru' = LookUp(req[r].key)
    /\ req' = [req EXCEPT ![r] =
                 IF fresh(e, req[r].t) THEN Answered(req[r], e)
                 ELSE IF negative(e, req[r].t) THEN Unavailable(req[r])
                 ELSE [req[r] EXCEPT !.pc = "getSlow"]]
    /\ UNCHANGED <<clock, fold, snrStart, seasonLru, slow, begun>>

\* The slow path is free: check again.
GetSlow(r) ==
    LET e == peek(lru, req[r].key)
        t == req[r].t IN
    /\ req[r].pc = "getSlow" /\ slow = "free"
    /\ lru' = lruGet(lru, req[r].key, TRUE)
    /\ IF fresh(e, t) \/ negative(e, t)
       THEN /\ req' = [req EXCEPT ![r] = IF fresh(e, t) THEN Answered(req[r], e) ELSE Unavailable(req[r])]
            /\ UNCHANGED slow
       ELSE /\ slow' = r
            /\ req' = [req EXCEPT ![r].pc = "getRead", ![r].typOK = typicalValid(e, t),
                                  ![r].radius = IF typicalValid(e, t) THEN e.typical.radius ELSE -1]
    /\ UNCHANGED <<clock, fold, snrStart, seasonLru, begun>>

\* readAlmanacAccum, readAlmanacSeason: one REPEATABLE READ transaction; it
\* fails or times out.
AcRead(r, ok) ==
    /\ req[r].pc \in {"getRead", "seasonRead"}
    /\ req' = [req EXCEPT
         ![r].pc = IF @ = "getRead" THEN "getStore" ELSE "seasonStore",
         ![r].got = IF ok THEN [wm |-> fold.db, since |-> snrStart.day, day |-> UtcDay(req[r].t),
                                radius |-> IF req[r].radius >= 0 THEN req[r].radius ELSE RadiusAt[fold.db]]
                    ELSE None]
    /\ UNCHANGED <<clock, fold, snrStart, lru, seasonLru, slow, begun>>

\* The result, or the failure, enters the cache; the slow path is released.
Stored(e, q) ==
    IF q.typOK
    THEN IF q.got = None THEN [e EXCEPT !.todayErrAt = q.t]
         ELSE [e EXCEPT !.today = q.got, !.todayAt = q.t]
    ELSE IF q.got = None THEN [e EXCEPT !.errAt = q.t]
    ELSE [typical |-> q.got, typicalAt |-> q.t, errAt |-> Never,
          today |-> q.got, todayAt |-> q.t, todayErrAt |-> Never]

GetStore(r) ==
    LET q == req[r]
        e == Stored(peek(lruGet(lru, q.key, TRUE), q.key), q) IN
    /\ q.pc = "getStore"
    /\ lru' = Put(lruGet(lru, q.key, TRUE), q.key, e)
    /\ req' = [req EXCEPT ![r] = IF q.got = None /\ ~q.typOK THEN Unavailable(q) ELSE Answered(q, e)]
    /\ slow' = "free"
    /\ UNCHANGED <<clock, fold, snrStart, seasonLru, begun>>

(***************************************************************************)
(* getSeason, after the radius is known.  Its cache creates entries without *)
(* the slow path.                                                          *)
(***************************************************************************)
SeasonChecked(q, e) ==
    IF seasonValid(e, q.t, q.radius) THEN Done(q, e)
    ELSE IF q.t - e.errAt < NegTTL THEN Unavailable(q)
    ELSE [q EXCEPT !.pc = IF q.pc = "season" THEN "seasonSlow" ELSE "seasonRead"]

SeasonFast(r) ==
    /\ req[r].pc = "season"
    /\ seasonLru' = lruGet(seasonLru, req[r].key, TRUE)
    /\ req' = [req EXCEPT ![r] = SeasonChecked(@, peek(seasonLru, @.key))]
    /\ UNCHANGED <<clock, fold, snrStart, lru, slow, begun>>

SeasonSlow(r) ==
    LET q == SeasonChecked(req[r], peek(seasonLru, req[r].key)) IN
    /\ req[r].pc = "seasonSlow" /\ slow = "free"
    /\ seasonLru' = lruGet(seasonLru, req[r].key, TRUE)
    /\ req' = [req EXCEPT ![r] = q]
    /\ slow' = IF q.pc = "seasonRead" THEN r ELSE "free"
    /\ UNCHANGED <<clock, fold, snrStart, lru, begun>>

SeasonStore(r) ==
    LET q == req[r]
        e == IF q.got = None THEN [peek(seasonLru, q.key) EXCEPT !.errAt = q.t]
             ELSE [NoEntry EXCEPT !.typical = q.got, !.typicalAt = q.t, !.today = q.got, !.todayAt = q.t] IN
    /\ q.pc = "seasonStore"
    /\ seasonLru' = Put(lruGet(seasonLru, q.key, TRUE), q.key, e)
    /\ req' = [req EXCEPT ![r] = IF q.got = None THEN Unavailable(q) ELSE Done(q, e)]
    /\ slow' = "free"
    /\ UNCHANGED <<clock, fold, snrStart, lru, begun>>

\* The answer is written; the next request may come.
AcReply(r) ==
    /\ req[r].pc = "done"
    /\ req' = [req EXCEPT ![r] = NoReq]
    /\ UNCHANGED <<clock, fold, snrStart, lru, seasonLru, slow, begun>>

(***************************************************************************)
(* Around the requests.                                                    *)
(***************************************************************************)
AcTick ==
    /\ clock < AcMaxClock
    /\ clock' = clock + 1
    /\ UNCHANGED <<fold, snrStart, lru, seasonLru, slow, req, begun>>

\* A fold commits; health() tells of it later.
AcFold ==
    /\ fold.db + 1 \in DOMAIN RadiusAt
    /\ fold' = [fold EXCEPT !.db = @ + 1]
    /\ UNCHANGED <<clock, snrStart, lru, seasonLru, slow, req, begun>>

AcPublish ==
    /\ fold.mem # fold.db
    /\ fold' = [fold EXCEPT !.mem = fold.db]
    /\ UNCHANGED <<clock, snrStart, lru, seasonLru, slow, req, begun>>

\* The SNR backfill commits an earlier start, then purges.
AcSnrFinalize ==
    /\ snrStart.day = 1
    /\ snrStart' = [snrStart EXCEPT !.day = 0]
    /\ UNCHANGED <<clock, fold, lru, seasonLru, slow, req, begun>>

\* Mutant: the purge does not wait for a read under way.
PurgeMayRunAnyTime == TRUE
PurgeMayRun == slow = "free"

purgeCaches ==
    /\ snrStart.day = 0 /\ ~snrStart.purged
    /\ PurgeMayRun
    /\ lru' = <<>> /\ seasonLru' = <<>>
    /\ snrStart' = [snrStart EXCEPT !.purged = TRUE]
    /\ UNCHANGED <<clock, fold, slow, req, begun>>

\* The cache is empty or holds the landing view, read at time 0.
Warm == LET got == [wm |-> 0, since |-> 1, day |-> 0, radius |-> RadiusAt[0]] IN
        [NoEntry EXCEPT !.typical = got, !.typicalAt = 0, !.today = got, !.todayAt = 0]

AcInit ==
    /\ clock = AcStart
    /\ fold \in [db : {0}, mem : {-1, 0}]
    /\ snrStart = [day |-> 1, purged |-> FALSE]
    /\ lru \in {<<>>, <<[key |-> LandingKey, e |-> Warm]>>}
    /\ seasonLru = <<>> /\ slow = "free"
    /\ req = [r \in Requests |-> NoReq] /\ begun = 0

AcNext ==
    \/ \E r \in Requests :
         \/ \E key \in CacheKeys, season \in BOOLEAN : AcBegin(r, key, season)
         \/ typicalRadius(r) \/ GetFast(r) \/ GetSlow(r) \/ GetStore(r)
         \/ \E ok \in BOOLEAN : AcRead(r, ok)
         \/ SeasonFast(r) \/ SeasonSlow(r) \/ SeasonStore(r)
         \/ AcReply(r)
    \/ AcTick \/ AcFold \/ AcPublish \/ AcSnrFinalize \/ purgeCaches

AcSpec == AcInit /\ [][AcNext]_acVars

(***************************************************************************)
(* Properties.                                                             *)
(***************************************************************************)
Answers == {req[r] : r \in {x \in Requests : req[x].pc = "done"}}

\* buildAlmanacResponse dereferences both parts of the snapshot: an answer of
\* get has them, for the same day and radius, although the entry was let go of
\* while Postgres was read (evictions and the purge come in between).
AlmanacAnswerComplete ==
    \A q \in Answers : /\ q.answer.typical # None /\ q.answer.today # None
                       /\ q.answer.today.day = q.answer.typical.day
                       /\ q.answer.today.radius = q.answer.typical.radius

\* "6 h, or until the fold watermark changes": an answer is never from before
\* the watermark that was known when its request arrived, in either cache.
AlmanacAnswerCurrent == \A q \in Answers : q.answer.typical.wm >= q.beganAt

\* "Wait out an in-flight Postgres read so it can't refill the new cache with a
\* result read under the old SNR start": a request that arrives after the purge
\* never sees the old start.
AlmanacPurged == \A q \in Answers : q.afterPurge => q.answer.typical.since = 0
=============================================================================
