---------------------------- MODULE BaselinePairs ----------------------------
(* The cache of baseline indexes behind /api/dx_conditions and /api/hot_bands *)
(* of horstreporter: one entry per operator cluster and one for the global    *)
(* index, each loaded by one request at a time while the others wait for its  *)
(* lock with the time they arrived at.  A full cache evicts the entry loaded  *)
(* longest ago, which may be one that is loading: its holders keep it, and    *)
(* the next request makes a new one.  A failed load serves the previous copy  *)
(* for a while and is not repeated at once.                                   *)
EXTENDS Integers, Sequences, FiniteSets

CONSTANTS
    BpClusters,     \* operator clusters
    BpRequests,     \* concurrent requests
    BpTTL,          \* baselinePairsTTL, in ticks (baseline_pairs_cache.go:20)
    BpStaleOK,      \* baselinePairsStaleOK
    BpRetryAfter,   \* baselinePairsRetryAfter
    BpMaxClusters,  \* baselinePairsMaxClusters
    BpMaxTime, BpMaxAsked

ASSUME BpAssumption ==
    /\ BpTTL \in Nat /\ BpStaleOK \in Nat /\ BpTTL <= BpStaleOK
    /\ BpRetryAfter \in Nat /\ BpMaxClusters \in Nat \ {0}
    /\ "" \notin BpClusters

VARIABLES
    pairs,    \* key -> its entry, by number; the global index has key ""
    objects,  \* the entries ever made: [at, failAt], Absent when not set
    bpReqs,   \* request -> [st, key, obj, now]
    blanks,   \* the error answers: [key, now, loaded]
    loadedAt, \* key -> when the entry it has now was last loaded, Absent if not
    bpNow, bpAsked

bpVars == <<pairs, objects, bpReqs, blanks, loadedAt, bpNow, bpAsked>>

Absent == -100
bpKeys == BpClusters \cup {""}
BpIdle == [st |-> "idle", key |-> "", obj |-> 0, now |-> 0]

BpInit ==
    /\ pairs = <<>> /\ objects = <<>>
    /\ bpReqs = [r \in BpRequests |-> BpIdle]
    /\ blanks = {} /\ loadedAt = [k \in bpKeys |-> Absent]
    /\ bpNow = 0 /\ bpAsked = 0

-----------------------------------------------------------------------------

\* The clusters a new entry may displace: those loaded longest ago, an entry
\* never loaded first.
victims ==
    {k \in DOMAIN pairs \ {""} : \A o \in DOMAIN pairs \ {""} :
        objects[pairs[k]].at <= objects[pairs[o]].at}

\* The entry of a key for request r, made if there is none.
entry(r, key, now) ==
    IF key \in DOMAIN pairs
    THEN /\ bpReqs' = [bpReqs EXCEPT ![r] = [st |-> "wait", key |-> key, obj |-> pairs[key], now |-> now]]
         /\ UNCHANGED <<pairs, objects, loadedAt>>
    ELSE \E out \in IF Cardinality(DOMAIN pairs) > BpMaxClusters /\ victims # {}
                    THEN {{v} : v \in victims} ELSE {{}} :
           /\ objects' = Append(objects, [at |-> Absent, failAt |-> Absent])
           /\ pairs' = [k \in (DOMAIN pairs \ out) \cup {key} |->
                            IF k = key THEN Len(objects') ELSE pairs[k]]
           /\ loadedAt' = [k \in bpKeys |-> IF k \in out \cup {key} THEN Absent ELSE loadedAt[k]]
           /\ bpReqs' = [bpReqs EXCEPT ![r] =
                            [st |-> "wait", key |-> key, obj |-> Len(objects'), now |-> now]]

\* A request with an operator cluster takes that index first.
allBandBaselinePairs(r) ==
    /\ bpReqs[r].st = "idle"
    /\ bpAsked < BpMaxAsked
    /\ bpAsked' = bpAsked + 1
    /\ \E key \in bpKeys : entry(r, key, bpNow)
    /\ UNCHANGED <<blanks, bpNow>>

\* Done with one index: the global one follows a cluster's, with the same time.
NextIndex(r) ==
    IF bpReqs[r].key # "" THEN entry(r, "", bpReqs[r].now)
    ELSE bpReqs' = [bpReqs EXCEPT ![r] = BpIdle] /\ UNCHANGED <<pairs, objects, loadedAt>>

copy(r) == objects[bpReqs[r].obj]

\* Mutant: a failure is bridged only as long as the copy is fresh anyway.
staleOKFresh(r) == copy(r).at # Absent /\ bpReqs[r].now - copy(r).at < BpTTL

staleOK(r) == copy(r).at # Absent /\ bpReqs[r].now - copy(r).at < BpStaleOK

\* An answer without an index ends the request.
Blank(r) ==
    /\ blanks' = blanks \cup {[key |-> bpReqs[r].key, now |-> bpReqs[r].now, loaded |->
          IF bpReqs[r].key \in DOMAIN pairs /\ pairs[bpReqs[r].key] = bpReqs[r].obj
          THEN loadedAt[bpReqs[r].key] ELSE Absent]}
    /\ bpReqs' = [bpReqs EXCEPT ![r] = BpIdle]

\* The request has the entry's lock: a fresh copy or a recent failure answers
\* it, otherwise it loads.
lockEntry(r) ==
    /\ bpReqs[r].st = "wait"
    /\ \A o \in BpRequests : ~(bpReqs[o].st = "load" /\ bpReqs[o].obj = bpReqs[r].obj)
    /\ LET e == copy(r)
           now == bpReqs[r].now
           hit == e.at # Absent /\ now - e.at < BpTTL
           backOff == e.failAt # Absent /\ now - e.failAt < BpRetryAfter
       IN \/ /\ hit \/ (backOff /\ staleOK(r))
             /\ NextIndex(r) /\ UNCHANGED blanks
          \/ /\ ~hit /\ backOff /\ ~staleOK(r)
             /\ Blank(r) /\ UNCHANGED <<pairs, objects, loadedAt>>
          \/ /\ ~hit /\ ~backOff
             /\ bpReqs' = [bpReqs EXCEPT ![r].st = "load"]
             /\ UNCHANGED <<pairs, objects, loadedAt, blanks>>
    /\ UNCHANGED <<bpNow, bpAsked>>

\* The query answers; the entry takes the time the request arrived at.
loadDone(r) ==
    /\ bpReqs[r].st = "load"
    /\ LET q == bpReqs[r] IN
       /\ objects' = [objects EXCEPT ![q.obj] = [at |-> q.now, failAt |-> Absent]]
       /\ loadedAt' = IF q.key \in DOMAIN pairs /\ pairs[q.key] = q.obj
                      THEN [loadedAt EXCEPT ![q.key] = q.now] ELSE loadedAt
       /\ bpReqs' = [bpReqs EXCEPT ![r] = IF q.key # "" THEN [q EXCEPT !.st = "next"] ELSE BpIdle]
    /\ UNCHANGED <<pairs, blanks, bpNow, bpAsked>>

\* The query fails: the previous copy answers if it is not too old.
loadFails(r) ==
    /\ bpReqs[r].st = "load"
    /\ objects' = [objects EXCEPT ![bpReqs[r].obj].failAt = bpReqs[r].now]
    /\ IF staleOK(r)
       THEN /\ bpReqs' = [bpReqs EXCEPT ![r] =
                   IF bpReqs[r].key # "" THEN [bpReqs[r] EXCEPT !.st = "next"] ELSE BpIdle]
            /\ UNCHANGED blanks
       ELSE Blank(r)
    /\ UNCHANGED <<pairs, loadedAt, bpNow, bpAsked>>

\* The lock is released and the request goes on to the global index.
globalIndex(r) ==
    /\ bpReqs[r].st = "next"
    /\ entry(r, "", bpReqs[r].now)
    /\ UNCHANGED <<blanks, bpNow, bpAsked>>

BpTick ==
    /\ bpNow < BpMaxTime
    /\ bpNow' = bpNow + 1
    /\ UNCHANGED <<pairs, objects, bpReqs, blanks, loadedAt, bpAsked>>

BpNext ==
    \/ \E r \in BpRequests : \/ allBandBaselinePairs(r) \/ lockEntry(r)
                             \/ loadDone(r) \/ loadFails(r) \/ globalIndex(r)
    \/ BpTick

BpSpec == BpInit /\ [][BpNext]_bpVars

-----------------------------------------------------------------------------

(* get (baseline_pairs_cache.go:21-23, 48-74): a request is answered without *)
(* an index only when the entry its key has was never loaded or was loaded   *)
(* longer ago than a failed refresh may be bridged, whatever failures,       *)
(* waiters with old clocks and evictions during a load came before; and the  *)
(* cache holds no more than its clusters and the global index.               *)
PairsNeverBlank ==
    /\ \A b \in blanks : b.loaded = Absent \/ b.now - b.loaded >= BpStaleOK
    /\ Cardinality(DOMAIN pairs) <= BpMaxClusters + 1
=============================================================================
