------------------------- MODULE AlmanacCacheProofs -------------------------
(***************************************************************************)
(* Proofs about the read path of the Almanac, for every number of          *)
(* requests, keys, cap, time to live and length of the day: an answer is   *)
(* complete, not from before the watermark known at its start, and never   *)
(* from before a purge it came after.  Then, for every input, about what   *)
(* an answer is computed with: the lanes of the panel at the radius it     *)
(* chooses, the month of the drill-down, the windows of the agenda, and    *)
(* the stored rows the season is read from.                                *)
(***************************************************************************)
EXTENDS AlmanacCache, AlmanacLanes, SparseRow, SequenceTheorems,
        FiniteSetTheorems, WellFoundedInduction, TLAPS

\* What Postgres answers, what a cache holds of it, and a request.
AcResults == [wm : Nat, since : {0, 1}, day : Int, radius : Nat]
AcEntries == [typical : AcResults \cup {None}, typicalAt : Int, errAt : Int,
            today : AcResults \cup {None}, todayAt : Int, todayErrAt : Int]
AcSlots == [key : CacheKeys, e : AcEntries]
AcSteps == {"idle", "radius", "get", "getSlow", "getRead", "getStore",
          "season", "seasonSlow", "seasonRead", "seasonStore", "done"}
AcReqs == [pc : AcSteps, key : CacheKeys, season : BOOLEAN, t : Nat, typOK : BOOLEAN, radius : Int,
         got : AcResults \cup {None}, answer : AcEntries, beganAt : Int, afterPurge : BOOLEAN]

\* A cache: each key has one place.
OnePlace(l) == \A i, j \in DOMAIN l : l[i].key = l[j].key => i = j
IsCache(l) == l \in Seq(AcSlots) /\ OnePlace(l)

AcTypeOK ==
    /\ clock \in Nat
    /\ fold \in [db : DOMAIN RadiusAt, mem : Int] /\ -1 <= fold.mem /\ fold.mem <= fold.db
    /\ snrStart \in [day : {0, 1}, purged : BOOLEAN] /\ (snrStart.purged => snrStart.day = 0)
    /\ IsCache(lru) /\ IsCache(seasonLru)
    /\ slow \in Requests \cup {"free"}
    /\ req \in [Requests -> AcReqs]

\* Both parts of an entry are there, for the same day and radius, and a purge
\* leaves nothing from before it.
EntryGood(e) ==
    e.typical # None =>
        /\ e.today # None /\ e.today.day = e.typical.day /\ e.today.radius = e.typical.radius
        /\ snrStart.purged => e.typical.since = 0
CachesGood == \A x \in ToSet(lru) \cup ToSet(seasonLru) : EntryGood(x.e)

\* What the properties ask of the answer e to a request that began at the
\* watermark began.
Answerable(e, began, after) ==
    /\ e.typical # None /\ e.today # None
    /\ e.today.day = e.typical.day /\ e.today.radius = e.typical.radius
    /\ e.typical.wm >= began /\ (after => e.typical.since = 0)

\* A request's watermark was known, the purge it came after has happened, and
\* its answer is good.
Begun(q) ==
    /\ q.beganAt <= fold.mem /\ (q.afterPurge => snrStart.purged)
    /\ q.pc = "done" => Answerable(q.answer, q.beganAt, q.afterPurge)

\* A request that does not hold the slow path.
Reading == {"getRead", "getStore", "seasonRead", "seasonStore"}

\* What a transaction answered is for the request's day and radius and not
\* from before it; after a purge not from before that.
ReadGood(q) ==
    q.pc \in {"getStore", "seasonStore"} /\ q.got # None =>
        /\ q.got.day = UtcDay(q.t) /\ q.got.wm >= q.beganAt
        /\ q.radius >= 0 => q.got.radius = q.radius
        /\ snrStart.purged => q.got.since = 0

\* The typical part a read of today alone relies on is still cached.
Relied(q, l) ==
    \E x \in ToSet(l) :
        /\ x.key = q.key /\ x.e.typical # None
        /\ x.e.typical.day = UtcDay(q.t) /\ x.e.typical.radius = q.radius
        /\ x.e.typical.wm >= q.beganAt
ReliedOn(q, l) == q.pc \in {"getRead", "getStore"} /\ q.typOK => Relied(q, l)

\* What holds of each request.
RequestGood(r) ==
    /\ Begun(req[r]) /\ ReadGood(req[r]) /\ ReliedOn(req[r], lru)
    /\ (slow = r) <=> (req[r].pc \in Reading)

\* The inductive invariant of the three properties.
AcInv == AcTypeOK /\ CachesGood /\ \A r \in Requests : RequestGood(r)

\* The members of a sequence are its elements.
LEMMA Members ==
  ASSUME NEW S, NEW l \in Seq(S)
  PROVE  /\ Len(l) \in Nat /\ DOMAIN l = 1..Len(l) /\ (\A i \in DOMAIN l : l[i] \in S)
         /\ \A x : x \in ToSet(l) <=> \E i \in DOMAIN l : l[i] = x
         /\ ToSet(l) \subseteq S
<1>1. Len(l) \in Nat /\ DOMAIN l = 1..Len(l)
  BY LenProperties
<1>2. \A i \in DOMAIN l : l[i] \in S
  BY <1>1, ElementOfSeq
<1>3. \A x : x \in ToSet(l) <=> \E i \in DOMAIN l : l[i] = x
  BY DEF ToSet
<1>4. QED
  BY <1>1, <1>2, <1>3

\* A cache's slots.
LEMMA SlotFacts ==
  ASSUME NEW l, IsCache(l)
  PROVE  /\ Len(l) \in Nat /\ DOMAIN l = 1..Len(l)
         /\ \A x \in ToSet(l) : x \in AcSlots /\ x.key \in CacheKeys /\ x.e \in AcEntries
                                /\ x = [key |-> x.key, e |-> x.e]
         /\ \A x, y \in ToSet(l) : x.key = y.key => x = y
<1>1. l \in Seq(AcSlots)
  BY DEF IsCache
<1>2. \A x \in ToSet(l) : x \in AcSlots
  BY <1>1, Members
<1>3. \A x \in AcSlots : x.key \in CacheKeys /\ x.e \in AcEntries /\ x = [key |-> x.key, e |-> x.e]
  BY DEF AcSlots
<1>4. ASSUME NEW x \in ToSet(l), NEW y \in ToSet(l), x.key = y.key
      PROVE  x = y
  <2>1. PICK i \in DOMAIN l : l[i] = x
    BY <1>1, Members
  <2>2. PICK j \in DOMAIN l : l[j] = y
    BY <1>1, Members
  <2>3. QED
    BY <1>4, <2>1, <2>2 DEF IsCache, OnePlace
<1>5. QED
  BY <1>1, <1>2, <1>3, <1>4, Members

\* The first slots of a cache.
LEMMA FirstSlots ==
  ASSUME NEW l, IsCache(l), NEW n \in 0..Len(l)
  PROVE  /\ IsCache(SubSeq(l, 1, n)) /\ ToSet(SubSeq(l, 1, n)) \subseteq ToSet(l)
         /\ Len(SubSeq(l, 1, n)) = n /\ \A i \in 1..n : SubSeq(l, 1, n)[i] = l[i]
<1>1. l \in Seq(AcSlots) /\ Len(l) \in Nat /\ DOMAIN l = 1..Len(l) /\ (\A i \in DOMAIN l : l[i] \in AcSlots)
  BY Members DEF IsCache
<1> DEFINE s == SubSeq(l, 1, n)
<1>2. \A i \in 1..n : l[i] \in AcSlots
  BY <1>1
<1>3. s \in Seq(AcSlots) /\ Len(s) = IF 1 <= n THEN n - 1 + 1 ELSE 0
  BY <1>1, <1>2, SubSeqProperties
<1>4. \A i \in 1..n - 1 + 1 : s[i] = l[1 + i - 1]
  BY <1>1, <1>2, SubSeqProperties
<1> HIDE DEF s
<1>5. n \in Nat
  BY <1>1
<1>6. Len(s) = n
  BY <1>3, <1>5
<1>7. \A i \in 1..n : s[i] = l[i]
  BY <1>4, <1>5
<1>8. DOMAIN s = 1..n
  BY <1>3, <1>6, LenProperties
<1>9. 1..n \subseteq DOMAIN l
  BY <1>1
<1>10. OnePlace(s)
  BY <1>7, <1>8, <1>9 DEF OnePlace, IsCache
<1>11. ToSet(s) \subseteq ToSet(l)
  BY <1>7, <1>8, <1>9 DEF ToSet
<1>12. QED
  BY <1>3, <1>6, <1>7, <1>10, <1>11 DEF s, IsCache

\* One slot in front of others.
LEMMA PushedFront ==
  ASSUME NEW l, IsCache(l), NEW x \in AcSlots, \A y \in ToSet(l) : y.key # x.key
  PROVE  IsCache(<<x>> \o l) /\ ToSet(<<x>> \o l) = {x} \cup ToSet(l)
<1>1. l \in Seq(AcSlots) /\ Len(l) \in Nat /\ DOMAIN l = 1..Len(l)
  BY Members DEF IsCache
<1> DEFINE s == <<x>> \o l
<1>2. <<x>> \in Seq(AcSlots) /\ Len(<<x>>) = 1 /\ <<x>>[1] = x
  OBVIOUS
<1>3. s \in Seq(AcSlots) /\ Len(s) = 1 + Len(l)
  BY <1>1, <1>2, ConcatProperties
<1>4. \A i \in 1..1 + Len(l) : s[i] = IF i <= 1 THEN <<x>>[i] ELSE l[i - 1]
  BY <1>1, <1>2, ConcatProperties
<1> HIDE DEF s
<1>5. s[1] = x
  BY <1>1, <1>2, <1>4
<1>6. \A i \in 1..Len(l) : s[i + 1] = l[i]
  BY <1>1, <1>4
<1>7. DOMAIN s = 1..1 + Len(l)
  BY <1>3, LenProperties
<1>8. \A i \in DOMAIN s : i = 1 \/ (i - 1 \in DOMAIN l /\ s[i] = l[i - 1])
  BY <1>1, <1>4, <1>7
<1>9. 1 \in DOMAIN s /\ \A i \in DOMAIN l : i + 1 \in DOMAIN s
  BY <1>1, <1>7
<1>10. ToSet(s) = {x} \cup ToSet(l)
  <2>1. ToSet(s) \subseteq {x} \cup ToSet(l)
    BY <1>5, <1>8 DEF ToSet
  <2>2. {x} \cup ToSet(l) \subseteq ToSet(s)
    BY <1>1, <1>5, <1>6, <1>9 DEF ToSet
  <2>3. QED
    BY <2>1, <2>2
<1>11. OnePlace(s)
  <2> SUFFICES ASSUME NEW i \in DOMAIN s, NEW j \in DOMAIN s, s[i].key = s[j].key
               PROVE  i = j
    BY DEF OnePlace
  <2>1. \A k \in DOMAIN l : l[k] \in ToSet(l)
    BY DEF ToSet
  <2>2. i = 1 => j = 1
    BY <1>5, <1>8, <2>1
  <2>3. j = 1 => i = 1
    BY <1>5, <1>8, <2>1
  <2>4. i # 1 /\ j # 1 => i - 1 = j - 1
    BY <1>8 DEF IsCache, OnePlace
  <2>5. i \in Int /\ j \in Int
    BY <1>1, <1>7
  <2>6. QED
    BY <2>2, <2>3, <2>4, <2>5
<1>12. QED
  BY <1>3, <1>10, <1>11 DEF s, IsCache

\* Taking a key out leaves the others.
LEMMA TakenOut ==
  ASSUME NEW l, IsCache(l), NEW key
  PROVE  IsCache(Without(l, key)) /\ ToSet(Without(l, key)) = {x \in ToSet(l) : x.key # key}
<1>1. l \in Seq(AcSlots) /\ Len(l) \in Nat /\ DOMAIN l = 1..Len(l) /\ (\A i \in DOMAIN l : l[i] \in AcSlots)
  BY Members DEF IsCache
<1>2. CASE ~Cached(l, key)
  BY <1>2 DEF Without, Cached, ToSet
<1>3. CASE Cached(l, key)
  <2> DEFINE k == CHOOSE i \in DOMAIN l : l[i].key = key
  <2>1. k \in DOMAIN l /\ l[k].key = key
    BY <1>3 DEF Cached
  <2>2. Without(l, key) = RemoveAt(l, k)
    BY <1>3 DEF Without
  <2> HIDE DEF k
  <2> DEFINE a == SubSeq(l, 1, k - 1)
             b == SubSeq(l, k + 1, Len(l))
             s == Without(l, key)
  <2>3. k \in 1..Len(l) /\ k - 1 \in 0..Len(l) /\ k \in Nat /\ k + 1 \in Nat
    BY <1>1, <2>1
  <2>4. a \in Seq(AcSlots) /\ Len(a) = k - 1 /\ \A i \in 1..k - 1 : a[i] = l[i]
    BY <2>3, FirstSlots DEF IsCache
  <2>5. b \in Seq(AcSlots) /\ Len(b) = Len(l) - k /\ \A i \in 1..Len(l) - k : b[i] = l[k + i]
    <3>1. \A i \in k + 1..Len(l) : l[i] \in AcSlots
      BY <1>1, <2>3
    <3>2. b \in Seq(AcSlots) /\ Len(b) = IF k + 1 <= Len(l) THEN Len(l) - (k + 1) + 1 ELSE 0
      BY <1>1, <2>3, <3>1, SubSeqProperties
    <3>3. \A i \in 1..Len(l) - (k + 1) + 1 : b[i] = l[k + 1 + i - 1]
      BY <1>1, <2>3, <3>1, SubSeqProperties
    <3> HIDE DEF b
    <3>4. Len(b) = Len(l) - k
      <4>1. CASE k + 1 <= Len(l)
        BY <1>1, <2>3, <3>2, <4>1
      <4>2. CASE ~(k + 1 <= Len(l))
        <5>1. k = Len(l)
          <6>1. \A n, m \in Nat : m \in 1..n /\ ~(m + 1 <= n) => m = n
            OBVIOUS
          <6>2. Len(l) \in Nat /\ k \in Nat /\ k \in 1..Len(l)
            BY <1>1, <2>3
          <6>3. QED
            BY <4>2, <6>1, <6>2
        <5>2. Len(b) = 0
          BY <3>2, <4>2
        <5>3. QED
          BY <1>1, <5>1, <5>2
      <4>3. QED
        BY <4>1, <4>2
    <3>5. \A i \in 1..Len(l) - k : b[i] = l[k + i]
      BY <1>1, <2>3, <3>3
    <3>6. QED
      BY <3>2, <3>4, <3>5
  <2>6. s = a \o b
    BY <2>2 DEF RemoveAt
  <2> HIDE DEF a, b, s
  <2>7. s \in Seq(AcSlots) /\ Len(s) = Len(a) + Len(b)
    BY <2>4, <2>5, <2>6, ConcatProperties
  <2>8. \A i \in 1..Len(a) + Len(b) : s[i] = IF i <= Len(a) THEN a[i] ELSE b[i - Len(a)]
    BY <2>4, <2>5, <2>6, ConcatProperties
  <2>9. DOMAIN s = 1..Len(l) - 1
    <3>1. Len(s) = Len(l) - 1
      BY <1>1, <2>3, <2>4, <2>5, <2>7
    <3>2. QED
      BY <2>7, <3>1, LenProperties
  <2>10. \A i \in DOMAIN s : s[i] = IF i < k THEN l[i] ELSE l[i + 1]
    <3> SUFFICES ASSUME NEW i \in 1..Len(l) - 1 PROVE s[i] = IF i < k THEN l[i] ELSE l[i + 1]
      BY <2>9
    <3>1. CASE i < k
      <4>1. i \in 1..k - 1 /\ i <= k - 1
        BY <1>1, <2>3, <3>1
      <4>2. i \in 1..Len(a) + Len(b)
        BY <1>1, <2>3, <2>4, <2>5
      <4>3. s[i] = a[i]
        BY <2>4, <2>8, <4>1, <4>2
      <4>4. QED
        BY <2>4, <3>1, <4>1, <4>3
    <3>2. CASE ~(i < k)
      <4>1. i - (k - 1) \in 1..Len(l) - k /\ k + (i - (k - 1)) = i + 1 /\ ~(i <= k - 1)
        BY <1>1, <2>3, <3>2
      <4>2. i \in 1..Len(a) + Len(b)
        BY <1>1, <2>3, <2>4, <2>5
      <4>3. s[i] = b[i - (k - 1)]
        BY <2>4, <2>8, <4>1, <4>2
      <4>4. QED
        BY <2>5, <3>2, <4>1, <4>3
    <3>3. QED
      BY <3>1, <3>2
  <2> DEFINE from(i) == IF i < k THEN i ELSE i + 1
  <2>11. \A i \in DOMAIN s : from(i) \in DOMAIN l /\ from(i) # k /\ s[i] = l[from(i)]
    BY <1>1, <2>3, <2>9, <2>10
  <2>12. \A i, j \in DOMAIN s : from(i) = from(j) => i = j
    BY <2>3, <2>9
  <2>13. \A i \in DOMAIN l : i # k => \E j \in DOMAIN s : from(j) = i
    <3> SUFFICES ASSUME NEW i \in 1..Len(l), i # k PROVE \E j \in 1..Len(l) - 1 : from(j) = i
      BY <1>1, <2>9
    <3>1. CASE i < k
      <4>1. i \in 1..Len(l) - 1 /\ from(i) = i
        BY <1>1, <2>3, <3>1
      <4>2. QED
        BY <4>1
    <3>2. CASE ~(i < k)
      <4>1. i - 1 \in 1..Len(l) - 1 /\ from(i - 1) = i
        BY <1>1, <2>3, <3>2
      <4>2. QED
        BY <4>1
    <3>3. QED
      BY <3>1, <3>2
  <2> HIDE DEF from
  <2>14. OnePlace(s)
    BY <2>11, <2>12 DEF OnePlace, IsCache
  <2>15. \A i \in DOMAIN l : l[i].key = key => i = k
    BY <2>1 DEF IsCache, OnePlace
  <2>16. ToSet(s) = {x \in ToSet(l) : x.key # key}
    <3>1. ToSet(s) \subseteq {x \in ToSet(l) : x.key # key}
      BY <2>11, <2>15 DEF ToSet
    <3>2. {x \in ToSet(l) : x.key # key} \subseteq ToSet(s)
      BY <2>1, <2>11, <2>13 DEF ToSet
    <3>3. QED
      BY <3>1, <3>2
  <2>17. QED
    BY <2>7, <2>14, <2>16 DEF s, IsCache
<1>4. QED
  BY <1>2, <1>3

\* The empty entry.
LEMMA EmptyEntry == NoEntry \in AcEntries /\ NoEntry.typical = None
<1>1. Never \in Int
  BY DEF Never
<1>2. QED
  BY <1>1 DEF NoEntry, AcEntries

\* What a look at a key finds.
LEMMA Peeked ==
  ASSUME NEW l, IsCache(l), NEW key
  PROVE  /\ peek(l, key) \in AcEntries
         /\ \A x \in ToSet(l) : x.key = key => Cached(l, key) /\ peek(l, key) = x.e
         /\ Cached(l, key) => \E x \in ToSet(l) : x.key = key /\ x.e = peek(l, key)
         /\ ~Cached(l, key) => peek(l, key) = NoEntry
<1>1. l \in Seq(AcSlots)
  BY DEF IsCache
<1>2. Cached(l, key) <=> \E x \in ToSet(l) : x.key = key
  BY <1>1, Members DEF Cached
<1>3. CASE Cached(l, key)
  <2> DEFINE y == CHOOSE x \in ToSet(l) : x.key = key
  <2>1. y \in ToSet(l) /\ y.key = key /\ peek(l, key) = y.e
    BY <1>2, <1>3 DEF peek
  <2>2. \A x \in ToSet(l) : x.key = key => x = y
    BY <2>1, SlotFacts
  <2>3. y.e \in AcEntries
    BY <2>1, SlotFacts
  <2>4. QED
    BY <1>3, <2>1, <2>2, <2>3
<1>4. CASE ~Cached(l, key)
  BY <1>2, <1>4, EmptyEntry DEF peek
<1>5. QED
  BY <1>3, <1>4

\* A slot is made of its key and its entry.
LEMMA SlotOf ==
  ASSUME NEW key \in CacheKeys, NEW e \in AcEntries
  PROVE  /\ [key |-> key, e |-> e] \in AcSlots
         /\ [key |-> key, e |-> e].key = key /\ [key |-> key, e |-> e].e = e
BY DEF AcSlots

\* Moving a cached key to the front changes no entry.
LEMMA MovedFront ==
  ASSUME NEW l, IsCache(l), NEW key \in CacheKeys, Cached(l, key), NEW create
  PROVE  IsCache(lruGet(l, key, create)) /\ ToSet(lruGet(l, key, create)) = ToSet(l)
<1> DEFINE x == [key |-> key, e |-> peek(l, key)]
           w == Without(l, key)
<1>1. lruGet(l, key, create) = <<x>> \o w
  BY DEF lruGet
<1>2. x \in AcSlots /\ x.key = key /\ x.e = peek(l, key)
  BY Peeked, SlotOf
<1>3. IsCache(w) /\ ToSet(w) = {y \in ToSet(l) : y.key # key}
  BY TakenOut
<1>4. PICK z \in ToSet(l) : z.key = key /\ z.e = peek(l, key)
  BY Peeked
<1>5. z = x
  BY <1>4, SlotFacts
<1>6. \A y \in ToSet(l) : y.key = key => y = x
  BY <1>4, <1>5, SlotFacts
<1> HIDE DEF x, w
<1>7. IsCache(<<x>> \o w) /\ ToSet(<<x>> \o w) = {x} \cup ToSet(w)
  BY <1>2, <1>3, PushedFront
<1>8. {x} \cup ToSet(w) = ToSet(l)
  BY <1>3, <1>4, <1>5, <1>6
<1>9. QED
  BY <1>1, <1>7, <1>8

\* get without create.
LEMMA LookedUp ==
  ASSUME NEW l, IsCache(l), NEW key \in CacheKeys
  PROVE  IsCache(lruGet(l, key, FALSE)) /\ ToSet(lruGet(l, key, FALSE)) = ToSet(l)
<1>1. CASE Cached(l, key)
  BY <1>1, MovedFront
<1>2. CASE ~Cached(l, key)
  BY <1>2 DEF lruGet
<1>3. QED
  BY <1>1, <1>2

\* get with create: the key is there, with the entry it had or the empty one.
LEMMA MadeRoom ==
  ASSUME NEW l, IsCache(l), NEW key \in CacheKeys
  PROVE  /\ IsCache(lruGet(l, key, TRUE))
         /\ [key |-> key, e |-> peek(l, key)] \in ToSet(lruGet(l, key, TRUE))
         /\ ToSet(lruGet(l, key, TRUE)) \subseteq ToSet(l) \cup {[key |-> key, e |-> NoEntry]}
         /\ peek(lruGet(l, key, TRUE), key) = peek(l, key)
<1>1. CASE Cached(l, key)
  <2>1. IsCache(lruGet(l, key, TRUE)) /\ ToSet(lruGet(l, key, TRUE)) = ToSet(l)
    BY <1>1, MovedFront
  <2>2. PICK z \in ToSet(l) : z.key = key /\ z.e = peek(l, key)
    BY <1>1, Peeked
  <2>3. z = [key |-> key, e |-> peek(l, key)]
    BY <2>2, SlotFacts
  <2>4. peek(lruGet(l, key, TRUE), key) = z.e
    <3> DEFINE m == lruGet(l, key, TRUE)
    <3>1. IsCache(m) /\ z \in ToSet(m) /\ z.key = key
      BY <2>1, <2>2
    <3> HIDE DEF m
    <3>2. peek(m, key) = z.e
      BY <3>1, Peeked
    <3>3. QED
      BY <3>2 DEF m
  <2>5. QED
    BY <2>1, <2>2, <2>3, <2>4
<1>2. CASE ~Cached(l, key)
  <2> DEFINE x == [key |-> key, e |-> NoEntry]
             n == IF Len(l) >= CacheCap THEN CacheCap - 1 ELSE Len(l)
             s == SubSeq(l, 1, n)
  <2>1. lruGet(l, key, TRUE) = <<x>> \o s /\ peek(l, key) = NoEntry
    BY <1>2 DEF lruGet, peek
  <2>2. n \in 0..Len(l)
    <3>1. Len(l) \in Nat /\ CacheCap \in Nat \ {0}
      BY SlotFacts, CacheConstants
    <3>2. QED
      BY <3>1
  <2>3. x \in AcSlots /\ x.key = key /\ x.e = NoEntry
    BY EmptyEntry, SlotOf
  <2> HIDE DEF n
  <2>4. IsCache(s) /\ ToSet(s) \subseteq ToSet(l)
    BY <2>2, FirstSlots
  <2>5. \A y \in ToSet(s) : y.key # key
    BY <1>2, <2>4, Peeked
  <2> HIDE DEF x, s
  <2>6. IsCache(<<x>> \o s) /\ ToSet(<<x>> \o s) = {x} \cup ToSet(s)
    BY <2>3, <2>4, <2>5, PushedFront
  <2>7. peek(<<x>> \o s, key) = x.e
    BY <2>3, <2>6, Peeked
  <2>8. x = [key |-> key, e |-> NoEntry]
    BY DEF x
  <2>9. QED
    BY <2>1, <2>3, <2>4, <2>6, <2>7, <2>8
<1>3. QED
  BY <1>1, <1>2

\* A key put with an entry.
LEMMA PutIn ==
  ASSUME NEW l, IsCache(l), NEW key \in CacheKeys, NEW e \in AcEntries
  PROVE  /\ IsCache(Put(l, key, e))
         /\ ToSet(Put(l, key, e)) \subseteq ToSet(l) \cup {[key |-> key, e |-> e]}
<1> DEFINE x == [key |-> key, e |-> e]
           w == Without(l, key)
<1>1. IsCache(w) /\ ToSet(w) = {y \in ToSet(l) : y.key # key}
  BY TakenOut
<1>2. x \in AcSlots /\ x.key = key
  BY SlotOf
<1>3. Put(l, key, e) = <<x>> \o w
  BY DEF Put
<1> HIDE DEF x, w
<1>4. IsCache(<<x>> \o w) /\ ToSet(<<x>> \o w) = {x} \cup ToSet(w)
  BY <1>1, <1>2, PushedFront
<1>5. QED
  BY <1>1, <1>3, <1>4 DEF x

\* Days are integers; what Postgres answered is not None.
LEMMA AcDay == ASSUME NEW t \in Nat PROVE UtcDay(t) \in Int
  BY CacheConstants DEF UtcDay
LEMMA NotNone == \A x \in AcResults : x # None /\ x.wm \in Nat /\ x.radius \in Nat
  BY DEF AcResults, None

\* A request that holds nothing.
AtRest(q) == Begun(q) /\ q.pc \notin Reading

\* What a valid cached part gives is an answer.
LEMMA Hit ==
  ASSUME AcTypeOK, NEW e \in AcEntries, EntryGood(e), NEW t, typicalValid(e, t),
         NEW q \in AcReqs, Begun(q)
  PROVE  Answerable(e, q.beganAt, q.afterPurge)
<1>1. e.typical # None /\ e.typical \in AcResults
  BY DEF typicalValid, AcEntries
<1>2. e.typical.wm \in Nat /\ fold.mem \in Int /\ q.beganAt \in Int
  BY <1>1, NotNone DEF AcTypeOK, AcReqs
<1>3. fold.mem < 0 \/ fold.mem = e.typical.wm
  BY DEF typicalValid, watermarkCurrent
<1>4. e.typical.wm >= q.beganAt
  BY <1>2, <1>3 DEF Begun
<1>5. q.afterPurge => e.typical.since = 0
  BY <1>1 DEF EntryGood, Begun
<1>6. QED
  BY <1>1, <1>4, <1>5 DEF EntryGood, Answerable

\* No request, and a refused one, hold nothing.
LEMMA NoReqRests == ASSUME AcTypeOK PROVE NoReq \in AcReqs /\ AtRest(NoReq)
<1>1. NoReq \in AcReqs
  BY EmptyEntry, CacheConstants DEF NoReq, AcReqs, AcSteps
<1>2. AtRest(NoReq)
  BY DEF NoReq, AtRest, Begun, Reading, AcTypeOK
<1>3. QED
  BY <1>1, <1>2

\* Neither does an answered one.
LEMMA DoneRests ==
  ASSUME AcTypeOK, NEW q \in AcReqs, Begun(q), NEW e \in AcEntries, Answerable(e, q.beganAt, q.afterPurge)
  PROVE  Done(q, e) \in AcReqs /\ AtRest(Done(q, e))
<1> DEFINE d == Done(q, e)
<1>1. NoReq \in AcReqs
  BY NoReqRests
<1>2. d \in AcReqs /\ d.pc = "done" /\ d.answer = e /\ d.beganAt = q.beganAt /\ d.afterPurge = q.afterPurge
  BY <1>1 DEF Done, AcReqs, AcSteps
<1> HIDE DEF d
<1>3. AtRest(d)
  BY <1>2 DEF AtRest, Begun, Reading
<1>4. QED
  BY <1>2, <1>3 DEF d

\* An answer of get ends the request or starts its drill-down.
LEMMA AnsweredRests ==
  ASSUME AcTypeOK, NEW q \in AcReqs, Begun(q), NEW e \in AcEntries, Answerable(e, q.beganAt, q.afterPurge)
  PROVE  Answered(q, e) \in AcReqs /\ AtRest(Answered(q, e))
<1>1. CASE ~q.season
  BY <1>1, DoneRests DEF Answered
<1>2. CASE q.season
  <2> DEFINE d == [q EXCEPT !.pc = "season", !.radius = e.typical.radius, !.t = clock,
                            !.typOK = FALSE, !.got = None]
  <2>1. e.typical.radius \in Int
    BY NotNone DEF Answerable, AcEntries
  <2>2. d \in AcReqs /\ d.pc = "season" /\ d.beganAt = q.beganAt /\ d.afterPurge = q.afterPurge
    BY <2>1 DEF AcReqs, AcSteps, AcTypeOK
  <2>3. Answered(q, e) = d
    BY <1>2 DEF Answered
  <2> HIDE DEF d
  <2>4. AtRest(d)
    BY <2>2 DEF AtRest, Begun, Reading
  <2>5. QED
    BY <2>2, <2>3, <2>4
<1>3. QED
  BY <1>1, <1>2

\* One request changes and what the others rely on stays.
LEMMA OneRequest ==
  ASSUME AcInv, UNCHANGED <<clock, fold, snrStart>>,
         NEW r \in Requests, NEW q \in AcReqs, req' = [req EXCEPT ![r] = q],
         IsCache(lru'), IsCache(seasonLru'),
         \A x \in ToSet(lru') \cup ToSet(seasonLru') : EntryGood(x.e),
         slow' \in Requests \cup {"free"},
         \A s \in Requests : s # r => ((slow' = s) <=> (slow = s)) /\ (slow = s => ToSet(lru) \subseteq ToSet(lru')),
         Begun(q), ReadGood(q), ReliedOn(q, lru'), (slow' = r) <=> (q.pc \in Reading)
  PROVE  AcInv'
<1>1. req \in [Requests -> AcReqs]
  BY DEF AcInv, AcTypeOK
<1>2. req' \in [Requests -> AcReqs] /\ req'[r] = q /\ \A s \in Requests : s # r => req'[s] = req[s]
  BY <1>1
<1>3. AcTypeOK'
  BY <1>2 DEF AcInv, AcTypeOK, IsCache, OnePlace
<1>4. CachesGood'
  BY DEF CachesGood, EntryGood
<1>5. ASSUME NEW s \in Requests
      PROVE  RequestGood(s)'
  <2>1. CASE s = r
    BY <1>2, <2>1 DEF RequestGood, Begun, ReadGood, ReliedOn, Relied, Answerable, UtcDay
  <2>2. CASE s # r
    <3>1. RequestGood(s) /\ req'[s] = req[s] /\ ((slow' = s) <=> (slow = s)) /\ (slow = s => ToSet(lru) \subseteq ToSet(lru'))
      BY <1>2, <2>2 DEF AcInv
    <3>2. Begun(req[s])' /\ ReadGood(req[s])'
      BY <3>1 DEF RequestGood, Begun, ReadGood, Answerable, UtcDay
    <3>3. ReliedOn(req[s], lru)'
      BY <3>1 DEF RequestGood, ReliedOn, Relied, Reading, UtcDay
    <3>4. QED
      BY <3>1, <3>2, <3>3 DEF RequestGood
  <2>3. QED
    BY <2>1, <2>2
<1>6. QED
  BY <1>3, <1>4, <1>5 DEF AcInv

\* The same with a request that holds nothing before and after.
LEMMA RestingRequest ==
  ASSUME AcInv, UNCHANGED <<clock, fold, snrStart, slow>>,
         NEW r \in Requests, req[r].pc \notin Reading,
         NEW q \in AcReqs, req' = [req EXCEPT ![r] = q], AtRest(q),
         IsCache(lru'), IsCache(seasonLru'), ToSet(lru) \subseteq ToSet(lru') \/ slow = "free",
         \A x \in ToSet(lru') \cup ToSet(seasonLru') : EntryGood(x.e)
  PROVE  AcInv'
<1>1. slow \in Requests \cup {"free"} /\ slow # r
  BY DEF AcInv, AcTypeOK, RequestGood
<1>2. Begun(q) /\ ReadGood(q) /\ ReliedOn(q, lru') /\ ~((slow' = r) \/ (q.pc \in Reading))
  BY <1>1 DEF AtRest, ReadGood, ReliedOn, Reading
<1>3. \A s \in Requests : s # r => ((slow' = s) <=> (slow = s)) /\ (slow = s => ToSet(lru) \subseteq ToSet(lru'))
  BY CacheConstants
<1>4. QED
  BY <1>1, <1>2, <1>3, OneRequest

\* What is known of a request and the caches.
LEMMA AcFacts ==
  ASSUME AcInv, NEW r \in Requests
  PROVE  /\ AcTypeOK /\ req[r] \in AcReqs /\ Begun(req[r]) /\ RequestGood(r)
         /\ req[r].key \in CacheKeys /\ req[r].t \in Nat /\ req[r].pc \in AcSteps
         /\ IsCache(lru) /\ IsCache(seasonLru)
         /\ \A x \in ToSet(lru) \cup ToSet(seasonLru) : EntryGood(x.e)
         /\ \A key : EntryGood(peek(lru, key)) /\ EntryGood(peek(seasonLru, key))
         /\ EntryGood(NoEntry)
<1>1. AcTypeOK /\ req[r] \in AcReqs /\ RequestGood(r)
  BY DEF AcInv, AcTypeOK
<1>2. req[r].key \in CacheKeys /\ req[r].t \in Nat /\ req[r].pc \in AcSteps
  BY <1>1 DEF AcReqs
<1>3. IsCache(lru) /\ IsCache(seasonLru)
  BY <1>1 DEF AcTypeOK
<1>4. \A x \in ToSet(lru) \cup ToSet(seasonLru) : EntryGood(x.e)
  BY DEF AcInv, CachesGood
<1>5. EntryGood(NoEntry)
  BY EmptyEntry DEF EntryGood
<1>6. \A key : EntryGood(peek(lru, key)) /\ EntryGood(peek(seasonLru, key))
  BY <1>3, <1>4, <1>5, Peeked
<1>7. QED
  BY <1>1, <1>2, <1>3, <1>4, <1>5, <1>6 DEF RequestGood

\* A request arrives.
LEMMA BeginKeeps ==
  ASSUME AcInv, NEW r \in Requests, NEW key \in CacheKeys, NEW season \in BOOLEAN, AcBegin(r, key, season)
  PROVE  AcInv'
<1> DEFINE q == [NoReq EXCEPT !.pc = IF season THEN "radius" ELSE "get", !.key = key, !.season = season,
                              !.t = clock, !.beganAt = fold.mem, !.afterPurge = snrStart.purged]
<1>1. /\ req' = [req EXCEPT ![r] = q] /\ req[r].pc = "idle"
      /\ UNCHANGED <<clock, fold, snrStart, slow, lru, seasonLru>>
  BY DEF AcBegin
<1>2. AcTypeOK /\ NoReq \in AcReqs
  BY AcFacts, NoReqRests
<1>3. /\ q \in AcReqs /\ q.pc \in {"radius", "get"} /\ q.beganAt = fold.mem
      /\ q.afterPurge = snrStart.purged
  BY <1>2 DEF AcReqs, AcSteps, AcTypeOK
<1> HIDE DEF q
<1>4. AtRest(q)
  BY <1>2, <1>3 DEF AtRest, Begun, Reading, AcTypeOK
<1>5. req[r].pc \notin Reading
  BY <1>1 DEF Reading
<1>6. IsCache(lru') /\ IsCache(seasonLru') /\ ToSet(lru) \subseteq ToSet(lru')
      /\ \A x \in ToSet(lru') \cup ToSet(seasonLru') : EntryGood(x.e)
  BY <1>1, AcFacts
<1>7. QED
  BY <1>1, <1>3, <1>4, <1>5, <1>6, RestingRequest

\* A look into the cache of get.
LEMMA LookKeeps ==
  ASSUME AcInv, NEW r \in Requests, typicalRadius(r) \/ GetFast(r)
  PROVE  AcInv'
<1> DEFINE q == req[r]
           e == peek(lru, q.key)
<1>1. UNCHANGED <<clock, fold, snrStart, slow, seasonLru>> /\ lru' = lruGet(lru, q.key, FALSE)
  BY DEF typicalRadius, GetFast, LookUp
<1>2. /\ AcTypeOK /\ q \in AcReqs /\ Begun(q) /\ q.key \in CacheKeys /\ IsCache(lru) /\ IsCache(seasonLru)
      /\ EntryGood(e) /\ \A x \in ToSet(lru) \cup ToSet(seasonLru) : EntryGood(x.e)
  BY AcFacts
<1>3. e \in AcEntries
  BY <1>2, Peeked
<1>4. q.pc \in {"radius", "get"}
  BY DEF typicalRadius, GetFast
<1>5. PICK p : req' = [req EXCEPT ![r] = p] /\ p \in AcReqs /\ AtRest(p)
  <2>1. \A t : typicalValid(e, t) => Answered(q, e) \in AcReqs /\ AtRest(Answered(q, e))
    BY <1>2, <1>3, Hit, AnsweredRests
  <2>2. Unavailable(q) \in AcReqs /\ AtRest(Unavailable(q))
    BY <1>2, NoReqRests DEF Unavailable
  <2>3. [q EXCEPT !.pc = "get", !.t = clock] \in AcReqs /\ AtRest([q EXCEPT !.pc = "get", !.t = clock])
    <3> DEFINE p == [q EXCEPT !.pc = "get", !.t = clock]
    <3>1. p \in AcReqs /\ p.pc = "get" /\ p.beganAt = q.beganAt /\ p.afterPurge = q.afterPurge
      BY <1>2 DEF AcReqs, AcSteps, AcTypeOK
    <3> HIDE DEF p
    <3>2. AtRest(p)
      BY <1>2, <3>1 DEF AtRest, Begun, Reading
    <3>3. QED
      BY <3>1, <3>2 DEF p
  <2>4. [q EXCEPT !.pc = "getSlow"] \in AcReqs /\ AtRest([q EXCEPT !.pc = "getSlow"])
    <3> DEFINE p == [q EXCEPT !.pc = "getSlow"]
    <3>1. p \in AcReqs /\ p.pc = "getSlow" /\ p.beganAt = q.beganAt /\ p.afterPurge = q.afterPurge
      BY <1>2 DEF AcReqs, AcSteps
    <3> HIDE DEF p
    <3>2. AtRest(p)
      BY <1>2, <3>1 DEF AtRest, Begun, Reading
    <3>3. QED
      BY <3>1, <3>2 DEF p
  <2>5. CASE typicalRadius(r)
    <3>1. req' = [req EXCEPT ![r] = IF typicalValid(e, q.t) THEN Answered(q, e) ELSE [q EXCEPT !.pc = "get", !.t = clock]]
      BY <2>5 DEF typicalRadius
    <3>2. QED
      BY <2>1, <2>3, <3>1
  <2>6. CASE GetFast(r)
    <3>1. req' = [req EXCEPT ![r] = IF fresh(e, q.t) THEN Answered(q, e)
                                    ELSE IF negative(e, q.t) THEN Unavailable(q)
                                    ELSE [q EXCEPT !.pc = "getSlow"]]
      BY <2>6 DEF GetFast
    <3>2. fresh(e, q.t) => typicalValid(e, q.t)
      BY DEF fresh
    <3>3. QED
      BY <2>1, <2>2, <2>4, <3>1, <3>2
  <2>7. QED
    BY <2>5, <2>6
<1>6. IsCache(lru') /\ ToSet(lru') = ToSet(lru) /\ IsCache(seasonLru')
  BY <1>1, <1>2, LookedUp
<1>7. \A x \in ToSet(lru') \cup ToSet(seasonLru') : EntryGood(x.e)
  BY <1>1, <1>2, <1>6
<1>8. req[r].pc \notin Reading
  BY <1>4 DEF Reading
<1> HIDE DEF q, e
<1>9. QED
  BY <1>1, <1>5, <1>6, <1>7, <1>8, RestingRequest

\* The second look, under the slow path: its holder relies on the entry it saw.
LEMMA SlowKeeps ==
  ASSUME AcInv, NEW r \in Requests, GetSlow(r)
  PROVE  AcInv'
<1> DEFINE q == req[r]
           e == peek(lru, q.key)
           t == q.t
<1>1. /\ UNCHANGED <<clock, fold, snrStart, seasonLru>> /\ lru' = lruGet(lru, q.key, TRUE)
      /\ slow = "free" /\ q.pc = "getSlow"
  BY DEF GetSlow
<1>2. /\ AcTypeOK /\ q \in AcReqs /\ Begun(q) /\ q.key \in CacheKeys /\ t \in Nat
      /\ IsCache(lru) /\ IsCache(seasonLru)
      /\ EntryGood(e) /\ \A x \in ToSet(lru) \cup ToSet(seasonLru) : EntryGood(x.e)
  BY AcFacts
<1>3. e \in AcEntries
  BY <1>2, Peeked
<1>4. /\ IsCache(lru') /\ [key |-> q.key, e |-> e] \in ToSet(lru')
      /\ ToSet(lru') \subseteq ToSet(lru) \cup {[key |-> q.key, e |-> NoEntry]}
  BY <1>1, <1>2, MadeRoom
<1>5. \A x \in ToSet(lru') \cup ToSet(seasonLru') : EntryGood(x.e)
  <2>1. EntryGood([key |-> q.key, e |-> NoEntry].e)
    BY AcFacts
  <2>2. QED
    BY <1>1, <1>2, <1>4, <2>1
<1>6. CASE fresh(e, t) \/ negative(e, t)
  <2>1. UNCHANGED slow /\ req' = [req EXCEPT ![r] = IF fresh(e, t) THEN Answered(q, e) ELSE Unavailable(q)]
    BY <1>6 DEF GetSlow
  <2>2. fresh(e, t) => Answered(q, e) \in AcReqs /\ AtRest(Answered(q, e))
    BY <1>2, <1>3, Hit, AnsweredRests DEF fresh
  <2>3. Unavailable(q) \in AcReqs /\ AtRest(Unavailable(q))
    BY <1>2, NoReqRests DEF Unavailable
  <2>4. PICK p : req' = [req EXCEPT ![r] = p] /\ p \in AcReqs /\ AtRest(p)
    BY <2>1, <2>2, <2>3
  <2>5. req[r].pc \notin Reading
    BY <1>1 DEF Reading
  <2>6. IsCache(seasonLru')
    BY <1>1, <1>2
  <2> HIDE DEF q, e, t
  <2>7. QED
    BY <1>1, <1>4, <1>5, <2>1, <2>4, <2>5, <2>6, RestingRequest
<1>7. CASE ~(fresh(e, t) \/ negative(e, t))
  <2> DEFINE p == [q EXCEPT !.pc = "getRead", !.typOK = typicalValid(e, t),
                            !.radius = IF typicalValid(e, t) THEN e.typical.radius ELSE -1]
  <2>1. slow' = r /\ req' = [req EXCEPT ![r] = p]
    BY <1>7 DEF GetSlow
  <2>2. typicalValid(e, t) => e.typical \in AcResults /\ e.typical.radius \in Nat
    BY <1>3, NotNone DEF typicalValid, AcEntries
  <2>3. typicalValid(e, t) \in BOOLEAN
    BY DEF typicalValid
  <2>4. /\ p \in AcReqs /\ p.pc = "getRead" /\ p.beganAt = q.beganAt /\ p.afterPurge = q.afterPurge
        /\ p.key = q.key /\ p.t = t /\ p.typOK = typicalValid(e, t)
        /\ p.radius = IF typicalValid(e, t) THEN e.typical.radius ELSE -1
    <3> DEFINE v == typicalValid(e, t)
               m == IF typicalValid(e, t) THEN e.typical.radius ELSE -1
    <3>1. v \in BOOLEAN /\ m \in Int
      BY <2>2, <2>3
    <3>2. p = [q EXCEPT !.pc = "getRead", !.typOK = v, !.radius = m]
      OBVIOUS
    <3> HIDE DEF v, m, p
    <3>3. /\ p \in AcReqs /\ p.pc = "getRead" /\ p.beganAt = q.beganAt /\ p.afterPurge = q.afterPurge
          /\ p.key = q.key /\ p.t = t
      BY <1>2, <3>1, <3>2 DEF AcReqs, AcSteps
    <3>4. p.radius = m
      BY <1>2, <3>2 DEF AcReqs
    <3>5. p.typOK = v
      BY <1>2, <3>1, <3>2 DEF AcReqs
    <3>6. QED
      BY <3>3, <3>4, <3>5 DEF v, m
  <2>5. typicalValid(e, t) => Answerable(e, q.beganAt, q.afterPurge) /\ e.typical.day = UtcDay(t)
    BY <1>2, <1>3, Hit DEF typicalValid
  <2> DEFINE x == [key |-> q.key, e |-> e]
  <2>6. x \in ToSet(lru') /\ x.key = q.key /\ x.e = e
    BY <1>4
  <2> HIDE DEF p, q, e, t, x
  <2>7. ReliedOn(p, lru')
    <3> SUFFICES ASSUME typicalValid(e, t) PROVE Relied(p, lru')
      BY <2>4 DEF ReliedOn
    <3>1. e.typical # None /\ e.typical.wm >= q.beganAt /\ e.typical.day = UtcDay(t)
      BY <2>5 DEF Answerable
    <3>2. p.radius = e.typical.radius
      BY <2>4
    <3>3. QED
      BY <2>4, <2>6, <3>1, <3>2 DEF Relied
  <2>8. Begun(p) /\ ReadGood(p) /\ p.pc \in Reading
    BY <1>2, <2>4 DEF Begun, ReadGood, Reading
  <2>9. slow' \in Requests \cup {"free"} /\ \A s \in Requests : s # r => ~(slow' = s) /\ ~(slow = s)
    BY <1>1, <2>1, CacheConstants
  <2>10. UNCHANGED <<clock, fold, snrStart>> /\ IsCache(lru') /\ IsCache(seasonLru')
    BY <1>1, <1>2, <1>4
  <2>11. QED
    BY <1>5, <2>1, <2>4, <2>7, <2>8, <2>9, <2>10, OneRequest
<1>8. QED
  BY <1>6, <1>7

\* Postgres answers for the request's day and radius, at the watermark of now.
LEMMA ReadKeeps ==
  ASSUME AcInv, NEW r \in Requests, NEW ok \in BOOLEAN, AcRead(r, ok)
  PROVE  AcInv'
<1> DEFINE q == req[r]
           rad == IF q.radius >= 0 THEN q.radius ELSE RadiusAt[fold.db]
           got == IF ok THEN [wm |-> fold.db, since |-> snrStart.day, day |-> UtcDay(q.t), radius |-> rad]
                  ELSE None
           pc == IF q.pc = "getRead" THEN "getStore" ELSE "seasonStore"
           p == [q EXCEPT !.pc = pc, !.got = got]
<1>1. q.pc \in {"getRead", "seasonRead"} /\ UNCHANGED <<clock, fold, snrStart, lru, seasonLru, slow>>
  BY DEF AcRead
<1>2. /\ AcTypeOK /\ q \in AcReqs /\ Begun(q) /\ RequestGood(r) /\ IsCache(lru) /\ IsCache(seasonLru)
      /\ \A x \in ToSet(lru) \cup ToSet(seasonLru) : EntryGood(x.e)
  BY AcFacts
<1>3. req \in [Requests -> AcReqs]
  BY <1>2 DEF AcTypeOK
<1>4. req' = [req EXCEPT ![r] = p]
  BY <1>3 DEF AcRead
<1>5. rad \in Nat /\ (q.radius >= 0 => rad = q.radius)
  BY <1>2, CacheConstants DEF AcTypeOK, AcReqs
<1>6. fold.db \in Nat /\ snrStart.day \in {0, 1} /\ UtcDay(q.t) \in Int /\ fold.mem \in Int
  BY <1>2, AcDay, CacheConstants DEF AcTypeOK, AcReqs
<1> HIDE DEF rad
<1>7. got \in AcResults \cup {None}
  BY <1>5, <1>6 DEF AcResults
<1>8. got # None => /\ got.wm = fold.db /\ got.since = snrStart.day
                    /\ got.day = UtcDay(q.t) /\ got.radius = rad
  OBVIOUS
<1>9. pc \in {"getStore", "seasonStore"} /\ (pc = "getStore" => q.pc = "getRead")
  OBVIOUS
<1> HIDE DEF got, pc
<1>10. /\ p \in AcReqs /\ p.pc = pc /\ p.got = got /\ p.beganAt = q.beganAt /\ p.afterPurge = q.afterPurge
       /\ p.key = q.key /\ p.t = q.t /\ p.typOK = q.typOK /\ p.radius = q.radius
  BY <1>2, <1>7, <1>9 DEF AcReqs, AcSteps
<1> HIDE DEF p
<1>11. fold.db >= q.beganAt
  <2>1. q.beganAt \in Int /\ q.beganAt <= fold.mem /\ fold.mem <= fold.db
    BY <1>2 DEF AcTypeOK, AcReqs, Begun
  <2>2. QED
    BY <1>6, <2>1
<1>12. ReadGood(p)
  <2>1. snrStart.purged => snrStart.day = 0
    BY <1>2 DEF AcTypeOK
  <2>2. QED
    BY <1>5, <1>8, <1>10, <1>11, <2>1 DEF ReadGood
<1>13. Begun(p)
  BY <1>2, <1>9, <1>10 DEF Begun
<1>14. ReliedOn(p, lru)
  BY <1>2, <1>9, <1>10 DEF RequestGood, ReliedOn, Relied
<1>15. slow = r /\ p.pc \in Reading /\ slow \in Requests \cup {"free"}
  BY <1>1, <1>2, <1>9, <1>10 DEF RequestGood, Reading
<1>16. QED
  BY <1>1, <1>2, <1>4, <1>10, <1>12, <1>13, <1>14, <1>15, OneRequest

\* What get stores is an answer: a read of today alone goes beside the typical
\* part it relied on.
LEMMA StoreKeeps ==
  ASSUME AcInv, NEW r \in Requests, GetStore(r)
  PROVE  AcInv'
<1> DEFINE q == req[r]
           m == lruGet(lru, q.key, TRUE)
           o == peek(m, q.key)
           e == Stored(o, q)
<1>1. /\ q.pc = "getStore" /\ lru' = Put(m, q.key, e) /\ slow' = "free"
      /\ req' = [req EXCEPT ![r] = IF q.got = None /\ ~q.typOK THEN Unavailable(q) ELSE Answered(q, e)]
      /\ UNCHANGED <<clock, fold, snrStart, seasonLru>>
  BY DEF GetStore
<1>2. /\ AcTypeOK /\ q \in AcReqs /\ Begun(q) /\ RequestGood(r) /\ q.key \in CacheKeys /\ q.t \in Nat
      /\ IsCache(lru) /\ IsCache(seasonLru) /\ EntryGood(peek(lru, q.key)) /\ EntryGood(NoEntry)
      /\ \A x \in ToSet(lru) \cup ToSet(seasonLru) : EntryGood(x.e)
  BY AcFacts
<1>3. /\ IsCache(m) /\ o = peek(lru, q.key)
      /\ ToSet(m) \subseteq ToSet(lru) \cup {[key |-> q.key, e |-> NoEntry]}
  BY <1>2, MadeRoom
<1>4. o \in AcEntries /\ EntryGood(o)
  BY <1>2, <1>3, Peeked
<1>5. \A x \in ToSet(m) : EntryGood(x.e)
  <2>1. EntryGood([key |-> q.key, e |-> NoEntry].e)
    BY <1>2
  <2>2. QED
    BY <1>2, <1>3, <2>1
<1>6. q.got \in AcResults \cup {None} /\ q.t \in Int /\ Never \in Int /\ q.typOK \in BOOLEAN /\ slow = r
  BY <1>1, <1>2 DEF AcReqs, Never, RequestGood, Reading
<1>7. q.got # None => /\ q.got.day = UtcDay(q.t) /\ q.got.wm >= q.beganAt
                      /\ (q.radius >= 0 => q.got.radius = q.radius)
                      /\ (snrStart.purged => q.got.since = 0)
  BY <1>1, <1>2 DEF RequestGood, ReadGood
<1>8. q.typOK => /\ o.typical # None /\ o.typical.day = UtcDay(q.t)
                 /\ o.typical.radius = q.radius /\ o.typical.wm >= q.beganAt
  <2> SUFFICES ASSUME q.typOK
               PROVE  /\ o.typical # None /\ o.typical.day = UtcDay(q.t)
                      /\ o.typical.radius = q.radius /\ o.typical.wm >= q.beganAt
    OBVIOUS
  <2>1. PICK x \in ToSet(lru) :
          /\ x.key = q.key /\ x.e.typical # None
          /\ x.e.typical.day = UtcDay(q.t) /\ x.e.typical.radius = q.radius
          /\ x.e.typical.wm >= q.beganAt
    BY <1>1, <1>2 DEF RequestGood, ReliedOn, Relied
  <2>2. peek(lru, q.key) = x.e
    <3> HIDE DEF q
    <3>1. QED
      BY <1>2, <2>1, Peeked
  <2>3. x.e = o
    BY <1>3, <2>2
  <2>4. QED
    BY <2>1, <2>3
<1>9. q.afterPurge => snrStart.purged
  BY <1>2 DEF Begun
<1> HIDE DEF q, m, o
<1>10. e \in AcEntries /\ EntryGood(e) /\ (~(q.got = None /\ ~q.typOK) => Answerable(e, q.beganAt, q.afterPurge))
  <2>1. CASE q.typOK /\ q.got = None
    <3>1. e = [o EXCEPT !.todayErrAt = q.t]
      BY <2>1 DEF Stored
    <3>2. e \in AcEntries /\ e.typical = o.typical /\ e.today = o.today
      BY <1>4, <1>6, <3>1 DEF AcEntries
    <3> HIDE DEF e
    <3>3. EntryGood(e) /\ Answerable(e, q.beganAt, q.afterPurge)
      BY <1>4, <1>8, <1>9, <2>1, <3>2 DEF EntryGood, Answerable
    <3>4. QED
      BY <3>2, <3>3
  <2>2. CASE q.typOK /\ q.got # None
    <3>1. e = [o EXCEPT !.today = q.got, !.todayAt = q.t]
      BY <2>2 DEF Stored
    <3>2. e \in AcEntries /\ e.typical = o.typical /\ e.today = q.got
      BY <1>4, <1>6, <3>1 DEF AcEntries
    <3> HIDE DEF e
    <3>3. o.typical \in AcResults /\ o.typical.radius \in Nat
      BY <1>4, <1>8, <2>2, NotNone DEF AcEntries
    <3>4. q.radius >= 0 /\ q.got.radius = q.radius
      BY <1>7, <1>8, <2>2, <3>3
    <3>5. EntryGood(e) /\ Answerable(e, q.beganAt, q.afterPurge)
      BY <1>4, <1>7, <1>8, <1>9, <2>2, <3>2, <3>4 DEF EntryGood, Answerable
    <3>6. QED
      BY <3>2, <3>5
  <2>3. CASE ~q.typOK /\ q.got = None
    <3>1. e = [o EXCEPT !.errAt = q.t]
      BY <2>3 DEF Stored
    <3>2. e \in AcEntries /\ e.typical = o.typical /\ e.today = o.today
      BY <1>4, <1>6, <3>1 DEF AcEntries
    <3> HIDE DEF e
    <3>3. EntryGood(e)
      BY <1>4, <3>2 DEF EntryGood
    <3>4. QED
      BY <2>3, <3>2, <3>3
  <2>4. CASE ~q.typOK /\ q.got # None
    <3>1. e = [typical |-> q.got, typicalAt |-> q.t, errAt |-> Never,
               today |-> q.got, todayAt |-> q.t, todayErrAt |-> Never]
      BY <2>4 DEF Stored
    <3>2. e \in AcEntries /\ e.typical = q.got /\ e.today = q.got
      BY <1>6, <3>1 DEF AcEntries
    <3> HIDE DEF e
    <3>3. EntryGood(e) /\ Answerable(e, q.beganAt, q.afterPurge)
      BY <1>7, <1>9, <2>4, <3>2 DEF EntryGood, Answerable
    <3>4. QED
      BY <3>2, <3>3
  <2>5. QED
    BY <1>6, <2>1, <2>2, <2>3, <2>4
<1> HIDE DEF e
<1>11. IsCache(lru') /\ ToSet(lru') \subseteq ToSet(m) \cup {[key |-> q.key, e |-> e]}
  BY <1>1, <1>2, <1>3, <1>10, PutIn
<1>12. \A x \in ToSet(lru') \cup ToSet(seasonLru') : EntryGood(x.e)
  <2>1. EntryGood([key |-> q.key, e |-> e].e)
    BY <1>10
  <2>2. QED
    BY <1>1, <1>2, <1>5, <1>11, <2>1
<1>13. PICK p : req' = [req EXCEPT ![r] = p] /\ p \in AcReqs /\ AtRest(p)
  <2>1. Unavailable(q) \in AcReqs /\ AtRest(Unavailable(q))
    BY <1>2, NoReqRests DEF Unavailable
  <2>2. ~(q.got = None /\ ~q.typOK) => Answered(q, e) \in AcReqs /\ AtRest(Answered(q, e))
    BY <1>2, <1>10, AnsweredRests
  <2>3. QED
    BY <1>1, <2>1, <2>2
<1>14. Begun(p) /\ ReadGood(p) /\ ReliedOn(p, lru') /\ p.pc \notin Reading
  BY <1>13 DEF AtRest, ReadGood, ReliedOn, Reading
<1>15. /\ slow' \in Requests \cup {"free"} /\ slow' # r
       /\ \A s \in Requests : s # r => ~(slow' = s) /\ ~(slow = s)
  BY <1>1, <1>6, CacheConstants
<1>16. IsCache(seasonLru') /\ UNCHANGED <<clock, fold, snrStart>>
  BY <1>1, <1>2
<1>17. QED
  BY <1>11, <1>12, <1>13, <1>14, <1>15, <1>16, OneRequest

\* A look into the season cache, and what becomes of the request.
LEMMA SeasonLook ==
  ASSUME AcInv, NEW r \in Requests, req[r].pc \in {"season", "seasonSlow"}
  PROVE  LET q == req[r]
             d == SeasonChecked(q, peek(seasonLru, q.key))
             l == lruGet(seasonLru, q.key, TRUE)
         IN /\ d \in AcReqs /\ Begun(d)
            /\ d.pc \in {"done", "idle", IF q.pc = "season" THEN "seasonSlow" ELSE "seasonRead"}
            /\ IsCache(l) /\ \A x \in ToSet(l) : EntryGood(x.e)
<1> DEFINE q == req[r]
           e == peek(seasonLru, q.key)
           d == SeasonChecked(q, e)
           l == lruGet(seasonLru, q.key, TRUE)
<1>1. /\ AcTypeOK /\ q \in AcReqs /\ Begun(q) /\ q.key \in CacheKeys /\ IsCache(seasonLru)
      /\ EntryGood(e) /\ EntryGood(NoEntry) /\ \A x \in ToSet(seasonLru) : EntryGood(x.e)
  BY AcFacts
<1>2. e \in AcEntries
  BY <1>1, Peeked
<1>3. IsCache(l) /\ ToSet(l) \subseteq ToSet(seasonLru) \cup {[key |-> q.key, e |-> NoEntry]}
  BY <1>1, MadeRoom
<1>4. \A x \in ToSet(l) : EntryGood(x.e)
  <2>1. EntryGood([key |-> q.key, e |-> NoEntry].e)
    BY <1>1
  <2>2. QED
    BY <1>1, <1>3, <2>1
<1>5. CASE seasonValid(e, q.t, q.radius)
  <2>1. Answerable(e, q.beganAt, q.afterPurge)
    BY <1>1, <1>2, <1>5, Hit DEF seasonValid
  <2>2. d = Done(q, e)
    BY <1>5 DEF SeasonChecked
  <2>3. Done(q, e).pc = "done"
    BY NoReqRests, <1>1 DEF Done, AcReqs
  <2>4. QED
    BY <1>1, <1>2, <1>3, <1>4, <2>1, <2>2, <2>3, DoneRests DEF AtRest
<1>6. CASE ~seasonValid(e, q.t, q.radius) /\ q.t - e.errAt < NegTTL
  <2>1. d = NoReq /\ NoReq.pc = "idle"
    BY <1>6 DEF SeasonChecked, Unavailable, NoReq
  <2>2. QED
    BY <1>1, <1>3, <1>4, <2>1, NoReqRests DEF AtRest
<1>7. CASE ~seasonValid(e, q.t, q.radius) /\ ~(q.t - e.errAt < NegTTL)
  <2> DEFINE pc == IF q.pc = "season" THEN "seasonSlow" ELSE "seasonRead"
  <2>1. d = [q EXCEPT !.pc = pc]
    BY <1>7 DEF SeasonChecked
  <2>2. pc \in AcSteps /\ pc # "done"
    BY DEF AcSteps
  <2>3. pc = IF q.pc = "season" THEN "seasonSlow" ELSE "seasonRead"
    OBVIOUS
  <2> HIDE DEF pc, d
  <2>4. d \in AcReqs /\ d.pc = pc /\ d.beganAt = q.beganAt /\ d.afterPurge = q.afterPurge
    BY <1>1, <2>1, <2>2 DEF AcReqs
  <2>5. Begun(d)
    BY <1>1, <2>2, <2>4 DEF Begun
  <2>6. QED
    BY <1>3, <1>4, <2>2, <2>3, <2>4, <2>5 DEF d
<1>8. QED
  BY <1>5, <1>6, <1>7

\* The first look into the season cache.
LEMMA SeasonFastKeeps ==
  ASSUME AcInv, NEW r \in Requests, SeasonFast(r)
  PROVE  AcInv'
<1> DEFINE q == req[r]
           d == SeasonChecked(q, peek(seasonLru, q.key))
<1>1. /\ q.pc = "season" /\ seasonLru' = lruGet(seasonLru, q.key, TRUE)
      /\ UNCHANGED <<clock, fold, snrStart, lru, slow>>
  BY DEF SeasonFast
<1>2. req \in [Requests -> AcReqs]
  BY DEF AcInv, AcTypeOK
<1>3. req' = [req EXCEPT ![r] = d]
  BY <1>2 DEF SeasonFast
<1>4. /\ d \in AcReqs /\ Begun(d) /\ d.pc \in {"done", "idle", "seasonSlow"}
      /\ IsCache(seasonLru') /\ \A x \in ToSet(seasonLru') : EntryGood(x.e)
  BY <1>1, SeasonLook
<1>5. IsCache(lru') /\ \A x \in ToSet(lru') : EntryGood(x.e)
  BY <1>1, AcFacts
<1>6. AtRest(d) /\ req[r].pc \notin Reading
  BY <1>1, <1>4 DEF AtRest, Reading
<1> HIDE DEF d
<1>7. QED
  BY <1>1, <1>3, <1>4, <1>5, <1>6, RestingRequest

\* The second, under the slow path.
LEMMA SeasonSlowKeeps ==
  ASSUME AcInv, NEW r \in Requests, SeasonSlow(r)
  PROVE  AcInv'
<1> DEFINE q == req[r]
           d == SeasonChecked(q, peek(seasonLru, q.key))
<1>1. /\ q.pc = "seasonSlow" /\ slow = "free" /\ seasonLru' = lruGet(seasonLru, q.key, TRUE)
      /\ req' = [req EXCEPT ![r] = d] /\ slow' = IF d.pc = "seasonRead" THEN r ELSE "free"
      /\ UNCHANGED <<clock, fold, snrStart, lru>>
  BY DEF SeasonSlow
<1>2. /\ d \in AcReqs /\ Begun(d) /\ d.pc \in {"done", "idle", "seasonRead"}
      /\ IsCache(seasonLru') /\ \A x \in ToSet(seasonLru') : EntryGood(x.e)
  BY <1>1, SeasonLook
<1>3. IsCache(lru') /\ \A x \in ToSet(lru') : EntryGood(x.e)
  BY <1>1, AcFacts
<1> HIDE DEF d
<1>4. ReadGood(d) /\ ReliedOn(d, lru')
  BY <1>2 DEF ReadGood, ReliedOn
<1>5. /\ slow' \in Requests \cup {"free"} /\ ((slow' = r) <=> (d.pc \in Reading))
      /\ \A s \in Requests : s # r => ~(slow' = s) /\ ~(slow = s)
  BY <1>1, <1>2, CacheConstants DEF Reading
<1>6. QED
  BY <1>1, <1>2, <1>3, <1>4, <1>5, OneRequest

\* What getSeason stores is an answer.
LEMMA SeasonStoreKeeps ==
  ASSUME AcInv, NEW r \in Requests, SeasonStore(r)
  PROVE  AcInv'
<1> DEFINE q == req[r]
           m == lruGet(seasonLru, q.key, TRUE)
           o == peek(seasonLru, q.key)
           e == IF q.got = None THEN [o EXCEPT !.errAt = q.t]
                ELSE [NoEntry EXCEPT !.typical = q.got, !.typicalAt = q.t, !.today = q.got, !.todayAt = q.t]
<1>1. /\ q.pc = "seasonStore" /\ seasonLru' = Put(m, q.key, e) /\ slow' = "free"
      /\ req' = [req EXCEPT ![r] = IF q.got = None THEN Unavailable(q) ELSE Done(q, e)]
      /\ UNCHANGED <<clock, fold, snrStart, lru>>
  BY DEF SeasonStore
<1>2. /\ AcTypeOK /\ q \in AcReqs /\ Begun(q) /\ RequestGood(r) /\ q.key \in CacheKeys /\ q.t \in Nat
      /\ IsCache(lru) /\ IsCache(seasonLru) /\ EntryGood(o) /\ EntryGood(NoEntry)
      /\ \A x \in ToSet(lru) \cup ToSet(seasonLru) : EntryGood(x.e)
  BY AcFacts
<1>3. IsCache(m) /\ ToSet(m) \subseteq ToSet(seasonLru) \cup {[key |-> q.key, e |-> NoEntry]}
  BY <1>2, MadeRoom
<1>4. o \in AcEntries /\ NoEntry \in AcEntries
  BY <1>2, Peeked, EmptyEntry
<1>5. \A x \in ToSet(m) : EntryGood(x.e)
  <2>1. EntryGood([key |-> q.key, e |-> NoEntry].e)
    BY <1>2
  <2>2. QED
    BY <1>2, <1>3, <2>1
<1>6. q.got \in AcResults \cup {None} /\ q.t \in Int /\ slow = r
  BY <1>1, <1>2 DEF AcReqs, RequestGood, Reading
<1>7. q.got # None => q.got.wm >= q.beganAt /\ (snrStart.purged => q.got.since = 0)
  BY <1>1, <1>2 DEF RequestGood, ReadGood
<1>8. q.afterPurge => snrStart.purged
  BY <1>2 DEF Begun
<1> HIDE DEF q, m, o
<1>9. e \in AcEntries /\ EntryGood(e) /\ (q.got # None => Answerable(e, q.beganAt, q.afterPurge))
  <2>1. CASE q.got = None
    <3>1. e = [o EXCEPT !.errAt = q.t]
      BY <2>1
    <3>2. e \in AcEntries /\ e.typical = o.typical /\ e.today = o.today
      BY <1>4, <1>6, <3>1 DEF AcEntries
    <3> HIDE DEF e
    <3>3. EntryGood(e)
      BY <1>2, <3>2 DEF EntryGood
    <3>4. QED
      BY <2>1, <3>2, <3>3
  <2>2. CASE q.got # None
    <3>1. e = [NoEntry EXCEPT !.typical = q.got, !.typicalAt = q.t, !.today = q.got, !.todayAt = q.t]
      BY <2>2
    <3>2. e \in AcEntries /\ e.typical = q.got /\ e.today = q.got
      BY <1>4, <1>6, <3>1 DEF AcEntries
    <3> HIDE DEF e
    <3>3. EntryGood(e) /\ Answerable(e, q.beganAt, q.afterPurge)
      BY <1>7, <1>8, <2>2, <3>2 DEF EntryGood, Answerable
    <3>4. QED
      BY <3>2, <3>3
  <2>3. QED
    BY <2>1, <2>2
<1> HIDE DEF e
<1>10. IsCache(seasonLru') /\ ToSet(seasonLru') \subseteq ToSet(m) \cup {[key |-> q.key, e |-> e]}
  BY <1>1, <1>2, <1>3, <1>9, PutIn
<1>11. \A x \in ToSet(lru') \cup ToSet(seasonLru') : EntryGood(x.e)
  <2>1. EntryGood([key |-> q.key, e |-> e].e)
    BY <1>9
  <2>2. QED
    BY <1>1, <1>2, <1>5, <1>10, <2>1
<1>12. PICK p : req' = [req EXCEPT ![r] = p] /\ p \in AcReqs /\ AtRest(p)
  <2>1. Unavailable(q) \in AcReqs /\ AtRest(Unavailable(q))
    BY <1>2, NoReqRests DEF Unavailable
  <2>2. q.got # None => Done(q, e) \in AcReqs /\ AtRest(Done(q, e))
    BY <1>2, <1>9, DoneRests
  <2>3. QED
    BY <1>1, <2>1, <2>2
<1>13. Begun(p) /\ ReadGood(p) /\ ReliedOn(p, lru') /\ p.pc \notin Reading
  BY <1>12 DEF AtRest, ReadGood, ReliedOn, Reading
<1>14. /\ slow' \in Requests \cup {"free"} /\ slow' # r
       /\ \A s \in Requests : s # r => ~(slow' = s) /\ ~(slow = s)
  BY <1>1, <1>6, CacheConstants
<1>15. IsCache(lru') /\ UNCHANGED <<clock, fold, snrStart>>
  BY <1>1, <1>2
<1>16. QED
  BY <1>10, <1>11, <1>12, <1>13, <1>14, <1>15, OneRequest

\* The answer is written.
LEMMA ReplyKeeps ==
  ASSUME AcInv, NEW r \in Requests, AcReply(r)
  PROVE  AcInv'
<1>1. /\ req[r].pc = "done" /\ req' = [req EXCEPT ![r] = NoReq]
      /\ UNCHANGED <<clock, fold, snrStart, lru, seasonLru, slow>>
  BY DEF AcReply
<1>2. /\ IsCache(lru') /\ IsCache(seasonLru') /\ ToSet(lru) \subseteq ToSet(lru')
      /\ \A x \in ToSet(lru') \cup ToSet(seasonLru') : EntryGood(x.e)
  BY <1>1, AcFacts
<1>3. NoReq \in AcReqs /\ AtRest(NoReq)
  BY AcFacts, NoReqRests
<1>4. req[r].pc \notin Reading
  BY <1>1 DEF Reading
<1>5. QED
  BY <1>1, <1>2, <1>3, <1>4, RestingRequest

\* The clock, a fold, its publication and an earlier SNR start: requests only
\* ask that the known watermark does not go back.
LEMMA AroundKeeps ==
  ASSUME AcInv, UNCHANGED <<lru, seasonLru, slow, req>>,
         AcTick \/ AcFold \/ AcPublish \/ AcSnrFinalize \/ UNCHANGED acVars
  PROVE  AcInv'
<1>1. AcTypeOK
  BY DEF AcInv
<1>2. fold.mem \in Int /\ fold.db \in Nat /\ fold.db \in DOMAIN RadiusAt
  BY <1>1, CacheConstants DEF AcTypeOK
<1>3. /\ snrStart'.purged = snrStart.purged /\ fold.mem <= fold'.mem /\ fold'.mem <= fold'.db
      /\ fold' \in [db : DOMAIN RadiusAt, mem : Int] /\ -1 <= fold'.mem
      /\ snrStart' \in [day : {0, 1}, purged : BOOLEAN] /\ (snrStart'.purged => snrStart'.day = 0)
      /\ clock' \in Nat
  <2>1. CASE AcTick
    BY <1>1, <1>2, <2>1 DEF AcTick, AcTypeOK
  <2>2. CASE AcFold
    <3>1. fold' = [fold EXCEPT !.db = fold.db + 1] /\ fold.db + 1 \in DOMAIN RadiusAt /\ UNCHANGED <<clock, snrStart>>
      BY <2>2 DEF AcFold
    <3>2. fold'.db = fold.db + 1 /\ fold'.mem = fold.mem /\ fold' \in [db : DOMAIN RadiusAt, mem : Int]
      BY <1>1, <3>1 DEF AcTypeOK
    <3>3. fold.mem <= fold.db + 1
      BY <1>1, <1>2 DEF AcTypeOK
    <3>4. QED
      BY <1>1, <1>2, <3>1, <3>2, <3>3 DEF AcTypeOK
  <2>3. CASE AcPublish
    <3>1. fold' = [fold EXCEPT !.mem = fold.db] /\ UNCHANGED <<clock, snrStart>>
      BY <2>3 DEF AcPublish
    <3>2. fold'.db = fold.db /\ fold'.mem = fold.db /\ fold' \in [db : DOMAIN RadiusAt, mem : Int]
      BY <1>1, <1>2, <3>1 DEF AcTypeOK
    <3>3. QED
      BY <1>1, <1>2, <3>1, <3>2 DEF AcTypeOK
  <2>4. CASE AcSnrFinalize
    <3>1. snrStart' = [snrStart EXCEPT !.day = 0] /\ UNCHANGED <<clock, fold>>
      BY <2>4 DEF AcSnrFinalize
    <3>2. snrStart'.day = 0 /\ snrStart'.purged = snrStart.purged /\ snrStart' \in [day : {0, 1}, purged : BOOLEAN]
      BY <1>1, <3>1 DEF AcTypeOK
    <3>3. QED
      BY <1>1, <1>2, <3>1, <3>2 DEF AcTypeOK
  <2>5. CASE UNCHANGED acVars
    BY <1>1, <1>2, <2>5 DEF acVars, AcTypeOK
  <2>6. QED
    BY <2>1, <2>2, <2>3, <2>4, <2>5
<1>4. AcTypeOK'
  BY <1>1, <1>3 DEF AcTypeOK, IsCache, OnePlace
<1>5. CachesGood'
  BY <1>3 DEF AcInv, CachesGood, EntryGood
<1>6. ASSUME NEW r \in Requests
      PROVE  RequestGood(r)'
  <2>1. RequestGood(r) /\ req[r] \in AcReqs
    BY <1>1 DEF AcInv, AcTypeOK
  <2>2. req[r].beganAt <= fold'.mem
    <3>1. req[r].beganAt \in Int /\ req[r].beganAt <= fold.mem /\ fold'.mem \in Int
      BY <1>3, <2>1 DEF RequestGood, Begun, AcReqs
    <3>2. QED
      BY <1>2, <1>3, <3>1
  <2>3. Begun(req[r])'
    BY <1>3, <2>1, <2>2 DEF RequestGood, Begun, Answerable
  <2>4. ReadGood(req[r])' /\ ReliedOn(req[r], lru)'
    BY <1>3, <2>1 DEF RequestGood, ReadGood, ReliedOn, Relied, UtcDay
  <2>5. QED
    BY <2>1, <2>3, <2>4 DEF RequestGood
<1>7. QED
  BY <1>4, <1>5, <1>6 DEF AcInv

\* The purge finds no read under way and leaves nothing from before.
LEMMA PurgeKeeps ==
  ASSUME AcInv, purgeCaches
  PROVE  AcInv'
<1>1. /\ slow = "free" /\ lru' = <<>> /\ seasonLru' = <<>> /\ snrStart.day = 0
      /\ snrStart' = [snrStart EXCEPT !.purged = TRUE] /\ UNCHANGED <<clock, fold, slow, req>>
  BY DEF purgeCaches, PurgeMayRun
<1>2. AcTypeOK /\ DOMAIN lru' = {} /\ DOMAIN seasonLru' = {} /\ lru' \in Seq(AcSlots) /\ seasonLru' \in Seq(AcSlots)
  BY <1>1 DEF AcInv
<1>3. /\ snrStart'.purged = TRUE /\ snrStart'.day = 0 /\ snrStart' \in [day : {0, 1}, purged : BOOLEAN]
  BY <1>1, <1>2 DEF AcTypeOK
<1>4. IsCache(lru)' /\ IsCache(seasonLru)'
  BY <1>2 DEF IsCache, OnePlace
<1>5. AcTypeOK'
  BY <1>1, <1>2, <1>3, <1>4 DEF AcTypeOK
<1>6. CachesGood'
  <2>1. ToSet(lru') = {} /\ ToSet(seasonLru') = {}
    BY <1>2 DEF ToSet
  <2>2. QED
    BY <2>1 DEF CachesGood
<1>7. ASSUME NEW r \in Requests
      PROVE  RequestGood(r)'
  <2>1. RequestGood(r) /\ slow # r
    BY <1>1, CacheConstants DEF AcInv
  <2>2. req[r].pc \notin Reading
    BY <2>1 DEF RequestGood
  <2>3. QED
    BY <1>1, <1>3, <2>1, <2>2 DEF RequestGood, Begun, Answerable, ReadGood, ReliedOn, Reading
<1>8. QED
  BY <1>5, <1>6, <1>7 DEF AcInv

\* At the start the landing view may be cached, of the first watermark.
LEMMA AcInvInit == AcInit => AcInv
<1> SUFFICES ASSUME AcInit PROVE AcInv
  OBVIOUS
<1> DEFINE got == [wm |-> 0, since |-> 1, day |-> 0, radius |-> RadiusAt[0]]
<1>1. /\ clock = AcStart /\ fold \in [db : {0}, mem : {-1, 0}] /\ snrStart = [day |-> 1, purged |-> FALSE]
      /\ lru \in {<<>>, <<[key |-> LandingKey, e |-> Warm]>>} /\ seasonLru = <<>> /\ slow = "free"
      /\ req = [r \in Requests |-> NoReq]
  BY DEF AcInit
<1>2. got \in AcResults /\ got # None
  BY CacheConstants, NotNone DEF AcResults
<1>3. Warm = [NoEntry EXCEPT !.typical = got, !.typicalAt = 0, !.today = got, !.todayAt = 0]
  BY DEF Warm
<1> HIDE DEF got
<1>4. Warm \in AcEntries /\ Warm.typical = got /\ Warm.today = got
  <2>1. Never \in Int
    BY DEF Never
  <2>2. Warm = [typical |-> got, typicalAt |-> 0, errAt |-> Never,
                today |-> got, todayAt |-> 0, todayErrAt |-> Never]
    BY <1>3 DEF NoEntry
  <2>3. QED
    BY <1>2, <2>1, <2>2 DEF AcEntries
<1>5. EntryGood(Warm)
  BY <1>1, <1>2, <1>4 DEF EntryGood
<1> DEFINE x == [key |-> LandingKey, e |-> Warm]
<1>6. x \in AcSlots /\ x.e = Warm
  BY <1>4, CacheConstants, SlotOf
<1> HIDE DEF x
<1>7. IsCache(<<>>) /\ ToSet(<<>>) = {}
  BY DEF IsCache, OnePlace, ToSet
<1>8. IsCache(<<x>>) /\ ToSet(<<x>>) = {x}
  BY <1>6 DEF IsCache, OnePlace, ToSet
<1>9. IsCache(lru) /\ IsCache(seasonLru) /\ CachesGood
  BY <1>1, <1>5, <1>6, <1>7, <1>8 DEF CachesGood, x
<1>10. NoReq \in AcReqs /\ NoReq.pc = "idle" /\ NoReq.beganAt = -1 /\ NoReq.afterPurge = FALSE
  BY EmptyEntry, CacheConstants DEF NoReq, AcReqs, AcSteps
<1>11. AcTypeOK
  BY <1>1, <1>9, <1>10, CacheConstants DEF AcTypeOK
<1>12. \A r \in Requests : RequestGood(r)
  BY <1>1, <1>10, CacheConstants DEF RequestGood, Begun, ReadGood, ReliedOn, Reading
<1>13. QED
  BY <1>9, <1>11, <1>12 DEF AcInv

\* Each step keeps the invariant.
LEMMA AcStep == AcInv /\ [AcNext]_acVars => AcInv'
<1> SUFFICES ASSUME AcInv, [AcNext]_acVars PROVE AcInv'
  OBVIOUS
<1>1. ASSUME NEW r \in Requests, NEW key \in CacheKeys, NEW season \in BOOLEAN, AcBegin(r, key, season)
      PROVE  AcInv'
  BY <1>1, BeginKeeps
<1>2. ASSUME NEW r \in Requests, typicalRadius(r) \/ GetFast(r) PROVE AcInv'
  BY <1>2, LookKeeps
<1>3. ASSUME NEW r \in Requests, GetSlow(r) PROVE AcInv'
  BY <1>3, SlowKeeps
<1>4. ASSUME NEW r \in Requests, NEW ok \in BOOLEAN, AcRead(r, ok) PROVE AcInv'
  BY <1>4, ReadKeeps
<1>5. ASSUME NEW r \in Requests, GetStore(r) PROVE AcInv'
  BY <1>5, StoreKeeps
<1>6. ASSUME NEW r \in Requests, SeasonFast(r) PROVE AcInv'
  BY <1>6, SeasonFastKeeps
<1>7. ASSUME NEW r \in Requests, SeasonSlow(r) PROVE AcInv'
  BY <1>7, SeasonSlowKeeps
<1>8. ASSUME NEW r \in Requests, SeasonStore(r) PROVE AcInv'
  BY <1>8, SeasonStoreKeeps
<1>9. ASSUME NEW r \in Requests, AcReply(r) PROVE AcInv'
  BY <1>9, ReplyKeeps
<1>10. CASE purgeCaches
  BY <1>10, PurgeKeeps
<1>11. CASE AcTick \/ AcFold \/ AcPublish \/ AcSnrFinalize \/ UNCHANGED acVars
  <2>1. UNCHANGED <<lru, seasonLru, slow, req>>
    BY <1>11 DEF AcTick, AcFold, AcPublish, AcSnrFinalize, acVars
  <2>2. QED
    BY <1>11, <2>1, AroundKeeps
<1>12. QED
  BY <1>1, <1>2, <1>3, <1>4, <1>5, <1>6, <1>7, <1>8, <1>9, <1>10, <1>11 DEF AcNext

\* The invariant says what the three properties say.
LEMMA AcInvImplies == AcInv => AlmanacAnswerComplete /\ AlmanacAnswerCurrent /\ AlmanacPurged
<1> SUFFICES ASSUME AcInv, NEW r \in Requests, req[r].pc = "done"
             PROVE  Answerable(req[r].answer, req[r].beganAt, req[r].afterPurge)
  BY DEF AlmanacAnswerComplete, AlmanacAnswerCurrent, AlmanacPurged, Answers, Answerable
<1>1. QED
  BY DEF AcInv, RequestGood, Begun

\* The invariant holds throughout.
LEMMA AcInductive == AcSpec => []AcInv
<1>1. QED
  BY AcInvInit, AcStep, PTL DEF AcSpec

(* buildAlmanacResponse never dereferences a missing part: an answer of      *)
(* /api/almanac has a typical part and a today part of one day and one       *)
(* radius, for every number of requests, keys, cap, time to live and length  *)
(* of the day, however evictions, purges and watermarks interleave.          *)
THEOREM AnswersComplete == AcSpec => []AlmanacAnswerComplete
<1>1. QED
  BY AcInductive, AcInvImplies, PTL

(* No answer is from before the watermark known when its request arrived.    *)
THEOREM AnswersCurrent == AcSpec => []AlmanacAnswerCurrent
<1>1. QED
  BY AcInductive, AcInvImplies, PTL

(* A request that arrives after purgeCaches never sees the old SNR start.    *)
THEOREM PurgeComplete == AcSpec => []AlmanacPurged
<1>1. QED
  BY AcInductive, AcInvImplies, PTL

\* A non-empty set of natural numbers has a smallest element.
LEMMA LeastOf ==
  ASSUME NEW T, T \subseteq Nat, T # {}
  PROVE  \E x \in T : \A y \in T : x <= y
<1> DEFINE R == {p \in Nat \X Nat : p[1] < p[2]}
<1>1. R = OpToRel(<, Nat)
  BY DEF OpToRel
<1>2. IsWellFoundedOn(R, Nat)
  BY <1>1, NatLessThanWellFounded
<1> HIDE DEF R
<1>3. PICK x \in T : \A y \in T : ~(<<y, x>> \in R)
  BY <1>2, WFMin
<1>4. \A y \in T : <<y, x>> \in Nat \X Nat /\ ~(y < x)
  BY <1>3 DEF R
<1>5. \A p, q \in Nat : ~(q < p) => p <= q
  OBVIOUS
<1>6. x \in Nat /\ \A y \in T : y \in Nat
  BY <1>3
<1>7. \A y \in T : x <= y
  BY <1>4, <1>5, <1>6
<1>8. QED
  BY <1>3, <1>7

(***************************************************************************)
(* The lanes.                                                              *)
(***************************************************************************)
\* The inputs of the lanes, and their result.
LaneIns == {WithSpan(x) : x \in LaneInputs}
LaneInv ==
    /\ lane.in \in LaneIns \/ lane.in = <<>>
    /\ LaneDone => /\ lane.in \in LaneIns
                   /\ lane.out = LET typ == computeAlmanacTypical(lane.in)
                                 IN <<typ, computeSeason(lane.in, typ.radius)>>

\* A sum over a set of at most one element: the rows of one day and slot.
LEMMA CountOfFew ==
  ASSUME NEW S, NEW x, S \subseteq {x}, x.v.n \in Nat
  PROVE  MapThenSumSet(LAMBDA r : r.v.n, S) = IF S = {} THEN 0 ELSE x.v.n
<1> DEFINE Body(g) == [s \in SUBSET S |-> IF s = {} THEN 0
                                          ELSE LET y == CHOOSE y \in s : TRUE IN y.v.n + g[s \ {y}]]
           g == [s \in SUBSET S |-> IF s = {} THEN 0 ELSE x.v.n]
           h == CHOOSE h : h = Body(h)
<1>1. \A s \in SUBSET S : s # {} => s = {x} /\ (CHOOSE y \in s : TRUE) = x /\ s \ {x} = {} /\ {} \in SUBSET S
  OBVIOUS
<1>2. x.v.n + 0 = x.v.n
  OBVIOUS
<1>3. g = Body(g)
  BY <1>1, <1>2
<1>4. h = Body(h)
  BY <1>3
<1>5. MapThenSumSet(LAMBDA r : r.v.n, S) = h[S]
  BY DEF MapThenSumSet, MapThenFoldSet
<1> HIDE DEF h
<1>6. \A s \in SUBSET S : h[s] = Body(h)[s]
  BY <1>4
<1>7. \A s \in SUBSET S : h[s] = IF s = {} THEN 0 ELSE LET y == CHOOSE y \in s : TRUE IN y.v.n + h[s \ {y}]
  BY <1>6
<1>8. h[{}] = 0
  BY <1>7
<1>9. S # {} => h[S] = x.v.n
  BY <1>1, <1>2, <1>7, <1>8
<1>10. QED
  BY <1>5, <1>8, <1>9

\* And so is the sum of the spots at or above the floor, when there is no row.
LEMMA GeOfNone == MapThenSumSet(LAMBDA r : r.v.ge, {}) = 0
<1> DEFINE Body(g) == [s \in SUBSET {} |-> IF s = {} THEN 0
                                           ELSE LET y == CHOOSE y \in s : TRUE IN y.v.ge + g[s \ {y}]]
           g == [s \in SUBSET {} |-> 0]
           h == CHOOSE h : h = Body(h)
<1>1. g = Body(g)
  OBVIOUS
<1>2. h = Body(h)
  BY <1>1
<1>3. MapThenSumSet(LAMBDA r : r.v.ge, {}) = h[{}]
  BY DEF MapThenSumSet, MapThenFoldSet
<1> HIDE DEF h
<1>4. h[{}] = Body(h)[{}]
  BY <1>2
<1>5. QED
  BY <1>3, <1>4

\* The types of an input.
LEMMA LaneTypes ==
  ASSUME NEW in \in LaneIns
  PROVE  /\ in.wm \in Int /\ in.since \in Int
         /\ \A c \in Cells : in.cells[c] \in CellValues
<1>1. PICK x \in LaneInputs : in = WithSpan(x)
  BY DEF LaneIns
<1>2. x.cells \in [Cells -> CellValues] /\ x.span \in LaneSpans
  BY DEF LaneInputs
<1>3. in.cells = x.cells /\ in.wm = x.span[1] /\ in.since = x.span[2]
  BY <1>1 DEF WithSpan
<1>4. QED
  BY <1>2, <1>3, LaneConstants

\* A day of the window is read from the record or from the daily table, never
\* from both: what a cell counts is what was heard in it.
LEMMA OneRow ==
  ASSUME NEW in \in LaneIns, NEW radius, NEW d \in WinDay, NEW s \in Slot
  PROVE  LET v == in.cells[<<d, s>>]
             x == [src |-> IF d <= in.wm THEN "season" ELSE "tail", day |-> d, slot |-> s, v |-> v]
         IN  RowsAt(in, radius, d, s) = IF v # NoCell /\ v.lv <= radius THEN {x} ELSE {}
<1> DEFINE v == in.cells[<<d, s>>]
           x == [src |-> IF d <= in.wm THEN "season" ELSE "tail", day |-> d, slot |-> s, v |-> v]
           R == RowsAt(in, radius, d, s)
<1>1. /\ <<d, s>> \in Cells /\ in.wm \in Int /\ d \in Int /\ d < WinDays
      /\ ~(d <= in.wm) <=> d > in.wm
  BY LaneTypes, LaneConstants DEF Cells, WinDay
<1>2. ASSUME NEW r \in R
      PROVE  r = x /\ v # NoCell /\ v.lv <= radius
  <2>1. r \in StoreRows(in) /\ Accepted(in, r) /\ r.day = d /\ r.slot = s /\ r.v.lv <= radius
    BY DEF RowsAt
  <2>2. \E c \in Cells : /\ in.cells[c] # NoCell
                         /\ \/ r = [src |-> "tail", day |-> c[1], slot |-> c[2], v |-> in.cells[c]]
                            \/ r = [src |-> "season", day |-> c[1], slot |-> c[2], v |-> in.cells[c]]
    BY <2>1 DEF StoreRows
  <2>3. PICK c \in Cells : /\ in.cells[c] # NoCell
                           /\ \/ r = [src |-> "tail", day |-> c[1], slot |-> c[2], v |-> in.cells[c]]
                              \/ r = [src |-> "season", day |-> c[1], slot |-> c[2], v |-> in.cells[c]]
    BY <2>2
  <2>4. c = <<d, s>>
    BY <2>1, <2>3 DEF Cells
  <2>5. QED
    BY <1>1, <2>1, <2>3, <2>4 DEF Accepted
<1>3. ASSUME v # NoCell, v.lv <= radius
      PROVE  x \in R
  <2>1. x \in StoreRows(in)
    <3> DEFINE c == <<d, s>>
               stored(y, src) == [src |-> src, day |-> y[1], slot |-> y[2], v |-> in.cells[y]]
    <3>a. c \in Cells /\ in.cells[c] # NoCell /\ c[1] = d /\ c[2] = s
      BY <1>1, <1>3
    <3>b. stored(c, "tail") \in StoreRows(in) /\ (d <= in.wm => stored(c, "season") \in StoreRows(in))
      BY <3>a DEF StoreRows
    <3>c. x = stored(c, IF d <= in.wm THEN "season" ELSE "tail")
      BY <3>a
    <3> HIDE DEF c, stored, x
    <3>1. CASE d <= in.wm
      BY <3>1, <3>b, <3>c
    <3>2. CASE ~(d <= in.wm)
      BY <3>2, <3>b, <3>c
    <3>3. QED
      BY <3>1, <3>2
  <2>2. Accepted(in, x)
    BY <1>1 DEF Accepted
  <2>3. QED
    BY <1>3, <2>1, <2>2 DEF RowsAt
<1>4. QED
  BY <1>2, <1>3

\* So the count of a cell is the cell's, and a slot without a row is not open.
LEMMA CellCounts ==
  ASSUME NEW in \in LaneIns, NEW radius, NEW d \in WinDay, NEW s \in Slot
  PROVE  LET v == in.cells[<<d, s>>] IN
         /\ CountAt(in, radius, d, s) >= OpenMin <=> v.reg = "R" /\ v.lv <= radius /\ v.n >= OpenMin
         /\ ~ActAt(in, radius, d, s) => ~(CountAt(in, radius, d, s) >= OpenMin) /\ ~(GeAt(in, radius, d, s) >= OpenMin)
<1> DEFINE v == in.cells[<<d, s>>]
           x == [src |-> IF d <= in.wm THEN "season" ELSE "tail", day |-> d, slot |-> s, v |-> v]
           R == RowsAt(in, radius, d, s)
           S == {r \in R : r.v.reg = "R"}
<1>1. R = IF v # NoCell /\ v.lv <= radius THEN {x} ELSE {}
  BY OneRow
<1>2. v \in CellValues /\ v.n \in Nat /\ NoCell.n = 0 /\ OpenMin \in Nat /\ ~(0 >= OpenMin)
  <2>1. <<d, s>> \in Cells
    BY DEF Cells
  <2>2. QED
    BY <2>1, LaneTypes, LaneConstants DEF NoCell
<1>3. x.v = v
  OBVIOUS
<1> HIDE DEF x, R
<1>4. S \subseteq {x} /\ (S # {} <=> v # NoCell /\ v.lv <= radius /\ v.reg = "R")
  BY <1>1, <1>3
<1>5. CountAt(in, radius, d, s) = MapThenSumSet(LAMBDA r : r.v.n, S)
  BY DEF CountAt, R
<1>6. CountAt(in, radius, d, s) = IF S = {} THEN 0 ELSE v.n
  <2> HIDE DEF S
  <2>1. MapThenSumSet(LAMBDA r : r.v.n, S) = IF S = {} THEN 0 ELSE x.v.n
    BY <1>2, <1>3, <1>4, CountOfFew
  <2>2. QED
    BY <1>3, <1>5, <2>1
<1>7. CountAt(in, radius, d, s) >= OpenMin <=> v.reg = "R" /\ v.lv <= radius /\ v.n >= OpenMin
  BY <1>2, <1>4, <1>6
<1>8. ASSUME R = {}
      PROVE  ~(CountAt(in, radius, d, s) >= OpenMin) /\ ~(GeAt(in, radius, d, s) >= OpenMin)
  <2>1. S = {}
    BY <1>8
  <2>2. GeAt(in, radius, d, s) = MapThenSumSet(LAMBDA r : r.v.ge, {})
    BY <2>1 DEF GeAt, R
  <2>3. QED
    BY <1>2, <1>6, <2>1, <2>2, GeOfNone
<1>9. QED
  BY <1>7, <1>8 DEF ActAt, R

\* The sets of days are finite, and the month of the drill-down differs from the
\* lane at most in the last slot of yesterday, which is then not open.
LEMMA DaysOfSlot ==
  ASSUME NEW in \in LaneIns, NEW radius, NEW s \in Slot
  PROVE  LET M == MDays(in, radius, s)
             D == SeasonDays(in, radius, s)
         IN  /\ IsFiniteSet(M) /\ M \subseteq WinDay /\ D \subseteq M
             /\ \A d \in M \ D : d = WinDays - 1 /\ s = Slots - 1 /\ ~ActAt(in, radius, d, s)
<1> DEFINE M == MDays(in, radius, s)
           D == SeasonDays(in, radius, s)
<1>1. WinDays \in Nat /\ Slots \in Nat /\ IsFiniteSet(WinDay) /\ s \in 0..(Slots - 1)
  <2>1. WinDays \in Nat /\ Slots \in Nat
    BY LaneConstants
  <2>2. 0 \in Int /\ WinDays - 1 \in Int
    BY <2>1
  <2>3. IsFiniteSet(0 .. WinDays - 1)
    BY <2>2, FS_Interval
  <2>4. QED
    BY <2>1, <2>3 DEF WinDay, Slot
<1>2. M \subseteq WinDay
  BY DEF MDays, ActiveDays
<1>3. IsFiniteSet(M)
  BY <1>1, <1>2, FS_Subset
<1>4. D \subseteq M
  BY DEF MDays, ActiveDays, SeasonDays, ActiveOrNext, SeasonActive
<1>5. ASSUME NEW d \in M, d \notin D
      PROVE  d = WinDays - 1 /\ s = Slots - 1 /\ ~ActAt(in, radius, d, s)
  <2>1. ~SeasonActive(in, radius, d, s) /\ ActiveOrNext(in, radius, d, s) /\ d \in WinDay
    BY <1>5 DEF MDays, ActiveDays, SeasonDays
  <2>2. ~(s + 1 < Slots) /\ ~(d + 1 < WinDays) /\ ~ActAt(in, radius, d, s)
    BY <2>1 DEF SeasonActive, ActiveOrNext
  <2>3. QED
    BY <1>1, <2>1, <2>2 DEF WinDay
<1>6. QED
  BY <1>2, <1>3, <1>4, <1>5

\* The radius is chosen for what the lane then shows.
LEMMA RadiusKept ==
  ASSUME NEW in \in LaneIns, ~Floored(in)
  PROVE  LET typ == computeAlmanacTypical(in) IN
         \/ Cardinality({s \in Slot : typ.m[s] >= MMinFull}) >= WidenMinSlots
         \/ typ.radius = Max(Radii)
<1> DEFINE typ == computeAlmanacTypical(in)
           r == chooseAlmanacRadius(in)
           enough == {x \in Radii : knownSlotCounts(in, x) >= WidenMinSlots}
<1>1. typ.radius = r /\ \A s \in Slot : typ.m[s] = Cardinality(ActiveDays(in, r, s))
  BY DEF computeAlmanacTypical, MDays
<1>2. CASE enough = {}
  BY <1>1, <1>2 DEF chooseAlmanacRadius
<1>3. CASE enough # {}
  <2>1. enough \subseteq Nat
    BY LaneConstants
  <2> HIDE DEF enough
  <2>2. \E x \in enough : \A y \in enough : x <= y
    BY <1>3, <2>1, LeastOf
  <2>3. r \in enough
    BY <1>3, <2>2 DEF chooseAlmanacRadius, enough, Min
  <2>4. knownSlotCounts(in, r) >= WidenMinSlots
    BY <2>3 DEF enough
  <2> HIDE DEF r, typ
  <2>5. {s \in Slot : typ.m[s] >= MMinFull} = {s \in Slot : Cardinality(ActiveDays(in, r, s)) >= MMinFull}
    BY <1>1
  <2>6. QED
    BY <2>4, <2>5 DEF knownSlotCounts, typ
<1>4. QED
  BY <1>2, <1>3

\* Both properties of a result.
LEMMA LaneInvShows == LaneInv => PanelKeepsRadiusPromise /\ SeasonAgreesWithPanel
<1> SUFFICES ASSUME LaneInv PROVE PanelKeepsRadiusPromise /\ SeasonAgreesWithPanel
  OBVIOUS
<1> DEFINE in == lane.in
           typ == computeAlmanacTypical(in)
           r == typ.radius
           sea == computeSeason(in, r)
<1>1. SUFFICES ASSUME LaneDone PROVE PanelKeepsRadiusPromise /\ SeasonAgreesWithPanel
  BY DEF PanelKeepsRadiusPromise, SeasonAgreesWithPanel
<1>2. in \in LaneIns /\ Typ = typ /\ lane.out[2] = sea
  BY <1>1 DEF LaneInv, Typ
<1>3. /\ \A s \in Slot : typ.m[s] = Cardinality(MDays(in, r, s)) /\ typ.n[s] = Cardinality(OpenDays(in, r, s))
      /\ \A s \in Slot : sea.m[s] = Cardinality(SeasonDays(in, r, s))
  BY DEF computeAlmanacTypical, computeSeason
<1>4. \A s \in Slot : sea.n[s] = Cardinality({d \in SeasonDays(in, r, s) :
          (IF Floored(in) THEN GeAt(in, r, d, s) ELSE CountAt(in, r, d, s)) >= OpenMin})
  BY DEF computeSeason
<1> HIDE DEF in, typ, r, sea
<1>5. PanelKeepsRadiusPromise
  <2>1. SUFFICES ASSUME ~Floored(in)
                 PROVE  /\ \/ Cardinality({s \in Slot : typ.m[s] >= MMinFull}) >= WidenMinSlots
                           \/ typ.radius = Max(Radii)
                        /\ \A s \in Slot : typ.n[s] =
                             Cardinality({d \in MDays(in, typ.radius, s) :
                                 in.cells[<<d, s>>].reg = "R" /\ in.cells[<<d, s>>].lv <= typ.radius
                                     /\ in.cells[<<d, s>>].n >= OpenMin})
    BY <1>2 DEF PanelKeepsRadiusPromise, in
  <2>2. \/ Cardinality({s \in Slot : typ.m[s] >= MMinFull}) >= WidenMinSlots
        \/ typ.radius = Max(Radii)
    BY <1>2, <2>1, RadiusKept DEF typ
  <2>3. ASSUME NEW s \in Slot
        PROVE  OpenDays(in, r, s) = {d \in MDays(in, r, s) :
                   in.cells[<<d, s>>].reg = "R" /\ in.cells[<<d, s>>].lv <= r /\ in.cells[<<d, s>>].n >= OpenMin}
    <3>1. \A d \in MDays(in, r, s) : d \in WinDay
      BY <1>2, DaysOfSlot
    <3>2. \A d \in MDays(in, r, s) : CountAt(in, r, d, s) >= OpenMin <=>
              in.cells[<<d, s>>].reg = "R" /\ in.cells[<<d, s>>].lv <= r /\ in.cells[<<d, s>>].n >= OpenMin
      BY <1>2, <3>1, CellCounts
    <3>3. QED
      BY <2>1, <3>2 DEF OpenDays
  <2>4. QED
    BY <1>3, <2>2, <2>3 DEF r
<1>6. SeasonAgreesWithPanel
  <2>1. ASSUME NEW s \in Slot
        PROVE  LET T == {d \in MDays(in, r, s) \ SeasonDays(in, r, s) : d = WinDays - 1 /\ s = Slots - 1}
               IN  sea.m[s] + Cardinality(T) = typ.m[s] /\ sea.n[s] = typ.n[s]
    <3> DEFINE M == MDays(in, r, s)
               D == SeasonDays(in, r, s)
               T == {d \in M \ D : d = WinDays - 1 /\ s = Slots - 1}
               open(d) == (IF Floored(in) THEN GeAt(in, r, d, s) ELSE CountAt(in, r, d, s)) >= OpenMin
    <3>1. /\ IsFiniteSet(M) /\ M \subseteq WinDay /\ D \subseteq M
          /\ \A d \in M \ D : d = WinDays - 1 /\ s = Slots - 1 /\ ~ActAt(in, r, d, s)
      BY <1>2, DaysOfSlot
    <3>2. T = M \ D
      BY <3>1
    <3>3. \A d \in M \ D : ~open(d)
      BY <1>2, <3>1, CellCounts
    <3>4. OpenDays(in, r, s) = {d \in M : open(d)} /\ {d \in M : open(d)} = {d \in D : open(d)}
      BY <3>1, <3>3 DEF OpenDays
    <3>5. sea.n[s] = typ.n[s]
      BY <1>3, <1>4, <3>4
    <3> HIDE DEF M, D, open
    <3>6. Cardinality(D) + Cardinality(M \ D) = Cardinality(M)
      <4>1. IsFiniteSet(D) /\ M \cap D = D
        BY <3>1, FS_Subset
      <4>2. Cardinality(M \ D) = Cardinality(M) - Cardinality(D) /\ Cardinality(M) \in Nat /\ Cardinality(D) \in Nat
        <5>1. Cardinality(M \ D) = Cardinality(M) - Cardinality(M \cap D)
          BY <3>1, <4>1, FS_Difference
        <5>2. Cardinality(M) \in Nat /\ Cardinality(D) \in Nat
          BY <3>1, <4>1, FS_CardinalityType
        <5>3. QED
          BY <4>1, <5>1, <5>2
      <4>3. QED
        BY <4>2
    <3>7. QED
      BY <1>3, <3>2, <3>5, <3>6 DEF M, D
  <2>2. QED
    BY <1>2, <2>1 DEF SeasonAgreesWithPanel, in, r
<1>7. QED
  BY <1>5, <1>6

\* The invariant holds before the first input is taken, and both steps keep it.
LEMMA LaneInductive == LaneSpec => []LaneInv
<1>1. LaneInit => LaneInv
  <2>1. SUFFICES ASSUME LaneInit PROVE LaneInv
    OBVIOUS
  <2>2. CASE \E x \in LaneInputs : lane = [in |-> WithSpan(x), out |-> <<>>]
    BY <2>2 DEF LaneInv, LaneDone, LaneIns
  <2>3. CASE lane = NoLane
    BY <2>3 DEF LaneInv, LaneDone, NoLane
  <2>4. QED
    BY <2>1, <2>2, <2>3 DEF LaneInit
<1>2. LaneInv /\ [LaneNext]_laneVars => LaneInv'
  <2>1. SUFFICES ASSUME LaneInv, [LaneNext]_laneVars PROVE LaneInv'
    OBVIOUS
  <2>2. CASE ComputeLane
    <3> DEFINE typ == computeAlmanacTypical(lane.in)
               out == <<typ, computeSeason(lane.in, typ.radius)>>
    <3>1. lane.in \in LaneIns /\ lane' = [lane EXCEPT !.out = out]
      BY <2>1, <2>2 DEF ComputeLane, LaneInv
    <3> HIDE DEF out
    <3>2. lane'.in = lane.in /\ (lane'.out = out \/ lane'.out = lane.out)
      BY <3>1
    <3>3. QED
      BY <2>1, <3>1, <3>2 DEF LaneInv, LaneDone, out
  <2>3. CASE ComputeWindows \/ UNCHANGED laneVars
    BY <2>1, <2>3 DEF ComputeWindows, laneVars, LaneInv, LaneDone
  <2>4. QED
    BY <2>1, <2>2, <2>3 DEF LaneNext
<1>3. QED
  BY <1>1, <1>2, PTL DEF LaneSpec

\* chooseAlmanacRadius picks the radius on what the panel then displays, and a day
\* that is both in the record and in the daily table is counted once.
THEOREM RadiusCorrect == LaneSpec => []PanelKeepsRadiusPromise
BY LaneInductive, LaneInvShows, PTL

\* The month of the drill-down (compute) shows the panel's N and M over the same
\* days, but for the last slot of yesterday.
THEOREM SeasonCorrect == LaneSpec => []SeasonAgreesWithPanel
BY LaneInductive, LaneInvShows, PTL

(***************************************************************************)
(* The usual windows and the agenda.                                       *)
(***************************************************************************)
\* Slots of the circular day: the i-th after s, and how far t is after s.
After(s, i) == IF s + i < RoundSlots THEN s + i ELSE s + i - RoundSlots
Dist(s, t) == IF s <= t THEN t - s ELSE t - s + RoundSlots
Before(s, i) == IF i <= s THEN s - i ELSE s - i + RoundSlots

LEMMA RoundTypes ==
  /\ RoundSlots \in Nat \ {0}
  /\ BridgeSlots \in Nat /\ BridgeSlots < RoundSlots
  /\ LookAhead \in Nat /\ LookAhead < RoundSlots
  /\ RSlot = {s \in Nat : s < RoundSlots}
<1>1. RoundSlots \in Nat \ {0} /\ BridgeSlots \in 0 .. RoundSlots - 1 /\ LookAhead \in 0 .. RoundSlots - 1
  BY LaneConstants
<1>2. RSlot = {s \in Nat : s < RoundSlots}
  BY <1>1 DEF RSlot
<1> QED BY <1>1, <1>2

LEMMA Mods ==
  ASSUME NEW n \in Nat \ {0}, NEW x \in Nat, x < 2 * n
  PROVE  x % n = IF x < n THEN x ELSE x - n
<1>1. CASE x < n
  BY <1>1
<1>2. CASE ~(x < n)
  BY <1>2
<1> QED BY <1>1, <1>2

LEMMA AfterIs ==
  ASSUME NEW s \in RSlot, NEW i \in Nat, i <= RoundSlots
  PROVE  (s + i) % RoundSlots = After(s, i) /\ After(s, i) \in RSlot
<1>1. s \in Nat /\ s < RoundSlots /\ RoundSlots \in Nat \ {0}
  BY RoundTypes
<1>2. \A x \in Nat : x < 2 * RoundSlots => x % RoundSlots = IF x < RoundSlots THEN x ELSE x - RoundSlots
  BY <1>1, Mods
<1>3. s + i \in Nat /\ s + i < 2 * RoundSlots
  BY <1>1
<1>4. After(s, i) \in Nat /\ After(s, i) < RoundSlots
  BY <1>1 DEF After
<1>5. After(s, i) \in RSlot
  BY <1>4, RoundTypes
<1> DEFINE x == s + i
<1>6. (IF x < RoundSlots THEN x ELSE x - RoundSlots) = After(s, i)
  BY <1>1 DEF After
<1> HIDE DEF x
<1>7. x % RoundSlots = After(s, i)
  BY <1>2, <1>3, <1>6 DEF x
<1>8. QED
  BY <1>5, <1>7 DEF x

LEMMA BeforeIs ==
  ASSUME NEW s \in RSlot, NEW i \in Nat, i <= RoundSlots
  PROVE  (s + RoundSlots - i) % RoundSlots = Before(s, i) /\ Before(s, i) \in RSlot
<1>1. s \in Nat /\ s < RoundSlots /\ RoundSlots \in Nat \ {0}
  BY RoundTypes
<1>2. \A x \in Nat : x < 2 * RoundSlots => x % RoundSlots = IF x < RoundSlots THEN x ELSE x - RoundSlots
  BY <1>1, Mods
<1>4. Before(s, i) \in Nat /\ Before(s, i) < RoundSlots
  BY <1>1 DEF Before
<1>5. Before(s, i) \in RSlot
  BY <1>4, RoundTypes
<1> DEFINE x == s + RoundSlots - i
<1>6. x \in Nat /\ x < 2 * RoundSlots
  BY <1>1
<1>7. (IF x < RoundSlots THEN x ELSE x - RoundSlots) = Before(s, i)
  BY <1>1 DEF Before
<1> HIDE DEF x
<1>8. x % RoundSlots = Before(s, i)
  BY <1>2, <1>6, <1>7
<1>9. QED
  BY <1>5, <1>8 DEF x

LEMMA BackIs ==
  ASSUME NEW s \in RSlot
  PROVE  Back(s) = Before(s, 1) /\ Back(s) \in RSlot
<1>1. s \in Nat /\ RoundSlots \in Nat \ {0} /\ s + RoundSlots - 1 = s + RoundSlots - 1
  BY RoundTypes
<1>2. 1 \in Nat /\ 1 <= RoundSlots
  BY <1>1
<1>3. QED
  BY <1>2, BeforeIs DEF Back

LEMMA DistIs ==
  ASSUME NEW s \in RSlot, NEW t \in RSlot
  PROVE  /\ (t - s + RoundSlots) % RoundSlots = Dist(s, t)
         /\ Dist(s, t) \in Nat /\ Dist(s, t) < RoundSlots
         /\ After(s, Dist(s, t)) = t /\ Before(t, Dist(s, t)) = s
<1>1. s \in Nat /\ s < RoundSlots /\ t \in Nat /\ t < RoundSlots /\ RoundSlots \in Nat \ {0}
  BY RoundTypes
<1>2. \A x \in Nat : x < 2 * RoundSlots => x % RoundSlots = IF x < RoundSlots THEN x ELSE x - RoundSlots
  BY <1>1, Mods
<1> DEFINE x == t - s + RoundSlots
<1>3. x \in Nat /\ x < 2 * RoundSlots
  BY <1>1
<1>4. (IF x < RoundSlots THEN x ELSE x - RoundSlots) = Dist(s, t)
  BY <1>1 DEF Dist
<1> HIDE DEF x
<1>5. x % RoundSlots = Dist(s, t)
  BY <1>2, <1>3, <1>4
<1>6. Dist(s, t) \in Nat /\ Dist(s, t) < RoundSlots
  BY <1>1 DEF Dist
<1>7. After(s, Dist(s, t)) = t /\ Before(t, Dist(s, t)) = s
  BY <1>1 DEF Dist, After, Before
<1>8. QED
  BY <1>5, <1>6, <1>7 DEF x

\* Walking on and back.
LEMMA Walks ==
  ASSUME NEW s \in RSlot, NEW i \in Nat, NEW j \in Nat, i + j <= RoundSlots
  PROVE  /\ After(After(s, i), j) = After(s, i + j)
         /\ Before(Before(s, i), j) = Before(s, i + j)
         /\ Before(After(s, i + j), i) = After(s, j)
         /\ After(Before(s, i + j), i) = Before(s, j)
         /\ After(s, 0) = s /\ Before(s, 0) = s
         /\ i < RoundSlots => Dist(s, After(s, i)) = i
<1>1. s \in Nat /\ s < RoundSlots /\ RoundSlots \in Nat \ {0}
  BY RoundTypes
<1>2. After(After(s, i), j) = After(s, i + j)
  BY <1>1 DEF After
<1>3. Before(Before(s, i), j) = Before(s, i + j)
  BY <1>1 DEF Before
<1>4. Before(After(s, i + j), i) = After(s, j)
  BY <1>1 DEF After, Before
<1>5. After(Before(s, i + j), i) = Before(s, j)
  BY <1>1 DEF After, Before
<1>6. After(s, 0) = s /\ Before(s, 0) = s
  BY <1>1 DEF After, Before
<1>7. i < RoundSlots => Dist(s, After(s, i)) = i
  BY <1>1 DEF After, Dist
<1>8. QED
  BY <1>2, <1>3, <1>4, <1>5, <1>6, <1>7

\* The run of slots in b from s on, and what it is when a prefix is known.
LEMMA RunOf ==
  ASSUME NEW b, NEW s \in RSlot
  PROVE  /\ RunFrom(b, s) \in Nat /\ RunFrom(b, s) <= RoundSlots
         /\ \A i \in Nat : i < RunFrom(b, s) => After(s, i) \in b
         /\ RunFrom(b, s) < RoundSlots => After(s, RunFrom(b, s)) \notin b
<1> DEFINE P == {n \in 0 .. RoundSlots : \A i \in 0 .. n - 1 : (s + i) % RoundSlots \in b}
           C == {RoundSlots - n : n \in P}
           r == RunFrom(b, s)
<1>1. RoundSlots \in Nat \ {0}
  BY RoundTypes
<1>2. \A n \in Nat : n \in P <=> n <= RoundSlots /\ \A i \in Nat : i < n => After(s, i) \in b
  <2>1. TAKE n \in Nat
  <2>2. \A i : i \in 0 .. n - 1 <=> i \in Nat /\ i < n
    OBVIOUS
  <2>3. n <= RoundSlots => \A i \in Nat : i < n => (s + i) % RoundSlots = After(s, i)
    BY <1>1, AfterIs
  <2>4. n \in 0 .. RoundSlots <=> n <= RoundSlots
    BY <1>1
  <2>5. QED
    BY <2>2, <2>3, <2>4
<1>3. P \subseteq Nat /\ 0 \in P
  <2>1. P \subseteq Nat
    BY <1>1
  <2>2. \A i \in Nat : ~(i < 0)
    OBVIOUS
  <2>3. 0 <= RoundSlots
    BY <1>1
  <2>4. QED
    BY <1>2, <2>1, <2>2, <2>3
<1>4. \E n \in P : \A m \in P : n >= m
  <2>1. \A n \in P : n \in Nat /\ n <= RoundSlots
    BY <1>2, <1>3
  <2> HIDE DEF P
  <2>2. C \subseteq Nat /\ C # {}
    BY <1>1, <1>3, <2>1
  <2>3. PICK x \in C : \A y \in C : x <= y
    BY <2>2, LeastOf
  <2>4. PICK n \in P : x = RoundSlots - n
    OBVIOUS
  <2>5. \A m \in P : RoundSlots - n <= RoundSlots - m
    BY <2>3, <2>4
  <2>6. \A m \in P : n >= m
    BY <1>1, <2>1, <2>5
  <2>7. QED
    BY <2>6
<1>5. r = Max(P)
  BY DEF RunFrom
<1>6. r \in P /\ \A m \in P : r >= m
  <2> HIDE DEF P, r
  <2>1. QED
    BY <1>4, <1>5 DEF Max
<1> HIDE DEF P, r
<1>7. r \in Nat /\ r <= RoundSlots /\ \A i \in Nat : i < r => After(s, i) \in b
  BY <1>2, <1>3, <1>6
<1>8. ASSUME r < RoundSlots, After(s, r) \in b PROVE FALSE
  <2>1. r + 1 \in Nat /\ r + 1 <= RoundSlots /\ ~(r >= r + 1)
    BY <1>1, <1>7, <1>8
  <2>2. \A i \in Nat : i < r + 1 => i < r \/ i = r
    BY <1>7
  <2>3. r + 1 \in P
    BY <1>2, <1>7, <1>8, <2>1, <2>2
  <2>4. QED
    BY <1>6, <2>1, <2>3
<1>9. QED
  BY <1>7, <1>8 DEF r

LEMMA RunIs ==
  ASSUME NEW b, NEW s \in RSlot, NEW n \in Nat, n <= RoundSlots,
         \A i \in Nat : i < n => After(s, i) \in b,
         n < RoundSlots => After(s, n) \notin b
  PROVE  RunFrom(b, s) = n
<1> DEFINE r == RunFrom(b, s)
<1>1. RoundSlots \in Nat /\ r \in Nat /\ r <= RoundSlots
  BY RoundTypes, RunOf
<1>2. (r < RoundSlots => After(s, r) \notin b) /\ \A i \in Nat : i < r => After(s, i) \in b
  BY RunOf
<1> HIDE DEF r
<1>3. ~(r < n)
  BY <1>1, <1>2
<1>4. ~(n < r)
  BY <1>1, <1>2
<1>5. QED
  BY <1>1, <1>3, <1>4 DEF r


\* The slots the panel shows: usual, or in a gap of at most BridgeSlots.
ShortGap(u, s) == \E a, z \in 1 .. BridgeSlots :
    /\ (s + RoundSlots - a) % RoundSlots \in u /\ (s + z) % RoundSlots \in u
    /\ a + z - 1 <= BridgeSlots
Shown(u) == u \cup {s \in RSlot : ShortGap(u, s)}

LEMMA ShortGapIs ==
  ASSUME NEW u, NEW s \in RSlot
  PROVE  ShortGap(u, s) <=> \E a, z \in Nat : /\ 1 <= a /\ 1 <= z /\ a + z <= BridgeSlots + 1
                                              /\ Before(s, a) \in u /\ After(s, z) \in u
<1>1. RoundSlots \in Nat /\ BridgeSlots \in Nat /\ BridgeSlots < RoundSlots
  BY RoundTypes
<1>2. \A a \in Nat : a <= BridgeSlots => /\ (s + RoundSlots - a) % RoundSlots = Before(s, a)
                                         /\ (s + a) % RoundSlots = After(s, a)
  <2>1. \A a \in Nat : a <= BridgeSlots => a <= RoundSlots
    BY <1>1
  <2>2. QED
    BY <2>1, AfterIs, BeforeIs
<1>3. \A a, z : /\ a \in 1 .. BridgeSlots /\ z \in 1 .. BridgeSlots /\ a + z - 1 <= BridgeSlots
                <=> /\ a \in Nat /\ z \in Nat /\ 1 <= a /\ 1 <= z /\ a + z <= BridgeSlots + 1
  BY <1>1
<1>4. \A a, z \in Nat : 1 <= a /\ 1 <= z /\ a + z <= BridgeSlots + 1 => a <= BridgeSlots /\ z <= BridgeSlots
  BY <1>1
<1>5. ASSUME ShortGap(u, s)
      PROVE  \E a, z \in Nat : /\ 1 <= a /\ 1 <= z /\ a + z <= BridgeSlots + 1
                               /\ Before(s, a) \in u /\ After(s, z) \in u
  <2>1. PICK a \in 1 .. BridgeSlots, z \in 1 .. BridgeSlots :
            /\ (s + RoundSlots - a) % RoundSlots \in u /\ (s + z) % RoundSlots \in u
            /\ a + z - 1 <= BridgeSlots
    BY <1>5 DEF ShortGap
  <2>2. /\ a \in Nat /\ z \in Nat /\ 1 <= a /\ 1 <= z /\ a + z <= BridgeSlots + 1
    BY <1>3, <2>1
  <2>3. Before(s, a) \in u /\ After(s, z) \in u
    BY <1>2, <1>4, <2>1, <2>2
  <2>4. QED
    BY <2>2, <2>3
<1>6. ASSUME NEW a \in Nat, NEW z \in Nat, 1 <= a, 1 <= z, a + z <= BridgeSlots + 1,
             Before(s, a) \in u, After(s, z) \in u
      PROVE  ShortGap(u, s)
  <2>1. a \in 1 .. BridgeSlots /\ z \in 1 .. BridgeSlots /\ a + z - 1 <= BridgeSlots
    BY <1>3, <1>6
  <2>2. (s + RoundSlots - a) % RoundSlots \in u /\ (s + z) % RoundSlots \in u
    BY <1>2, <1>4, <1>6
  <2>3. QED
    BY <2>1, <2>2 DEF ShortGap
<1>7. QED
  BY <1>5, <1>6

\* The nearest slot of u behind t, and ahead of it.
LEMMA NearestBehind ==
  ASSUME NEW u, NEW t \in RSlot, NEW a \in Nat, 1 <= a, Before(t, a) \in u
  PROVE  \E k \in Nat : /\ 1 <= k /\ k <= a /\ Before(t, k) \in u
                        /\ \A j \in Nat : 1 <= j /\ j < k => Before(t, j) \notin u
<1> DEFINE T == {k \in Nat : 1 <= k /\ Before(t, k) \in u}
<1>1. PICK k \in T : \A y \in T : k <= y
  <2>1. a \in T /\ T \subseteq Nat
    OBVIOUS
  <2> HIDE DEF T
  <2>2. QED
    BY <2>1, LeastOf
<1>2. k \in Nat /\ 1 <= k /\ Before(t, k) \in u /\ k <= a
  BY <1>1
<1>3. \A j \in Nat : 1 <= j /\ j < k => Before(t, j) \notin u
  BY <1>1, <1>2
<1>4. QED
  BY <1>2, <1>3

LEMMA NearestAhead ==
  ASSUME NEW u, NEW t \in RSlot, NEW a \in Nat, 1 <= a, After(t, a) \in u
  PROVE  \E k \in Nat : /\ 1 <= k /\ k <= a /\ After(t, k) \in u
                        /\ \A j \in Nat : 1 <= j /\ j < k => After(t, j) \notin u
<1> DEFINE T == {k \in Nat : 1 <= k /\ After(t, k) \in u}
<1>1. PICK k \in T : \A y \in T : k <= y
  <2>1. a \in T /\ T \subseteq Nat
    OBVIOUS
  <2> HIDE DEF T
  <2>2. QED
    BY <2>1, LeastOf
<1>2. k \in Nat /\ 1 <= k /\ After(t, k) \in u /\ k <= a
  BY <1>1
<1>3. \A j \in Nat : 1 <= j /\ j < k => After(t, j) \notin u
  BY <1>1, <1>2
<1>4. QED
  BY <1>2, <1>3

\* The loop over the gaps bridges the gaps that are short.
LEMMA BridgedIsShown ==
  ASSUME NEW u \in SUBSET RSlot
  PROVE  Bridged(u) = Shown(u) /\ Shown(u) \subseteq RSlot
<1> DEFINE c == RSlot \ u
           len(s) == RunFrom(c, s)
<1>1. RoundSlots \in Nat \ {0} /\ BridgeSlots \in Nat /\ BridgeSlots < RoundSlots
  BY RoundTypes
<1>2. \A t : t \in Bridged(u) <=>
         t \in u \/ \E s \in c : /\ Back(s) \in u /\ len(s) <= BridgeSlots
                                 /\ \E i \in 0 .. len(s) - 1 : t = (s + i) % RoundSlots
  <2> DEFINE turn(s) == {(s + i) % RoundSlots : i \in 0 .. len(s) - 1}
             starts == {s \in {x \in c : Back(x) \in u} : len(s) <= BridgeSlots}
  <2>1. Bridged(u) = u \cup UNION {turn(s) : s \in starts}
    BY DEF Bridged
  <2>2. \A s, t : t \in turn(s) <=> \E i \in 0 .. len(s) - 1 : t = (s + i) % RoundSlots
    OBVIOUS
  <2>3. \A s : s \in starts <=> s \in c /\ Back(s) \in u /\ len(s) <= BridgeSlots
    OBVIOUS
  <2> HIDE DEF turn, starts, c, len
  <2>4. \A t : t \in Bridged(u) <=> t \in u \/ \E s \in starts : t \in turn(s)
    BY <2>1
  <2>5. QED
    BY <2>2, <2>3, <2>4
<1>3. ASSUME NEW s \in c, Back(s) \in u, len(s) <= BridgeSlots, NEW i \in 0 .. len(s) - 1
      PROVE  (s + i) % RoundSlots \in RSlot /\ ShortGap(u, (s + i) % RoundSlots)
  <2> DEFINE z == len(s) - i
             t == After(s, i)
  <2>1. s \in RSlot /\ len(s) \in Nat /\ (len(s) < RoundSlots => After(s, len(s)) \notin c)
    BY RunOf
  <2>2. /\ i \in Nat /\ i + 1 \in Nat /\ z \in Nat /\ 1 <= z /\ 1 <= i + 1
        /\ i <= RoundSlots /\ i + 1 <= RoundSlots /\ (i + 1) + z <= BridgeSlots + 1
        /\ i + z = len(s) /\ len(s) <= RoundSlots /\ len(s) < RoundSlots
    BY <1>1, <1>3, <2>1
  <2> HIDE DEF z
  <2>3. t = (s + i) % RoundSlots /\ t \in RSlot
    BY <2>1, <2>2, AfterIs
  <2>4. After(s, len(s)) \in RSlot
    BY <2>1, <2>2, AfterIs
  <2>5. After(s, len(s)) \in u
    BY <2>1, <2>2, <2>4
  <2>6. After(t, z) = After(s, len(s))
    BY <2>1, <2>2, Walks
  <2>7. Before(t, i + 1) = Back(s)
    <3>1. Before(t, i) = s
      <4>1. 0 \in Nat /\ i + 0 <= RoundSlots /\ i + 0 = i
        BY <2>2
      <4>2. Before(After(s, i + 0), i) = After(s, 0) /\ After(s, 0) = s
        BY <2>1, <2>2, <4>1, Walks
      <4>3. QED
        BY <4>1, <4>2
    <3>2. Before(Before(t, i), 1) = Before(t, i + 1)
      BY <2>2, <2>3, Walks
    <3>3. QED
      BY <2>1, <3>1, <3>2, BackIs
  <2>8. Before(t, i + 1) \in u /\ After(t, z) \in u
    BY <1>3, <2>5, <2>6, <2>7
  <2> HIDE DEF t
  <2>9. \E x, y \in Nat : /\ 1 <= x /\ 1 <= y /\ x + y <= BridgeSlots + 1
                          /\ Before(t, x) \in u /\ After(t, y) \in u
    BY <2>2, <2>8
  <2>10. ShortGap(u, t)
    BY <2>3, <2>9, ShortGapIs
  <2>11. QED
    BY <2>3, <2>10
<1>4. ASSUME NEW t \in RSlot, t \notin u, ShortGap(u, t)
      PROVE  \E s \in c : /\ Back(s) \in u /\ len(s) <= BridgeSlots
                          /\ \E i \in 0 .. len(s) - 1 : t = (s + i) % RoundSlots
  <2>1. PICK a0, z0 \in Nat : /\ 1 <= a0 /\ 1 <= z0 /\ a0 + z0 <= BridgeSlots + 1
                              /\ Before(t, a0) \in u /\ After(t, z0) \in u
    BY <1>4, ShortGapIs
  <2>2. PICK a \in Nat : /\ 1 <= a /\ a <= a0 /\ Before(t, a) \in u
                         /\ \A j \in Nat : 1 <= j /\ j < a => Before(t, j) \notin u
    BY <2>1, NearestBehind
  <2>3. PICK z \in Nat : /\ 1 <= z /\ z <= z0 /\ After(t, z) \in u
                         /\ \A j \in Nat : 1 <= j /\ j < z => After(t, j) \notin u
    BY <2>1, NearestAhead
  <2> DEFINE i == a - 1
             s == Before(t, i)
  <2>4. /\ i \in Nat /\ i + 1 = a /\ i < a /\ i + z <= BridgeSlots /\ i + z < RoundSlots
        /\ i <= RoundSlots /\ a <= RoundSlots /\ z < RoundSlots /\ i < i + z /\ i + z \in Nat
    BY <1>1, <2>1, <2>2, <2>3
  <2> HIDE DEF i
  <2>5. s \in RSlot /\ Before(t, 0) = t /\ After(t, 0) = t
    <3>1. 0 \in Nat /\ 0 + 0 <= RoundSlots
      BY <1>1
    <3>2. QED
      BY <2>4, <3>1, BeforeIs, Walks
  <2>6. \A k \in Nat : k < a => Before(t, k) \notin u
    <3>1. \A k \in Nat : k = 0 \/ 1 <= k
      OBVIOUS
    <3>2. QED
      BY <1>4, <2>2, <2>5, <3>1
  <2>7. \A k \in Nat : k < z => After(t, k) \notin u
    <3>1. \A k \in Nat : k = 0 \/ 1 <= k
      OBVIOUS
    <3>2. QED
      BY <1>4, <2>3, <2>5, <3>1
  <2>8. s \in c /\ Back(s) \in u
    <3>1. s \notin u
      BY <2>4, <2>6
    <3>2. Before(s, 1) = Before(t, i + 1)
      BY <2>4, Walks
    <3>3. QED
      BY <2>2, <2>4, <2>5, <3>1, <3>2, BackIs
  <2>9. \A j \in Nat : j <= i => After(s, j) = Before(t, i - j)
    <3>1. TAKE j \in Nat
    <3>2. HAVE j <= i
    <3>3. i - j \in Nat /\ j + (i - j) = i /\ j + (i - j) <= RoundSlots
      BY <2>4, <3>2
    <3>4. After(Before(t, j + (i - j)), j) = Before(t, i - j)
      BY <3>3, Walks
    <3>5. QED
      BY <3>3, <3>4
  <2>10. \A j \in Nat : i <= j /\ j <= i + z => After(s, j) = After(t, j - i)
    <3>1. TAKE j \in Nat
    <3>2. HAVE i <= j /\ j <= i + z
    <3>3. j - i \in Nat /\ i + (j - i) = j /\ i + (j - i) <= RoundSlots
      BY <1>1, <2>4, <3>2
    <3>4. After(After(s, i), j - i) = After(s, j)
      <4>1. After(After(s, i), j - i) = After(s, i + (j - i))
        BY <2>4, <2>5, <3>3, Walks
      <4>2. QED
        BY <3>3, <4>1
    <3>5. i - i = 0 /\ i <= i
      BY <2>4
    <3>6. After(s, i) = t
      BY <2>4, <2>5, <2>9, <3>5
    <3>7. QED
      BY <3>4, <3>6
  <2>11. \A j \in Nat : j < i + z => After(s, j) \in c
    <3>1. TAKE j \in Nat
    <3>2. HAVE j < i + z
    <3>3. j <= RoundSlots
      BY <1>1, <2>4, <3>2
    <3>4. After(s, j) \in RSlot
      BY <2>5, <3>3, AfterIs
    <3>5. CASE j <= i
      <4>1. i - j \in Nat /\ i - j < a
        BY <2>4, <3>5
      <4>2. QED
        BY <2>6, <2>9, <3>4, <3>5, <4>1
    <3>6. CASE i <= j
      <4>1. j - i \in Nat /\ j - i < z /\ j <= i + z
        BY <2>4, <3>2, <3>6
      <4>2. QED
        BY <2>7, <2>10, <3>4, <3>6, <4>1
    <3>7. QED
      BY <2>4, <3>5, <3>6
  <2>12. After(s, i + z) \notin c
    <3>1. i + z - i = z /\ i <= i + z /\ i + z <= i + z
      BY <2>4
    <3>2. QED
      BY <2>3, <2>4, <2>10, <3>1
  <2>13. len(s) = i + z
    <3>1. i + z <= RoundSlots
      BY <2>4, <1>1
    <3> HIDE DEF s, c
    <3>2. QED
      BY <2>4, <2>5, <2>11, <2>12, <3>1, RunIs
  <2>14. t = (s + i) % RoundSlots
    <3>1. i - i = 0 /\ i <= i
      BY <2>4
    <3>2. After(s, i) = t
      BY <2>4, <2>5, <2>9, <3>1
    <3>3. QED
      BY <2>4, <2>5, <3>2, AfterIs
  <2>15. len(s) <= BridgeSlots /\ i \in 0 .. len(s) - 1
    BY <2>4, <2>13
  <2> HIDE DEF s
  <2>16. QED
    BY <2>8, <2>14, <2>15
<1>5. \A t : t \in Shown(u) <=> t \in u \/ (t \in RSlot /\ ShortGap(u, t))
  BY DEF Shown
<1> HIDE DEF c, len
<1>6. \A t : t \in Bridged(u) <=> t \in Shown(u)
  BY <1>2, <1>3, <1>4, <1>5
<1>7. Bridged(u) = Shown(u)
  BY <1>6
<1>8. QED
  BY <1>5, <1>7

\* The slots of a window.
Covers(w) == {(w.start + i) % RoundSlots : i \in 0 .. w.len - 1}
IsWindow(w) == w \in [start : RSlot, len : 1 .. RoundSlots]

LEMMA CoversIs ==
  ASSUME NEW w, IsWindow(w)
  PROVE  /\ \A t : t \in Covers(w) <=> t \in RSlot /\ Dist(w.start, t) < w.len
         /\ \A i \in Nat : i < w.len => After(w.start, i) \in Covers(w)
         /\ \A t \in RSlot : contains(w, t) <=> t \in Covers(w)
<1>1. /\ w.start \in RSlot /\ w.len \in Nat /\ w.len <= RoundSlots /\ RoundSlots \in Nat
  BY RoundTypes DEF IsWindow
<1>2. \A i : i \in 0 .. w.len - 1 <=> i \in Nat /\ i < w.len
  BY <1>1
<1>3. \A i \in Nat : i < w.len => /\ (w.start + i) % RoundSlots = After(w.start, i)
                                  /\ After(w.start, i) \in RSlot /\ Dist(w.start, After(w.start, i)) = i
  <2>1. TAKE i \in Nat
  <2>2. HAVE i < w.len
  <2>3. i <= RoundSlots /\ i < RoundSlots /\ 0 \in Nat /\ i + 0 <= RoundSlots
    BY <1>1, <2>2
  <2>4. Dist(w.start, After(w.start, i)) = i
    BY <1>1, <2>3, Walks
  <2>5. QED
    BY <1>1, <2>3, <2>4, AfterIs
<1>4. \A t : t \in Covers(w) <=> \E i \in Nat : i < w.len /\ t = After(w.start, i)
  <2>1. \A t : t \in Covers(w) <=> \E i \in 0 .. w.len - 1 : t = (w.start + i) % RoundSlots
    BY DEF Covers
  <2>2. QED
    BY <1>2, <1>3, <2>1
<1>5. \A t \in RSlot : /\ Dist(w.start, t) \in Nat /\ After(w.start, Dist(w.start, t)) = t
                       /\ (t - w.start + RoundSlots) % RoundSlots = Dist(w.start, t)
  BY <1>1, DistIs
<1>6. \A t : t \in Covers(w) <=> t \in RSlot /\ Dist(w.start, t) < w.len
  BY <1>3, <1>4, <1>5
<1>7. \A t \in RSlot : contains(w, t) <=> t \in Covers(w)
  BY <1>5, <1>6 DEF contains
<1>8. QED
  BY <1>4, <1>6, <1>7

\* The runs of b: a window for each slot of b after one that is not in b.
RunsOf(b) == {[start |-> s, len |-> RunFrom(b, s)] : s \in {x \in b : Back(x) \notin b}}

LEMMA RunIsWindow ==
  ASSUME NEW b \in SUBSET RSlot, b # RSlot, NEW s \in b
  PROVE  RunFrom(b, s) \in Nat /\ 1 <= RunFrom(b, s) /\ RunFrom(b, s) < RoundSlots
<1>1. PICK x \in RSlot : x \notin b
  OBVIOUS
<1>2. RoundSlots \in Nat \ {0} /\ s \in RSlot
  BY RoundTypes
<1>3. /\ RunFrom(b, s) \in Nat /\ RunFrom(b, s) <= RoundSlots
      /\ \A i \in Nat : i < RunFrom(b, s) => After(s, i) \in b
      /\ RunFrom(b, s) < RoundSlots => After(s, RunFrom(b, s)) \notin b
  BY <1>2, RunOf
<1>4. Dist(s, x) \in Nat /\ Dist(s, x) < RoundSlots /\ After(s, Dist(s, x)) = x
  BY <1>1, <1>2, DistIs
<1>5. RunFrom(b, s) # RoundSlots
  BY <1>1, <1>3, <1>4
<1>6. After(s, 0) = s
  <2>1. 0 \in Nat /\ 0 + 0 <= RoundSlots
    BY <1>2
  <2>2. QED
    BY <1>2, <2>1, Walks
<1>7. RunFrom(b, s) # 0
  <2>1. 0 < RoundSlots
    BY <1>2
  <2>2. QED
    BY <1>3, <1>6, <2>1
<1>8. QED
  BY <1>2, <1>3, <1>5, <1>7

LEMMA RunsExact ==
  ASSUME NEW b \in SUBSET RSlot, b # RSlot
  PROVE  /\ \A w \in RunsOf(b) : /\ IsWindow(w) /\ w.len < RoundSlots /\ Covers(w) \subseteq b
                                 /\ w.start \in b /\ Back(w.start) \notin b
                                 /\ (w.start + w.len) % RoundSlots \notin b
         /\ \A t \in b : \E w \in RunsOf(b) : t \in Covers(w)
         /\ \A v, w \in RunsOf(b) : \A t \in Covers(v) : t \in Covers(w) => v = w
<1>1. RoundSlots \in Nat \ {0} /\ b \subseteq RSlot
  BY RoundTypes
<1>2. ASSUME NEW w \in RunsOf(b)
      PROVE  /\ w.start \in RSlot /\ w.start \in b /\ Back(w.start) \notin b
             /\ w.len = RunFrom(b, w.start) /\ w.len \in Nat /\ 1 <= w.len /\ w.len < RoundSlots
             /\ IsWindow(w) /\ w = [start |-> w.start, len |-> RunFrom(b, w.start)]
  <2>1. PICK s \in b : Back(s) \notin b /\ w = [start |-> s, len |-> RunFrom(b, s)]
    BY DEF RunsOf
  <2>2. RunFrom(b, s) \in Nat /\ 1 <= RunFrom(b, s) /\ RunFrom(b, s) < RoundSlots
    BY RunIsWindow
  <2>3. RunFrom(b, s) \in 1 .. RoundSlots /\ s \in RSlot
    BY <1>1, <2>2
  <2>4. QED
    BY <2>1, <2>2, <2>3 DEF IsWindow
<1>3. ASSUME NEW w \in RunsOf(b)
      PROVE  /\ \A i \in Nat : i < w.len => After(w.start, i) \in b
             /\ (w.start + w.len) % RoundSlots \notin b
  <2>1. /\ \A i \in Nat : i < w.len => After(w.start, i) \in b
        /\ After(w.start, w.len) \notin b
    BY <1>2, RunOf
  <2>2. w.len <= RoundSlots
    BY <1>1, <1>2
  <2>3. QED
    BY <1>2, <2>1, <2>2, AfterIs
<1>4. ASSUME NEW w \in RunsOf(b) PROVE Covers(w) \subseteq b
  <2>1. ASSUME NEW t \in Covers(w) PROVE t \in b
    <3>1. t \in RSlot /\ Dist(w.start, t) < w.len
      BY <1>2, <2>1, CoversIs
    <3>2. Dist(w.start, t) \in Nat /\ After(w.start, Dist(w.start, t)) = t
      BY <1>2, <3>1, DistIs
    <3>3. QED
      BY <1>3, <3>1, <3>2
  <2>2. QED
    BY <2>1
<1>5. ASSUME NEW t \in b PROVE \E w \in RunsOf(b) : t \in Covers(w)
  <2>1. PICK x \in RSlot : x \notin b
    OBVIOUS
  <2>2. t \in RSlot /\ t # x
    BY <1>1, <2>1
  <2> DEFINE c == RSlot \ b
  <2>3. /\ Dist(x, t) \in Nat /\ Dist(x, t) < RoundSlots /\ Before(t, Dist(x, t)) = x
        /\ Before(t, 0) = t
    <3>1. 0 \in Nat /\ 0 + 0 <= RoundSlots
      BY <1>1
    <3>2. QED
      BY <2>1, <2>2, <3>1, DistIs, Walks
  <2>4. 1 <= Dist(x, t)
    BY <2>2, <2>3
  <2>5. PICK a \in Nat : /\ 1 <= a /\ a <= Dist(x, t) /\ Before(t, a) \in c
                         /\ \A j \in Nat : 1 <= j /\ j < a => Before(t, j) \notin c
    <3>1. Before(t, Dist(x, t)) \in c
      BY <2>1, <2>3
    <3> HIDE DEF c
    <3>2. QED
      BY <2>2, <2>3, <2>4, <3>1, NearestBehind
  <2> DEFINE i == a - 1
             s == Before(t, i)
             w == [start |-> s, len |-> RunFrom(b, s)]
  <2>6. i \in Nat /\ i + 1 = a /\ i < a /\ i < RoundSlots /\ a < RoundSlots
    BY <1>1, <2>3, <2>5
  <2> HIDE DEF i
  <2>7. \A j \in Nat : j < a => Before(t, j) \in b
    <3>1. TAKE j \in Nat
    <3>2. HAVE j < a
    <3>3. j <= RoundSlots
      BY <1>1, <2>6, <3>2
    <3>4. Before(t, j) \in RSlot
      BY <2>2, <3>3, BeforeIs
    <3>5. j = 0 \/ 1 <= j
      OBVIOUS
    <3>6. QED
      BY <2>3, <2>5, <3>2, <3>4, <3>5
  <2>8. s \in b /\ s \in RSlot
    BY <1>1, <2>6, <2>7
  <2>9. Back(s) \notin b
    <3>1. 1 \in Nat /\ i + 1 <= RoundSlots
      BY <1>1, <2>6
    <3>2. Before(s, 1) = Before(t, a)
      BY <2>2, <2>6, <3>1, Walks
    <3>3. QED
      BY <2>5, <2>8, <3>2, BackIs
  <2>10. \A j \in Nat : j <= i => After(s, j) = Before(t, i - j)
    <3>1. TAKE j \in Nat
    <3>2. HAVE j <= i
    <3>3. i - j \in Nat /\ j + (i - j) = i /\ j + (i - j) <= RoundSlots
      BY <1>1, <2>6, <3>2
    <3>4. After(Before(t, j + (i - j)), j) = Before(t, i - j)
      BY <2>2, <3>3, Walks
    <3>5. QED
      BY <3>3, <3>4
  <2>11. i < RunFrom(b, s)
    <3> DEFINE r == RunFrom(b, s)
    <3>1. r \in Nat /\ r < RoundSlots /\ After(s, r) \notin b
      BY <2>8, RunIsWindow, RunOf
    <3> HIDE DEF r
    <3>2. ASSUME r <= i PROVE FALSE
      <4>1. i - r \in Nat /\ i - r < a
        BY <2>6, <3>1, <3>2
      <4>2. QED
        BY <2>7, <2>10, <3>1, <3>2, <4>1
    <3>3. QED
      BY <2>6, <3>1, <3>2 DEF r
  <2>12. w \in RunsOf(b)
    BY <2>8, <2>9 DEF RunsOf
  <2>13. After(s, i) = t
    <3>1. i <= i /\ i - i = 0
      BY <2>6
    <3>2. QED
      BY <2>3, <2>6, <2>10, <3>1
  <2>14. After(w.start, i) \in Covers(w)
    <3>1. w.start = s /\ w.len = RunFrom(b, s)
      OBVIOUS
    <3> HIDE DEF w, s
    <3>2. i < w.len
      BY <2>11, <3>1
    <3>3. IsWindow(w)
      BY <1>2, <2>12
    <3>4. QED
      BY <2>6, <3>2, <3>3, CoversIs
  <2>15. w.start = s
    OBVIOUS
  <2> HIDE DEF w, s
  <2>16. QED
    BY <2>12, <2>13, <2>14, <2>15
<1>6. ASSUME NEW v \in RunsOf(b), NEW w \in RunsOf(b), NEW t \in Covers(v), t \in Covers(w),
             Dist(w.start, t) < Dist(v.start, t)
      PROVE  FALSE
  <2> DEFINE i == Dist(v.start, t)
             j == Dist(w.start, t)
             k == i - j - 1
  <2>1. t \in RSlot /\ i < v.len /\ j < w.len
    BY <1>2, <1>6, CoversIs
  <2>2. /\ i \in Nat /\ i < RoundSlots /\ After(v.start, i) = t
        /\ j \in Nat /\ Before(t, j) = w.start
    BY <1>2, <2>1, DistIs
  <2>3. j < i
    BY <1>6
  <2> HIDE DEF i, j
  <2>4. v.len \in Nat /\ w.len \in Nat /\ v.start \in RSlot /\ w.start \in RSlot
    BY <1>2
  <2>5. /\ k \in Nat /\ k < v.len /\ k + 1 \in Nat /\ j + (k + 1) = i /\ k + 1 <= RoundSlots
        /\ 1 + k = k + 1 /\ i <= RoundSlots /\ 1 \in Nat
    BY <1>1, <2>1, <2>2, <2>3, <2>4
  <2> HIDE DEF k
  <2>6. w.start = After(v.start, k + 1)
    <3>1. Before(After(v.start, j + (k + 1)), j) = After(v.start, k + 1)
      BY <2>2, <2>4, <2>5, Walks
    <3>2. QED
      BY <2>2, <2>5, <3>1
  <2>7. Before(w.start, 1) = After(v.start, k)
    <3>1. Before(After(v.start, 1 + k), 1) = After(v.start, k)
      BY <2>4, <2>5, Walks
    <3>2. QED
      BY <2>5, <2>6, <3>1
  <2>8. Back(w.start) \in b
    BY <1>3, <2>4, <2>5, <2>7, BackIs
  <2>9. QED
    BY <1>2, <2>8
<1>7. ASSUME NEW v \in RunsOf(b), NEW w \in RunsOf(b), NEW t \in Covers(v), t \in Covers(w)
      PROVE  v = w
  <2>1. ~(Dist(w.start, t) < Dist(v.start, t)) /\ ~(Dist(v.start, t) < Dist(w.start, t))
    BY <1>6, <1>7
  <2>2. t \in RSlot /\ v.start \in RSlot /\ w.start \in RSlot
    BY <1>2, CoversIs
  <2>3. /\ Dist(v.start, t) \in Nat /\ Before(t, Dist(v.start, t)) = v.start
        /\ Dist(w.start, t) \in Nat /\ Before(t, Dist(w.start, t)) = w.start
    BY <2>2, DistIs
  <2>4. \A p, q \in Nat : ~(p < q) /\ ~(q < p) => p = q
    OBVIOUS
  <2>5. v.start = w.start
    BY <2>1, <2>3, <2>4
  <2>6. QED
    BY <1>2, <2>5
<1>8. QED
  BY <1>2, <1>3, <1>4, <1>5, <1>7

\* What almanacUsualWindows lists, however the usual slots lie.
LEMMA WindowsExact ==
  ASSUME NEW u \in SUBSET RSlot
  PROVE  /\ \A w \in almanacUsualWindows(u) : IsWindow(w)
         /\ \A t : t \in Shown(u) <=> \E w \in almanacUsualWindows(u) : t \in Covers(w)
         /\ \A w \in almanacUsualWindows(u) : w.len < RoundSlots =>
               Back(w.start) \notin Shown(u) /\ (w.start + w.len) % RoundSlots \notin Shown(u)
         /\ \A v, w \in almanacUsualWindows(u) : \A t \in Covers(v) : t \in Covers(w) => v = w
<1> DEFINE b == Bridged(u)
           all == [start |-> 0, len |-> RoundSlots]
<1>1. b = Shown(u) /\ b \subseteq RSlot /\ u \subseteq b
  BY BridgedIsShown DEF Bridged
<1>2. CASE u = {}
  <2>1. almanacUsualWindows(u) = {}
    BY <1>2 DEF almanacUsualWindows
  <2>2. Shown(u) = {}
    <3>1. \A s : ~ShortGap(u, s)
      BY <1>2 DEF ShortGap
    <3>2. QED
      BY <1>2, <3>1 DEF Shown
  <2>3. QED
    BY <2>1, <2>2
<1>3. CASE u # {} /\ b = RSlot
  <2>1. almanacUsualWindows(u) = {all}
    BY <1>3 DEF almanacUsualWindows
  <2>2. all.start = 0 /\ all.len = RoundSlots /\ RoundSlots \in Nat \ {0}
    BY RoundTypes
  <2>3. IsWindow(all)
    <3>1. 0 \in RSlot /\ RoundSlots \in 1 .. RoundSlots
      BY <2>2, RoundTypes
    <3>2. QED
      BY <3>1 DEF IsWindow
  <2> HIDE DEF all
  <2>4. \A t : t \in Covers(all) <=> t \in RSlot
    <3>1. \A t \in RSlot : Dist(all.start, t) < all.len
      BY <2>2, <2>3, DistIs DEF IsWindow
    <3>2. QED
      BY <2>3, <3>1, CoversIs
  <2>5. ~(all.len < RoundSlots)
    BY <2>2
  <2>6. QED
    BY <1>1, <1>3, <2>1, <2>3, <2>4, <2>5
<1>4. CASE u # {} /\ b # RSlot
  <2>1. almanacUsualWindows(u) = RunsOf(b)
    BY <1>4 DEF almanacUsualWindows, RunsOf
  <2> HIDE DEF b
  <2>2. QED
    BY <1>1, <1>4, <2>1, RunsExact
<1>5. QED
  BY <1>2, <1>3, <1>4

\* The agenda: the windows that contain the slot now, or start within the look-ahead.
LEMMA AgendaExact ==
  ASSUME NEW u \in SUBSET RSlot, NEW now \in RSlot
  PROVE  /\ Cardinality({e \in almanacAgenda(u, now) : e.ongoing}) = (IF now \in Shown(u) THEN 1 ELSE 0)
         /\ \A i \in 0 .. LookAhead : (now + i) % RoundSlots \in Shown(u) =>
               \E e \in almanacAgenda(u, now) : (now + i) % RoundSlots \in Covers(e.w)
<1> DEFINE W == almanacUsualWindows(u)
           entry(w) == almanacAgendaEntryFor(w, now)
           on == {e \in almanacAgenda(u, now) : e.ongoing}
<1>1. /\ \A w \in W : IsWindow(w)
      /\ \A t : t \in Shown(u) <=> \E w \in W : t \in Covers(w)
      /\ \A v, w \in W : \A t \in Covers(v) : t \in Covers(w) => v = w
  BY WindowsExact
<1>2. \A w \in W : contains(w, now) <=> now \in Covers(w)
  BY <1>1, CoversIs
<1>3. \A w : entry(w).w = w /\ entry(w).ongoing = contains(w, now)
             /\ entry(w).startsIn = IF contains(w, now) THEN 0 ELSE (w.start - now + RoundSlots) % RoundSlots
  BY DEF almanacAgendaEntryFor
<1>4. \A e : e \in almanacAgenda(u, now) <=> \E w \in W : e = entry(w) /\ (e.ongoing \/ e.startsIn <= LookAhead)
  BY DEF almanacAgenda
<1> HIDE DEF W, entry
<1>5. \A e : e \in on <=> \E w \in W : e = entry(w) /\ now \in Covers(w)
  BY <1>2, <1>3, <1>4
<1>6. Cardinality(on) = (IF now \in Shown(u) THEN 1 ELSE 0)
  <2> HIDE DEF on
  <2>1. CASE now \in Shown(u)
    <3>1. PICK w \in W : now \in Covers(w)
      BY <1>1, <2>1
    <3>2. on = {entry(w)}
      BY <1>1, <1>5, <3>1
    <3>3. QED
      BY <2>1, <3>2, FS_Singleton
  <2>2. CASE now \notin Shown(u)
    <3>1. on = {}
      BY <1>1, <1>5, <2>2
    <3>2. QED
      BY <2>2, <3>1, FS_EmptySet
  <2>3. QED
    BY <2>1, <2>2
<1>7. ASSUME NEW i \in 0 .. LookAhead, (now + i) % RoundSlots \in Shown(u)
      PROVE  \E e \in almanacAgenda(u, now) : (now + i) % RoundSlots \in Covers(e.w)
  <2> DEFINE t == (now + i) % RoundSlots
  <2>1. /\ RoundSlots \in Nat \ {0} /\ LookAhead \in Nat /\ LookAhead < RoundSlots
        /\ RSlot = {s \in Nat : s < RoundSlots}
    BY RoundTypes
  <2>2. i \in Nat /\ i < RoundSlots /\ i <= RoundSlots /\ i <= LookAhead
    BY <2>1
  <2>3. t = After(now, i) /\ t \in RSlot
    BY <2>2, AfterIs
  <2>4. PICK w \in W : t \in Covers(w)
    BY <1>1, <1>7
  <2> HIDE DEF t
  <2>5. /\ w.start \in RSlot /\ w.len \in Nat /\ w.len <= RoundSlots
        /\ Dist(w.start, t) < w.len
    <3>1. IsWindow(w)
      BY <1>1
    <3>2. w.start \in RSlot /\ w.len \in Nat /\ w.len <= RoundSlots
      BY <2>1, <3>1 DEF IsWindow
    <3>3. QED
      BY <2>4, <3>1, <3>2, CoversIs
  <2>6. now \in Covers(w) \/ Dist(now, w.start) <= i
    <3>1. ~(Dist(now, w.start) <= i) => Dist(w.start, now) < w.len
      BY <2>1, <2>2, <2>3, <2>5 DEF Dist, After
    <3>2. IsWindow(w)
      BY <1>1
    <3>3. QED
      BY <3>1, <3>2, CoversIs
  <2>7. (w.start - now + RoundSlots) % RoundSlots = Dist(now, w.start) /\ Dist(now, w.start) \in Nat
    BY <2>5, DistIs
  <2>8. entry(w).ongoing \/ entry(w).startsIn <= LookAhead
    <3>1. Dist(now, w.start) <= i => Dist(now, w.start) <= LookAhead
      BY <2>1, <2>2, <2>7
    <3>2. QED
      BY <1>2, <1>3, <2>6, <2>7, <3>1
  <2>9. entry(w) \in almanacAgenda(u, now)
    BY <1>4, <2>8
  <2>10. entry(w).w = w
    BY <1>3
  <2>11. QED
    BY <2>4, <2>9, <2>10 DEF t
<1>8. QED
  BY <1>6, <1>7

\* The windows and the agenda are what almanacUsualWindows and almanacAgenda make of
\* the usual slots and the slot now.
RoundInv ==
    /\ round.u \in SUBSET RSlot /\ round.now \in RSlot
    /\ round.out # <<>> => round.out = <<almanacUsualWindows(round.u), almanacAgenda(round.u, round.now)>>

LEMMA RoundInvShows == RoundInv => UsualWindowsExact
<1>1. SUFFICES ASSUME RoundInv, round.out # <<>> PROVE UsualWindowsExact
  BY DEF UsualWindowsExact
<1> DEFINE u == round.u
           now == round.now
<1>2. /\ u \in SUBSET RSlot /\ now \in RSlot
      /\ round.out[1] = almanacUsualWindows(u) /\ round.out[2] = almanacAgenda(u, now)
  BY <1>1 DEF RoundInv
<1> HIDE DEF u, now
<1>3. /\ UNION {Covers(w) : w \in round.out[1]} = Shown(u)
      /\ \A w \in round.out[1] : w.len < RoundSlots =>
            Back(w.start) \notin Shown(u) /\ (w.start + w.len) % RoundSlots \notin Shown(u)
      /\ \A v, w \in round.out[1] : v # w => Covers(v) \cap Covers(w) = {}
  <2>1. /\ \A t : t \in Shown(u) <=> \E w \in round.out[1] : t \in Covers(w)
        /\ \A w \in round.out[1] : w.len < RoundSlots =>
              Back(w.start) \notin Shown(u) /\ (w.start + w.len) % RoundSlots \notin Shown(u)
        /\ \A v, w \in round.out[1] : \A t \in Covers(v) : t \in Covers(w) => v = w
    BY <1>2, WindowsExact
  <2>2. UNION {Covers(w) : w \in round.out[1]} = Shown(u)
    BY <2>1
  <2>3. QED
    BY <2>1, <2>2
<1>4. /\ Cardinality({e \in round.out[2] : e.ongoing}) = (IF now \in Shown(u) THEN 1 ELSE 0)
      /\ \A i \in 0 .. LookAhead : (now + i) % RoundSlots \in Shown(u) =>
            \E e \in round.out[2] : (now + i) % RoundSlots \in Covers(e.w)
  BY <1>2, AgendaExact
<1>5. UsualWindowsExact
  BY <1>3, <1>4 DEF UsualWindowsExact, Covers, Shown, ShortGap, u, now
<1>6. QED
  BY <1>5

\* The invariant holds of every usual slots and slot now, and both steps keep it.
LEMMA RoundInductive == LaneSpec => []RoundInv
<1>1. LaneInit => RoundInv
  <2>1. SUFFICES ASSUME LaneInit PROVE RoundInv
    OBVIOUS
  <2>2. CASE round = NoRound
    <3>1. 0 \in RSlot
      BY RoundTypes
    <3>2. QED
      BY <2>2, <3>1 DEF RoundInv, NoRound
  <2>3. CASE \E u \in SUBSET RSlot, s \in RSlot : round = [u |-> u, now |-> s, out |-> <<>>]
    BY <2>3 DEF RoundInv
  <2>4. QED
    BY <2>1, <2>2, <2>3 DEF LaneInit
<1>2. RoundInv /\ [LaneNext]_laneVars => RoundInv'
  <2>1. SUFFICES ASSUME RoundInv, [LaneNext]_laneVars PROVE RoundInv'
    OBVIOUS
  <2>2. CASE ComputeWindows
    <3> DEFINE out == <<almanacUsualWindows(round.u), almanacAgenda(round.u, round.now)>>
    <3>1. round' = [round EXCEPT !.out = out]
      BY <2>2 DEF ComputeWindows
    <3> HIDE DEF out
    <3>2. /\ round'.u = round.u /\ round'.now = round.now
          /\ (round'.out = out \/ round'.out = round.out)
      BY <3>1
    <3>3. QED
      BY <2>1, <3>2 DEF RoundInv, out
  <2>3. CASE ComputeLane \/ UNCHANGED laneVars
    BY <2>1, <2>3 DEF ComputeLane, laneVars, RoundInv
  <2>4. QED
    BY <2>1, <2>2, <2>3 DEF LaneNext
<1>3. QED
  BY <1>1, <1>2, PTL DEF LaneSpec

\* almanacUsualWindows and almanacAgenda, for every set of usual slots and every slot
\* now: the windows are the maximal runs around midnight, the agenda names the one
\* that is on and those that come up.
THEOREM WindowsCorrect == LaneSpec => []UsualWindowsExact
BY RoundInductive, RoundInvShows, PTL

(***************************************************************************)
(* The stored rows of the season table.                                    *)
(***************************************************************************)
\* Induction over the naturals, by the smallest number left out.
LEMMA EveryNatural ==
  ASSUME NEW G, 0 \in G, \A k \in Nat : k \in G => k + 1 \in G
  PROVE  Nat \subseteq G
<1> DEFINE T == Nat \ G
<1>1. SUFFICES ASSUME T # {} PROVE FALSE
  OBVIOUS
<1>2. PICK x \in T : \A y \in T : x <= y
  BY <1>1, LeastOf
<1>3. x \in Nat /\ x # 0 /\ x \notin G
  BY <1>2
<1>4. x - 1 \in Nat /\ ~(x <= x - 1) /\ (x - 1) + 1 = x
  BY <1>3
<1>5. x - 1 \in G
  BY <1>2, <1>4
<1>6. QED
  BY <1>3, <1>4, <1>5

RowCells == [count : Nat, hist : [1 .. Bins -> Nat]]
Rows == [Pos -> RowCells]

LEMMA RowTypes ==
  /\ Bins \in Nat \ {0} /\ VarintBase \in Nat /\ VarintBase > 1 /\ Len0 \in Nat
  /\ RowDaysN \in Nat \ {0} /\ RowSlots \in Nat \ {0}
  /\ CellChoices \subseteq RowCells /\ Zero \in RowCells
  /\ Pos = {p \in Nat : p < Len0}
<1>1. /\ Bins \in Nat \ {0} /\ VarintBase \in Nat /\ VarintBase > 1
      /\ RowDaysN \in Nat \ {0} /\ RowSlots \in Nat \ {0}
  BY SparseConstants
<1>2. CellChoices \subseteq RowCells
  BY SparseConstants DEF RowCells
<1>3. \A x, y \in Nat : x * y \in Nat
  OBVIOUS
<1>4. Len0 \in Nat
  BY <1>1, <1>3 DEF Len0
<1>5. Pos = {p \in Nat : p < Len0}
  BY <1>4 DEF Pos
<1>6. Zero \in RowCells
  BY <1>1 DEF Zero, NoHist, RowCells
<1>7. QED
  BY <1>1, <1>2, <1>4, <1>5, <1>6

(***************************************************************************)
(* The recursions have a solution.                                         *)
(***************************************************************************)
\* One step of the SNR part.
PartBody(h, f, k) ==
    IF k > Bins THEN [mask |-> 0, used |-> <<>>]
    ELSE IF h[k] = 0 THEN [mask |-> 2 * f[k + 1].mask, used |-> f[k + 1].used]
    ELSE [mask |-> 2 * f[k + 1].mask + 1, used |-> <<h[k]>> \o f[k + 1].used]

LEMMA PartSolves ==
  ASSUME NEW h
  PROVE  \A k \in 1 .. Bins + 1 : SnrPart(h)[k] = PartBody(h, SnrPart(h), k)
<1> DEFINE P(f) == f = [k \in 1 .. Bins + 1 |-> PartBody(h, f, k)]
           Upto(n) == {k \in 1 .. Bins + 1 : k + n > Bins}
           G == {n \in Nat : \E g : \A k \in Upto(n) : g[k] = PartBody(h, g, k)}
<1>1. Bins \in Nat
  BY RowTypes
<1>same. ASSUME NEW f, NEW g, NEW k \in 1 .. Bins + 1, k <= Bins => f[k + 1] = g[k + 1]
      PROVE  PartBody(h, f, k) = PartBody(h, g, k)
  <2>1. k > Bins \/ f[k + 1] = g[k + 1]
    BY <1>1, <1>same
  <2>2. CASE k > Bins
    BY <2>2 DEF PartBody
  <2>3. CASE f[k + 1] = g[k + 1]
    BY <2>3 DEF PartBody
  <2>4. QED
    BY <2>1, <2>2, <2>3
<1>2. 0 \in G
  <2> DEFINE g == [k \in 1 .. Bins + 1 |-> [mask |-> 0, used |-> <<>>]]
  <2>1. \A k \in Upto(0) : k > Bins
    BY <1>1
  <2>2. \A k \in Upto(0) : g[k] = PartBody(h, g, k)
    BY <2>1 DEF PartBody
  <2>3. QED
    BY <2>2
<1>3. ASSUME NEW n \in Nat, n \in G PROVE n + 1 \in G
  <2>1. PICK g : \A k \in Upto(n) : g[k] = PartBody(h, g, k)
    BY <1>3
  <2> DEFINE e == [k \in 1 .. Bins + 1 |-> IF k \in Upto(n) THEN g[k] ELSE PartBody(h, g, k)]
  <2>2. ASSUME NEW k \in Upto(n + 1) PROVE e[k] = PartBody(h, e, k)
    <3>1. k \in 1 .. Bins + 1
      OBVIOUS
    <3>2. e[k] = PartBody(h, g, k)
      BY <2>1, <3>1
    <3>3. k <= Bins => k + 1 \in 1 .. Bins + 1 /\ k + 1 \in Upto(n)
      BY <1>1, <2>2
    <3>4. k <= Bins => e[k + 1] = g[k + 1]
      BY <3>3
    <3> HIDE DEF e, Upto
    <3>5. PartBody(h, e, k) = PartBody(h, g, k)
      BY <1>same, <3>1, <3>4
    <3>6. QED
      BY <3>2, <3>5
  <2> HIDE DEF e, Upto
  <2>3. QED
    BY <2>2
<1> HIDE DEF G
<1>4. Bins + 1 \in Nat /\ Bins + 1 \in G
  BY <1>1, <1>2, <1>3, EveryNatural
<1>5. PICK g : \A k \in Upto(Bins + 1) : g[k] = PartBody(h, g, k)
  BY <1>4 DEF G
<1> DEFINE e == [k \in 1 .. Bins + 1 |-> g[k]]
<1>6. \A k \in 1 .. Bins + 1 : k \in Upto(Bins + 1) /\ e[k] = g[k]
  BY <1>1
<1> HIDE DEF Upto
<1>7. \A k \in 1 .. Bins + 1 : PartBody(h, e, k) = PartBody(h, g, k)
  <2>1. \A k \in 1 .. Bins + 1 : k <= Bins => k + 1 \in 1 .. Bins + 1
    BY <1>1
  <2>2. \A k \in 1 .. Bins + 1 : k <= Bins => e[k + 1] = g[k + 1]
    BY <1>6, <2>1
  <2> HIDE DEF e
  <2>3. QED
    BY <1>same, <2>2
<1>8. P(e)
  BY <1>5, <1>6, <1>7
<1>9. P(CHOOSE f : P(f))
  BY <1>8
<1>10. SnrPart(h) = CHOOSE f : P(f)
  BY DEF SnrPart, PartBody
<1>11. QED
  BY <1>9, <1>10

\* A mask shifted by k bits.
LEMMA ShiftSolves ==
  ASSUME NEW m
  PROVE  /\ Shifted(m)[0] = m
         /\ \A k \in 0 .. Bins : k # 0 => Shifted(m)[k] = Shifted(m)[k - 1] \div 2
<1> DEFINE B(f, k) == IF k = 0 THEN m ELSE f[k - 1] \div 2
           P(f) == f = [k \in 0 .. Bins |-> B(f, k)]
           Upto(n) == {k \in 0 .. Bins : k <= n}
           G == {n \in Nat : \E g : \A k \in Upto(n) : g[k] = B(g, k)}
<1>1. Bins \in Nat
  BY RowTypes
<1>2. 0 \in G
  <2> DEFINE g == [k \in 0 .. Bins |-> m]
  <2>1. \A k \in Upto(0) : k = 0 /\ g[k] = m
    BY <1>1
  <2>2. \A k \in Upto(0) : g[k] = B(g, k)
    BY <2>1
  <2> HIDE DEF g, B, Upto
  <2>3. QED
    BY <2>2
<1>3. ASSUME NEW n \in Nat, n \in G PROVE n + 1 \in G
  <2>1. PICK g : \A k \in Upto(n) : g[k] = B(g, k)
    BY <1>3
  <2> DEFINE e == [k \in 0 .. Bins |-> IF k \in Upto(n) THEN g[k] ELSE B(g, k)]
  <2>2. ASSUME NEW k \in Upto(n + 1) PROVE e[k] = B(e, k)
    <3>1. k \in 0 .. Bins
      OBVIOUS
    <3>2. e[k] = B(g, k)
      BY <2>1, <3>1
    <3>3. k # 0 => k - 1 \in 0 .. Bins /\ k - 1 \in Upto(n)
      BY <1>1, <2>2
    <3>4. k # 0 => e[k - 1] = g[k - 1]
      BY <3>3
    <3> HIDE DEF e, Upto
    <3>5. QED
      BY <3>2, <3>4
  <2> HIDE DEF e, Upto, B
  <2>3. QED
    BY <2>2
<1> HIDE DEF G
<1>4. Bins \in G
  BY <1>1, <1>2, <1>3, EveryNatural
<1>5. PICK g : \A k \in Upto(Bins) : g[k] = B(g, k)
  BY <1>4 DEF G
<1> DEFINE e == [k \in 0 .. Bins |-> g[k]]
<1>6. \A k \in 0 .. Bins : k \in Upto(Bins) /\ e[k] = g[k]
  BY <1>1
<1> HIDE DEF Upto
<1>7. \A k \in 0 .. Bins : k # 0 => k - 1 \in 0 .. Bins
  BY <1>1
<1>8. \A k \in 0 .. Bins : B(e, k) = B(g, k)
  BY <1>6, <1>7
<1>9. P(e)
  BY <1>5, <1>6, <1>8
<1>10. P(CHOOSE f : P(f))
  BY <1>9
<1>11. Shifted(m) = CHOOSE f : P(f)
  BY DEF Shifted
<1>12. 0 \in 0 .. Bins
  BY <1>1
<1>13. QED
  BY <1>10, <1>11, <1>12

\* One step of the loop over the positions.
Walk == (0 .. Len0) \X (-1 .. Len0 - 1)
EncBody(r, v, f, x) ==
    IF x[1] = Len0 THEN <<>>
    ELSE IF r[x[1]].count = 0 THEN f[<<x[1] + 1, x[2]>>]
    ELSE EncodeCell(r[x[1]], x[1] - x[2] - 1, v) \o f[<<x[1] + 1, x[1]>>]

LEMMA EncSolves ==
  ASSUME NEW r, NEW v
  PROVE  \A x \in Walk : Encoded(r, v)[x] = EncBody(r, v, Encoded(r, v), x)
<1> DEFINE P(f) == f = [x \in Walk |-> EncBody(r, v, f, x)]
           Upto(n) == {x \in Walk : x[1] + n >= Len0}
           G == {n \in Nat : \E g : \A x \in Upto(n) : g[x] = EncBody(r, v, g, x)}
<1>1. Len0 \in Nat
  BY RowTypes
<1>2. \A x \in Walk : /\ x[1] \in 0 .. Len0 /\ x[2] \in -1 .. Len0 - 1
                      /\ x[1] # Len0 => <<x[1] + 1, x[2]>> \in Walk /\ <<x[1] + 1, x[1]>> \in Walk
  BY <1>1 DEF Walk
<1>3. 0 \in G
  <2> DEFINE g == [x \in Walk |-> <<>>]
  <2>1. \A x \in Upto(0) : x[1] = Len0 /\ x \in Walk
    <3>1. \A k \in 0 .. Len0 : k + 0 >= Len0 => k = Len0
      BY <1>1
    <3>2. QED
      BY <1>2, <3>1
  <2>2. \A x \in Upto(0) : g[x] = EncBody(r, v, g, x)
    BY <2>1 DEF EncBody
  <2>3. QED
    BY <2>2
<1>4. ASSUME NEW f, NEW g, NEW x \in Walk,
             x[1] # Len0 => f[<<x[1] + 1, x[2]>>] = g[<<x[1] + 1, x[2]>>] /\ f[<<x[1] + 1, x[1]>>] = g[<<x[1] + 1, x[1]>>]
      PROVE  EncBody(r, v, f, x) = EncBody(r, v, g, x)
  BY <1>4 DEF EncBody
<1>5. ASSUME NEW n \in Nat, n \in G PROVE n + 1 \in G
  <2>1. PICK g : \A x \in Upto(n) : g[x] = EncBody(r, v, g, x)
    BY <1>5
  <2> DEFINE e == [x \in Walk |-> IF x \in Upto(n) THEN g[x] ELSE EncBody(r, v, g, x)]
  <2>2. ASSUME NEW x \in Upto(n + 1) PROVE e[x] = EncBody(r, v, e, x)
    <3>1. x \in Walk
      OBVIOUS
    <3>2. e[x] = EncBody(r, v, g, x)
      BY <2>1, <3>1
    <3>3. x[1] # Len0 => <<x[1] + 1, x[2]>> \in Upto(n) /\ <<x[1] + 1, x[1]>> \in Upto(n)
      BY <1>1, <1>2, <2>2
    <3>4. \A y \in Upto(n) : e[y] = g[y]
      OBVIOUS
    <3> HIDE DEF e, Upto
    <3>5. QED
      BY <1>4, <3>1, <3>2, <3>3, <3>4
  <2> HIDE DEF e, Upto
  <2>3. QED
    BY <2>2
<1> HIDE DEF G
<1>6. Len0 \in G
  BY <1>1, <1>3, <1>5, EveryNatural
<1>7. PICK g : \A x \in Upto(Len0) : g[x] = EncBody(r, v, g, x)
  BY <1>6 DEF G
<1> DEFINE e == [x \in Walk |-> g[x]]
<1>8. \A x \in Walk : x \in Upto(Len0) /\ e[x] = g[x]
  <2>1. \A k \in 0 .. Len0 : k + Len0 >= Len0
    BY <1>1
  <2>2. QED
    BY <1>2, <2>1
<1> HIDE DEF Upto
<1>9. \A x \in Walk : EncBody(r, v, e, x) = EncBody(r, v, g, x)
  BY <1>2, <1>4, <1>8
<1>10. P(e)
  BY <1>7, <1>8, <1>9
<1>11. P(CHOOSE f : P(f))
  BY <1>10
<1>12. Encoded(r, v) = CHOOSE f : P(f)
  BY DEF Encoded, EncBody, Walk
<1>13. QED
  BY <1>11, <1>12

\* One step of the loop over the bytes.
RowReads(b) == (1 .. Len(b) + 1) \X (-1 .. Len0 - 1)
CountByte(b, x) == x[1] + Digits(b, x[1])
CellPos(b, x) == x[2] + 1 + GapAt(b, x[1])
BadCell(b, x) == ~GapComplete(b, x[1]) \/ CellPos(b, x) >= Len0 \/ ~CellWhole(b, CountByte(b, x))
NextRead(b, x) == <<NextCell(b, CountByte(b, x)), CellPos(b, x)>>
ReadBody(b, f, x) ==
    IF x[1] > Len(b) THEN [ok |-> TRUE, cells |-> {}]
    ELSE IF BadCell(b, x) THEN Malformed
    ELSE [ok |-> f[NextRead(b, x)].ok,
          cells |-> {[pos |-> CellPos(b, x), count |-> b[CountByte(b, x)], hist |-> HistAt(b, CountByte(b, x))]}
                        \cup f[NextRead(b, x)].cells]

LEMMA BinsCount ==
  ASSUME NEW m
  PROVE  IsFiniteSet(BinsOf(m)) /\ Cardinality(BinsOf(m)) \in Nat
<1>1. Bins \in Nat
  BY RowTypes
<1>2. IsFiniteSet(1 .. Bins)
  <2>1. 1 \in Int /\ Bins \in Int
    BY <1>1
  <2>2. QED
    BY <2>1, FS_Interval
<1>3. BinsOf(m) \subseteq 1 .. Bins
  BY DEF BinsOf
<1>4. QED
  BY <1>2, <1>3, FS_Subset, FS_CardinalityType

LEMMA NextIs ==
  ASSUME NEW b, NEW c \in Nat
  PROVE  NextCell(b, c) \in Nat /\ NextCell(b, c) > c
<1>1. Cardinality(BinsOf(b[c + 1])) \in Nat
  BY BinsCount
<1>2. \A k \in Nat : c + 2 + k \in Nat /\ c + 2 + k > c
  OBVIOUS
<1>3. c + 1 \in Nat /\ c + 1 > c /\ c + 2 \in Nat /\ c + 2 > c
  OBVIOUS
<1>4. \/ NextCell(b, c) = c + 1 \/ NextCell(b, c) = c + 2
      \/ NextCell(b, c) = c + 2 + Cardinality(BinsOf(b[c + 1]))
  BY DEF NextCell
<1>5. QED
  BY <1>1, <1>2, <1>3, <1>4

\* A cell that is read takes the reading on, within the row.
LEMMA ReadsOn ==
  ASSUME NEW b \in Seq(Nat), NEW x \in RowReads(b), x[1] <= Len(b), ~BadCell(b, x)
  PROVE  NextRead(b, x) \in RowReads(b) /\ NextRead(b, x)[1] > x[1]
<1> DEFINE i == x[1]
           c == CountByte(b, x)
           n == NextCell(b, c)
           p == CellPos(b, x)
<1>1. Len(b) \in Nat /\ Len0 \in Nat /\ VarintBase \in Nat /\ i \in 1 .. Len(b) /\ x[2] \in -1 .. Len0 - 1
  BY RowTypes DEF RowReads
<1>2. \A j \in 1 .. Len(b) : b[j] \in Nat
  OBVIOUS
<1>3. c \in Nat /\ c > i
  BY <1>1 DEF CountByte, Digits
<1>4. n \in Nat /\ n > c
  BY <1>3, NextIs
<1>5. n - 1 <= Len(b) /\ ~(p >= Len0) /\ GapComplete(b, i)
  BY DEF BadCell, CellWhole
<1>6. GapAt(b, i) \in Nat
  <2>1. CASE b[i] < VarintBase
    BY <1>1, <1>2, <2>1 DEF GapAt
  <2>2. CASE ~(b[i] < VarintBase)
    <3>1. i < Len(b)
      BY <1>5, <2>2 DEF GapComplete
    <3>2. i + 1 \in 1 .. Len(b)
      BY <1>1, <3>1
    <3>8. b[i] \in Nat /\ b[i + 1] \in Nat
      BY <1>1, <1>2, <3>2
    <3>3. \A y, z \in Nat : y * z \in Nat
      OBVIOUS
    <3>4. VarintBase * b[i + 1] \in Nat
      BY <1>1, <3>8, <3>3
    <3>9. \A y, z \in Nat : ~(y < z) => y - z \in Nat
      OBVIOUS
    <3>5. b[i] - VarintBase \in Nat
      BY <1>1, <2>2, <3>8, <3>9
    <3>6. GapAt(b, i) = (b[i] - VarintBase) + VarintBase * b[i + 1]
      BY <2>2 DEF GapAt
    <3>7. QED
      BY <3>4, <3>5, <3>6
  <2>3. QED
    BY <2>1, <2>2
<1>7. p \in Int /\ p >= 0
  BY <1>1, <1>6 DEF CellPos
<1>8. p \in -1 .. Len0 - 1
  BY <1>1, <1>5, <1>7
<1> HIDE DEF n, p, c, i
<1>9. n \in 1 .. Len(b) + 1 /\ n > i
  BY <1>1, <1>3, <1>4, <1>5
<1>10. NextRead(b, x) = <<n, p>>
  BY DEF NextRead, n, p, c
<1>11. QED
  BY <1>8, <1>9, <1>10 DEF RowReads, i

LEMMA ReadSolves ==
  ASSUME NEW b \in Seq(Nat)
  PROVE  \A x \in RowReads(b) : CellsFrom(b)[x] = ReadBody(b, CellsFrom(b), x)
<1> DEFINE P(f) == f = [x \in RowReads(b) |-> ReadBody(b, f, x)]
           Upto(n) == {x \in RowReads(b) : x[1] + n > Len(b)}
           G == {n \in Nat : \E g : \A x \in Upto(n) : g[x] = ReadBody(b, g, x)}
<1>1. Len(b) \in Nat /\ \A x \in RowReads(b) : x[1] \in 1 .. Len(b) + 1
  BY DEF RowReads
<1>2. 0 \in G
  <2> DEFINE g == [x \in RowReads(b) |-> [ok |-> TRUE, cells |-> {}]]
  <2>1. \A k \in 1 .. Len(b) + 1 : k + 0 > Len(b) => k > Len(b)
    BY <1>1
  <2>2. \A x \in Upto(0) : x[1] > Len(b) /\ x \in RowReads(b)
    BY <1>1, <2>1
  <2>3. \A x \in Upto(0) : g[x] = ReadBody(b, g, x)
    BY <2>2 DEF ReadBody
  <2> HIDE DEF g, Upto
  <2>4. QED
    BY <2>3
<1>3. ASSUME NEW n \in Nat, n \in G PROVE n + 1 \in G
  <2>1. PICK g : \A x \in Upto(n) : g[x] = ReadBody(b, g, x)
    BY <1>3
  <2> DEFINE e == [x \in RowReads(b) |-> IF x \in Upto(n) THEN g[x] ELSE ReadBody(b, g, x)]
  <2>2. ASSUME NEW x \in Upto(n + 1) PROVE e[x] = ReadBody(b, e, x)
    <3>1. x \in RowReads(b) /\ x[1] + (n + 1) > Len(b)
      OBVIOUS
    <3>2. e[x] = ReadBody(b, g, x)
      BY <2>1, <3>1
    <3>3. ASSUME x[1] <= Len(b), ~BadCell(b, x) PROVE NextRead(b, x) \in Upto(n)
      <4>1. NextRead(b, x) \in RowReads(b) /\ NextRead(b, x)[1] > x[1]
        BY <3>1, <3>3, ReadsOn
      <4>2. NextRead(b, x)[1] \in Nat /\ x[1] \in Nat
        BY <1>1, <3>1, <4>1
      <4>3. NextRead(b, x)[1] + n > Len(b)
        BY <1>1, <3>1, <4>1, <4>2
      <4>4. QED
        BY <4>1, <4>3
    <3>4. \A y \in Upto(n) : e[y] = g[y]
      OBVIOUS
    <3>5. x[1] <= Len(b) \/ x[1] > Len(b)
      BY <1>1, <3>1
    <3> HIDE DEF e, Upto
    <3>6. ReadBody(b, e, x) = ReadBody(b, g, x)
      <4>1. CASE x[1] > Len(b)
        BY <4>1 DEF ReadBody
      <4>2. CASE BadCell(b, x)
        BY <4>2 DEF ReadBody
      <4>3. CASE x[1] <= Len(b) /\ ~BadCell(b, x)
        <5>1. e[NextRead(b, x)] = g[NextRead(b, x)]
          BY <3>3, <3>4, <4>3
        <5>2. QED
          BY <5>1 DEF ReadBody
      <4>4. QED
        BY <3>5, <4>1, <4>2, <4>3
    <3>7. QED
      BY <3>2, <3>6
  <2> HIDE DEF e, Upto
  <2>3. QED
    BY <2>2
<1> HIDE DEF G
<1>4. Len(b) \in G
  BY <1>1, <1>2, <1>3, EveryNatural
<1>5. PICK g : \A x \in Upto(Len(b)) : g[x] = ReadBody(b, g, x)
  BY <1>4 DEF G
<1> DEFINE e == [x \in RowReads(b) |-> g[x]]
<1>6. \A x \in RowReads(b) : x \in Upto(Len(b)) /\ e[x] = g[x]
  <2>1. \A k \in 1 .. Len(b) + 1 : k + Len(b) > Len(b)
    BY <1>1
  <2>2. QED
    BY <1>1, <2>1
<1> HIDE DEF Upto
<1>7. ASSUME NEW x \in RowReads(b) PROVE ReadBody(b, e, x) = ReadBody(b, g, x)
  <2>1. x[1] <= Len(b) \/ x[1] > Len(b)
    BY <1>1
  <2>2. CASE x[1] > Len(b)
    BY <2>2 DEF ReadBody
  <2>3. CASE BadCell(b, x)
    BY <2>3 DEF ReadBody
  <2>4. CASE x[1] <= Len(b) /\ ~BadCell(b, x)
    <3>1. NextRead(b, x) \in RowReads(b)
      BY <2>4, ReadsOn
    <3>2. e[NextRead(b, x)] = g[NextRead(b, x)]
      BY <1>6, <3>1
    <3> HIDE DEF e
    <3>3. QED
      BY <3>2 DEF ReadBody
  <2>5. QED
    BY <2>1, <2>2, <2>3, <2>4
<1>8. P(e)
  BY <1>5, <1>6, <1>7
<1>9. P(CHOOSE f : P(f))
  BY <1>8
<1>10. CellsFrom(b) = CHOOSE f : P(f)
  BY DEF CellsFrom, ReadBody, BadCell, NextRead, CellPos, CountByte, RowReads
<1>11. QED
  BY <1>9, <1>10

(***************************************************************************)
(* A cell that was written is read as it was.                              *)
(***************************************************************************)
\* The bins in use from bin k on.
UsedFrom(h, k) == {j \in k .. Bins : h[j] # 0}

\* One more bin in front.
LEMMA UsedCount ==
  ASSUME NEW h, NEW k \in 1 .. Bins
  PROVE  /\ IsFiniteSet(UsedFrom(h, k + 1)) /\ Cardinality(UsedFrom(h, k + 1)) \in Nat
         /\ h[k] = 0 => UsedFrom(h, k) = UsedFrom(h, k + 1)
         /\ h[k] # 0 => /\ UsedFrom(h, k) = UsedFrom(h, k + 1) \cup {k} /\ k \notin UsedFrom(h, k + 1)
                        /\ Cardinality(UsedFrom(h, k)) = Cardinality(UsedFrom(h, k + 1)) + 1
         /\ \A j \in UsedFrom(h, k + 1) :
               /\ Cardinality({m \in UsedFrom(h, k + 1) : m <= j}) \in Nat
               /\ h[k] # 0 => Cardinality({m \in UsedFrom(h, k) : m <= j})
                                = Cardinality({m \in UsedFrom(h, k + 1) : m <= j}) + 1
         /\ h[k] # 0 => Cardinality({m \in UsedFrom(h, k) : m <= k}) = 1
<1>1. Bins \in Nat /\ k \in Nat /\ k <= Bins
  BY RowTypes
<1>2. IsFiniteSet(k + 1 .. Bins) /\ UsedFrom(h, k + 1) \subseteq k + 1 .. Bins
  <2>1. k + 1 \in Int /\ Bins \in Int
    BY <1>1
  <2>2. QED
    BY <2>1, FS_Interval DEF UsedFrom
<1>3. IsFiniteSet(UsedFrom(h, k + 1)) /\ Cardinality(UsedFrom(h, k + 1)) \in Nat
  BY <1>2, FS_Subset, FS_CardinalityType
<1>4. \A j : j \in k .. Bins <=> j \in k + 1 .. Bins \/ j = k
  BY <1>1
<1>5. \A j : j \in k + 1 .. Bins => j \in Nat /\ j > k /\ j # k
  BY <1>1
<1>6. h[k] = 0 => UsedFrom(h, k) = UsedFrom(h, k + 1)
  BY <1>4, <1>5 DEF UsedFrom
<1>7. h[k] # 0 => UsedFrom(h, k) = UsedFrom(h, k + 1) \cup {k} /\ k \notin UsedFrom(h, k + 1)
  BY <1>4, <1>5 DEF UsedFrom
<1>8. h[k] # 0 => Cardinality(UsedFrom(h, k)) = Cardinality(UsedFrom(h, k + 1)) + 1
  BY <1>3, <1>7, FS_AddElement
<1>9. ASSUME NEW j \in UsedFrom(h, k + 1)
      PROVE  /\ Cardinality({m \in UsedFrom(h, k + 1) : m <= j}) \in Nat
             /\ h[k] # 0 => Cardinality({m \in UsedFrom(h, k) : m <= j})
                              = Cardinality({m \in UsedFrom(h, k + 1) : m <= j}) + 1
  <2> DEFINE A == {m \in UsedFrom(h, k + 1) : m <= j}
             B == {m \in UsedFrom(h, k) : m <= j}
  <2>1. IsFiniteSet(A) /\ Cardinality(A) \in Nat
    <3>1. A \subseteq UsedFrom(h, k + 1)
      OBVIOUS
    <3>2. QED
      BY <1>3, <3>1, FS_Subset, FS_CardinalityType
  <2>2. j \in Nat /\ j > k
    BY <1>2, <1>5
  <2>3. k <= j
    BY <1>1, <2>2
  <2>4. h[k] # 0 => B = A \cup {k} /\ k \notin A
    BY <1>7, <2>3
  <2> HIDE DEF A, B
  <2>5. h[k] # 0 => Cardinality(B) = Cardinality(A) + 1
    BY <2>1, <2>4, FS_AddElement
  <2>6. QED
    BY <2>1, <2>5 DEF A, B
<1>10. h[k] # 0 => Cardinality({m \in UsedFrom(h, k) : m <= k}) = 1
  <2>1. \A m \in UsedFrom(h, k + 1) : ~(m <= k)
    BY <1>1, <1>2, <1>5
  <2>2. k <= k
    BY <1>1
  <2>3. h[k] # 0 => {m \in UsedFrom(h, k) : m <= k} = {k}
    BY <1>7, <2>1, <2>2
  <2>4. QED
    BY <2>3, FS_Singleton
<1>11. QED
  BY <1>3, <1>6, <1>7, <1>8, <1>9, <1>10

\* What the SNR part of a histogram holds.
LEMMA PartIs ==
  ASSUME NEW h \in [1 .. Bins -> Nat], NEW k \in 1 .. Bins + 1
  PROVE  LET part == SnrPart(h)[k] IN
         /\ part.mask \in Nat /\ part.used \in Seq(Nat)
         /\ Len(part.used) = Cardinality(UsedFrom(h, k))
         /\ \A i \in 1 .. Len(part.used) : part.used[i] # 0
         /\ \A j \in UsedFrom(h, k) :
               LET n == Cardinality({m \in UsedFrom(h, k) : m <= j})
               IN n \in 1 .. Len(part.used) /\ part.used[n] = h[j]
         /\ k <= Bins => part.mask \div 2 = SnrPart(h)[k + 1].mask /\ (part.mask % 2 = 1 <=> h[k] # 0)
         /\ k > Bins => part.mask = 0
<1> DEFINE f == SnrPart(h)
           Good(x) == /\ f[x].mask \in Nat /\ f[x].used \in Seq(Nat)
                      /\ Len(f[x].used) = Cardinality(UsedFrom(h, x))
                      /\ \A i \in 1 .. Len(f[x].used) : f[x].used[i] # 0
                      /\ \A j \in UsedFrom(h, x) :
                            LET n == Cardinality({m \in UsedFrom(h, x) : m <= j})
                            IN n \in 1 .. Len(f[x].used) /\ f[x].used[n] = h[j]
                      /\ x <= Bins => f[x].mask \div 2 = f[x + 1].mask /\ (f[x].mask % 2 = 1 <=> h[x] # 0)
                      /\ x > Bins => f[x].mask = 0
           G == {n \in Nat : \A x \in 1 .. Bins + 1 : x + n > Bins => Good(x)}
<1>1. Bins \in Nat
  BY RowTypes
<1>2. \A x \in 1 .. Bins + 1 : f[x] = PartBody(h, f, x)
  BY PartSolves
<1> HIDE DEF f
<1>3. 0 \in G
  <2>1. ASSUME NEW x \in 1 .. Bins + 1, x + 0 > Bins PROVE Good(x)
    <3>1. x > Bins /\ ~(x <= Bins)
      BY <1>1, <2>1
    <3>2. f[x] = [mask |-> 0, used |-> <<>>]
      BY <1>2, <3>1 DEF PartBody
    <3>3. f[x].mask = 0 /\ f[x].used = <<>> /\ f[x].used \in Seq(Nat) /\ Len(f[x].used) = 0
      BY <3>2
    <3>4. UsedFrom(h, x) = {}
      <4>1. \A j : ~(j \in x .. Bins)
        BY <1>1, <3>1
      <4>2. QED
        BY <4>1 DEF UsedFrom
    <3>5. Cardinality(UsedFrom(h, x)) = 0
      BY <3>4, FS_EmptySet
    <3>6. \A i : ~(i \in 1 .. 0)
      OBVIOUS
    <3>7. QED
      BY <3>1, <3>3, <3>4, <3>5, <3>6
  <2>2. QED
    BY <2>1
<1>4. ASSUME NEW n \in Nat, n \in G PROVE n + 1 \in G
  <2>1. ASSUME NEW x \in 1 .. Bins, Good(x + 1) PROVE Good(x)
    <3> DEFINE R == f[x + 1]
    <3>1. x \in 1 .. Bins + 1 /\ ~(x > Bins) /\ x <= Bins /\ x \in Nat
      BY <1>1
    <3>2. R.mask \in Nat /\ R.used \in Seq(Nat) /\ Len(R.used) = Cardinality(UsedFrom(h, x + 1))
      BY <2>1
    <3>3. f[x] = IF h[x] = 0 THEN [mask |-> 2 * R.mask, used |-> R.used]
                 ELSE [mask |-> 2 * R.mask + 1, used |-> <<h[x]>> \o R.used]
      BY <1>2, <3>1 DEF PartBody
    <3>4. \A y \in Nat : /\ 2 * y \in Nat /\ (2 * y) \div 2 = y /\ (2 * y) % 2 = 0
                         /\ 2 * y + 1 \in Nat /\ (2 * y + 1) \div 2 = y /\ (2 * y + 1) % 2 = 1
      OBVIOUS
    <3>5. CASE h[x] = 0
      <4>1. f[x].mask = 2 * R.mask /\ f[x].used = R.used
        BY <3>3, <3>5
      <4>2. UsedFrom(h, x) = UsedFrom(h, x + 1)
        BY <3>5, UsedCount
      <4>3. f[x].mask \in Nat /\ f[x].mask \div 2 = R.mask /\ f[x].mask % 2 = 0
        BY <3>2, <3>4, <4>1
      <4>4. f[x].mask % 2 = 1 <=> h[x] # 0
        BY <3>5, <4>3
      <4>5. /\ \A i \in 1 .. Len(R.used) : R.used[i] # 0
            /\ \A j \in UsedFrom(h, x + 1) :
                  LET m0 == Cardinality({m \in UsedFrom(h, x + 1) : m <= j})
                  IN m0 \in 1 .. Len(R.used) /\ R.used[m0] = h[j]
        BY <2>1
      <4>6. QED
        BY <3>1, <3>2, <4>1, <4>2, <4>3, <4>4, <4>5
    <3>6. CASE h[x] # 0
      <4> DEFINE U == R.used
                 V == <<h[x]>> \o U
      <4>1. f[x].mask = 2 * R.mask + 1 /\ f[x].used = V
        BY <3>3, <3>6
      <4>2. f[x].mask \in Nat /\ f[x].mask \div 2 = R.mask /\ f[x].mask % 2 = 1
        BY <3>2, <3>4, <4>1
      <4>3. f[x].mask % 2 = 1 <=> h[x] # 0
        BY <3>6, <4>2
      <4> DEFINE one == <<h[x]>>
      <4>4. h[x] \in Nat /\ one \in Seq(Nat) /\ Len(one) = 1 /\ one[1] = h[x] /\ U \in Seq(Nat) /\ Len(U) \in Nat
        BY <3>2
      <4>5. /\ V \in Seq(Nat) /\ Len(V) = Len(U) + 1 /\ V[1] = h[x]
            /\ \A i \in 1 .. Len(U) : V[i + 1] = U[i]
        <5> HIDE DEF one, U
        <5>1. V = one \o U
          BY DEF one
        <5> HIDE DEF V
        <5>2. V \in Seq(Nat) /\ Len(V) = Len(one) + Len(U)
          BY <4>4, <5>1, ConcatProperties
        <5>7. \A i \in 1 .. Len(one) + Len(U) : V[i] = IF i <= Len(one) THEN one[i] ELSE U[i - Len(one)]
          BY <4>4, <5>1, ConcatProperties
        <5>8. 1 \in 1 .. Len(one) + Len(U) /\ 1 <= Len(one)
          BY <4>4
        <5>3. V[1] = one[1]
          BY <5>7, <5>8
        <5>4. \A i \in 1 .. Len(U) : ~(i + 1 <= Len(one)) /\ i + 1 \in 1 .. Len(one) + Len(U) /\ (i + 1) - Len(one) = i
          BY <4>4
        <5>5. \A i \in 1 .. Len(U) : V[i + 1] = U[(i + 1) - Len(one)]
          BY <5>4, <5>7
        <5>6. QED
          BY <4>4, <5>2, <5>3, <5>4, <5>5
      <4>6. \A i \in 1 .. Len(V) : V[i] # 0
        <5>1. \A i \in 1 .. Len(U) : U[i] # 0
          BY <2>1
        <5> HIDE DEF V, U
        <5>2. TAKE i \in 1 .. Len(V)
        <5>3. i = 1 \/ (i - 1 \in 1 .. Len(U) /\ (i - 1) + 1 = i)
          BY <4>4, <4>5
        <5>4. QED
          BY <3>6, <4>5, <5>1, <5>3
      <4>7. Len(V) = Cardinality(UsedFrom(h, x))
        <5>1. Cardinality(UsedFrom(h, x)) = Cardinality(UsedFrom(h, x + 1)) + 1
          BY <3>6, UsedCount
        <5>2. Len(V) = Len(U) + 1 /\ Len(U) = Cardinality(UsedFrom(h, x + 1))
          BY <3>2, <4>5
        <5>3. QED
          BY <5>1, <5>2
      <4>8. ASSUME NEW j \in UsedFrom(h, x)
            PROVE  LET m0 == Cardinality({m \in UsedFrom(h, x) : m <= j})
                   IN m0 \in 1 .. Len(V) /\ V[m0] = h[j]
        <5>1. CASE j = x
          <6>1. Cardinality({m \in UsedFrom(h, x) : m <= x}) = 1
            BY <3>6, UsedCount
          <6>2. 1 \in 1 .. Len(V)
            BY <4>4, <4>5
          <6>3. QED
            BY <4>5, <5>1, <6>1, <6>2
        <5>2. CASE j # x
          <6>1. j \in UsedFrom(h, x + 1)
            BY <3>6, <5>2, UsedCount
          <6> DEFINE m0 == Cardinality({m \in UsedFrom(h, x) : m <= j})
                     m1 == Cardinality({m \in UsedFrom(h, x + 1) : m <= j})
          <6>2. m1 \in Nat /\ m0 = m1 + 1
            <7>1. \A y \in UsedFrom(h, x + 1) :
                     /\ Cardinality({m \in UsedFrom(h, x + 1) : m <= y}) \in Nat
                     /\ h[x] # 0 => Cardinality({m \in UsedFrom(h, x) : m <= y})
                                      = Cardinality({m \in UsedFrom(h, x + 1) : m <= y}) + 1
              BY UsedCount
            <7> HIDE DEF U, V, R, one, Good
            <7>2. QED
              BY <3>6, <6>1, <7>1
          <6>3. m1 \in 1 .. Len(U) /\ U[m1] = h[j]
            BY <2>1, <6>1
          <6> HIDE DEF m0, m1, U, V
          <6>4. m0 \in 1 .. Len(V) /\ V[m0] = h[j]
            BY <4>4, <4>5, <6>2, <6>3
          <6>5. QED
            BY <6>4 DEF m0
        <5>3. QED
          BY <5>1, <5>2
      <4> HIDE DEF V, U
      <4>9. QED
        BY <3>1, <4>1, <4>2, <4>3, <4>5, <4>6, <4>7, <4>8
    <3>7. QED
      BY <3>5, <3>6
  <2>2. ASSUME NEW x \in 1 .. Bins + 1, x + (n + 1) > Bins PROVE Good(x)
    <3>1. CASE x > Bins
      <4>1. x + n > Bins
        BY <1>1, <3>1
      <4>2. QED
        BY <1>4, <4>1
    <3>2. CASE ~(x > Bins)
      <4>1. x \in 1 .. Bins /\ x + 1 \in 1 .. Bins + 1 /\ (x + 1) + n > Bins
        BY <1>1, <2>2, <3>2
      <4>2. Good(x + 1)
        BY <1>4, <4>1
      <4> HIDE DEF Good
      <4>3. QED
        BY <2>1, <4>1, <4>2
    <3>3. QED
      BY <3>1, <3>2
  <2> HIDE DEF Good
  <2>3. QED
    BY <2>2
<1> HIDE DEF G
<1>5. Bins \in G
  BY <1>1, <1>3, <1>4, EveryNatural
<1>6. k + Bins > Bins
  BY <1>1
<1>7. Good(k)
  BY <1>5, <1>6 DEF G
<1>8. QED
  BY <1>7 DEF f

\* The mask of a histogram announces its bins in use, and nothing else.
LEMMA MaskIs ==
  ASSUME NEW h \in [1 .. Bins -> Nat]
  PROVE  LET mask == SnrPart(h)[1].mask
         IN BinsOf(mask) = UsedFrom(h, 1) /\ Shifted(mask)[Bins] = 0
<1> DEFINE f == SnrPart(h)
           m == f[1].mask
           G == {k \in Nat : k <= Bins => Shifted(m)[k] = f[k + 1].mask}
<1>1. Bins \in Nat /\ 1 \in 1 .. Bins + 1
  BY RowTypes
<1>2. \A k \in 1 .. Bins : f[k].mask \div 2 = f[k + 1].mask /\ (f[k].mask % 2 = 1 <=> h[k] # 0)
  <2>1. \A k \in 1 .. Bins : k \in 1 .. Bins + 1 /\ k <= Bins
    BY <1>1
  <2>2. QED
    BY <2>1, PartIs
<1>3. f[Bins + 1].mask = 0
  <2>1. Bins + 1 \in 1 .. Bins + 1 /\ Bins + 1 > Bins
    BY <1>1
  <2>2. QED
    BY <2>1, PartIs
<1>4. Shifted(m)[0] = m /\ \A k \in 0 .. Bins : k # 0 => Shifted(m)[k] = Shifted(m)[k - 1] \div 2
  BY ShiftSolves
<1> HIDE DEF f
<1>5. 0 \in G
  <2>1. 0 + 1 = 1
    OBVIOUS
  <2>2. QED
    BY <1>4, <2>1
<1> HIDE DEF m
<1>6. ASSUME NEW k \in Nat, k \in G PROVE k + 1 \in G
  <2>1. ASSUME k + 1 <= Bins PROVE Shifted(m)[k + 1] = f[(k + 1) + 1].mask
    <3>1. k + 1 \in 0 .. Bins /\ k + 1 # 0 /\ (k + 1) - 1 = k /\ k <= Bins /\ k + 1 \in 1 .. Bins
      BY <1>1, <2>1
    <3>2. Shifted(m)[k + 1] = Shifted(m)[k] \div 2
      BY <1>4, <3>1
    <3>3. Shifted(m)[k] = f[k + 1].mask
      BY <1>6, <3>1
    <3>4. f[k + 1].mask \div 2 = f[(k + 1) + 1].mask
      BY <1>2, <3>1
    <3>5. QED
      BY <3>2, <3>3, <3>4
  <2>2. QED
    BY <2>1
<1> HIDE DEF G
<1>7. \A k \in Nat : k <= Bins => Shifted(m)[k] = f[k + 1].mask
  BY <1>5, <1>6, EveryNatural DEF G
<1>8. \A k \in 1 .. Bins : Shifted(m)[k - 1] = f[k].mask
  <2>1. \A k \in 1 .. Bins : k - 1 \in Nat /\ k - 1 <= Bins /\ (k - 1) + 1 = k
    BY <1>1
  <2>2. QED
    BY <1>7, <2>1
<1>9. BinsOf(m) = UsedFrom(h, 1)
  BY <1>2, <1>8 DEF BinsOf, UsedFrom
<1>10. Shifted(m)[Bins] = 0
  BY <1>1, <1>3, <1>7
<1>11. QED
  BY <1>9, <1>10 DEF m, f

\* From byte i on, b says s.
Says(b, i, s) == i + Len(s) <= Len(b) + 1 /\ \A j \in 1 .. Len(s) : b[i + j - 1] = s[j]

LEMMA Joined ==
  ASSUME NEW s \in Seq(Nat), NEW t \in Seq(Nat)
  PROVE  s \o t \in Seq(Nat) /\ Len(s \o t) = Len(s) + Len(t) /\ Len(s) \in Nat /\ Len(t) \in Nat
<1>1. s \o t \in Seq(Nat) /\ Len(s \o t) = Len(s) + Len(t)
  BY ConcatProperties
<1>2. Len(s) \in Nat /\ Len(t) \in Nat
  OBVIOUS
<1>3. QED
  BY <1>1, <1>2

LEMMA JoinedAt ==
  ASSUME NEW s \in Seq(Nat), NEW t \in Seq(Nat), NEW u, u = s \o t
  PROVE  /\ u \in Seq(Nat) /\ Len(u) = Len(s) + Len(t) /\ Len(t) \in Nat
         /\ \A j \in 1 .. Len(s) + Len(t) : u[j] = IF j <= Len(s) THEN s[j] ELSE t[j - Len(s)]
<1>1. /\ s \o t \in Seq(Nat) /\ Len(s \o t) = Len(s) + Len(t)
      /\ \A j \in 1 .. Len(s) + Len(t) : (s \o t)[j] = IF j <= Len(s) THEN s[j] ELSE t[j - Len(s)]
  BY ConcatProperties
<1>2. Len(t) \in Nat
  OBVIOUS
<1>3. QED
  BY <1>1, <1>2

LEMMA SaysConcat ==
  ASSUME NEW b \in Seq(Nat), NEW i \in Nat, NEW s \in Seq(Nat), NEW t \in Seq(Nat), Says(b, i, s \o t)
  PROVE  /\ Says(b, i, s) /\ Says(b, i + Len(s), t)
         /\ s \o t \in Seq(Nat) /\ Len(s \o t) = Len(s) + Len(t)
<1> DEFINE u == s \o t
<1>1. /\ u \in Seq(Nat) /\ Len(u) = Len(s) + Len(t)
      /\ \A j \in 1 .. Len(s) + Len(t) : u[j] = IF j <= Len(s) THEN s[j] ELSE t[j - Len(s)]
  BY ConcatProperties
<1>2. Len(s) \in Nat /\ Len(t) \in Nat /\ Len(b) \in Nat
  OBVIOUS
<1>3. i + Len(u) <= Len(b) + 1 /\ \A j \in 1 .. Len(u) : b[i + j - 1] = u[j]
  BY DEF Says
<1> HIDE DEF u
<1>4. i + Len(s) <= Len(b) + 1 /\ (i + Len(s)) + Len(t) <= Len(b) + 1
  BY <1>1, <1>2, <1>3
<1>5. \A j \in 1 .. Len(s) : b[i + j - 1] = s[j]
  <2>1. \A j \in 1 .. Len(s) : j \in 1 .. Len(s) + Len(t) /\ j <= Len(s)
    BY <1>2
  <2>2. QED
    BY <1>1, <1>3, <2>1
<1>6. ASSUME NEW j \in 1 .. Len(t) PROVE b[(i + Len(s)) + j - 1] = t[j]
  <2>1. /\ Len(s) + j \in 1 .. Len(s) + Len(t) /\ ~(Len(s) + j <= Len(s))
        /\ (Len(s) + j) - Len(s) = j /\ i + (Len(s) + j) - 1 = (i + Len(s)) + j - 1
    BY <1>2
  <2>2. u[Len(s) + j] = t[j] /\ b[i + (Len(s) + j) - 1] = u[Len(s) + j]
    BY <1>1, <1>3, <2>1
  <2>3. QED
    BY <2>1, <2>2
<1>7. QED
  BY <1>1, <1>4, <1>5, <1>6 DEF Says, u

LEMMA SaysOne ==
  ASSUME NEW b \in Seq(Nat), NEW i \in Nat, NEW x, Says(b, i, <<x>>)
  PROVE  b[i] = x /\ i <= Len(b)
<1>1. Len(<<x>>) = 1 /\ <<x>>[1] = x /\ 1 \in 1 .. 1 /\ i + 1 - 1 = i /\ Len(b) \in Nat
  OBVIOUS
<1>2. i + 1 <= Len(b) + 1 /\ b[i + 1 - 1] = x
  BY <1>1 DEF Says
<1>3. QED
  BY <1>1, <1>2

\* A varint is read as the number it was written for.
LEMMA VarintIs ==
  ASSUME NEW b \in Seq(Nat), NEW i \in Nat, NEW x \in Nat, Says(b, i, Uvarint(x))
  PROVE  /\ Uvarint(x) \in Seq(Nat)
         /\ GapComplete(b, i) /\ GapAt(b, i) = x /\ Digits(b, i) = Len(Uvarint(x))
<1>1. VarintBase \in Nat /\ VarintBase > 1 /\ Len(b) \in Nat
  BY RowTypes
<1>2. CASE x < VarintBase
  <2>1. Uvarint(x) = <<x>> /\ <<x>> \in Seq(Nat) /\ Len(<<x>>) = 1
    BY <1>2 DEF Uvarint
  <2>2. b[i] = x
    BY <2>1, SaysOne
  <2>3. b[i] < VarintBase
    BY <1>2, <2>2
  <2>4. QED
    BY <2>1, <2>2, <2>3 DEF GapComplete, GapAt, Digits
<1>3. CASE ~(x < VarintBase)
  <2> DEFINE lo == x % VarintBase
             hi == x \div VarintBase
             u == <<VarintBase + lo, hi>>
  <2>1. \A n \in Nat \ {0} : x % n \in Nat /\ x \div n \in Nat /\ x = n * (x \div n) + (x % n)
    OBVIOUS
  <2>2. lo \in Nat /\ hi \in Nat /\ x = VarintBase * hi + lo
    BY <1>1, <2>1
  <2> HIDE DEF lo, hi
  <2>3. Uvarint(x) = u
    BY <1>3 DEF Uvarint, lo, hi
  <2>4. VarintBase + lo \in Nat
    BY <1>1, <2>2
  <2>5. u \in Seq(Nat) /\ Len(u) = 2 /\ u[1] = VarintBase + lo /\ u[2] = hi
    BY <2>2, <2>4
  <2> HIDE DEF u
  <2>6. i + 2 <= Len(b) + 1 /\ b[i + 1 - 1] = VarintBase + lo /\ b[i + 2 - 1] = hi
    BY <2>3, <2>5 DEF Says
  <2>7. i + 1 - 1 = i /\ i + 2 - 1 = i + 1 /\ i < Len(b)
    BY <1>1, <2>6
  <2>8. b[i] = VarintBase + lo /\ b[i + 1] = hi
    BY <2>6, <2>7
  <2>9. ~(b[i] < VarintBase) /\ b[i] - VarintBase = lo
    BY <1>1, <2>2, <2>8
  <2>10. GapAt(b, i) = lo + VarintBase * hi
    BY <2>8, <2>9 DEF GapAt
  <2>11. \A p, q \in Nat : p + q = q + p
    OBVIOUS
  <2>12. VarintBase * hi \in Nat
    <3>1. \A p, q \in Nat : p * q \in Nat
      OBVIOUS
    <3>2. QED
      BY <1>1, <2>2, <3>1
  <2>13. GapAt(b, i) = x
    BY <2>2, <2>10, <2>11, <2>12
  <2>14. QED
    BY <2>3, <2>5, <2>7, <2>9, <2>13 DEF GapComplete, Digits
<1>4. QED
  BY <1>2, <1>3

\* A cell that was written is read as it was.
LEMMA CellIsRead ==
  ASSUME NEW b \in Seq(Nat), b[1] \in {1, 2}, NEW i \in Nat, NEW x \in RowCells, x.count # 0, NEW gap \in Nat,
         Says(b, i, EncodeCell(x, gap, b[1]))
  PROVE  LET c == i + Digits(b, i) IN
         /\ EncodeCell(x, gap, b[1]) \in Seq(Nat)
         /\ GapComplete(b, i) /\ GapAt(b, i) = gap /\ b[c] = x.count
         /\ NextCell(b, c) = i + Len(EncodeCell(x, gap, b[1])) /\ CellWhole(b, c)
         /\ HistAt(b, c) = IF b[1] = 1 THEN NoHist ELSE x.hist
<1> DEFINE U == Uvarint(gap)
           one == <<x.count>>
           part == SnrPart(x.hist)[1]
           mk == <<part.mask>>
           rest == IF b[1] = 1 THEN <<>> ELSE mk \o part.used
           c == i + Digits(b, i)
           E == EncodeCell(x, gap, b[1])
<1>1. x.count \in Nat /\ x.hist \in [1 .. Bins -> Nat] /\ Bins \in Nat /\ 1 \in 1 .. Bins + 1
  BY RowTypes DEF RowCells
<1>2. part.mask \in Nat /\ part.used \in Seq(Nat)
  BY <1>1, PartIs
<1>3. U \in Seq(Nat)
  <2>1. VarintBase \in Nat \ {0}
    BY RowTypes
  <2>2. \A n \in Nat \ {0} : gap % n \in Nat /\ gap \div n \in Nat
    OBVIOUS
  <2>3. VarintBase + (gap % VarintBase) \in Nat /\ gap \div VarintBase \in Nat
    BY <2>1, <2>2
  <2>4. QED
    BY <2>3 DEF Uvarint
<1> HIDE DEF part
<1>4. one \in Seq(Nat) /\ Len(one) = 1 /\ mk \in Seq(Nat) /\ Len(mk) = 1 /\ <<>> \in Seq(Nat) /\ Len(<<>>) = 0
  BY <1>1, <1>2
<1>5. mk \o part.used \in Seq(Nat) /\ Len(mk \o part.used) = 1 + Len(part.used)
  BY <1>2, <1>4, ConcatProperties
<1>6. rest \in Seq(Nat)
  BY <1>4, <1>5
<1>7. E = U \o one \o rest
  BY DEF EncodeCell, part
<1> HIDE DEF U, one, mk, rest, E
<1> DEFINE V == U \o one
<1>8. V \in Seq(Nat) /\ Len(V) = Len(U) + 1 /\ Len(U) \in Nat
  <2>1. V \in Seq(Nat) /\ Len(V) = Len(U) + Len(one) /\ Len(U) \in Nat
    BY <1>3, <1>4, Joined
  <2>2. QED
    BY <1>4, <2>1
<1>18. E = V \o rest
  BY <1>7
<1> HIDE DEF V
<1>9. E \in Seq(Nat) /\ Len(E) = (Len(U) + 1) + Len(rest) /\ Len(rest) \in Nat
  <2>1. E \in Seq(Nat) /\ Len(E) = Len(V) + Len(rest) /\ Len(rest) \in Nat
    BY <1>6, <1>8, <1>18, Joined
  <2>2. QED
    BY <1>8, <2>1
<1>10. Says(b, i, V) /\ Says(b, i + (Len(U) + 1), rest)
  <2>1. Says(b, i, V \o rest)
    BY <1>18 DEF E
  <2>2. Says(b, i, V) /\ Says(b, i + Len(V), rest)
    BY <1>6, <1>8, <2>1, SaysConcat
  <2>3. QED
    BY <1>8, <2>2
<1>11. Says(b, i, U) /\ Says(b, i + Len(U), one)
  BY <1>3, <1>4, <1>10, SaysConcat DEF V
<1>12. GapComplete(b, i) /\ GapAt(b, i) = gap /\ Digits(b, i) = Len(U)
  BY <1>11, VarintIs DEF U
<1>13. c = i + Len(U) /\ Len(U) \in Nat /\ c \in Nat /\ i + (Len(U) + 1) = c + 1 /\ Len(b) \in Nat
  BY <1>3, <1>12
<1> HIDE DEF c
<1>14. b[c] = x.count /\ c <= Len(b)
  BY <1>11, <1>13, SaysOne DEF one
<1>15. CASE b[1] = 1
  <2>1. Len(rest) = 0
    BY <1>4, <1>15 DEF rest
  <2>2. NextCell(b, c) = c + 1
    BY <1>15 DEF NextCell
  <2>3. NextCell(b, c) = i + Len(E) /\ NextCell(b, c) - 1 <= Len(b)
    BY <1>9, <1>13, <1>14, <2>1, <2>2
  <2>4. CellWhole(b, c)
    BY <1>14, <1>15, <2>3 DEF CellWhole
  <2>5. HistAt(b, c) = NoHist
    BY <1>15 DEF HistAt
  <2>6. QED
    BY <1>9, <1>12, <1>14, <1>15, <2>3, <2>4, <2>5 DEF c, E
<1>16. CASE b[1] = 2
  <2>1. rest = mk \o part.used
    BY <1>16 DEF rest
  <2>2. Says(b, c + 1, mk) /\ Says(b, (c + 1) + Len(mk), part.used)
    <3>1. c + 1 \in Nat /\ Says(b, c + 1, mk \o part.used)
      BY <1>10, <1>13, <2>1
    <3>2. QED
      BY <1>2, <1>4, <3>1, SaysConcat
  <2>3. b[c + 1] = part.mask /\ c + 1 <= Len(b)
    BY <1>13, <2>2, SaysOne DEF mk
  <2>4. /\ BinsOf(part.mask) = UsedFrom(x.hist, 1) /\ Shifted(part.mask)[Bins] = 0
        /\ Len(part.used) = Cardinality(UsedFrom(x.hist, 1))
        /\ \A k \in 1 .. Len(part.used) : part.used[k] # 0
        /\ \A j \in UsedFrom(x.hist, 1) :
              LET n == Cardinality({m \in UsedFrom(x.hist, 1) : m <= j})
              IN n \in 1 .. Len(part.used) /\ part.used[n] = x.hist[j]
    BY <1>1, MaskIs, PartIs DEF part
  <2> DEFINE z == Len(part.used)
  <2>5. (c + 1) + Len(mk) = c + 2 /\ z \in Nat
    BY <1>2, <1>4, <1>13
  <2>6. c + 2 + z <= Len(b) + 1 /\ \A k \in 1 .. z : b[c + 2 + k - 1] = part.used[k]
    BY <2>2, <2>5 DEF Says
  <2>7. NextCell(b, c) = c + 2 + z
    <3>1. ~(c >= Len(b)) /\ b[1] # 1
      BY <1>13, <1>16, <2>3
    <3>2. QED
      BY <2>3, <2>4, <3>1 DEF NextCell
  <2>13. /\ \A k \in 1 .. z : part.used[k] # 0
         /\ \A j \in UsedFrom(x.hist, 1) :
               LET n == Cardinality({m \in UsedFrom(x.hist, 1) : m <= j})
               IN n \in 1 .. z /\ part.used[n] = x.hist[j]
    BY <2>4
  <2>8. NextCell(b, c) = i + Len(E) /\ NextCell(b, c) - 1 <= Len(b)
    <3>1. Len(rest) = 1 + z
      BY <1>5, <2>1
    <3> HIDE DEF z
    <3>2. Len(E) = (Len(U) + 1) + (1 + z)
      BY <1>9, <3>1
    <3>3. \A x1, y1, z1 \in Nat : (x1 + y1) + 2 + z1 = x1 + ((y1 + 1) + (1 + z1))
      OBVIOUS
    <3>4. (i + Len(U)) + 2 + z = i + ((Len(U) + 1) + (1 + z))
      BY <1>13, <2>5, <3>3
    <3>5. NextCell(b, c) = i + Len(E)
      BY <1>13, <2>7, <3>2, <3>4
    <3>6. \A x1, y1 \in Nat : x1 <= y1 + 1 => x1 - 1 <= y1
      OBVIOUS
    <3>7. c + 2 + z \in Nat
      BY <1>13, <2>5
    <3>8. NextCell(b, c) - 1 <= Len(b)
      BY <1>13, <2>6, <2>7, <3>6, <3>7
    <3>9. QED
      BY <3>5, <3>8
  <2> HIDE DEF z
  <2>9. \A k \in c + 2 .. NextCell(b, c) - 1 : b[k] # 0
    <3>1. \A y, z0 \in Nat : \A k \in y + 2 .. (y + 2 + z0) - 1 :
              k - (y + 1) \in 1 .. z0 /\ y + 2 + (k - (y + 1)) - 1 = k
      OBVIOUS
    <3>2. \A k \in c + 2 .. NextCell(b, c) - 1 :
              k - (c + 1) \in 1 .. z /\ c + 2 + (k - (c + 1)) - 1 = k
      BY <1>13, <2>5, <2>7, <3>1
    <3>3. QED
      BY <2>6, <2>13, <3>2
  <2>10. CellWhole(b, c)
    BY <1>14, <2>3, <2>4, <2>8, <2>9 DEF CellWhole
  <2>11. HistAt(b, c) = x.hist
    <3>1. HistAt(b, c) = [k \in 1 .. Bins |->
              IF k \in UsedFrom(x.hist, 1)
              THEN b[c + 1 + Cardinality({j \in UsedFrom(x.hist, 1) : j <= k})] ELSE 0]
      BY <1>16, <2>3, <2>4 DEF HistAt
    <3>2. ASSUME NEW k \in 1 .. Bins
          PROVE  HistAt(b, c)[k] = x.hist[k]
      <4> DEFINE n == Cardinality({j \in UsedFrom(x.hist, 1) : j <= k})
      <4>1. CASE k \in UsedFrom(x.hist, 1)
        <5>1. n \in 1 .. z /\ part.used[n] = x.hist[k]
          BY <2>13, <4>1
        <5>2. HistAt(b, c)[k] = b[c + 1 + n]
          BY <3>1, <4>1
        <5> HIDE DEF n
        <5>3. c + 2 + n - 1 = c + 1 + n
          BY <1>13, <2>5, <5>1
        <5>4. QED
          BY <2>6, <5>1, <5>2, <5>3
      <4>2. CASE k \notin UsedFrom(x.hist, 1)
        <5>1. x.hist[k] = 0
          BY <4>2 DEF UsedFrom
        <5>2. QED
          BY <3>1, <4>2, <5>1
      <4>3. QED
        BY <4>1, <4>2
    <3>3. \E F : HistAt(b, c) = [k \in 1 .. Bins |-> F[k]]
      BY <3>1, <3>2
    <3>4. QED
      BY <1>1, <3>1, <3>2
  <2>12. QED
    BY <1>9, <1>12, <1>14, <1>16, <2>8, <2>10, <2>11 DEF c, E
<1>17. QED
  BY <1>15, <1>16

(***************************************************************************)
(* A row that was written is read as it was.                               *)
(***************************************************************************)
LEMMA CellTyped ==
  ASSUME NEW x \in RowCells, NEW gap \in Nat, NEW v
  PROVE  EncodeCell(x, gap, v) \in Seq(Nat)
<1>1. x.count \in Nat /\ x.hist \in [1 .. Bins -> Nat] /\ 1 \in 1 .. Bins + 1
  BY RowTypes DEF RowCells
<1> DEFINE part == SnrPart(x.hist)[1]
<1>2. part.mask \in Nat /\ part.used \in Seq(Nat)
  BY <1>1, PartIs
<1>3. Uvarint(gap) \in Seq(Nat)
  <2>1. VarintBase \in Nat \ {0}
    BY RowTypes
  <2>2. \A n \in Nat \ {0} : gap % n \in Nat /\ gap \div n \in Nat
    OBVIOUS
  <2>3. VarintBase + (gap % VarintBase) \in Nat /\ gap \div VarintBase \in Nat
    BY <2>1, <2>2
  <2>4. QED
    BY <2>3 DEF Uvarint
<1> HIDE DEF part
<1>4. <<x.count>> \in Seq(Nat) /\ <<part.mask>> \in Seq(Nat) /\ <<>> \in Seq(Nat)
  BY <1>1, <1>2
<1>5. <<part.mask>> \o part.used \in Seq(Nat)
  BY <1>2, <1>4, Joined
<1> DEFINE rest == IF v = 1 THEN <<>> ELSE <<part.mask>> \o part.used
<1>6. rest \in Seq(Nat)
  BY <1>4, <1>5
<1>7. Uvarint(gap) \o <<x.count>> \in Seq(Nat)
  BY <1>3, <1>4, Joined
<1>8. EncodeCell(x, gap, v) = (Uvarint(gap) \o <<x.count>>) \o rest
  BY DEF EncodeCell, part
<1> HIDE DEF rest
<1>9. QED
  BY <1>6, <1>7, <1>8, Joined

\* Positions of the loop: after x[1] comes the next one, with the same last one
\* written or with this one.
LEMMA WalkOn ==
  ASSUME NEW x \in Walk, x[2] < x[1], x[1] # Len0
  PROVE  /\ x[1] \in Pos /\ x[1] - x[2] - 1 \in Nat
         /\ <<x[1] + 1, x[2]>> \in Walk /\ x[2] < x[1] + 1
         /\ <<x[1] + 1, x[1]>> \in Walk /\ x[1] < x[1] + 1
<1>1. x[1] \in 0 .. Len0 /\ x[2] \in -1 .. Len0 - 1 /\ Len0 \in Nat /\ Pos = {p \in Nat : p < Len0}
  BY RowTypes DEF Walk
<1>2. x[1] \in Nat /\ x[1] < Len0 /\ x[2] \in Int /\ x[2] >= -1
  BY <1>1
<1>3. x[1] + 1 \in 0 .. Len0 /\ x[1] \in -1 .. Len0 - 1 /\ x[1] - x[2] - 1 \in Nat /\ x[2] < x[1] + 1
  BY <1>1, <1>2
<1>4. QED
  BY <1>1, <1>2, <1>3 DEF Walk

LEMMA EncTyped ==
  ASSUME NEW r \in Rows, NEW v, NEW x0 \in Walk, x0[2] < x0[1]
  PROVE  Encoded(r, v)[x0] \in Seq(Nat)
<1> DEFINE E == Encoded(r, v)
           G == {n \in Nat : \A x \in Walk : x[2] < x[1] /\ x[1] + n >= Len0 => E[x] \in Seq(Nat)}
<1>1. Len0 \in Nat /\ \A x \in Walk : x[1] \in 0 .. Len0
  BY RowTypes DEF Walk
<1>2. \A x \in Walk : E[x] = EncBody(r, v, E, x)
  BY EncSolves
<1> HIDE DEF E
<1>3. \A x \in Walk : x[1] = Len0 => E[x] \in Seq(Nat)
  <2>1. <<>> \in Seq(Nat)
    OBVIOUS
  <2>2. QED
    BY <1>2, <2>1 DEF EncBody
<1>4. 0 \in G
  <2>1. \A k \in 0 .. Len0 : k + 0 >= Len0 => k = Len0
    BY <1>1
  <2>2. QED
    BY <1>1, <1>3, <2>1
<1>5. ASSUME NEW n \in Nat, n \in G PROVE n + 1 \in G
  <2>1. ASSUME NEW x \in Walk, x[2] < x[1], x[1] + (n + 1) >= Len0 PROVE E[x] \in Seq(Nat)
    <3>1. CASE x[1] = Len0
      BY <1>3, <3>1
    <3>2. CASE x[1] # Len0
      <4> DEFINE stay == <<x[1] + 1, x[2]>>
                 next == <<x[1] + 1, x[1]>>
      <4>1. /\ x[1] \in Pos /\ x[1] - x[2] - 1 \in Nat
            /\ stay \in Walk /\ stay[2] < stay[1] /\ next \in Walk /\ next[2] < next[1]
        BY <2>1, <3>2, WalkOn
      <4>2. stay[1] + n >= Len0 /\ next[1] + n >= Len0
        BY <1>1, <2>1
      <4> HIDE DEF stay, next
      <4>3. E[stay] \in Seq(Nat) /\ E[next] \in Seq(Nat)
        BY <1>5, <4>1, <4>2
      <4>4. r[x[1]] \in RowCells
        BY <4>1 DEF Rows
      <4>5. EncodeCell(r[x[1]], x[1] - x[2] - 1, v) \in Seq(Nat)
        BY <4>1, <4>4, CellTyped
      <4>6. EncodeCell(r[x[1]], x[1] - x[2] - 1, v) \o E[next] \in Seq(Nat)
        BY <4>3, <4>5, Joined
      <4>7. E[x] = IF r[x[1]].count = 0 THEN E[stay] ELSE EncodeCell(r[x[1]], x[1] - x[2] - 1, v) \o E[next]
        BY <1>2, <3>2 DEF EncBody, stay, next
      <4>8. QED
        BY <4>3, <4>6, <4>7
    <3>3. QED
      BY <3>1, <3>2
  <2>2. QED
    BY <2>1
<1> HIDE DEF G
<1>6. Len0 \in G
  BY <1>1, <1>4, <1>5, EveryNatural
<1>7. x0[1] + Len0 >= Len0
  BY <1>1
<1>8. QED
  BY <1>6, <1>7 DEF G, E

\* The cells of r from position p on, as a reader of version v sees them.
CellOf(r, v, q) == [pos |-> q, count |-> r[q].count, hist |-> IF v = 1 THEN NoHist ELSE r[q].hist]
CellsOf(r, v, p) == {CellOf(r, v, q) : q \in {y \in Pos : p <= y /\ r[y].count # 0}}

LEMMA CellsOn ==
  ASSUME NEW r, NEW v, NEW p \in Pos
  PROVE  /\ r[p].count = 0 => CellsOf(r, v, p) = CellsOf(r, v, p + 1)
         /\ r[p].count # 0 => CellsOf(r, v, p) = {CellOf(r, v, p)} \cup CellsOf(r, v, p + 1)
<1> DEFINE Q(k) == {y \in Pos : k <= y /\ r[y].count # 0}
<1>1. p \in Nat /\ \A y \in Pos : y \in Nat
  BY RowTypes
<1>2. \A y \in Pos : p <= y <=> p + 1 <= y \/ y = p
  BY <1>1
<1>3. r[p].count = 0 => Q(p) = Q(p + 1)
  BY <1>2
<1>4. r[p].count # 0 => Q(p) = {p} \cup Q(p + 1)
  BY <1>2
<1>5. \A k : CellsOf(r, v, k) = {CellOf(r, v, q) : q \in Q(k)}
  BY DEF CellsOf
<1> HIDE DEF Q
<1>6. QED
  BY <1>3, <1>4, <1>5

LEMMA RowIsRead ==
  ASSUME NEW r \in Rows, NEW b \in Seq(Nat), b[1] \in {1, 2}, NEW x0 \in Walk, x0[2] < x0[1],
         NEW i0 \in Nat \ {0}, Says(b, i0, Encoded(r, b[1])[x0]),
         i0 + Len(Encoded(r, b[1])[x0]) = Len(b) + 1
  PROVE  CellsFrom(b)[<<i0, x0[2]>>] = [ok |-> TRUE, cells |-> CellsOf(r, b[1], x0[1])]
<1> DEFINE v == b[1]
           E == Encoded(r, v)
           C == CellsFrom(b)
           G == {n \in Nat : \A x \in Walk, i \in Nat \ {0} :
                    x[2] < x[1] /\ x[1] + n >= Len0 /\ Says(b, i, E[x]) /\ i + Len(E[x]) = Len(b) + 1
                       => C[<<i, x[2]>>] = [ok |-> TRUE, cells |-> CellsOf(r, v, x[1])]}
<1>1. /\ Len0 \in Nat /\ Len(b) \in Nat /\ \A x \in Walk : x[1] \in 0 .. Len0 /\ x[2] \in -1 .. Len0 - 1
      /\ \A p \in Pos : p \in Nat /\ p < Len0
  BY RowTypes DEF Walk
<1>2. /\ \A x \in Walk : E[x] = EncBody(r, v, E, x)
      /\ \A x \in Walk : x[2] < x[1] => E[x] \in Seq(Nat)
      /\ \A x \in RowReads(b) : C[x] = ReadBody(b, C, x)
  BY EncSolves, EncTyped, ReadSolves
<1> HIDE DEF E, C
<1>3. ASSUME NEW x \in Walk, NEW i \in Nat \ {0}, x[1] = Len0, i + Len(E[x]) = Len(b) + 1
      PROVE  C[<<i, x[2]>>] = [ok |-> TRUE, cells |-> CellsOf(r, v, x[1])]
  <2>1. E[x] = <<>> /\ Len(<<>>) = 0
    BY <1>2, <1>3 DEF EncBody
  <2>2. i = Len(b) + 1
    BY <1>1, <1>3, <2>1
  <2>3. <<i, x[2]>> \in RowReads(b) /\ <<i, x[2]>>[1] > Len(b)
    BY <1>1, <2>2 DEF RowReads
  <2>4. C[<<i, x[2]>>] = [ok |-> TRUE, cells |-> {}]
    BY <1>2, <2>3 DEF ReadBody
  <2>5. \A y \in Pos : ~(Len0 <= y)
    BY <1>1
  <2>6. CellsOf(r, v, x[1]) = {}
    BY <1>3, <2>5 DEF CellsOf
  <2>7. QED
    BY <2>4, <2>6
<1>4. 0 \in G
  <2>1. \A k \in 0 .. Len0 : k + 0 >= Len0 => k = Len0
    BY <1>1
  <2> HIDE DEF v
  <2>2. QED
    BY <1>1, <1>3, <2>1
<1>5. ASSUME NEW n \in Nat, n \in G PROVE n + 1 \in G
  <2>1. ASSUME NEW x \in Walk, NEW i \in Nat \ {0}, x[2] < x[1], x[1] + (n + 1) >= Len0,
               Says(b, i, E[x]), i + Len(E[x]) = Len(b) + 1
        PROVE  C[<<i, x[2]>>] = [ok |-> TRUE, cells |-> CellsOf(r, v, x[1])]
    <3>1. CASE x[1] = Len0
      BY <1>3, <2>1, <3>1
    <3>2. CASE x[1] # Len0
      <4> DEFINE stay == <<x[1] + 1, x[2]>>
                 next == <<x[1] + 1, x[1]>>
                 p == x[1]
                 gap == x[1] - x[2] - 1
      <4>1. /\ p \in Pos /\ gap \in Nat
            /\ stay \in Walk /\ stay[2] < stay[1] /\ next \in Walk /\ next[2] < next[1]
            /\ stay[1] = p + 1 /\ next[1] = p + 1 /\ stay[2] = x[2] /\ next[2] = p
        BY <2>1, <3>2, WalkOn
      <4>2. stay[1] + n >= Len0 /\ next[1] + n >= Len0
        BY <1>1, <2>1
      <4>3. E[x] = IF r[p].count = 0 THEN E[stay] ELSE EncodeCell(r[p], gap, v) \o E[next]
        BY <1>2, <3>2 DEF EncBody
      <4>4. x[2] + 1 + gap = p
        <5>1. x[1] \in Int /\ x[2] \in Int
          BY <1>1
        <5>2. \A k, m \in Int : m + 1 + (k - m - 1) = k
          OBVIOUS
        <5>3. QED
          BY <5>1, <5>2
      <4> HIDE DEF stay, next, gap
      <4>5. CASE r[p].count = 0
        <5>1. E[x] = E[stay]
          BY <4>3, <4>5
        <5>2. C[<<i, stay[2]>>] = [ok |-> TRUE, cells |-> CellsOf(r, v, stay[1])]
          BY <1>5, <2>1, <4>1, <4>2, <5>1
        <5>3. CellsOf(r, v, p) = CellsOf(r, v, p + 1)
          BY <4>1, <4>5, CellsOn
        <5>4. QED
          BY <4>1, <5>2, <5>3
      <4>6. CASE r[p].count # 0
        <5> DEFINE W == EncodeCell(r[p], gap, v)
                   c == i + Digits(b, i)
                   j == i + Len(W)
                   y == <<i, x[2]>>
        <5>1. r[p] \in RowCells
          BY <4>1 DEF Rows
        <5>2. E[x] = W \o E[next] /\ W \in Seq(Nat) /\ E[next] \in Seq(Nat)
          BY <1>2, <4>1, <4>3, <4>6, <5>1, CellTyped
        <5> HIDE DEF W
        <5>3. Says(b, i, W) /\ Says(b, j, E[next]) /\ Len(E[x]) = Len(W) + Len(E[next])
          BY <2>1, <5>2, SaysConcat
        <5>4. Len(W) \in Nat /\ Len(E[next]) \in Nat
          BY <5>2
        <5>5. /\ GapComplete(b, i) /\ GapAt(b, i) = gap /\ b[c] = r[p].count
              /\ NextCell(b, c) = j /\ CellWhole(b, c)
              /\ HistAt(b, c) = IF v = 1 THEN NoHist ELSE r[p].hist
          BY <4>1, <4>6, <5>1, <5>3, CellIsRead DEF W
        <5>6. j + Len(E[next]) = Len(b) + 1 /\ j \in Nat \ {0}
          <6>1. \A k \in Nat \ {0} : \A m, e, l \in Nat :
                   k + (m + e) = l + 1 => (k + m) + e = l + 1 /\ k + m \in Nat \ {0}
            OBVIOUS
          <6>2. i + (Len(W) + Len(E[next])) = Len(b) + 1
            BY <2>1, <5>3
          <6> DEFINE l1 == Len(W)
                     l2 == Len(E[next])
          <6>3. l1 \in Nat /\ l2 \in Nat /\ j = i + l1 /\ i + (l1 + l2) = Len(b) + 1
            BY <5>4, <6>2
          <6> HIDE DEF l1, l2, j
          <6>4. (i + l1) + l2 = Len(b) + 1 /\ i + l1 \in Nat \ {0}
            BY <1>1, <6>1, <6>3
          <6>5. j + l2 = Len(b) + 1 /\ j \in Nat \ {0}
            BY <6>3, <6>4
          <6>6. QED
            BY <6>5 DEF l2
        <5>7. C[<<j, next[2]>>] = [ok |-> TRUE, cells |-> CellsOf(r, v, next[1])]
          BY <1>5, <4>1, <4>2, <5>3, <5>6
        <5> HIDE DEF c, j
        <5>8. i <= Len(b)
          <6>1. Digits(b, i) \in {1, 2}
            BY DEF Digits
          <6>2. c \in Nat /\ c > i
            BY <6>1 DEF c
          <6>3. NextCell(b, c) > c /\ NextCell(b, c) - 1 <= Len(b)
            BY <5>5, <6>2, NextIs DEF CellWhole
          <6>4. QED
            BY <1>1, <5>5, <5>6, <6>2, <6>3
        <5>9. y \in RowReads(b) /\ ~(y[1] > Len(b)) /\ y[1] = i /\ y[2] = x[2]
          BY <1>1, <5>8 DEF RowReads
        <5> HIDE DEF y
        <5>10. /\ CountByte(b, y) = c /\ CellPos(b, y) = p
               /\ NextRead(b, y) = <<j, p>> /\ ~BadCell(b, y)
          <6>1. CountByte(b, y) = c
            BY <5>9 DEF CountByte, c
          <6>2. CellPos(b, y) = p
            BY <4>4, <5>5, <5>9 DEF CellPos
          <6>3. ~(p >= Len0)
            BY <1>1, <4>1
          <6>4. QED
            BY <5>5, <5>9, <6>1, <6>2, <6>3 DEF NextRead, BadCell
        <5>11. C[y] = [ok |-> C[<<j, p>>].ok,
                       cells |-> {[pos |-> p, count |-> b[c], hist |-> HistAt(b, c)]} \cup C[<<j, p>>].cells]
          BY <1>2, <5>9, <5>10 DEF ReadBody
        <5>12. C[<<j, p>>] = [ok |-> TRUE, cells |-> CellsOf(r, v, p + 1)]
          BY <4>1, <5>7
        <5>13. [pos |-> p, count |-> b[c], hist |-> HistAt(b, c)] = CellOf(r, v, p)
          BY <5>5 DEF CellOf
        <5>14. CellsOf(r, v, p) = {CellOf(r, v, p)} \cup CellsOf(r, v, p + 1)
          BY <4>1, <4>6, CellsOn
        <5>15. C[<<j, p>>].ok = TRUE /\ C[<<j, p>>].cells = CellsOf(r, v, p + 1)
          BY <5>12
        <5>16. C[y] = [ok |-> TRUE, cells |-> CellsOf(r, v, p)]
          BY <5>11, <5>13, <5>14, <5>15
        <5>17. QED
          BY <5>16 DEF y
      <4>7. QED
        BY <4>5, <4>6
    <3>3. QED
      BY <3>1, <3>2
  <2> HIDE DEF v
  <2>2. QED
    BY <2>1
<1> HIDE DEF G
<1>6. Len0 \in G
  BY <1>1, <1>4, <1>5, EveryNatural
<1>7. x0[1] + Len0 >= Len0
  BY <1>1
<1>8. QED
  BY <1>6, <1>7 DEF G, E, C

\* Rows that agree on the cells with a count are written as the same bytes.
LEMMA EncSame ==
  ASSUME NEW r, NEW s, NEW v,
         \A p \in Pos : (r[p].count = 0 <=> s[p].count = 0) /\ (r[p].count # 0 => r[p] = s[p])
  PROVE  \A x \in Walk : x[2] < x[1] => Encoded(r, v)[x] = Encoded(s, v)[x]
<1> DEFINE E == Encoded(r, v)
           F == Encoded(s, v)
           G == {n \in Nat : \A x \in Walk : x[2] < x[1] /\ x[1] + n >= Len0 => E[x] = F[x]}
<1>1. Len0 \in Nat /\ \A x \in Walk : x[1] \in 0 .. Len0
  BY RowTypes DEF Walk
<1>2. \A x \in Walk : E[x] = EncBody(r, v, E, x) /\ F[x] = EncBody(s, v, F, x)
  BY EncSolves
<1> HIDE DEF E, F
<1>3. \A x \in Walk : x[1] = Len0 => E[x] = F[x]
  BY <1>2 DEF EncBody
<1>4. 0 \in G
  <2>1. \A k \in 0 .. Len0 : k + 0 >= Len0 => k = Len0
    BY <1>1
  <2>2. QED
    BY <1>1, <1>3, <2>1
<1>5. ASSUME NEW n \in Nat, n \in G PROVE n + 1 \in G
  <2>1. ASSUME NEW x \in Walk, x[2] < x[1], x[1] + (n + 1) >= Len0 PROVE E[x] = F[x]
    <3>1. CASE x[1] = Len0
      BY <1>3, <3>1
    <3>2. CASE x[1] # Len0
      <4> DEFINE stay == <<x[1] + 1, x[2]>>
                 next == <<x[1] + 1, x[1]>>
      <4>1. /\ x[1] \in Pos
            /\ stay \in Walk /\ stay[2] < stay[1] /\ next \in Walk /\ next[2] < next[1]
        BY <2>1, <3>2, WalkOn
      <4>2. stay[1] + n >= Len0 /\ next[1] + n >= Len0
        BY <1>1, <2>1
      <4> HIDE DEF stay, next
      <4>3. E[stay] = F[stay] /\ E[next] = F[next]
        BY <1>5, <4>1, <4>2
      <4>4. /\ E[x] = IF r[x[1]].count = 0 THEN E[stay] ELSE EncodeCell(r[x[1]], x[1] - x[2] - 1, v) \o E[next]
            /\ F[x] = IF s[x[1]].count = 0 THEN F[stay] ELSE EncodeCell(s[x[1]], x[1] - x[2] - 1, v) \o F[next]
        BY <1>2, <3>2 DEF EncBody, stay, next
      <4>5. CASE r[x[1]].count = 0
        BY <4>1, <4>3, <4>4, <4>5
      <4>6. CASE r[x[1]].count # 0
        <5>1. s[x[1]].count # 0 /\ r[x[1]] = s[x[1]]
          BY <4>1, <4>6
        <5>2. QED
          BY <4>3, <4>4, <4>6, <5>1
      <4>7. QED
        BY <4>5, <4>6
    <3>3. QED
      BY <3>1, <3>2
  <2>2. QED
    BY <2>1
<1> HIDE DEF G
<1>6. Len0 \in G
  BY <1>1, <1>4, <1>5, EveryNatural
<1>7. \A x \in Walk : x[1] + Len0 >= Len0
  BY <1>1
<1>8. QED
  BY <1>6, <1>7 DEF G, E, F

\* What a row says is a row, and is written as the row was.
LEMMA SaidIsRow ==
  ASSUME NEW r \in Rows, NEW v
  PROVE  /\ Said(r, v) \in Rows
         /\ almanacSparseEncode(Said(r, 2), 2) = almanacSparseEncode(r, 2)
<1>1. /\ Zero \in RowCells /\ NoHist \in [1 .. Bins -> Nat] /\ Zero.count = 0
      /\ \A p \in Pos : r[p] \in RowCells
  BY RowTypes DEF Zero, NoHist, Rows, RowCells
<1>2. \A x \in RowCells : [x EXCEPT !.hist = NoHist] \in RowCells
  BY <1>1 DEF RowCells
<1>3. Said(r, v) \in Rows
  BY <1>1, <1>2 DEF Said, Rows
<1>4. \A p \in Pos : Said(r, 2)[p] = IF r[p].count = 0 THEN Zero ELSE r[p]
  BY DEF Said
<1>5. \A p \in Pos : /\ Said(r, 2)[p].count = 0 <=> r[p].count = 0
                     /\ Said(r, 2)[p].count # 0 => Said(r, 2)[p] = r[p]
  BY <1>1, <1>4
<1>6. <<0, -1>> \in Walk /\ -1 < 0
  BY RowTypes DEF Walk
<1>7. Encoded(Said(r, 2), 2)[<<0, -1>>] = Encoded(r, 2)[<<0, -1>>]
  BY <1>5, <1>6, EncSame
<1>8. QED
  BY <1>3, <1>7 DEF almanacSparseEncode

\* A stored row is read as the cells that were written, and says what it said.
LEMMA RowIsSaid ==
  ASSUME NEW r \in Rows, NEW v \in {1, 2}, NEW b, b = almanacSparseEncode(r, v)
  PROVE  Parsed(b).ok /\ almanacSparseDecodeHist(b) = Said(r, v)
<1> DEFINE e == Encoded(r, v)[<<0, -1>>]
           x0 == <<0, -1>>
<1>1. x0 \in Walk /\ x0[1] = 0 /\ x0[2] = -1 /\ x0[2] < x0[1]
  BY RowTypes DEF Walk
<1>2. e \in Seq(Nat)
  BY <1>1, EncTyped
<1>3. b = <<v>> \o e /\ <<v>> \in Seq(Nat) /\ Len(<<v>>) = 1 /\ <<v>>[1] = v
  BY DEF almanacSparseEncode
<1> DEFINE w == <<v>>
<1>4. w \in Seq(Nat) /\ Len(w) = 1 /\ w[1] = v /\ b = w \o e
  BY <1>3
<1> HIDE DEF w, e
<1>5. /\ b \in Seq(Nat) /\ Len(b) = Len(w) + Len(e) /\ Len(e) \in Nat
      /\ \A j \in 1 .. Len(w) + Len(e) : b[j] = IF j <= Len(w) THEN w[j] ELSE e[j - Len(w)]
  BY <1>2, <1>4, JoinedAt
<1> DEFINE l == Len(e)
<1>6. l \in Nat /\ Len(b) = 1 + l /\ \A j \in 1 .. 1 + l : b[j] = IF j <= 1 THEN w[j] ELSE e[j - 1]
  BY <1>4, <1>5
<1> HIDE DEF l
<1>7. b[1] = v /\ Len(b) # 0
  BY <1>4, <1>6
<1>8. Says(b, 2, e) /\ 2 + Len(e) = Len(b) + 1
  <2>1. 2 + l = Len(b) + 1
    BY <1>6
  <2>2. ASSUME NEW j \in 1 .. l PROVE b[2 + j - 1] = e[j]
    <3>1. 2 + j - 1 \in 1 .. 1 + l /\ ~(2 + j - 1 <= 1) /\ (2 + j - 1) - 1 = j
      BY <1>6
    <3>2. QED
      BY <1>6, <3>1
  <2>3. 2 + l <= Len(b) + 1
    BY <1>6, <2>1
  <2>4. QED
    BY <2>1, <2>2, <2>3 DEF Says, l
<1>9. CellsFrom(b)[<<2, x0[2]>>] = [ok |-> TRUE, cells |-> CellsOf(r, v, x0[1])]
  <2>1. b[1] \in {1, 2} /\ 2 \in Nat \ {0}
    BY <1>7
  <2>2. e = Encoded(r, b[1])[x0]
    BY <1>7 DEF e
  <2>3. Says(b, 2, Encoded(r, b[1])[x0]) /\ 2 + Len(Encoded(r, b[1])[x0]) = Len(b) + 1
    BY <1>8, <2>2
  <2>4. CellsOf(r, v, x0[1]) = CellsOf(r, b[1], x0[1])
    BY <1>7
  <2> HIDE DEF x0
  <2>5. CellsFrom(b)[<<2, x0[2]>>] = [ok |-> TRUE, cells |-> CellsOf(r, b[1], x0[1])]
    BY <1>1, <1>5, <2>1, <2>3, RowIsRead
  <2>6. QED
    BY <2>4, <2>5
<1>10. Parsed(b) = [ok |-> TRUE, cells |-> CellsOf(r, v, 0)]
  BY <1>1, <1>7, <1>9 DEF Parsed
<1> DEFINE cells == IF Parsed(b).ok THEN Parsed(b).cells ELSE {}
           at(p) == CHOOSE x \in cells : x.pos = p
<1>11. cells = CellsOf(r, v, 0)
  BY <1>10
<1>12. \A p \in Pos : 0 <= p
  BY RowTypes
<1>13. \A x : x \in cells <=> \E q \in Pos : r[q].count # 0 /\ x = CellOf(r, v, q)
  BY <1>11, <1>12 DEF CellsOf
<1>14. almanacSparseDecodeHist(b) =
         [p \in Pos |-> IF \E x \in cells : x.pos = p THEN [count |-> at(p).count, hist |-> at(p).hist] ELSE Zero]
  BY DEF almanacSparseDecodeHist
<1> HIDE DEF cells
<1>15. ASSUME NEW p \in Pos
       PROVE  (IF \E x \in cells : x.pos = p THEN [count |-> at(p).count, hist |-> at(p).hist] ELSE Zero) = Said(r, v)[p]
  <2>1. r[p] \in RowCells
    BY DEF Rows
  <2>2. \A q : CellOf(r, v, q).pos = q
    BY DEF CellOf
  <2>3. CASE r[p].count = 0
    <3>1. ~ \E x \in cells : x.pos = p
      BY <1>13, <2>2, <2>3
    <3>2. QED
      BY <2>3, <3>1 DEF Said
  <2>4. CASE r[p].count # 0
    <3>1. CellOf(r, v, p) \in cells /\ CellOf(r, v, p).pos = p
      BY <1>13, <2>2, <2>4
    <3>2. at(p) \in cells /\ at(p).pos = p
      BY <3>1
    <3>3. at(p) = CellOf(r, v, p)
      BY <1>13, <2>2, <3>2
    <3>4. \E x \in cells : x.pos = p
      BY <3>1
    <3> HIDE DEF at
    <3>5. [count |-> at(p).count, hist |-> at(p).hist] = Said(r, v)[p]
      <4>1. at(p).count = r[p].count /\ at(p).hist = IF v = 1 THEN NoHist ELSE r[p].hist
        BY <3>3 DEF CellOf
      <4>2. r[p] = [count |-> r[p].count, hist |-> r[p].hist]
        BY <2>1 DEF RowCells
      <4>3. [r[p] EXCEPT !.hist = NoHist] = [count |-> r[p].count, hist |-> NoHist]
        BY <2>1 DEF RowCells
      <4>4. Said(r, v)[p] = IF v = 1 THEN [r[p] EXCEPT !.hist = NoHist] ELSE r[p]
        BY <2>4 DEF Said
      <4>5. QED
        BY <4>1, <4>2, <4>3, <4>4
    <3>6. QED
      BY <3>4, <3>5
  <2>5. QED
    BY <2>3, <2>4
<1>16. almanacSparseDecodeHist(b) = Said(r, v)
  BY <1>14, <1>15 DEF Said
<1>17. QED
  BY <1>10, <1>16

\* The row is what was written or folded last, and the bytes are its stored form.
RowInv ==
  /\ phase \in {"given", "stored", "folded"}
  /\ phase = "given" => row \in Rows
  /\ phase = "stored" =>
       \E v \in {1, 2}, r \in Rows : bytes = almanacSparseEncode(r, v) /\ row = Said(r, v)
  /\ phase = "folded" =>
       \E r \in Rows : bytes = almanacSparseEncode(r, 2) /\ row = Said(r, 2)

LEMMA RowInit0 == RowInit => RowInv
<1> SUFFICES ASSUME RowInit PROVE RowInv
  OBVIOUS
<1>1. phase = "given" /\ row \in [Pos -> CellChoices]
  BY DEF RowInit
<1>2. row \in Rows
  BY <1>1, RowTypes DEF Rows
<1>3. QED
  BY <1>1, <1>2 DEF RowInv

LEMMA RowStep == RowInv /\ [RowNext]_rowVars => RowInv'
<1> SUFFICES ASSUME RowInv, [RowNext]_rowVars PROVE RowInv'
  OBVIOUS
<1>1. ASSUME NEW v \in {1, 2}, WriteRow(v) PROVE RowInv'
  <2>1. row \in Rows /\ bytes' = almanacSparseEncode(row, v) /\ row' = Said(row, v) /\ phase' = "stored"
    BY <1>1 DEF WriteRow, RowInv
  <2>2. QED
    BY <2>1 DEF RowInv
<1>2. ASSUME NEW dom \in 0 .. RowDaysN - 1, NEW seg \in [0 .. RowSlots - 1 -> CellChoices],
             NEW withSNR \in BOOLEAN, FoldRow(dom, seg, withSNR)
      PROVE  RowInv'
  <2> DEFINE put(old) == [p \in Pos |-> IF p \div RowSlots # dom THEN old[p]
                                       ELSE IF withSNR THEN seg[p % RowSlots]
                                       ELSE [seg[p % RowSlots] EXCEPT !.hist = NoHist]]
  <2>1. PICK v \in {1, 2}, r \in Rows : bytes = almanacSparseEncode(r, v) /\ row = Said(r, v)
    BY <1>2 DEF FoldRow, RowInv
  <2>2. row \in Rows /\ almanacSparseDecodeHist(bytes) = row
    BY <2>1, RowIsSaid, SaidIsRow
  <2>3. put(row) \in Rows
    <3>1. ASSUME NEW p \in Pos PROVE p % RowSlots \in 0 .. RowSlots - 1
      <4>1. \A k \in Nat, n \in Nat \ {0} : k % n \in 0 .. n - 1
        OBVIOUS
      <4>2. QED
        BY <4>1, RowTypes
    <3>2. \A p \in Pos : seg[p % RowSlots] \in RowCells
      BY <3>1, RowTypes
    <3>3. NoHist \in [1 .. Bins -> Nat]
      BY RowTypes DEF NoHist
    <3>4. \A x \in RowCells : [x EXCEPT !.hist = NoHist] \in RowCells
      BY <3>3 DEF RowCells
    <3>5. \A p \in Pos : put(row)[p] \in RowCells
      BY <2>2, <3>2, <3>4 DEF Rows
    <3>6. QED
      BY <3>5 DEF Rows
  <2>4. bytes' = almanacSparseEncode(put(row), 2)
    BY <1>2, <2>2 DEF FoldRow, almanacSparseReplaceDay
  <2>5. row' = Said(put(row), 2) /\ phase' = "folded"
    BY <1>2 DEF FoldRow
  <2> HIDE DEF put
  <2>6. QED
    BY <2>3, <2>4, <2>5 DEF RowInv
<1>3. CASE UNCHANGED rowVars
  BY <1>3 DEF rowVars, RowInv
<1>4. QED
  BY <1>1, <1>2, <1>3 DEF RowNext

\* A row reads back as what was written and folded into it, whichever version it
\* had, and a folded row's bytes are those of what it says (almanac_sparse.go:
\* almanacSparseAppend, almanacSparseEachCell, almanacSparseReplaceDay).
THEOREM RowRoundTrip == RowSpec => []SparseRoundTrip
<1>1. RowInv => SparseRoundTrip
  <2> SUFFICES ASSUME RowInv, phase \in {"stored", "folded"}
      PROVE  /\ Parsed(bytes).ok /\ almanacSparseDecodeHist(bytes) = row
             /\ phase = "folded" => bytes = almanacSparseEncode(row, 2)
    BY DEF SparseRoundTrip
  <2>1. PICK v \in {1, 2}, r \in Rows :
          /\ bytes = almanacSparseEncode(r, v) /\ row = Said(r, v)
          /\ phase = "folded" => v = 2
    <3>1. CASE phase = "stored"
      BY <3>1 DEF RowInv
    <3>2. CASE phase = "folded"
      BY <3>2 DEF RowInv
    <3>3. QED
      BY <3>1, <3>2
  <2>2. Parsed(bytes).ok /\ almanacSparseDecodeHist(bytes) = row
    BY <2>1, RowIsSaid
  <2>3. phase = "folded" => bytes = almanacSparseEncode(row, 2)
    BY <2>1, SaidIsRow
  <2>4. QED
    BY <2>2, <2>3
<1>2. QED
  BY <1>1, RowInit0, RowStep, PTL DEF RowSpec

=============================================================================
