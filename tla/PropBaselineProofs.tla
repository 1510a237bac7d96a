------------------------ MODULE PropBaselineProofs --------------------------
(***************************************************************************)
(* Proofs about the raw-spot queue, for every set of sources, chunk size,  *)
(* cap, retention and bound: the retry buffer keeps the order of arrival,  *)
(* inserts nothing twice and drops nothing but what its cap trims.         *)
(*                                                                         *)
(* The rest is about the propagation baseline, for every list of sources,  *)
(* day length, window, cap, failure limit and bound: however flush,        *)
(* backfill, ingest, prune and restart interleave, the backfill adds       *)
(* nothing twice, and no day behind its cursor lacks an unexplained row.   *)
(*                                                                         *)
(* The first needs to know what the chunk under way has added up.  The     *)
(* second needs more: that a row which reaches dx_raw_spots late was       *)
(* already counted live, which days lie between the cursor and the walk,   *)
(* and how far the walk has come within its day.                           *)
(***************************************************************************)
EXTENDS PropBaseline, SequenceTheorems, FiniteSetTheorems, TLAPS

\* The order of arrival, within a queue and between two.
Ascending(s) == \A i, j \in DOMAIN s : i < j => s[i] < s[j]
Below(s, t) == \A i \in DOMAIN s, j \in DOMAIN t : s[i] < t[j]

\* The types the argument needs: queued and stored rows are places of the log.
RawTyped ==
    /\ log \in Seq(Sources \X Int) /\ clock \in Int /\ restarts \in Nat
    /\ rawBatch \in Seq(Nat) /\ rawPending \in Seq(Nat)
    /\ \A r \in Range(rawBatch) \cup Range(rawPending) \cup stored : r \in Nat \ {0} /\ r <= Len(log)

\* The batch being inserted is older than everything still queued.
RawOrdered == Ascending(rawBatch) /\ Ascending(rawPending) /\ Below(rawBatch, rawPending)

\* No queued row was inserted before.
RawFresh == (Range(rawBatch) \cup Range(rawPending)) \cap stored = {}

\* Short of a restart every row of a queued source is accounted for.
RawKept ==
    restarts = 0 => \A i \in DOMAIN log : log[i][1] \in QueuedSources =>
        i \in stored \cup trimmed \cup Range(rawBatch) \cup Range(rawPending)

\* The inductive invariant.
RawInv == RawTyped /\ RawOrdered /\ RawFresh /\ RawKept

-----------------------------------------------------------------------------

\* What is left of an ascending queue when its first k rows are taken.
LEMMA Suffix ==
  ASSUME NEW s \in Seq(Nat), NEW k \in Nat, k <= Len(s)
  PROVE  LET t == SubSeq(s, k + 1, Len(s))
         IN  /\ t \in Seq(Nat)
             /\ DOMAIN t = 1 .. Len(s) - k
             /\ \A i \in DOMAIN t : i + k \in DOMAIN s /\ t[i] = s[i + k]
             /\ \A i \in DOMAIN s : i <= k \/ s[i] \in Range(t)
             /\ Range(t) \subseteq Range(s)
             /\ Ascending(s) => Ascending(t)
<1> DEFINE t == SubSeq(s, k + 1, Len(s))
<1>1. DOMAIN s = 1 .. Len(s) /\ Len(s) \in Nat /\ \A i \in 1 .. Len(s) : s[i] \in Nat
  BY LenProperties
<1>2. t \in Seq(Nat) /\ Len(t) = Len(s) - k /\ \A i \in 1 .. Len(s) - k : t[i] = s[k + 1 + i - 1]
  <2>1. \A i \in k + 1 .. Len(s) : s[i] \in Nat
    BY <1>1
  <2>2. /\ t \in Seq(Nat) /\ Len(t) = IF k + 1 <= Len(s) THEN Len(s) - (k + 1) + 1 ELSE 0
        /\ \A i \in 1 .. Len(s) - (k + 1) + 1 : t[i] = s[k + 1 + i - 1]
    BY <1>1, <2>1, SubSeqProperties
  <2> HIDE DEF t
  <2>3. Len(s) - (k + 1) + 1 = Len(s) - k
    BY <1>1
  <2>4. Len(t) = Len(s) - k
    <3>1. CASE k + 1 <= Len(s)
      BY <2>2, <2>3, <3>1
    <3>2. CASE ~(k + 1 <= Len(s))
      <4>1. Len(t) = 0
        BY <2>2, <3>2
      <4>2. Len(s) \in Nat
        BY <1>1
      <4>3. \A n \in Nat : k <= n /\ ~(k + 1 <= n) => n - k = 0
        OBVIOUS
      <4>4. QED
        BY <4>1, <4>2, <4>3, <3>2, Zenon
    <3>3. QED
      BY <3>1, <3>2
  <2>5. ASSUME NEW i \in 1 .. Len(s) - k PROVE t[i] = s[k + 1 + i - 1]
    BY <2>2, <2>3
  <2>6. QED
    BY <2>2, <2>4, <2>5
<1>3. DOMAIN t = 1 .. Len(s) - k
  BY <1>2, LenProperties
<1> HIDE DEF t
<1>4. ASSUME NEW i \in DOMAIN t PROVE i + k \in DOMAIN s /\ t[i] = s[i + k]
  <2>1. i \in 1 .. Len(s) - k /\ i \in Int
    BY <1>1, <1>3
  <2>2. k + 1 + i - 1 = i + k
    BY <2>1
  <2>3. t[i] = s[i + k]
    BY <1>2, <2>1, <2>2
  <2>4. i + k \in DOMAIN s
    BY <1>1, <2>1
  <2>5. QED
    BY <2>3, <2>4
<1>5. ASSUME NEW i \in DOMAIN s, ~(i <= k) PROVE s[i] \in Range(t)
  <2>1. i - k \in DOMAIN t /\ t[i - k] = s[i]
    BY <1>1, <1>2, <1>3, <1>5
  <2>2. QED
    BY <2>1 DEF Range
<1>6. Range(t) \subseteq Range(s)
  BY <1>4 DEF Range
<1>7. Ascending(s) => Ascending(t)
  BY <1>1, <1>3, <1>4 DEF Ascending
<1>8. QED
  BY <1>2, <1>3, <1>4, <1>5, <1>6, <1>7 DEF t

\* Two queues, one behind the other.
LEMMA Behind ==
  ASSUME NEW s \in Seq(Nat), NEW t \in Seq(Nat)
  PROVE  /\ s \o t \in Seq(Nat)
         /\ Range(s \o t) = Range(s) \cup Range(t)
         /\ Ascending(s) /\ Ascending(t) /\ Below(s, t) => Ascending(s \o t)
<1> DEFINE u == s \o t
<1>1. /\ u \in Seq(Nat) /\ Len(u) = Len(s) + Len(t)
      /\ \A i \in 1 .. Len(s) + Len(t) : u[i] = IF i <= Len(s) THEN s[i] ELSE t[i - Len(s)]
  BY ConcatProperties
<1>2. DOMAIN s = 1 .. Len(s) /\ DOMAIN t = 1 .. Len(t) /\ DOMAIN u = 1 .. Len(u)
      /\ Len(s) \in Nat /\ Len(t) \in Nat
  BY <1>1, LenProperties
<1>3. Range(u) = Range(s) \cup Range(t)
  BY RangeConcatenation
<1> HIDE DEF u
<1>4. ASSUME Ascending(s), Ascending(t), Below(s, t), NEW i \in DOMAIN u, NEW j \in DOMAIN u, i < j
      PROVE  u[i] < u[j]
  <2>1. CASE j <= Len(s)
    <3>1. i \in DOMAIN s /\ j \in DOMAIN s /\ u[i] = s[i] /\ u[j] = s[j]
      BY <1>1, <1>2, <1>4, <2>1
    <3>2. QED
      BY <1>4, <3>1 DEF Ascending
  <2>2. CASE i <= Len(s) /\ ~(j <= Len(s))
    <3>1. i \in DOMAIN s /\ j - Len(s) \in DOMAIN t /\ u[i] = s[i] /\ u[j] = t[j - Len(s)]
      BY <1>1, <1>2, <1>4, <2>2
    <3>2. QED
      BY <1>4, <3>1 DEF Below
  <2>3. CASE ~(i <= Len(s))
    <3>1. i \in 1 .. Len(s) + Len(t) /\ j \in 1 .. Len(s) + Len(t) /\ ~(j <= Len(s))
      BY <1>1, <1>2, <1>4, <2>3
    <3>2. i - Len(s) \in DOMAIN t /\ j - Len(s) \in DOMAIN t /\ i - Len(s) < j - Len(s)
      BY <1>2, <1>4, <2>3, <3>1
    <3>3. u[i] = t[i - Len(s)] /\ u[j] = t[j - Len(s)]
      BY <1>1, <2>3, <3>1
    <3>4. QED
      BY <1>4, <3>2, <3>3 DEF Ascending
  <2>4. QED
    BY <1>1, <1>2, <2>1, <2>2, <2>3
<1>5. QED
  BY <1>1, <1>3, <1>4 DEF Ascending, u

\* trimRawSpotRows keeps the newest rows, and only what it drops is trimmed.
LEMMA Trim ==
  ASSUME NEW s \in Seq(Nat)
  PROVE  /\ trimRawSpotRows(s) \in Seq(Nat)
         /\ Range(trimRawSpotRows(s)) \subseteq Range(s)
         /\ Range(s) \subseteq Range(trimRawSpotRows(s)) \cup TrimmedRows(s)
         /\ Ascending(s) => Ascending(trimRawSpotRows(s))
<1>1. Len(s) \in Nat
  BY LenProperties
<1>2. Excess(s) \in Nat /\ Excess(s) <= Len(s)
  BY <1>1, RawConstants DEF Excess
<1>3. QED
  BY <1>2, Suffix DEF trimRawSpotRows, TrimmedRows

\* A row behind all others keeps the queue ascending.
LEMMA Arrive ==
  ASSUME NEW s \in Seq(Nat), NEW n \in Nat
  PROVE  /\ Append(s, n) \in Seq(Nat)
         /\ Range(Append(s, n)) = Range(s) \cup {n}
         /\ Ascending(s) /\ (\A r \in Range(s) : r < n) => Ascending(Append(s, n))
<1> DEFINE u == Append(s, n)
<1>1. u \in Seq(Nat) /\ Len(u) = Len(s) + 1 /\ (\A i \in 1 .. Len(s) : u[i] = s[i]) /\ u[Len(s) + 1] = n
  BY AppendProperties
<1>2. DOMAIN s = 1 .. Len(s) /\ DOMAIN u = 1 .. Len(s) + 1 /\ Len(s) \in Nat
  BY <1>1, LenProperties
<1> HIDE DEF u
<1>3. Range(u) = Range(s) \cup {n}
  <2>1. \A i \in DOMAIN u : (i \in DOMAIN s /\ u[i] = s[i]) \/ u[i] = n
    BY <1>1, <1>2
  <2>2. Range(u) \subseteq Range(s) \cup {n}
    BY <2>1 DEF Range
  <2>3. \A i \in DOMAIN s : i \in DOMAIN u /\ u[i] = s[i]
    BY <1>1, <1>2
  <2>4. n \in Range(u)
    BY <1>1, <1>2 DEF Range
  <2>5. Range(s) \subseteq Range(u)
    BY <2>3 DEF Range
  <2>6. QED
    BY <2>2, <2>4, <2>5
<1>4. ASSUME Ascending(s), \A r \in Range(s) : r < n PROVE Ascending(u)
  <2>1. \A i \in DOMAIN s : s[i] < n
    BY <1>4 DEF Range
  <2>2. ASSUME NEW i \in DOMAIN u, NEW j \in DOMAIN u, i < j PROVE u[i] < u[j]
    <3>1. i \in DOMAIN s /\ u[i] = s[i]
      BY <1>1, <1>2, <2>2
    <3>2. CASE j \in DOMAIN s
      BY <1>1, <1>2, <1>4, <2>2, <3>1, <3>2 DEF Ascending
    <3>3. CASE j \notin DOMAIN s
      <4>1. u[j] = n
        BY <1>1, <1>2, <3>3
      <4>2. QED
        BY <2>1, <3>1, <4>1
    <3>4. QED
      BY <3>2, <3>3
  <2>3. QED
    BY <2>2 DEF Ascending
<1>5. QED
  BY <1>1, <1>3, <1>4 DEF u

\* Order between queues, by the rows in them.
LEMMA BelowByRange == \A s, t : Below(s, t) <=> \A x \in Range(s), y \in Range(t) : x < y
  BY DEF Below, Range

\* Nothing is queued in an empty queue.
LEMMA NoRows == <<>> \in Seq(Nat) /\ Range(<<>>) = {} /\ Ascending(<<>>)
<1>1. <<>> \in Seq(Nat) /\ DOMAIN <<>> = {}
  BY EmptySeq
<1>2. QED
  BY <1>1 DEF Range, Ascending

-----------------------------------------------------------------------------

\* At the start nothing is queued and every row found is stored.
LEMMA RawInitial == RawInit => RawInv
<1> SUFFICES ASSUME RawInit PROVE RawInv
  OBVIOUS
<1>1. log \in Seq(Sources \X Int) /\ Len(log) \in Nat /\ DOMAIN log = 1 .. Len(log)
  <2>1. Keys \subseteq Sources \X Int
    BY RawConstants DEF Keys, Slots
  <2>2. log \in Seq(Sources \X Int)
    BY <2>1, RawConstants, SeqMonotonic DEF RawInit
  <2>3. QED
    BY <2>2, LenProperties
<1>2. stored = DOMAIN log /\ rawBatch = <<>> /\ rawPending = <<>>
  BY DEF RawInit
<1>3. RawTyped
  BY <1>1, <1>2, NoRows, RawConstants DEF RawInit, RawTyped
<1>4. RawOrdered /\ RawFresh /\ RawKept
  BY <1>2, NoRows, BelowByRange DEF RawOrdered, RawFresh, RawKept
<1>5. QED
  BY <1>3, <1>4 DEF RawInv

\* What a spot adds to the log.
LEMMA LogGrows ==
  ASSUME RawTyped, NEW s \in Sources, NEW t \in clock - MaxLate .. clock, NewSpot(s, t)
  PROVE  /\ log' \in Seq(Sources \X Int) /\ Len(log) \in Nat /\ Len(log') = Len(log) + 1
         /\ \A i \in DOMAIN log' : i = Len(log') \/ (i \in DOMAIN log /\ log'[i] = log[i])
         /\ log'[Len(log')][1] = s
<1>1. <<s, t>> \in Sources \X Int
  BY RawConstants DEF RawTyped
<1>2. /\ log' \in Seq(Sources \X Int) /\ Len(log') = Len(log) + 1
      /\ \A i \in 1 .. Len(log) : log'[i] = log[i]
      /\ log'[Len(log) + 1] = <<s, t>>
  BY <1>1, AppendProperties DEF NewSpot, RawTyped
<1>3. DOMAIN log = 1 .. Len(log) /\ DOMAIN log' = 1 .. Len(log') /\ Len(log) \in Nat
  BY <1>2, LenProperties DEF RawTyped
<1>4. \A i \in DOMAIN log' : i = Len(log') \/ (i \in DOMAIN log /\ log'[i] = log[i])
  BY <1>2, <1>3
<1>5. QED
  BY <1>2, <1>3, <1>4

\* Every step keeps the queue in order and accounts for every row.
LEMMA RawKeeps ==
  ASSUME RawInv, [RawNext]_rawVars
  PROVE  RawInv'
<1>a. RawTyped /\ RawOrdered /\ RawFresh /\ RawKept
  BY DEF RawInv
<1>1. ASSUME NEW s \in Sources, NEW t \in clock - MaxLate .. clock, ObserveRaw(s, t)
      PROVE  RawInv'
  <2> DEFINE n == Len(log')
             q == Append(rawPending, n)
  <2>1. /\ log' \in Seq(Sources \X Int) /\ Len(log) \in Nat /\ n = Len(log) + 1
        /\ \A i \in DOMAIN log' : i = n \/ (i \in DOMAIN log /\ log'[i] = log[i])
    BY <1>1, <1>a, LogGrows DEF ObserveRaw
  <2>2. /\ rawPending' = trimRawSpotRows(q) /\ trimmed' = trimmed \cup TrimmedRows(q)
        /\ UNCHANGED <<clock, rawBatch, raw, restarts, stored>>
    BY <1>1 DEF ObserveRaw, SetPending
  <2> HIDE DEF n
  <2>3. \A r \in Range(rawBatch) \cup Range(rawPending) \cup stored : r \in Nat \ {0} /\ r < n
    BY <1>a, <2>1 DEF RawTyped
  <2>4. q \in Seq(Nat) /\ Range(q) = Range(rawPending) \cup {n} /\ Ascending(q)
    BY <1>a, <2>1, <2>3, Arrive DEF RawTyped, RawOrdered
  <2>5. /\ rawPending' \in Seq(Nat) /\ Ascending(rawPending')
        /\ Range(rawPending') \subseteq Range(q)
        /\ Range(q) \subseteq Range(rawPending') \cup trimmed'
    BY <2>2, <2>4, Trim
  <2> HIDE DEF q
  <2>6. RawTyped'
    <3>1. \A r \in Range(rawBatch') \cup Range(rawPending') \cup stored' : r \in Nat \ {0} /\ r <= n
      BY <2>1, <2>2, <2>3, <2>4, <2>5
    <3>2. QED
      BY <1>a, <2>1, <2>2, <2>5, <3>1 DEF RawTyped, n
  <2>7. RawOrdered'
    <3>1. \A x \in Range(rawBatch), y \in Range(rawPending') : x < y
      BY <1>a, <2>3, <2>4, <2>5, BelowByRange DEF RawOrdered
    <3>2. QED
      BY <1>a, <2>2, <2>5, <3>1, BelowByRange DEF RawOrdered
  <2>8. RawFresh'
    <3>1. n \notin stored
      BY <2>1, <2>3
    <3>2. QED
      BY <1>a, <2>2, <2>4, <2>5, <3>1 DEF RawFresh
  <2>9. RawKept'
    BY <1>a, <2>1, <2>2, <2>4, <2>5 DEF RawKept
  <2>10. QED
    BY <2>6, <2>7, <2>8, <2>9 DEF RawInv
<1>2. ASSUME NEW s \in Sources, NEW t \in clock - MaxLate .. clock, NEW ok \in BOOLEAN,
             PersistRawSpot(s, t, ok)
      PROVE  RawInv'
  <2> DEFINE n == Len(log')
  <2>1. /\ log' \in Seq(Sources \X Int) /\ Len(log) \in Nat /\ n = Len(log) + 1
        /\ \A i \in DOMAIN log' : i = n \/ (i \in DOMAIN log /\ log'[i] = log[i])
        /\ log'[n][1] = s
    BY <1>2, <1>a, LogGrows DEF PersistRawSpot
  <2>2. /\ s \notin QueuedSources /\ stored \subseteq stored' /\ stored' \subseteq stored \cup {n}
        /\ UNCHANGED <<clock, rawBatch, rawPending, restarts, trimmed>>
    BY <1>2 DEF PersistRawSpot, queueVars
  <2> HIDE DEF n
  <2>3. \A r \in Range(rawBatch) \cup Range(rawPending) \cup stored : r \in Nat \ {0} /\ r < n
    BY <1>a, <2>1 DEF RawTyped
  <2>4. RawTyped'
    <3>1. \A r \in Range(rawBatch') \cup Range(rawPending') \cup stored' : r \in Nat \ {0} /\ r <= n
      <4>1. \A r \in Range(rawBatch) \cup Range(rawPending) \cup stored \cup {n} : r \in Nat \ {0} /\ r <= n
        BY <2>1, <2>3
      <4>2. Range(rawBatch') = Range(rawBatch) /\ Range(rawPending') = Range(rawPending)
        BY <2>2
      <4>3. QED
        BY <4>1, <4>2, <2>2
    <3>2. QED
      BY <1>a, <2>1, <2>2, <3>1 DEF RawTyped, n
  <2>5. RawOrdered'
    BY <1>a, <2>2 DEF RawOrdered, Ascending, Below
  <2>6. RawFresh'
    <3>1. n \notin Range(rawBatch) \cup Range(rawPending)
      BY <2>1, <2>3
    <3>2. QED
      BY <1>a, <2>2, <3>1 DEF RawFresh
  <2>7. RawKept'
    BY <1>a, <2>1, <2>2 DEF RawKept
  <2>8. QED
    BY <2>4, <2>5, <2>6, <2>7 DEF RawInv
<1>3. CASE RawFlushSwap
  <2>1. /\ rawBatch = <<>> /\ rawBatch' = rawPending /\ rawPending' = <<>>
        /\ UNCHANGED <<clock, log, restarts, stored, trimmed>>
    BY <1>3 DEF RawFlushSwap
  <2>2. RawTyped'
    BY <1>a, <2>1, NoRows DEF RawTyped
  <2>3. RawOrdered'
    BY <1>a, <2>1, NoRows, BelowByRange DEF RawOrdered
  <2>4. RawFresh' /\ RawKept'
    BY <1>a, <2>1, NoRows DEF RawFresh, RawKept
  <2>5. QED
    BY <2>2, <2>3, <2>4 DEF RawInv
<1>4. CASE RawFlushChunk
  <2> DEFINE chunk == {rawBatch[i] : i \in {j \in DOMAIN rawBatch : j <= RawChunk}}
             k == IF RawChunk <= Len(rawBatch) THEN RawChunk ELSE Len(rawBatch)
  <2>1. /\ stored' = stored \cup chunk /\ rawBatch' = SubSeq(rawBatch, RawChunk + 1, Len(rawBatch))
        /\ UNCHANGED <<clock, log, rawPending, restarts, trimmed>>
    BY <1>4 DEF RawFlushChunk
  <2>2. Len(rawBatch) \in Nat /\ DOMAIN rawBatch = 1 .. Len(rawBatch) /\ rawBatch \in Seq(Nat)
    BY <1>a, LenProperties DEF RawTyped
  <2>3. k \in Nat /\ k <= Len(rawBatch) /\ \A i \in DOMAIN rawBatch : i <= RawChunk <=> i <= k
    BY <2>2, RawConstants
  <2>4. rawBatch' = SubSeq(rawBatch, k + 1, Len(rawBatch))
    <3>1. CASE RawChunk <= Len(rawBatch)
      BY <2>1, <3>1
    <3>2. CASE ~(RawChunk <= Len(rawBatch))
      <4>1. RawChunk + 1 \in Int /\ Len(rawBatch) < RawChunk + 1 /\ k = Len(rawBatch)
        BY <2>2, <3>2, RawConstants
      <4>2. SubSeq(rawBatch, RawChunk + 1, Len(rawBatch)) = <<>>
        BY <2>2, <4>1, SubSeqEmpty
      <4>3. SubSeq(rawBatch, k + 1, Len(rawBatch)) = <<>>
        BY <2>2, <4>1, SubSeqEmpty
      <4>4. QED
        BY <2>1, <4>2, <4>3
    <3>3. QED
      BY <3>1, <3>2
  <2> HIDE DEF k
  <2>5. /\ rawBatch' \in Seq(Nat)
        /\ \A i \in DOMAIN rawBatch' : i + k \in DOMAIN rawBatch /\ rawBatch'[i] = rawBatch[i + k]
        /\ \A i \in DOMAIN rawBatch : i <= k \/ rawBatch[i] \in Range(rawBatch')
        /\ Range(rawBatch') \subseteq Range(rawBatch)
        /\ Ascending(rawBatch) => Ascending(rawBatch')
        /\ DOMAIN rawBatch' = 1 .. Len(rawBatch) - k
    BY <2>2, <2>3, <2>4, Suffix
  <2>6. chunk \subseteq Range(rawBatch) /\ Range(rawBatch) \subseteq chunk \cup Range(rawBatch')
    BY <2>3, <2>5 DEF Range
  <2>7. chunk \cap Range(rawBatch') = {}
    <3>1. ASSUME NEW i \in DOMAIN rawBatch', NEW j \in DOMAIN rawBatch, j <= RawChunk
          PROVE  rawBatch'[i] # rawBatch[j]
      <4>1. j < i + k /\ i + k \in DOMAIN rawBatch /\ rawBatch'[i] = rawBatch[i + k]
        BY <2>2, <2>3, <2>5, <3>1
      <4>2. rawBatch[j] < rawBatch[i + k] /\ rawBatch[j] \in Nat
        BY <1>a, <2>2, <4>1 DEF RawOrdered, Ascending
      <4>3. QED
        BY <4>1, <4>2
    <3>2. QED
      BY <3>1 DEF Range
  <2>8. chunk \cap Range(rawPending) = {}
    <3>1. \A x \in Range(rawBatch), y \in Range(rawPending) : x \in Nat /\ x < y
      BY <1>a, BelowByRange DEF RawOrdered, RawTyped
    <3>2. QED
      BY <2>6, <3>1
  <2> HIDE DEF chunk
  <2>9. RawTyped'
    BY <1>a, <2>1, <2>5, <2>6 DEF RawTyped
  <2>10. RawOrdered'
    BY <1>a, <2>1, <2>5, BelowByRange DEF RawOrdered
  <2>11. RawFresh'
    BY <1>a, <2>1, <2>5, <2>7, <2>8 DEF RawFresh
  <2>12. RawKept'
    BY <1>a, <2>1, <2>6 DEF RawKept
  <2>13. QED
    BY <2>9, <2>10, <2>11, <2>12 DEF RawInv
<1>5. CASE RawFlushFail
  <2> DEFINE q == rawBatch \o rawPending
  <2>1. /\ rawPending' = trimRawSpotRows(q) /\ trimmed' = trimmed \cup TrimmedRows(q)
        /\ rawBatch' = <<>> /\ UNCHANGED <<clock, log, restarts, stored>>
    BY <1>5 DEF RawFlushFail, SetPending, mergeRawSpotRows
  <2>2. q \in Seq(Nat) /\ Range(q) = Range(rawBatch) \cup Range(rawPending) /\ Ascending(q)
    BY <1>a, Behind DEF RawTyped, RawOrdered
  <2>3. /\ rawPending' \in Seq(Nat) /\ Ascending(rawPending')
        /\ Range(rawPending') \subseteq Range(q)
        /\ Range(q) \subseteq Range(rawPending') \cup trimmed'
    BY <2>1, <2>2, Trim
  <2> HIDE DEF q
  <2>4. RawTyped'
    BY <1>a, <2>1, <2>2, <2>3, NoRows DEF RawTyped
  <2>5. RawOrdered'
    BY <2>1, <2>3, NoRows, BelowByRange DEF RawOrdered
  <2>6. RawFresh' /\ RawKept'
    BY <1>a, <2>1, <2>2, <2>3, NoRows DEF RawFresh, RawKept
  <2>7. QED
    BY <2>4, <2>5, <2>6 DEF RawInv
<1>6. CASE Restart
  <2>1. /\ rawBatch' = <<>> /\ rawPending' = <<>> /\ restarts' = restarts + 1
        /\ UNCHANGED <<clock, log, stored, trimmed>>
    BY <1>6 DEF Restart
  <2>2. RawTyped'
    BY <1>a, <2>1, NoRows DEF RawTyped
  <2>3. RawOrdered' /\ RawFresh'
    BY <2>1, NoRows, BelowByRange DEF RawOrdered, RawFresh
  <2>4. RawKept'
    BY <1>a, <2>1 DEF RawTyped, RawKept
  <2>5. QED
    BY <2>2, <2>3, <2>4 DEF RawInv
<1>7. ASSUME (\E i \in raw : PruneRawSpot(i)) \/ Tick \/ UNCHANGED rawVars
      PROVE  RawInv'
  <2>1. UNCHANGED <<log, rawBatch, rawPending, restarts, stored, trimmed>> /\ clock' \in Int
    BY <1>7, <1>a DEF PruneRawSpot, Tick, rawVars, queueVars, RawTyped
  <2>2. RawTyped'
    BY <1>a, <2>1 DEF RawTyped
  <2>3. RawOrdered'
    BY <1>a, <2>1 DEF RawOrdered, Ascending, Below
  <2>4. RawFresh' /\ RawKept'
    BY <1>a, <2>1 DEF RawFresh, RawKept
  <2>5. QED
    BY <2>2, <2>3, <2>4 DEF RawInv
<1>8. QED
  BY <1>1, <1>2, <1>3, <1>4, <1>5, <1>6, <1>7 DEF RawNext, IngestRaw, FlushRaw

\* The invariant in terms of the queue the flusher works off.
LEMMA RawImplies == ASSUME RawInv PROVE RawRetriedInOrder /\ RawNothingLost
<1>1. Ascending(RawQueue) /\ Range(RawQueue) = Range(rawBatch) \cup Range(rawPending)
  BY Behind DEF RawInv, RawTyped, RawOrdered, RawQueue
<1>2. RawRetriedInOrder
  BY <1>1 DEF RawRetriedInOrder, Ascending, RawInv, RawFresh
<1>3. RawNothingLost
  BY <1>1 DEF RawNothingLost, RawInv, RawKept
<1>4. QED
  BY <1>2, <1>3

\* Whatever chunk fails, whatever arrives meanwhile and whatever the cap
\* trims: rows are retried in the order of arrival and none is inserted twice.
THEOREM RawOrderCorrect == RawSpec => []RawRetriedInOrder
<1>1. RawInv /\ [RawNext]_rawVars => RawInv'
  BY RawKeeps
<1>2. RawInv => RawRetriedInOrder
  BY RawImplies
<1>3. QED
  BY RawInitial, <1>1, <1>2, PTL DEF RawSpec

\* Short of a restart no queued row is lost except to the cap.
THEOREM RawLossCorrect == RawSpec => []RawNothingLost
<1>1. RawInv /\ [RawNext]_rawVars => RawInv'
  BY RawKeeps
<1>2. RawInv => RawNothingLost
  BY RawImplies
<1>3. QED
  BY RawInitial, <1>1, <1>2, PTL DEF RawSpec

-----------------------------------------------------------------------------
\* The steps of the backfill, and those within a walk.
BfSteps == {"start", "collect", "merge", "cursor", "done", "stopped"}
BfType == [pc : BfSteps, today : Nat, day : Nat, src : DOMAIN sources, at : Int,
           acc : [Slots -> Nat], fails : Nat]
Walking == bf.pc \in {"collect", "merge", "cursor"}

\* The day of a row, and the first day of the backfill's window.
DayOf(i) == utcDayIndex(log[i][2])
FirstDay == utcDayIndex(clock) - BackfillDays + 1

\* What the raw rows are: places of the log; what the ingest holds: a spot of
\* its source; what is between swap and end only exists there.
RowsTyped ==
    /\ clock \in Nat /\ StartClock <= clock /\ clock <= MaxClock
    /\ log \in Seq(Keys) /\ stored \subseteq DOMAIN log /\ raw \subseteq stored
    /\ ingest \in [Sources -> Nat]
    /\ \A s \in Sources : ingest[s] # 0 => ingest[s] \in DOMAIN log /\ log[ingest[s]][1] = s
CountsTyped ==
    /\ pending \in [Keys -> Nat] /\ batch \in [Keys -> Nat]
    /\ table \in [Keys -> Nat] /\ live \in [Keys -> Nat]
    /\ ~flushing => batch = Zero
WalkTyped ==
    /\ cursor \in Int /\ -1 <= cursor
    /\ planned \subseteq Int
    /\ bf \in BfType

PbTypeOK == RowsTyped /\ CountsTyped /\ WalkTyped

\* The rows of a key that were ever stored.
RowsOf(k) == {i \in stored : log[i] = k}

\* What the backfill added up is in the raw rows.
Collected ==
    bf.pc \in {"collect", "merge"} =>
        \A k \in Keys : k[1] = sources[bf.src] => bf.acc[k[2]] <= Cardinality(RowsOf(k))

\* The key of a row is in the table or on its way there, or its count was lost.
Counted(i) ==
    \/ table[log[i]] + pending[log[i]] + batch[log[i]] > 0
    \/ ingest[log[i][1]] = i
    \/ log[i] \in gone

\* Or its chunk failed.
Covered(i) == Counted(i) \/ \E c \in skipped : sources[c[1]] = log[i][1] /\ c[2] = DayOf(i)

\* A row that was never stored was counted when it came.
LiveCounted == \A i \in DOMAIN log : i \notin stored => Counted(i)

\* The days behind the cursor are covered.
BehindCursor == \A i \in raw : DayOf(i) \in planned /\ DayOf(i) <= cursor => Covered(i)

\* The days of the window behind the cursor are planned; those of the window up
\* to the walk's are, so are the rest of the walk's, and none lies between
\* cursor and walk.
PlanKept == \A d \in FirstDay .. cursor : d \in planned
PlanAhead ==
    Walking =>
        /\ \A d \in FirstDay .. bf.today : d >= bf.day => d \in planned
        /\ \A d \in FirstDay .. bf.day : d \in planned
        /\ bf.day <= bf.today
        /\ \A d \in planned : d <= cursor \/ d >= bf.day

\* The sources of the walk's day that are behind it are covered, and the slots
\* of its chunk that were collected.
DayWalked ==
    Walking => \A i \in raw : DayOf(i) = bf.day =>
        \A j \in DOMAIN sources : (j < bf.src \/ bf.pc = "cursor") /\ sources[j] = log[i][1] => Covered(i)
ChunkWalked ==
    bf.pc \in {"collect", "merge"} =>
        /\ IF bf.pc = "collect" THEN bf.at < (bf.day + 1) * SlotsPerDay
                                ELSE bf.at = (bf.day + 1) * SlotsPerDay
        /\ \A i \in raw : log[i][1] = sources[bf.src] /\ DayOf(i) = bf.day /\ log[i][2] < bf.at
             => Counted(i) \/ bf.acc[log[i][2]] > 0

\* The inductive invariants of BackfillOnce and of CursorCovers.
OnceInv == PbTypeOK /\ RawInv /\ BackfillOnce /\ Collected
CoverInv == PbTypeOK /\ RawInv /\ LiveCounted /\ BehindCursor /\ PlanKept /\ PlanAhead /\ DayWalked /\ ChunkWalked

-----------------------------------------------------------------------------

\* The slots of a day, and that days only get later.
LEMMA DaySlots ==
  ASSUME NEW t \in Nat
  PROVE  /\ utcDayIndex(t) \in Nat
         /\ utcDayIndex(t) * SlotsPerDay <= t
         /\ t < (utcDayIndex(t) + 1) * SlotsPerDay
<1>1. \A s \in Nat \ {0} : /\ t \div s \in Nat /\ t % s \in Nat /\ t % s < s
                           /\ t = s * (t \div s) + (t % s)
  OBVIOUS
<1>2. \A s, d, e \in Nat : t = s * d + e /\ e < s => d * s <= t /\ t < (d + 1) * s
  OBVIOUS
<1>3. QED
  BY <1>1, <1>2, BaselineConstants DEF utcDayIndex

LEMMA DaysAscend ==
  ASSUME NEW t \in Nat, NEW u \in Nat, t <= u
  PROVE  utcDayIndex(t) <= utcDayIndex(u)
<1> DEFINE d == utcDayIndex(t)
           e == utcDayIndex(u)
<1>1. d \in Nat /\ e \in Nat /\ SlotsPerDay \in Nat \ {0}
  BY DaySlots, BaselineConstants
<1>2. d * SlotsPerDay <= t /\ u < (e + 1) * SlotsPerDay
  BY DaySlots
<1> HIDE DEF d, e
<1>3. d * SlotsPerDay < (e + 1) * SlotsPerDay
  BY <1>1, <1>2
<1>4. \A m, n \in Nat, k \in Nat \ {0} : m * k < n * k => m < n
  OBVIOUS
<1>5. d < e + 1
  BY <1>1, <1>3, <1>4
<1>6. QED
  BY <1>1, <1>5 DEF d, e

\* Every source of the list is one, and a row is of one of them.
LEMMA SourceOf ==
  /\ \A j \in DOMAIN sources : sources[j] \in Sources
  /\ \A s \in Sources : \E j \in DOMAIN sources : sources[j] = s
  /\ Len(sources) \in Nat /\ 1 <= Len(sources) /\ DOMAIN sources = 1 .. Len(sources)
<1>1. Len(sources) \in Nat /\ DOMAIN sources = 1 .. Len(sources)
  BY BaselineConstants, LenProperties
<1>2. Len(sources) # 0
  BY BaselineConstants, EmptySeq
<1>3. QED
  BY <1>1, <1>2 DEF Sources, Range

\* The raw rows only take the steps of RawSpots.
LEMMA RawAlong == ASSUME [Next]_vars PROVE [RawNext]_rawVars
  BY DEF Next, vars, IngestStep, RawStep, FlushStep, BackfillStep, Ingest, Observe, DropUnusable,
         FlushSwap, FlushCommit, FlushFail, BackfillStart, BackfillCollect, BackfillMerge,
         BackfillChunkFail, BackfillCursor, markPropBaselineBackfillDone, BackfillMetaFail,
         RestartAll, RawNext

\* The slots a spot may have.
LEMMA SpotKey ==
  ASSUME RowsTyped, NEW s \in Sources, NEW t \in clock - MaxLate .. clock
  PROVE  <<s, t>> \in Keys
<1>1. \A c, m, x, y \in Nat, u \in Int : x >= m /\ x <= c /\ c <= y /\ u \in c - m .. c => u \in 0 .. y
  OBVIOUS
<1>2. MaxLate \in Nat /\ MaxClock \in Nat /\ StartClock \in Nat /\ StartClock >= MaxLate
  BY RawConstants
<1>3. clock \in Nat /\ StartClock <= clock /\ clock <= MaxClock
  BY DEF RowsTyped
<1>4. t \in Int
  BY <1>2, <1>3
<1>5. t \in 0 .. MaxClock
  BY <1>1, <1>2, <1>3, <1>4
<1>6. QED
  BY <1>5 DEF Keys, Slots

\* What a step does to the rows: the log and what was stored only grow, a new
\* spot is in its source's ingest, and a row that is new in dx_raw_spots was
\* never stored before.
LEMMA RowsMove ==
  ASSUME RowsTyped, RawInv, [Next]_vars
  PROVE  /\ RowsTyped'
         /\ clock <= clock'
         /\ Len(log) \in Nat /\ DOMAIN log = 1 .. Len(log)
         /\ \A i \in DOMAIN log : i \in DOMAIN log' /\ log'[i] = log[i]
         /\ stored \subseteq stored'
         /\ \A i \in DOMAIN log' : i \in DOMAIN log \/ ingest'[log'[i][1]] = i
         /\ \A i \in raw' : i \in raw \/ i \notin stored
<1>1. Len(log) \in Nat /\ DOMAIN log = 1 .. Len(log)
  BY LenProperties DEF RowsTyped
<1>2. ASSUME NEW s \in Sources, NEW t \in clock - MaxLate .. clock, Ingest(s, t)
      PROVE  /\ RowsTyped' /\ clock <= clock'
             /\ \A i \in DOMAIN log : i \in DOMAIN log' /\ log'[i] = log[i]
             /\ stored \subseteq stored'
             /\ \A i \in DOMAIN log' : i \in DOMAIN log \/ ingest'[log'[i][1]] = i
             /\ \A i \in raw' : i \in raw \/ i \notin stored
  <2> DEFINE n == Len(log) + 1
  <2>1. NewSpot(s, t) /\ clock' = clock
    BY <1>2 DEF Ingest, IngestRaw, ObserveRaw, PersistRawSpot
  <2>2. <<s, t>> \in Keys
    BY SpotKey
  <2>3. /\ log' \in Seq(Keys) /\ Len(log') = n
        /\ \A i \in 1 .. Len(log) : log'[i] = log[i]
        /\ log'[n] = <<s, t>>
    BY <2>1, <2>2, AppendProperties DEF NewSpot, RowsTyped
  <2>4. DOMAIN log' = 1 .. n
    BY <2>3, LenProperties
  <2>5. n \in Nat /\ n # 0 /\ n \in DOMAIN log' /\ n \notin DOMAIN log
    BY <1>1, <2>4
  <2>6. \A i \in DOMAIN log' : i \in DOMAIN log \/ i = n
    BY <1>1, <2>4
  <2>7. \A i \in DOMAIN log : i \in DOMAIN log' /\ log'[i] = log[i]
    BY <1>1, <2>3, <2>4
  <2>8. ingest' = [ingest EXCEPT ![s] = n]
    BY <1>2, <2>3 DEF Ingest
  <2>9. /\ raw \subseteq raw' /\ raw' \subseteq raw \cup {n}
        /\ stored \subseteq stored' /\ stored' \subseteq stored \cup {n}
        /\ raw' \subseteq stored'
    <3>1. CASE ObserveRaw(s, t)
      BY <3>1 DEF ObserveRaw, RowsTyped
    <3>2. ASSUME NEW ok \in BOOLEAN, PersistRawSpot(s, t, ok)
          PROVE  /\ raw \subseteq raw' /\ raw' \subseteq raw \cup {n}
                 /\ stored \subseteq stored' /\ stored' \subseteq stored \cup {n}
                 /\ raw' \subseteq stored'
      BY <3>2, <2>3 DEF PersistRawSpot, RowsTyped
    <3>3. QED
      BY <1>2, <3>1, <3>2 DEF Ingest, IngestRaw
  <2> HIDE DEF n
  <2>10. stored' \subseteq DOMAIN log'
    BY <2>5, <2>7, <2>9 DEF RowsTyped
  <2>11. ingest' \in [Sources -> Nat]
    BY <2>5, <2>8 DEF RowsTyped
  <2>12. ASSUME NEW u \in Sources, ingest'[u] # 0 PROVE ingest'[u] \in DOMAIN log' /\ log'[ingest'[u]][1] = u
    <3>1. CASE u = s
      BY <2>3, <2>5, <2>8, <3>1 DEF RowsTyped
    <3>2. CASE u # s
      BY <2>7, <2>8, <2>12, <3>2 DEF RowsTyped
    <3>3. QED
      BY <3>1, <3>2
  <2>13. RowsTyped'
    <3>1. clock' \in Nat /\ StartClock <= clock' /\ clock' <= MaxClock
      BY <2>1 DEF RowsTyped
    <3>2. QED
      BY <3>1, <2>3, <2>9, <2>10, <2>11, <2>12 DEF RowsTyped
  <2>14. clock <= clock'
    BY <2>1 DEF RowsTyped
  <2>15. ASSUME NEW i \in DOMAIN log' PROVE i \in DOMAIN log \/ ingest'[log'[i][1]] = i
    BY <2>3, <2>6, <2>8 DEF RowsTyped
  <2>16. ASSUME NEW i \in raw' PROVE i \in raw \/ i \notin stored
    BY <2>5, <2>9 DEF RowsTyped
  <2>17. QED
    BY <2>7, <2>9, <2>13, <2>14, <2>15, <2>16
<1>3. ASSUME UNCHANGED log, clock' \in Nat, clock <= clock', clock' <= MaxClock,
             stored \subseteq stored', stored' \subseteq DOMAIN log, raw' \subseteq stored',
             \A i \in raw' : i \in raw \/ i \notin stored,
             ingest' \in [Sources -> Nat],
             \A u \in Sources : ingest'[u] = ingest[u] \/ ingest'[u] = 0
      PROVE  /\ RowsTyped' /\ clock <= clock'
             /\ \A i \in DOMAIN log : i \in DOMAIN log' /\ log'[i] = log[i]
             /\ stored \subseteq stored'
             /\ \A i \in DOMAIN log' : i \in DOMAIN log \/ ingest'[log'[i][1]] = i
             /\ \A i \in raw' : i \in raw \/ i \notin stored
  <2>1. clock' \in Nat /\ StartClock <= clock' /\ clock' <= MaxClock
    BY <1>3, RawConstants DEF RowsTyped
  <2>2. \A u \in Sources : ingest'[u] # 0 => ingest'[u] \in DOMAIN log' /\ log'[ingest'[u]][1] = u
    BY <1>3 DEF RowsTyped
  <2>3. RowsTyped'
    BY <1>3, <2>1, <2>2 DEF RowsTyped
  <2>4. QED
    BY <1>3, <2>3
<1>a. /\ clock \in Nat /\ clock <= MaxClock /\ clock <= clock
      /\ stored \subseteq DOMAIN log /\ raw \subseteq stored /\ ingest \in [Sources -> Nat]
  BY DEF RowsTyped
<1>4. CASE UNCHANGED vars
  <2>1. UNCHANGED <<log, clock, stored, raw, ingest>>
    BY <1>4 DEF vars, rawVars
  <2>2. QED
    BY <1>1, <1>3, <1>a, <2>1
<1>5. ASSUME NEW s \in Sources, Observe(s) \/ DropUnusable(s)
      PROVE  /\ RowsTyped' /\ clock <= clock'
             /\ \A i \in DOMAIN log : i \in DOMAIN log' /\ log'[i] = log[i]
             /\ stored \subseteq stored'
             /\ \A i \in DOMAIN log' : i \in DOMAIN log \/ ingest'[log'[i][1]] = i
             /\ \A i \in raw' : i \in raw \/ i \notin stored
  <2>1. UNCHANGED <<log, clock, stored, raw>> /\ ingest' = [ingest EXCEPT ![s] = 0]
    BY <1>5 DEF Observe, DropUnusable, rawVars
  <2>2. QED
    BY <1>3, <1>a, <2>1
<1>6. CASE RawStep
  <2>0. ingest' = ingest
    BY <1>6 DEF RawStep
  <2>1. CASE RawFlushSwap \/ RawFlushFail
    <3>1. UNCHANGED <<log, clock, stored, raw>>
      BY <2>1 DEF RawFlushSwap, RawFlushFail
    <3>2. QED
      BY <1>1, <1>3, <1>a, <2>0, <3>1
  <2>2. CASE RawFlushChunk
    <3> DEFINE chunk == {rawBatch[i] : i \in {j \in DOMAIN rawBatch : j <= RawChunk}}
    <3>1. UNCHANGED <<log, clock>> /\ raw' = raw \cup chunk /\ stored' = stored \cup chunk
      BY <2>2 DEF RawFlushChunk
    <3>2. \A r \in chunk : r \in Range(rawBatch)
      BY DEF Range
    <3> HIDE DEF chunk
    <3>3. \A r \in chunk : r \in Nat /\ r \in DOMAIN log /\ r \notin stored
      <4>1. \A r \in Range(rawBatch) : r \notin stored
        BY DEF RawInv, RawFresh
      <4>2. \A r \in Range(rawBatch) : r \in Nat \ {0} /\ r <= Len(log)
        BY DEF RawInv, RawTyped
      <4>3. QED
        BY <1>1, <3>2, <4>1, <4>2
    <3>4. QED
      BY <1>1, <1>3, <1>a, <2>0, <3>1, <3>3
  <2>3. ASSUME NEW i \in raw, PruneRawSpot(i)
        PROVE  /\ RowsTyped' /\ clock <= clock'
               /\ \A j \in DOMAIN log : j \in DOMAIN log' /\ log'[j] = log[j]
               /\ stored \subseteq stored'
               /\ \A j \in DOMAIN log' : j \in DOMAIN log \/ ingest'[log'[j][1]] = j
               /\ \A j \in raw' : j \in raw \/ j \notin stored
    <3>1. UNCHANGED <<log, clock, stored>> /\ raw' \subseteq raw
      BY <2>3 DEF PruneRawSpot
    <3>2. QED
      BY <1>1, <1>3, <1>a, <2>0, <3>1
  <2>4. CASE Tick
    <3>1. UNCHANGED <<log, stored, raw>> /\ clock' = clock + 1 /\ clock < MaxClock
      BY <2>4 DEF Tick
    <3>2. clock' \in Nat /\ clock <= clock' /\ clock' <= MaxClock
      BY <3>1, <1>a, RawConstants
    <3>3. QED
      BY <1>1, <1>3, <1>a, <2>0, <3>1, <3>2
  <2>5. QED
    BY <1>1, <1>6, <2>1, <2>2, <2>3, <2>4 DEF RawStep, FlushRaw
<1>7. CASE FlushStep \/ BackfillStep
  <2>1. UNCHANGED <<log, clock, stored, raw, ingest>>
    BY <1>7 DEF FlushStep, BackfillStep, FlushSwap, FlushCommit, FlushFail, BackfillStart, BackfillCollect,
         BackfillMerge, BackfillChunkFail, BackfillCursor, markPropBaselineBackfillDone, BackfillMetaFail, rawVars
  <2>2. QED
    BY <1>1, <1>3, <1>a, <2>1
<1>8. CASE RestartAll
  <2>1. UNCHANGED <<log, clock, stored, raw>> /\ ingest' = [s \in Sources |-> 0]
    BY <1>8 DEF RestartAll, Restart
  <2>2. QED
    BY <1>1, <1>3, <1>a, <2>1
<1>9. QED
  BY <1>1, <1>2, <1>4, <1>5, <1>6, <1>7, <1>8 DEF Next, IngestStep

\* Rows are finitely many.
LEMMA RowsFinite ==
  ASSUME RowsTyped
  PROVE  /\ IsFiniteSet(stored)
         /\ \A X : X \subseteq stored => IsFiniteSet(X) /\ Cardinality(X) \in Nat
         /\ \A P : Cardinality({i \in raw : log[i] = P}) \in Nat
<1>1. Len(log) \in Nat /\ DOMAIN log = 1 .. Len(log) /\ stored \subseteq DOMAIN log /\ raw \subseteq stored
  BY LenProperties DEF RowsTyped
<1>2. IsFiniteSet(1 .. Len(log))
  BY <1>1, FS_Interval
<1>3. IsFiniteSet(stored)
  BY <1>1, <1>2, FS_Subset
<1>4. \A X : X \subseteq stored => IsFiniteSet(X) /\ Cardinality(X) \in Nat
  BY <1>3, FS_Subset, FS_CardinalityType
<1>5. \A P : {i \in raw : log[i] = P} \subseteq stored
  BY <1>1
<1>6. QED
  BY <1>3, <1>4, <1>5

\* A chunk that starts.
LEMMA ChunkStarts ==
  ASSUME NEW b \in BfType, NEW day \in Nat, NEW src \in DOMAIN sources
  PROVE  LET c == StartChunk(b, day, src)
         IN  /\ c \in BfType
             /\ c.pc = "collect" /\ c.day = day /\ c.src = src /\ c.at = day * SlotsPerDay
             /\ c.acc = NoAcc /\ c.today = b.today
<1>1. SlotsPerDay \in Nat
  BY BaselineConstants
<1>2. day * SlotsPerDay \in Int
  BY <1>1
<1>3. NoAcc \in [Slots -> Nat]
  BY DEF NoAcc
<1> DEFINE at == day * SlotsPerDay
<1> HIDE DEF at
<1>4. at \in Int
  BY <1>2 DEF at
<1>5. /\ [b EXCEPT !.pc = "collect", !.day = day, !.src = src, !.at = at, !.acc = NoAcc] \in BfType
      /\ [b EXCEPT !.pc = "collect", !.day = day, !.src = src, !.at = at, !.acc = NoAcc].today = b.today
  BY <1>3, <1>4 DEF BfType, BfSteps
<1>6. QED
  BY <1>5 DEF StartChunk, BfType, at

\* The idle goroutine.
LEMMA Idles ==
  ASSUME NEW pc \in {"start", "done", "stopped"}
  PROVE  BackfillIdle(pc) \in BfType /\ BackfillIdle(pc).pc = pc
<1>1. 1 \in DOMAIN sources
  BY SourceOf
<1>2. NoAcc \in [Slots -> Nat]
  BY DEF NoAcc
<1>3. QED
  BY <1>1, <1>2 DEF BackfillIdle, BfType, BfSteps

\* Where a chunk's end leads: nowhere, to the day's next source, or to the
\* write of the cursor after its last.
LEMMA ChunkEnds ==
  ASSUME NEW b \in BfType
  PROVE  LET c == AfterChunk(b)
         IN  /\ c \in BfType
             /\ \/ c.pc = "stopped"
                \/ /\ b.src < Len(sources) /\ b.src + 1 \in DOMAIN sources
                   /\ c = StartChunk(b, b.day, b.src + 1)
                \/ /\ b.src = Len(sources)
                   /\ c.pc = "cursor" /\ c.day = b.day /\ c.today = b.today
<1>1. b.src \in DOMAIN sources /\ b.day \in Nat
  BY DEF BfType
<1>2. CASE b.fails >= MaxChunkFailures
  BY <1>2, Idles DEF AfterChunk
<1>3. CASE ~(b.fails >= MaxChunkFailures) /\ b.src < Len(sources)
  <2>1. b.src + 1 \in DOMAIN sources
    BY <1>1, <1>3, SourceOf
  <2>2. StartChunk(b, b.day, b.src + 1) \in BfType
    BY <1>1, <2>1, ChunkStarts
  <2>3. AfterChunk(b) = StartChunk(b, b.day, b.src + 1)
    BY <1>3 DEF AfterChunk
  <2>4. QED
    BY <1>3, <2>1, <2>2, <2>3
<1>4. CASE ~(b.fails >= MaxChunkFailures) /\ ~(b.src < Len(sources))
  <2>1. b.src = Len(sources)
    BY <1>1, <1>4, SourceOf
  <2>2. NoAcc \in [Slots -> Nat]
    BY DEF NoAcc
  <2>3. AfterChunk(b) = [b EXCEPT !.pc = "cursor", !.acc = NoAcc]
    BY <1>4 DEF AfterChunk
  <2>4. /\ [b EXCEPT !.pc = "cursor", !.acc = NoAcc] \in BfType
        /\ [b EXCEPT !.pc = "cursor", !.acc = NoAcc].pc = "cursor"
        /\ [b EXCEPT !.pc = "cursor", !.acc = NoAcc].day = b.day
        /\ [b EXCEPT !.pc = "cursor", !.acc = NoAcc].today = b.today
    BY <2>2 DEF BfType, BfSteps
  <2>5. QED
    BY <2>1, <2>3, <2>4
<1>5. QED
  BY <1>2, <1>3, <1>4

\* The end of a chunk after b's failures were counted anew.
LEMMA Fails ==
  ASSUME WalkTyped, NEW n \in Nat
  PROVE  LET b == [bf EXCEPT !.fails = n]
         IN  b \in BfType /\ b.src = bf.src /\ b.day = bf.day /\ b.today = bf.today
  BY DEF WalkTyped, BfType

\* The first day of a walk.
LEMMA WalkStarts ==
  ASSUME RowsTyped, WalkTyped, NEW readCursor \in BOOLEAN
  PROVE  LET today == utcDayIndex(clock)
             first == today - BackfillDays + 1
             startDay == IF readCursor /\ cursor # -1 /\ cursor + 1 > first THEN cursor + 1 ELSE first
         IN  /\ today \in Nat /\ first \in Nat /\ startDay \in Nat
             /\ first <= startDay
             /\ startDay = first \/ startDay = cursor + 1
<1> DEFINE today == utcDayIndex(clock)
           start == utcDayIndex(StartClock)
<1>1. StartClock \in Nat /\ clock \in Nat /\ StartClock <= clock
  BY RawConstants DEF RowsTyped
<1>2. today \in Nat /\ start \in Nat /\ start <= today
  BY <1>1, DaySlots, DaysAscend
<1>3. start >= BackfillDays - 1 /\ BackfillDays \in Nat
  BY BaselineConstants DEF utcDayIndex
<1> HIDE DEF today, start
<1>4. today - BackfillDays + 1 \in Nat
  BY <1>2, <1>3
<1>5. cursor \in Int /\ -1 <= cursor
  BY DEF WalkTyped
<1>6. QED
  BY <1>2, <1>4, <1>5 DEF today

\* What a step does to the walk's state keeps its type.
LEMMA WalkStep ==
  ASSUME PbTypeOK, [Next]_vars
  PROVE  WalkTyped'
<1>a. WalkTyped /\ RowsTyped
  BY DEF PbTypeOK
<1>b. cursor \in Int /\ -1 <= cursor /\ planned \subseteq Int /\ bf \in BfType
  BY <1>a DEF WalkTyped
<1>c. /\ bf.day \in Nat /\ bf.src \in DOMAIN sources /\ bf.fails \in Nat /\ bf.at \in Int
      /\ bf.acc \in [Slots -> Nat] /\ bf.today \in Nat
  BY <1>b DEF BfType
<1>1. ASSUME UNCHANGED metaVars PROVE WalkTyped'
  BY <1>1, <1>a DEF metaVars, WalkTyped
<1>2. CASE UNCHANGED vars \/ IngestStep \/ RawStep \/ FlushStep
  <2>1. UNCHANGED metaVars
    BY <1>2 DEF vars, IngestStep, RawStep, FlushStep, Ingest, Observe, DropUnusable, FlushSwap,
                FlushCommit, FlushFail
  <2>2. QED
    BY <1>1, <2>1
<1>3. ASSUME NEW readDone \in BOOLEAN, NEW readCursor \in BOOLEAN, BackfillStart(readDone, readCursor)
      PROVE  WalkTyped'
  <2> DEFINE today == utcDayIndex(clock)
             first == today - BackfillDays + 1
             startDay == IF readCursor /\ cursor # -1 /\ cursor + 1 > first THEN cursor + 1 ELSE first
  <2>1. today \in Nat /\ startDay \in Nat
    BY <1>a, WalkStarts
  <2>2. /\ bf' \in {BackfillIdle("stopped"), BackfillIdle("done"), StartChunk([bf EXCEPT !.today = today], startDay, 1)}
        /\ planned' = {d \in planned : d <= cursor} \cup (startDay .. today)
        /\ cursor' = cursor
    BY <1>3 DEF BackfillStart
  <2> HIDE DEF today, startDay
  <2>3. [bf EXCEPT !.today = today] \in BfType
    BY <1>b, <2>1 DEF BfType
  <2>4. StartChunk([bf EXCEPT !.today = today], startDay, 1) \in BfType
    BY <2>1, <2>3, ChunkStarts, SourceOf
  <2>5. bf' \in BfType
    BY <2>2, <2>4, Idles
  <2>6. QED
    BY <1>b, <2>1, <2>2, <2>5 DEF WalkTyped
<1>4. CASE BackfillCollect
  <2> DEFINE n == Cardinality({i \in raw : log[i] = <<sources[bf.src], bf.at>>})
             acc == IF bf.at \in Slots THEN [bf.acc EXCEPT ![bf.at] = n] ELSE bf.acc
             pc == IF bf.at + 1 = (bf.day + 1) * SlotsPerDay THEN "merge" ELSE bf.pc
  <2>1. bf' = [bf EXCEPT !.acc = acc, !.at = bf.at + 1, !.pc = pc] /\ UNCHANGED <<cursor, planned>>
    BY <1>4 DEF BackfillCollect
  <2>2. n \in Nat
    BY <1>a, RowsFinite
  <2> HIDE DEF n
  <2>3. acc \in [Slots -> Nat]
    BY <1>c, <2>2
  <2>4. pc \in BfSteps /\ bf.at + 1 \in Int
    BY <1>b, <1>c DEF BfType, BfSteps
  <2> HIDE DEF acc, pc
  <2>5. bf' \in BfType
    BY <1>b, <2>1, <2>3, <2>4 DEF BfType
  <2>6. QED
    BY <1>b, <2>1, <2>5 DEF WalkTyped
<1>5. CASE BackfillMerge \/ BackfillChunkFail
  <2>1. PICK n \in {0, bf.fails + 1} : bf' = AfterChunk([bf EXCEPT !.fails = n]) /\ UNCHANGED <<cursor, planned>>
    BY <1>5 DEF BackfillMerge, BackfillChunkFail
  <2>2. n \in Nat
    BY <1>c, <2>1
  <2>3. bf' \in BfType
    BY <1>a, <2>1, <2>2, Fails, ChunkEnds
  <2>4. QED
    BY <1>b, <2>1, <2>3 DEF WalkTyped
<1>6. CASE BackfillCursor
  <2>1. cursor' = bf.day /\ planned' = planned
    BY <1>6 DEF BackfillCursor
  <2>2. CASE bf.day < bf.today
    <3>1. bf' = StartChunk(bf, bf.day + 1, 1)
      BY <1>6, <2>2 DEF BackfillCursor
    <3>2. bf.day + 1 \in Nat
      BY <1>c
    <3> DEFINE d == bf.day + 1
    <3> HIDE DEF d
    <3>2a. d \in Nat /\ 1 \in DOMAIN sources /\ bf' = StartChunk(bf, d, 1)
      BY <3>1, <3>2, SourceOf DEF d
    <3>3. bf' \in BfType
      BY <1>b, <3>2a, ChunkStarts
    <3>4. QED
      BY <1>b, <1>c, <2>1, <3>3 DEF WalkTyped
  <2>3. CASE ~(bf.day < bf.today)
    <3>1. bf' = [bf EXCEPT !.pc = "done"]
      BY <1>6, <2>3 DEF BackfillCursor
    <3>2. bf' \in BfType
      BY <1>b, <3>1 DEF BfType, BfSteps
    <3>3. QED
      BY <1>b, <1>c, <2>1, <3>2 DEF WalkTyped
  <2>4. QED
    BY <2>2, <2>3
<1>7. CASE markPropBaselineBackfillDone \/ BackfillMetaFail \/ RestartAll
  <2>1. bf' \in {BackfillIdle("stopped"), BackfillIdle("start")} /\ UNCHANGED <<cursor, planned>>
    BY <1>7 DEF markPropBaselineBackfillDone, BackfillMetaFail, RestartAll
  <2>2. bf' \in BfType
    BY <2>1, Idles
  <2>3. QED
    BY <1>b, <2>1, <2>2 DEF WalkTyped
<1>8. QED
  BY <1>2, <1>3, <1>4, <1>5, <1>6, <1>7 DEF Next, BackfillStep

\* The queue's counts after a failed flush: each is kept or, for a key that
\* then counts as lost, dropped.
LEMMA Capped ==
  ASSUME NEW f \in [Keys -> Nat]
  PROVE  capPendingPropBaseline(f) \in [Keys -> Nat]
<1> DEFINE cutoff == Min({utcDayIndex(k[2]) : k \in KeysOf(f)})
              + (Max({utcDayIndex(k[2]) : k \in KeysOf(f)}) - Min({utcDayIndex(k[2]) : k \in KeysOf(f)})) \div 2
<1>1. capPendingPropBaseline(f) = IF Cardinality(KeysOf(f)) <= MaxPending THEN f
         ELSE [k \in Keys |-> IF utcDayIndex(k[2]) < cutoff THEN 0 ELSE f[k]]
  BY DEF capPendingPropBaseline
<1> HIDE DEF cutoff
<1>2. [k \in Keys |-> IF utcDayIndex(k[2]) < cutoff THEN 0 ELSE f[k]] \in [Keys -> Nat]
  OBVIOUS
<1>3. QED
  BY <1>1, <1>2

LEMMA Sums ==
  /\ Zero \in [Keys -> Nat] /\ \A k \in Keys : Zero[k] = 0
  /\ \A f, g \in [Keys -> Nat] : Plus(f, g) \in [Keys -> Nat] /\ \A k \in Keys : Plus(f, g)[k] = f[k] + g[k]
  BY DEF Zero, Plus

\* What a failed flush leaves queued.
LEMMA FlushFails ==
  ASSUME CountsTyped, FlushFail
  PROVE  /\ pending' \in [Keys -> Nat]
         /\ \A k \in Keys : pending'[k] = pending[k] + batch[k] \/ k \in gone'
         /\ gone \subseteq gone' /\ batch' = Zero /\ ~flushing'
<1> DEFINE merged == Plus(pending, batch)
           capped == capPendingPropBaseline(merged)
<1>1. merged \in [Keys -> Nat] /\ \A k \in Keys : merged[k] = pending[k] + batch[k]
  BY Sums DEF CountsTyped
<1>2. capped \in [Keys -> Nat]
  BY <1>1, Capped
<1> HIDE DEF merged, capped
<1>3. /\ \/ pending' = capped /\ gone' = gone \cup {k \in Keys : capped[k] # merged[k]}
         \/ pending' = merged /\ gone' = gone
      /\ batch' = Zero /\ flushing' = FALSE
  BY DEF FlushFail, merged, capped
<1>4. QED
  BY <1>1, <1>2, <1>3

\* Every step keeps the counts typed.
LEMMA CountsStep ==
  ASSUME PbTypeOK, [Next]_vars
  PROVE  CountsTyped'
<1>a. RowsTyped /\ CountsTyped /\ WalkTyped
  BY DEF PbTypeOK
<1>b. /\ pending \in [Keys -> Nat] /\ batch \in [Keys -> Nat]
      /\ table \in [Keys -> Nat] /\ live \in [Keys -> Nat]
      /\ ~flushing => batch = Zero
  BY <1>a DEF CountsTyped
<1>1. ASSUME UNCHANGED <<batch, table, live, flushing>>, pending' \in [Keys -> Nat] PROVE CountsTyped'
  BY <1>1, <1>b DEF CountsTyped
<1>2. ASSUME UNCHANGED <<liveVars, table>> PROVE CountsTyped'
  BY <1>1, <1>2, <1>b DEF liveVars
<1>3. CASE UNCHANGED vars
  BY <1>2, <1>3 DEF vars
<1>4. ASSUME NEW s \in Sources, NEW t \in clock - MaxLate .. clock, Ingest(s, t) PROVE CountsTyped'
  BY <1>2, <1>4 DEF Ingest
<1>5. ASSUME NEW s \in Sources, Observe(s) PROVE CountsTyped'
  <2>1. ASSUME NEW f \in [Keys -> Nat], NEW x PROVE [f EXCEPT ![x] = f[x] + 1] \in [Keys -> Nat]
    <3>1. CASE x \in Keys
      BY <3>1
    <3>2. CASE x \notin Keys
      BY <3>2
    <3>3. QED
      BY <3>1, <3>2
  <2>2. pending' = [pending EXCEPT ![log[ingest[s]]] = pending[log[ingest[s]]] + 1]
        /\ UNCHANGED <<batch, table, live, flushing>>
    BY <1>5 DEF Observe
  <2>3. QED
    BY <1>1, <1>b, <2>1, <2>2
<1>6. ASSUME NEW s \in Sources, DropUnusable(s) PROVE CountsTyped'
  BY <1>1, <1>6, <1>b DEF DropUnusable
<1>7. CASE RawStep
  BY <1>2, <1>7 DEF RawStep
<1>8. CASE FlushSwap
  <2>1. UNCHANGED <<table, live>> /\ batch' = pending /\ pending' = Zero /\ flushing'
    BY <1>8 DEF FlushSwap
  <2>2. QED
    BY <1>b, <2>1, Sums DEF CountsTyped
<1>9. CASE FlushCommit
  <2>1. /\ table' = Plus(table, batch) /\ live' = Plus(live, batch) /\ batch' = Zero /\ pending' = pending
        /\ ~flushing'
    BY <1>9 DEF FlushCommit
  <2>2. QED
    BY <1>b, <2>1, Sums DEF CountsTyped
<1>10. CASE FlushFail
  <2>1. UNCHANGED <<table, live>>
    BY <1>10 DEF FlushFail
  <2>2. QED
    BY <1>a, <1>b, <1>10, <2>1, FlushFails, Sums DEF CountsTyped
<1>11. ASSUME NEW readDone \in BOOLEAN, NEW readCursor \in BOOLEAN, BackfillStart(readDone, readCursor)
       PROVE  CountsTyped'
  BY <1>2, <1>11 DEF BackfillStart
<1>12. CASE BackfillCollect \/ BackfillChunkFail \/ BackfillCursor \/ markPropBaselineBackfillDone \/ BackfillMetaFail
  <2>1. UNCHANGED <<liveVars, table>>
    BY <1>12 DEF BackfillCollect, BackfillChunkFail, BackfillCursor, markPropBaselineBackfillDone, BackfillMetaFail
  <2>2. QED
    BY <1>2, <2>1
<1>13. CASE BackfillMerge
  <2>1. UNCHANGED liveVars /\ table' = [k \in Keys |-> IF k[1] = sources[bf.src] THEN InsertMissing(k) ELSE table[k]]
    BY <1>13 DEF BackfillMerge
  <2>2. bf.acc \in [Slots -> Nat]
    BY <1>a DEF WalkTyped, BfType
  <2>3. \A k \in Keys : InsertMissing(k) \in Nat
    BY <1>b, <2>2 DEF InsertMissing, Keys
  <2>4. table' \in [Keys -> Nat]
    BY <1>b, <2>1, <2>3
  <2>5. QED
    BY <1>b, <2>1, <2>4 DEF CountsTyped, liveVars
<1>14. CASE RestartAll
  <2>1. UNCHANGED <<table, live>> /\ pending' = Zero /\ batch' = Zero
    BY <1>14 DEF RestartAll
  <2>2. QED
    BY <1>b, <2>1, Sums DEF CountsTyped
<1>15. QED
  BY <1>3, <1>4, <1>5, <1>6, <1>7, <1>8, <1>9, <1>10, <1>11, <1>12, <1>13, <1>14
     DEF Next, IngestStep, FlushStep, BackfillStep

\* The type invariant is inductive, given the raw queue's.
LEMMA PbTypeStep == ASSUME PbTypeOK, RawInv, [Next]_vars PROVE PbTypeOK' /\ RawInv'
<1>1. RowsTyped'
  BY RowsMove DEF PbTypeOK
<1>2. RawInv'
  BY RawAlong, RawKeeps
<1>3. QED
  BY <1>1, <1>2, WalkStep, CountsStep DEF PbTypeOK

LEMMA PbTypeInit == ASSUME Init PROVE PbTypeOK /\ RawInv
<1>1. RawInv
  BY RawInitial DEF Init
<1>2. RowsTyped
  <2>1. /\ clock = StartClock /\ log = PreLog /\ raw = DOMAIN PreLog /\ stored = DOMAIN PreLog
        /\ ingest = [s \in Sources |-> 0]
    BY DEF Init, RawInit
  <2>2. StartClock \in Nat /\ StartClock <= MaxClock /\ StartClock <= StartClock /\ PreLog \in Seq(Keys)
    BY RawConstants, BaselineConstants
  <2>3. QED
    BY <2>1, <2>2 DEF RowsTyped
<1>3. CountsTyped
  BY Sums DEF Init, CountsTyped
<1>4. WalkTyped
  BY Idles DEF Init, WalkTyped
<1>5. QED
  BY <1>1, <1>2, <1>3, <1>4 DEF PbTypeOK

-----------------------------------------------------------------------------

\* Every row stays a row of its key.
LEMMA RowsStay ==
  ASSUME PbTypeOK, RawInv, [Next]_vars, NEW k
  PROVE  /\ Cardinality(RowsOf(k)) \in Nat /\ Cardinality(RowsOf(k)') \in Nat
         /\ Cardinality(RowsOf(k)) <= Cardinality(RowsOf(k)')
<1>1. RowsTyped /\ RowsTyped' /\ stored \subseteq stored' /\ \A i \in DOMAIN log : log'[i] = log[i]
  BY RowsMove DEF PbTypeOK
<1>2. RowsOf(k) \subseteq stored /\ RowsOf(k)' \subseteq stored'
  BY DEF RowsOf
<1>3. RowsOf(k) \subseteq RowsOf(k)'
  BY <1>1 DEF RowsOf, RowsTyped
<1>4. IsFiniteSet(RowsOf(k)) /\ Cardinality(RowsOf(k)) \in Nat
  BY <1>1, <1>2, RowsFinite
<1>5. IsFiniteSet(RowsOf(k)') /\ Cardinality(RowsOf(k)') \in Nat
  <2>1. ASSUME NEW n \in Int, NEW X, X \subseteq 1 .. n PROVE IsFiniteSet(X) /\ Cardinality(X) \in Nat
    <3>1. IsFiniteSet(1 .. n)
      BY FS_Interval
    <3>2. IsFiniteSet(X)
      BY <2>1, <3>1, FS_Subset
    <3>3. QED
      BY <3>2, FS_CardinalityType
  <2>1a. Len(log') \in Nat /\ DOMAIN log' = 1 .. Len(log') /\ stored' \subseteq DOMAIN log'
    BY <1>1, LenProperties DEF RowsTyped
  <2>2. QED
    BY <1>2, <2>1, <2>1a
<1>6. Cardinality(RowsOf(k)) <= Cardinality(RowsOf(k)')
  BY <1>3, <1>5, FS_Subset
<1>7. QED
  BY <1>4, <1>5, <1>6

\* Nothing is added twice, and what is being added up is in the rows.
LEMMA OnceStep ==
  ASSUME OnceInv, [Next]_vars
  PROVE  OnceInv'
<1>a. PbTypeOK /\ RawInv /\ BackfillOnce /\ Collected /\ RowsTyped /\ CountsTyped /\ WalkTyped
  BY DEF OnceInv, PbTypeOK
<1>b. PbTypeOK' /\ RawInv'
  BY <1>a, PbTypeStep
<1>c. /\ batch \in [Keys -> Nat] /\ table \in [Keys -> Nat] /\ live \in [Keys -> Nat]
      /\ table' \in [Keys -> Nat] /\ live' \in [Keys -> Nat]
  BY <1>a, <1>b DEF CountsTyped, PbTypeOK
<1>d. bf \in BfType /\ bf.src \in DOMAIN sources /\ bf.day \in Nat /\ bf.fails \in Nat /\ bf.acc \in [Slots -> Nat]
  BY <1>a DEF WalkTyped, BfType
<1>e. \A k : Cardinality(RowsOf(k)) \in Nat /\ Cardinality(RowsOf(k)') \in Nat
             /\ Cardinality(RowsOf(k)) <= Cardinality(RowsOf(k)')
  BY <1>a, RowsStay
<1>f. ASSUME \A k \in Keys : live'[k] <= table'[k] /\ table'[k] <= live'[k] + Cardinality(RowsOf(k))
      PROVE  BackfillOnce'
  <2>1. SUFFICES ASSUME NEW k \in Keys
                 PROVE  live'[k] <= table'[k] /\ table'[k] <= live'[k] + Cardinality(RowsOf(k)')
    BY DEF BackfillOnce, RowsOf
  <2>2. live'[k] \in Nat /\ table'[k] \in Nat
    BY <1>c
  <2>3. QED
    BY <1>e, <1>f, <2>2
<1>g. \A k \in Keys : live[k] <= table[k] /\ table[k] <= live[k] + Cardinality(RowsOf(k))
  BY <1>a DEF BackfillOnce, RowsOf
<1>h. ASSUME UNCHANGED <<live, table>> PROVE BackfillOnce'
  BY <1>f, <1>g, <1>h
<1>i. ASSUME bf'.pc \notin {"collect", "merge"} PROVE Collected'
  BY <1>i DEF Collected
<1>j. ASSUME UNCHANGED bf PROVE Collected'
  <2>1. SUFFICES ASSUME bf.pc \in {"collect", "merge"}, NEW k \in Keys, k[1] = sources[bf.src]
                 PROVE  bf.acc[k[2]] <= Cardinality(RowsOf(k)')
    BY <1>j DEF Collected
  <2>2. k[2] \in Slots
    BY DEF Keys
  <2>3. bf.acc[k[2]] <= Cardinality(RowsOf(k)) /\ bf.acc[k[2]] \in Nat
    BY <1>a, <1>d, <2>1, <2>2 DEF Collected
  <2>4. QED
    BY <1>e, <2>3
<1>k. ASSUME bf'.acc = NoAcc PROVE Collected'
  <2>1. SUFFICES ASSUME NEW k \in Keys PROVE bf'.acc[k[2]] <= Cardinality(RowsOf(k)')
    BY DEF Collected
  <2>2. bf'.acc[k[2]] = 0
    BY <1>k DEF NoAcc, Keys
  <2>3. Cardinality(RowsOf(k)') \in Nat
    BY <1>e
  <2>4. QED
    BY <2>2, <2>3
<1>1. CASE UNCHANGED vars \/ IngestStep \/ RawStep
  <2>1. UNCHANGED <<live, table, bf>>
    BY <1>1 DEF vars, liveVars, metaVars, IngestStep, RawStep, Ingest, Observe, DropUnusable
  <2>2. QED
    BY <1>b, <1>h, <1>j, <2>1 DEF OnceInv
<1>2. CASE FlushSwap \/ FlushFail
  <2>1. UNCHANGED <<live, table, bf>>
    BY <1>2 DEF metaVars, FlushSwap, FlushFail
  <2>2. QED
    BY <1>b, <1>h, <1>j, <2>1 DEF OnceInv
<1>3. CASE FlushCommit
  <2>1. table' = Plus(table, batch) /\ live' = Plus(live, batch) /\ UNCHANGED bf
    BY <1>3 DEF metaVars, FlushCommit
  <2>2. ASSUME NEW k \in Keys
        PROVE  live'[k] <= table'[k] /\ table'[k] <= live'[k] + Cardinality(RowsOf(k))
    <3>1. table'[k] = table[k] + batch[k] /\ live'[k] = live[k] + batch[k]
      BY <1>c, <2>1, Sums
    <3>2. table[k] \in Nat /\ live[k] \in Nat /\ batch[k] \in Nat /\ Cardinality(RowsOf(k)) \in Nat
      BY <1>c, <1>e
    <3>3. QED
      BY <1>g, <3>1, <3>2
  <2>3. QED
    BY <1>b, <1>f, <1>j, <2>1, <2>2 DEF OnceInv
<1>4. ASSUME NEW readDone \in BOOLEAN, NEW readCursor \in BOOLEAN, BackfillStart(readDone, readCursor)
      PROVE  OnceInv'
  <2> DEFINE today == utcDayIndex(clock)
             first == today - BackfillDays + 1
             startDay == IF readCursor /\ cursor # -1 /\ cursor + 1 > first THEN cursor + 1 ELSE first
             b == [bf EXCEPT !.today = today]
  <2>1. today \in Nat /\ startDay \in Nat
    BY <1>a, WalkStarts
  <2>2. /\ bf' \in {BackfillIdle("stopped"), BackfillIdle("done"), StartChunk(b, startDay, 1)}
        /\ UNCHANGED <<live, table>>
    BY <1>4 DEF BackfillStart, liveVars
  <2>3. b \in BfType
    BY <1>d, <2>1 DEF BfType
  <2> HIDE DEF today, startDay, b
  <2>4. StartChunk(b, startDay, 1).acc = NoAcc
    BY <2>1, <2>3, ChunkStarts, SourceOf
  <2>5. bf'.acc = NoAcc
    BY <2>2, <2>4 DEF BackfillIdle
  <2>6. QED
    BY <1>b, <1>h, <1>k, <2>2, <2>5 DEF OnceInv
<1>5. CASE BackfillCollect
  <2> DEFINE key == <<sources[bf.src], bf.at>>
             n == Cardinality({i \in raw : log[i] = key})
  <2>1. /\ bf.pc = "collect" /\ UNCHANGED <<live, table>>
        /\ bf'.src = bf.src
        /\ bf'.acc = IF bf.at \in Slots THEN [bf.acc EXCEPT ![bf.at] = n] ELSE bf.acc
    BY <1>5, <1>d DEF BackfillCollect, BfType, liveVars
  <2>2. n <= Cardinality(RowsOf(key)) /\ n \in Nat
    <3>1. {i \in raw : log[i] = key} \subseteq RowsOf(key)
      BY <1>a DEF RowsOf, RowsTyped
    <3>2. RowsOf(key) \subseteq stored
      BY DEF RowsOf
    <3>3. IsFiniteSet(RowsOf(key))
      BY <1>a, <3>2, RowsFinite
    <3>4. n \in Nat
      BY <1>a, RowsFinite
    <3>5. QED
      BY <3>1, <3>3, <3>4, FS_Subset
  <2> HIDE DEF n
  <2>3. ASSUME NEW k \in Keys, k[1] = sources[bf.src] PROVE bf'.acc[k[2]] <= Cardinality(RowsOf(k)')
    <3>1. k[2] \in Slots
      BY DEF Keys
    <3>2. CASE k[2] = bf.at
      <4>1. k = key
        BY <2>3, <3>2 DEF Keys
      <4>2. bf'.acc[k[2]] = n
        BY <1>d, <2>1, <3>1, <3>2
      <4>3. n <= Cardinality(RowsOf(k))
        BY <2>2, <4>1
      <4>4. QED
        BY <1>e, <2>2, <4>2, <4>3
    <3>3. CASE k[2] # bf.at
      <4>1. bf'.acc[k[2]] = bf.acc[k[2]]
        BY <1>d, <2>1, <3>1, <3>3
      <4>2. bf.acc[k[2]] <= Cardinality(RowsOf(k)) /\ bf.acc[k[2]] \in Nat
        BY <1>a, <1>d, <2>1, <2>3, <3>1 DEF Collected
      <4>3. QED
        BY <1>e, <4>1, <4>2
    <3>4. QED
      BY <3>2, <3>3
  <2>4. Collected'
    BY <2>1, <2>3 DEF Collected
  <2>5. QED
    BY <1>b, <1>h, <2>1, <2>4 DEF OnceInv
<1>6. CASE BackfillMerge \/ BackfillChunkFail
  <2>1. PICK n \in {0, bf.fails + 1} : bf' = AfterChunk([bf EXCEPT !.fails = n])
    BY <1>6 DEF BackfillMerge, BackfillChunkFail
  <2> DEFINE b == [bf EXCEPT !.fails = n]
  <2>2. n \in Nat
    BY <1>d, <2>1
  <2>3. b \in BfType
    BY <1>a, <2>2, Fails
  <2> HIDE DEF b
  <2>4. bf' = AfterChunk(b)
    BY <2>1 DEF b
  <2>5. Collected'
    <3>1. CASE bf'.pc \notin {"collect", "merge"}
      BY <1>i, <3>1
    <3>2. CASE bf'.pc \in {"collect", "merge"}
      <4>1. b.src + 1 \in DOMAIN sources /\ bf' = StartChunk(b, b.day, b.src + 1) /\ b.day \in Nat
        BY <2>3, <2>4, <3>2, ChunkEnds DEF BfType
      <4> DEFINE m == b.src + 1
                 d == b.day
      <4> HIDE DEF m, d
      <4>2. m \in DOMAIN sources /\ d \in Nat /\ bf' = StartChunk(b, d, m)
        BY <4>1 DEF m, d
      <4>3. bf'.acc = NoAcc
        BY <2>3, <4>2, ChunkStarts
      <4>4. QED
        BY <1>k, <4>3
    <3>3. QED
      BY <3>1, <3>2
  <2>6. BackfillOnce'
    <3>1. CASE BackfillChunkFail
      BY <1>h, <3>1 DEF BackfillChunkFail, liveVars
    <3>2. CASE BackfillMerge
      <4>1. /\ bf.pc = "merge" /\ live' = live
            /\ table' = [k \in Keys |-> IF k[1] = sources[bf.src] THEN InsertMissing(k) ELSE table[k]]
        BY <3>2 DEF BackfillMerge, liveVars
      <4>2. ASSUME NEW k \in Keys
            PROVE  live'[k] <= table'[k] /\ table'[k] <= live'[k] + Cardinality(RowsOf(k))
        <5>1. CASE k[1] = sources[bf.src] /\ ~(table[k] > 0)
          <6>1. k[2] \in Slots /\ k = <<sources[bf.src], k[2]>>
            BY <5>1 DEF Keys
          <6>2. bf.acc[k[2]] <= Cardinality(RowsOf(k)) /\ bf.acc[k[2]] \in Nat
            BY <1>a, <1>d, <4>1, <6>1 DEF Collected
          <6>3. table'[k] = bf.acc[k[2]]
            BY <4>1, <5>1 DEF InsertMissing
          <6>4. live[k] = 0
            <7>1. live[k] \in Nat /\ table[k] \in Nat /\ live[k] <= table[k]
              BY <1>c, <1>g
            <7>2. QED
              BY <5>1, <7>1
          <6>5. Cardinality(RowsOf(k)) \in Nat
            BY <1>e
          <6>6. QED
            BY <4>1, <6>2, <6>3, <6>4, <6>5
        <5>2. CASE ~(k[1] = sources[bf.src] /\ ~(table[k] > 0))
          <6>1. table'[k] = table[k]
            BY <4>1, <5>2 DEF InsertMissing
          <6>2. QED
            BY <1>g, <4>1, <6>1
        <5>3. QED
          BY <5>1, <5>2
      <4>3. QED
        BY <1>f, <4>2
    <3>3. QED
      BY <1>6, <3>1, <3>2
  <2>7. QED
    BY <1>b, <2>5, <2>6 DEF OnceInv
<1>7. CASE BackfillCursor
  <2>1. UNCHANGED <<live, table>>
    BY <1>7 DEF BackfillCursor, liveVars
  <2>2. Collected'
    <3>1. CASE bf.day < bf.today
      <4> DEFINE d == bf.day + 1
      <4>1. bf' = StartChunk(bf, d, 1)
        BY <1>7, <3>1 DEF BackfillCursor
      <4>2. d \in Nat /\ 1 \in DOMAIN sources
        BY <1>d, SourceOf
      <4> HIDE DEF d
      <4>3. bf'.acc = NoAcc
        BY <1>d, <4>1, <4>2, ChunkStarts
      <4>4. QED
        BY <1>k, <4>3
    <3>2. CASE ~(bf.day < bf.today)
      BY <1>7, <1>d, <1>i, <3>2 DEF BackfillCursor, BfType
    <3>3. QED
      BY <3>1, <3>2
  <2>3. QED
    BY <1>b, <1>h, <2>1, <2>2 DEF OnceInv
<1>8. CASE markPropBaselineBackfillDone \/ BackfillMetaFail \/ RestartAll
  <2>1. bf' \in {BackfillIdle("stopped"), BackfillIdle("start")} /\ UNCHANGED <<live, table>>
    BY <1>8 DEF markPropBaselineBackfillDone, BackfillMetaFail, RestartAll, liveVars
  <2>2. QED
    BY <1>b, <1>h, <1>i, <2>1, Idles DEF OnceInv
<1>9. QED
  BY <1>1, <1>2, <1>3, <1>4, <1>5, <1>6, <1>7, <1>8 DEF Next, FlushStep, BackfillStep

\* However often the backfill starts over and whatever the flusher adds
\* meanwhile, it adds the raw rows of a key at most once to the live counts,
\* and takes none of them away.
THEOREM BackfillCorrect == Spec => []BackfillOnce
<1>1. Init => OnceInv
  <2>1. SUFFICES ASSUME Init PROVE OnceInv
    OBVIOUS
  <2>2. PbTypeOK /\ RawInv
    BY <2>1, PbTypeInit
  <2>3. BackfillOnce
    <3>1. \A k : Cardinality(RowsOf(k)) \in Nat
      <4>1. \A k : RowsOf(k) \subseteq stored
        BY DEF RowsOf
      <4>2. QED
        BY <2>2, <4>1, RowsFinite DEF PbTypeOK
    <3>2. \A k \in Keys : live[k] = 0 /\ table[k] = 0
      BY <2>1, Sums DEF Init
    <3>3. QED
      <4>1. ASSUME NEW k \in Keys PROVE live[k] <= table[k] /\ table[k] <= live[k] + Cardinality(RowsOf(k))
        BY <3>1, <3>2
      <4>2. QED
        BY <4>1 DEF BackfillOnce, RowsOf
  <2>4. Collected
    BY <2>1, Idles DEF Init, Collected
  <2>5. QED
    BY <2>2, <2>3, <2>4 DEF OnceInv
<1>2. OnceInv /\ [Next]_vars => OnceInv'
  BY OnceStep
<1>3. OnceInv => BackfillOnce
  BY DEF OnceInv
<1>4. QED
  BY <1>1, <1>2, <1>3, PTL DEF Spec

-----------------------------------------------------------------------------

\* A row and its key.
LEMMA RowKey ==
  ASSUME RowsTyped, NEW i \in DOMAIN log
  PROVE  /\ log[i] \in Keys /\ log[i][1] \in Sources /\ log[i][2] \in Slots
         /\ i \in Nat \ {0}
         /\ log[i] = <<log[i][1], log[i][2]>>
<1>1. log[i] \in Keys /\ i \in Nat \ {0}
  BY LenProperties DEF RowsTyped
<1>2. QED
  BY <1>1 DEF Keys

\* What was counted stays counted, or its loss is on record.
LEMMA CountedStays ==
  ASSUME PbTypeOK, RawInv, [Next]_vars, NEW i \in DOMAIN log, Counted(i)
  PROVE  Counted(i)'
<1>a. RowsTyped /\ CountsTyped /\ WalkTyped /\ CountsTyped'
  BY PbTypeStep DEF PbTypeOK
<1>b. PICK k \in Keys : k = log[i] /\ log'[i] = k
  BY <1>a, RowKey, RowsMove
<1>c. k[1] \in Sources /\ i \in Nat \ {0}
  BY <1>a, <1>b, RowKey
<1> DEFINE sum == table[k] + pending[k] + batch[k]
<1>d. /\ table[k] \in Nat /\ pending[k] \in Nat /\ batch[k] \in Nat
      /\ table'[k] \in Nat /\ pending'[k] \in Nat /\ batch'[k] \in Nat
      /\ sum \in Nat /\ sum' \in Nat
  BY <1>a DEF CountsTyped
<1>e. sum > 0 \/ ingest[k[1]] = i \/ k \in gone
  BY <1>b DEF Counted
<1>f. ASSUME sum' > 0 \/ ingest'[k[1]] = i \/ k \in gone' PROVE Counted(i)'
  BY <1>b, <1>f DEF Counted
<1>g. ASSUME gone \subseteq gone', UNCHANGED ingest, sum' >= sum PROVE Counted(i)'
  BY <1>d, <1>e, <1>f, <1>g
<1>h. ASSUME UNCHANGED <<ingest, table, pending, batch, gone>> PROVE Counted(i)'
  BY <1>e, <1>f, <1>h
<1>1. CASE UNCHANGED vars \/ RawStep
  BY <1>1, <1>h DEF vars, liveVars, RawStep
<1>2. ASSUME NEW s \in Sources, NEW t \in clock - MaxLate .. clock, Ingest(s, t) PROVE Counted(i)'
  <2>1. /\ UNCHANGED <<table, pending, batch, gone>> /\ ingest[s] = 0
        /\ ingest' = [ingest EXCEPT ![s] = Len(log')]
    BY <1>2 DEF Ingest, liveVars
  <2>2. ingest[k[1]] = i => ingest'[k[1]] = i
    BY <1>c, <2>1
  <2>3. QED
    BY <1>e, <1>f, <2>1, <2>2
<1>3. ASSUME NEW s \in Sources, Observe(s) PROVE Counted(i)'
  <2>1. /\ UNCHANGED <<table, batch, gone>>
        /\ pending' = [pending EXCEPT ![log[ingest[s]]] = pending[log[ingest[s]]] + 1]
        /\ ingest' = [ingest EXCEPT ![s] = 0]
    BY <1>3 DEF Observe
  <2>2. pending \in [Keys -> Nat] /\ ingest \in [Sources -> Nat]
    BY <1>a DEF CountsTyped, RowsTyped
  <2>3. pending'[k] = IF k = log[ingest[s]] THEN pending[k] + 1 ELSE pending[k]
    BY <2>1, <2>2
  <2>4. CASE s = k[1] /\ ingest[k[1]] = i
    <3>1. pending'[k] = pending[k] + 1
      BY <1>b, <2>3, <2>4
    <3>2. table' = table /\ batch' = batch
      BY <2>1
    <3>3. sum' > 0
      BY <1>d, <3>1, <3>2
    <3>4. QED
      BY <1>f, <3>3
  <2>5. CASE ~(s = k[1] /\ ingest[k[1]] = i)
    <3>1. ingest[k[1]] = i => ingest'[k[1]] = i
      BY <1>c, <2>1, <2>2, <2>5
    <3>2. sum' >= sum
      BY <1>d, <2>1, <2>3
    <3>3. QED
      BY <1>d, <1>e, <1>f, <2>1, <3>1, <3>2
  <2>6. QED
    BY <2>4, <2>5
<1>4. ASSUME NEW s \in Sources, DropUnusable(s) PROVE Counted(i)'
  <2>1. /\ UNCHANGED <<table, pending, batch>> /\ gone' = gone \cup {log[ingest[s]]}
        /\ ingest' = [ingest EXCEPT ![s] = 0]
    BY <1>4 DEF DropUnusable
  <2>2. ingest[k[1]] = i => ingest'[k[1]] = i \/ k \in gone'
    BY <1>b, <1>c, <2>1
  <2>3. QED
    BY <1>e, <1>f, <2>1, <2>2
<1>5. CASE FlushSwap
  <2>1. /\ UNCHANGED <<ingest, table, gone>> /\ batch' = pending /\ pending' = Zero /\ ~flushing
    BY <1>5 DEF FlushSwap
  <2>2. batch[k] = 0 /\ pending'[k] = 0 /\ batch'[k] = pending[k]
    BY <1>a, <2>1, Sums DEF CountsTyped
  <2>3. sum' = sum
    BY <1>d, <2>1, <2>2
  <2>4. QED
    BY <1>d, <1>g, <2>1, <2>3
<1>6. CASE FlushCommit
  <2>1. /\ UNCHANGED <<ingest, pending, gone>> /\ table' = Plus(table, batch) /\ batch' = Zero
    BY <1>6 DEF FlushCommit
  <2>2. batch'[k] = 0 /\ table'[k] = table[k] + batch[k]
    BY <1>a, <2>1, Sums DEF CountsTyped
  <2>3. sum' = sum
    BY <1>d, <2>1, <2>2
  <2>4. QED
    BY <1>d, <1>g, <2>1, <2>3
<1>7. CASE FlushFail
  <2>1. UNCHANGED <<ingest, table>>
    BY <1>7 DEF FlushFail
  <2>2. /\ pending'[k] = pending[k] + batch[k] \/ k \in gone'
        /\ gone \subseteq gone' /\ batch' = Zero
    BY <1>a, <1>7, FlushFails
  <2>3. batch'[k] = 0
    BY <2>2, Sums
  <2>4. sum' = sum \/ k \in gone'
    BY <1>d, <2>1, <2>2, <2>3
  <2>5. QED
    BY <1>d, <1>f, <1>g, <2>1, <2>2, <2>4
<1>8. ASSUME NEW readDone \in BOOLEAN, NEW readCursor \in BOOLEAN, BackfillStart(readDone, readCursor)
      PROVE  Counted(i)'
  BY <1>8, <1>h DEF BackfillStart, liveVars
<1>9. CASE BackfillCollect \/ BackfillChunkFail \/ BackfillCursor \/ markPropBaselineBackfillDone \/ BackfillMetaFail
  BY <1>9, <1>h DEF BackfillCollect, BackfillChunkFail, BackfillCursor, markPropBaselineBackfillDone,
                    BackfillMetaFail, liveVars
<1>10. CASE BackfillMerge
  <2>1. /\ UNCHANGED <<ingest, pending, batch, gone>>
        /\ table'[k] = IF k[1] = sources[bf.src] THEN InsertMissing(k) ELSE table[k]
    BY <1>10 DEF BackfillMerge, liveVars
  <2>2. table[k] > 0 => table'[k] = table[k]
    BY <2>1 DEF InsertMissing
  <2>3. sum > 0 => sum' > 0
    <3>1. table[k] > 0 \/ pending[k] > 0 \/ batch[k] > 0 \/ sum = 0
      BY <1>d
    <3>2. QED
      BY <1>d, <2>1, <2>2, <3>1
  <2>4. QED
    BY <1>e, <1>f, <2>1, <2>3
<1>11. CASE RestartAll
  <2>1. /\ table' = table
        /\ gone' = gone \cup KeysOf(Plus(pending, batch))
                   \cup {log[ingest[s]] : s \in {u \in Sources : ingest[u] # 0}}
    BY <1>11 DEF RestartAll
  <2>2. pending[k] + batch[k] > 0 => k \in gone'
    BY <1>a, <2>1, Sums DEF CountsTyped, KeysOf
  <2>3. ingest[k[1]] = i => k \in gone'
    BY <1>b, <1>c, <2>1
  <2>4. sum > 0 => sum' > 0 \/ k \in gone'
    BY <1>d, <2>1, <2>2
  <2>5. QED
    BY <1>e, <1>f, <2>1, <2>3, <2>4
<1>12. QED
  BY <1>1, <1>2, <1>3, <1>4, <1>5, <1>6, <1>7, <1>8, <1>9, <1>10, <1>11
     DEF Next, IngestStep, FlushStep, BackfillStep

\* A row that is new in dx_raw_spots or in the log is counted.
LEMMA LateCounted ==
  ASSUME PbTypeOK, RawInv, LiveCounted, [Next]_vars
  PROVE  /\ LiveCounted'
         /\ \A i \in raw' : i \in raw \/ Counted(i)'
<1>a. RowsTyped /\ RowsTyped'
  BY PbTypeStep DEF PbTypeOK
<1>1. ASSUME NEW i \in DOMAIN log', i \notin stored PROVE Counted(i)'
  <2>1. CASE i \in DOMAIN log
    BY <1>1, <2>1, CountedStays DEF LiveCounted
  <2>2. CASE i \notin DOMAIN log
    <3>1. ingest'[log'[i][1]] = i
      BY <1>a, <2>2, RowsMove
    <3>2. QED
      BY <3>1 DEF Counted
  <2>3. QED
    BY <2>1, <2>2
<1>2. stored \subseteq stored' /\ raw' \subseteq DOMAIN log' /\ \A i \in raw' : i \in raw \/ i \notin stored
  BY <1>a, RowsMove DEF RowsTyped
<1>3. QED
  BY <1>1, <1>2 DEF LiveCounted

\* The chunk that is merged leaves none of its rows uncounted.
LEMMA ChunkMerged ==
  ASSUME PbTypeOK, RawInv, ChunkWalked, BackfillMerge,
         NEW i \in raw, log[i][1] = sources[bf.src], DayOf(i) = bf.day
  PROVE  Counted(i)'
<1>a. RowsTyped /\ CountsTyped /\ WalkTyped /\ [Next]_vars
  BY DEF PbTypeOK, Next, BackfillStep
<1>b. i \in DOMAIN log
  BY <1>a DEF RowsTyped
<1>c. CountsTyped' /\ log'[i] = log[i]
  BY <1>a, <1>b, PbTypeStep, RowsMove DEF PbTypeOK
<1>1. PICK k \in Keys : k = log[i]
  BY <1>a, <1>b, RowKey
<1>2. k[2] \in Nat /\ k[2] \in Slots /\ k[1] = sources[bf.src]
  BY <1>1 DEF Keys, Slots
<1>3. bf.pc = "merge" /\ bf.at = (bf.day + 1) * SlotsPerDay
  BY DEF BackfillMerge, ChunkWalked
<1>4. k[2] < bf.at
  BY <1>1, <1>2, <1>3, DaySlots DEF DayOf
<1>5. Counted(i) \/ bf.acc[k[2]] > 0
  BY <1>1, <1>2, <1>3, <1>4 DEF ChunkWalked
<1>6. CASE Counted(i)
  BY <1>6, <1>a, <1>b, CountedStays
<1>7. CASE bf.acc[k[2]] > 0
  <2>1. table'[k] = InsertMissing(k) /\ pending' = pending /\ batch' = batch
    BY <1>2 DEF BackfillMerge, liveVars
  <2>2. table'[k] > 0
    BY <1>7, <2>1 DEF InsertMissing
  <2>3. table'[k] \in Nat /\ pending'[k] \in Nat /\ batch'[k] \in Nat
    BY <1>c DEF CountsTyped
  <2>4. table'[k] + pending'[k] + batch'[k] > 0
    BY <2>2, <2>3
  <2>5. QED
    BY <1>1, <1>c, <2>4 DEF Counted
<1>8. QED
  BY <1>5, <1>6, <1>7

\* What was covered stays covered: a chunk that failed once is only struck off
\* when it is merged.
LEMMA CoveredStays ==
  ASSUME PbTypeOK, RawInv, ChunkWalked, [Next]_vars, NEW i \in raw
  PROVE  /\ log'[i] = log[i] /\ DayOf(i)' = DayOf(i)
         /\ Covered(i) => Covered(i)'
<1>a. RowsTyped /\ i \in DOMAIN log
  BY DEF PbTypeOK, RowsTyped
<1>b. log'[i] = log[i]
  BY <1>a, RowsMove
<1>c. DayOf(i)' = DayOf(i)
  BY <1>b DEF DayOf
<1>1. ASSUME Counted(i) PROVE Covered(i)'
  BY <1>1, <1>a, CountedStays DEF Covered
<1>2. ASSUME NEW c \in skipped, sources[c[1]] = log[i][1], c[2] = DayOf(i) PROVE Covered(i)'
  <2>1. CASE skipped \subseteq skipped'
    BY <1>2, <1>b, <1>c, <2>1 DEF Covered
  <2>2. CASE BackfillMerge
    <3>1. skipped' = skipped \ {<<bf.src, bf.day>>}
      BY <2>2 DEF BackfillMerge
    <3>2. CASE c = <<bf.src, bf.day>>
      <4>1. log[i][1] = sources[bf.src] /\ DayOf(i) = bf.day
        BY <1>2, <3>2
      <4>2. Counted(i)'
        BY <2>2, <4>1, ChunkMerged
      <4>3. QED
        BY <4>2 DEF Covered
    <3>3. CASE c # <<bf.src, bf.day>>
      BY <1>2, <1>b, <1>c, <3>1, <3>3 DEF Covered
    <3>4. QED
      BY <3>2, <3>3
  <2>3. QED
    BY <2>1, <2>2 DEF Next, IngestStep, RawStep, FlushStep, BackfillStep, Ingest, Observe, DropUnusable,
       FlushSwap, FlushCommit, FlushFail, BackfillStart, BackfillCollect, BackfillChunkFail, BackfillCursor,
       markPropBaselineBackfillDone, BackfillMetaFail, RestartAll, vars, metaVars
<1>3. QED
  BY <1>1, <1>2, <1>b, <1>c DEF Covered

\* Every step keeps the days behind the cursor covered.
LEMMA CoverStep ==
  ASSUME CoverInv, [Next]_vars
  PROVE  CoverInv'
<1>a. /\ PbTypeOK /\ RawInv /\ LiveCounted /\ BehindCursor /\ PlanKept /\ PlanAhead /\ DayWalked /\ ChunkWalked
      /\ RowsTyped /\ WalkTyped
  BY DEF CoverInv, PbTypeOK
<1>b. PbTypeOK' /\ RawInv' /\ LiveCounted' /\ RowsTyped' /\ WalkTyped'
  BY <1>a, PbTypeStep, LateCounted DEF PbTypeOK
<1>c. /\ bf \in BfType /\ bf.src \in DOMAIN sources /\ bf.src \in Nat /\ bf.day \in Nat /\ bf.today \in Nat
      /\ bf.fails \in Nat /\ bf.at \in Int /\ bf.acc \in [Slots -> Nat]
      /\ cursor \in Int /\ -1 <= cursor /\ planned \subseteq Int /\ cursor' \in Int
  BY <1>a, <1>b, SourceOf DEF WalkTyped, BfType
<1>d. \A i \in raw' : Counted(i)' \/ (i \in raw /\ log'[i] = log[i] /\ DayOf(i)' = DayOf(i) /\ (Covered(i) => Covered(i)'))
  BY <1>a, LateCounted, CoveredStays
<1>e. \A i : Counted(i)' => Covered(i)'
  BY DEF Covered
<1>f. FirstDay \in Int /\ FirstDay' \in Int /\ FirstDay <= FirstDay'
  <2>1. clock \in Nat /\ clock' \in Nat /\ clock <= clock'
    BY <1>a, <1>b, RowsMove DEF RowsTyped
  <2> DEFINE d == utcDayIndex(clock)
             e == utcDayIndex(clock')
  <2>2. d \in Nat /\ e \in Nat /\ d <= e
    BY <2>1, DaySlots, DaysAscend
  <2>3. FirstDay = d - BackfillDays + 1 /\ FirstDay' = e - BackfillDays + 1
    BY DEF FirstDay, utcDayIndex
  <2>4. BackfillDays \in Nat
    BY BaselineConstants
  <2> HIDE DEF d, e
  <2>5. QED
    BY <2>2, <2>3, <2>4
<1>g. \A i \in raw' : i \in Nat /\ log'[i][2] \in Nat /\ log'[i][1] \in Sources
  <2>1. SUFFICES ASSUME NEW i \in raw' PROVE i \in Nat /\ log'[i][2] \in Nat /\ log'[i][1] \in Sources
    OBVIOUS
  <2>2. log' \in Seq(Keys) /\ i \in DOMAIN log'
    BY <1>b, <2>1 DEF RowsTyped
  <2>3. log'[i] \in Keys /\ i \in Nat
    BY <2>2, LenProperties
  <2>4. QED
    BY <2>3 DEF Keys, Slots
<1>p. ASSUME UNCHANGED <<cursor, planned>> PROVE BehindCursor' /\ PlanKept'
  <2>1. BehindCursor'
    <3>1. SUFFICES ASSUME NEW i \in raw', DayOf(i)' \in planned, DayOf(i)' <= cursor PROVE Covered(i)'
      BY <1>p DEF BehindCursor
    <3>2. CASE Counted(i)'
      BY <1>e, <3>2
    <3>3. CASE i \in raw /\ DayOf(i)' = DayOf(i) /\ (Covered(i) => Covered(i)')
      BY <1>a, <3>1, <3>3 DEF BehindCursor
    <3>4. QED
      BY <1>d, <3>1, <3>2, <3>3
  <2>2. PlanKept'
    <3>1. SUFFICES ASSUME NEW d \in FirstDay' .. cursor PROVE d \in planned
      BY <1>p DEF PlanKept
    <3>2. d \in FirstDay .. cursor
      BY <1>c, <1>f, <3>1
    <3>3. QED
      BY <1>a, <3>2 DEF PlanKept
  <2>3. QED
    BY <2>1, <2>2
<1>q. ASSUME bf'.pc \notin {"collect", "merge", "cursor"} PROVE PlanAhead' /\ DayWalked' /\ ChunkWalked'
  BY <1>q DEF PlanAhead, DayWalked, ChunkWalked, Walking
<1>r. ASSUME Walking, bf'.day = bf.day, bf'.today = bf.today, UNCHANGED <<cursor, planned>> PROVE PlanAhead'
  <2>1. ASSUME NEW d \in FirstDay' .. bf.today, d >= bf.day PROVE d \in planned
    <3>1. d \in FirstDay .. bf.today
      BY <1>c, <1>f
    <3>2. QED
      BY <1>a, <1>r, <2>1, <3>1 DEF PlanAhead
  <2>2. ASSUME NEW d \in FirstDay' .. bf.day PROVE d \in planned
    <3>1. d \in FirstDay .. bf.day
      BY <1>c, <1>f
    <3>2. QED
      BY <1>a, <1>r, <3>1 DEF PlanAhead
  <2>3. bf.day <= bf.today /\ \A d \in planned : d <= cursor \/ d >= bf.day
    BY <1>a, <1>r DEF PlanAhead
  <2>4. QED
    BY <1>r, <2>1, <2>2, <2>3 DEF PlanAhead
<1>s. ASSUME NEW b \in BfType, NEW d \in Nat, NEW j \in DOMAIN sources, bf' = StartChunk(b, d, j)
      PROVE  ChunkWalked' /\ bf'.pc = "collect" /\ bf'.day = d /\ bf'.src = j /\ bf'.today = b.today
  <2>1. bf'.pc = "collect" /\ bf'.day = d /\ bf'.src = j /\ bf'.today = b.today /\ bf'.at = d * SlotsPerDay
    BY <1>s, ChunkStarts
  <2>2. SlotsPerDay \in Nat \ {0}
    BY BaselineConstants
  <2>3. d * SlotsPerDay < (d + 1) * SlotsPerDay
    BY <2>2
  <2>4. ASSUME NEW i \in raw', DayOf(i)' = d PROVE ~(log'[i][2] < d * SlotsPerDay)
    <3> DEFINE t == log'[i][2]
    <3>1. t \in Nat
      BY <1>g
    <3>2. utcDayIndex(t) = d
      BY <2>4 DEF DayOf
    <3> HIDE DEF t
    <3>3. d * SlotsPerDay <= t
      BY <3>1, <3>2, DaySlots
    <3>4. d * SlotsPerDay \in Nat
      BY <2>2
    <3>5. \A m, n \in Nat : m <= n => ~(n < m)
      OBVIOUS
    <3>6. ~(t < d * SlotsPerDay)
      BY <3>1, <3>3, <3>4, <3>5
    <3>7. QED
      BY <3>6 DEF t
  <2>5. ChunkWalked'
    BY <2>1, <2>3, <2>4 DEF ChunkWalked
  <2>6. QED
    BY <2>1, <2>5
<1>t. ASSUME bf'.src = 1, bf'.pc = "collect" PROVE DayWalked'
  <2>1. \A j \in DOMAIN sources : ~(j < 1)
    BY SourceOf
  <2>2. QED
    BY <1>t, <2>1 DEF DayWalked
<1>1. ASSUME UNCHANGED <<cursor, planned, bf>> PROVE CoverInv'
  <2>1. PlanAhead'
    BY <1>1, <1>r DEF PlanAhead, Walking
  <2>2. DayWalked'
    <3>1. SUFFICES ASSUME Walking, NEW i \in raw', DayOf(i)' = bf.day, NEW j \in DOMAIN sources,
                          j < bf.src \/ bf.pc = "cursor", sources[j] = log'[i][1]
                   PROVE  Covered(i)'
      BY <1>1 DEF DayWalked, Walking
    <3>2. CASE Counted(i)'
      BY <1>e, <3>2
    <3>3. CASE i \in raw /\ log'[i] = log[i] /\ DayOf(i)' = DayOf(i) /\ (Covered(i) => Covered(i)')
      BY <1>a, <3>1, <3>3 DEF DayWalked
    <3>4. QED
      BY <1>d, <3>1, <3>2, <3>3
  <2>3. ChunkWalked'
    <3>1. SUFFICES ASSUME bf.pc \in {"collect", "merge"}, NEW i \in raw', log'[i][1] = sources[bf.src],
                          DayOf(i)' = bf.day, log'[i][2] < bf.at
                   PROVE  Counted(i)' \/ bf.acc[log'[i][2]] > 0
      BY <1>1, <1>a DEF ChunkWalked
    <3>2. CASE i \in raw /\ log'[i] = log[i] /\ DayOf(i)' = DayOf(i)
      <4>1. Counted(i) \/ bf.acc[log[i][2]] > 0
        BY <1>a, <3>1, <3>2 DEF ChunkWalked
      <4>2. Counted(i) => Counted(i)'
        BY <1>a, <3>2, CountedStays DEF RowsTyped
      <4>3. QED
        BY <3>2, <4>1, <4>2
    <3>3. QED
      BY <1>d, <3>1, <3>2
  <2>4. QED
    BY <1>1, <1>b, <1>p, <2>1, <2>2, <2>3 DEF CoverInv
<1>2. CASE UNCHANGED vars \/ IngestStep \/ RawStep \/ FlushStep
  <2>1. UNCHANGED <<cursor, planned, bf>>
    BY <1>2 DEF vars, metaVars, IngestStep, RawStep, FlushStep, Ingest, Observe, DropUnusable, FlushSwap,
                FlushCommit, FlushFail
  <2>2. QED
    BY <1>1, <2>1
<1>3. CASE markPropBaselineBackfillDone \/ BackfillMetaFail \/ RestartAll
  <2>1. bf' \in {BackfillIdle("stopped"), BackfillIdle("start")} /\ UNCHANGED <<cursor, planned>>
    BY <1>3 DEF markPropBaselineBackfillDone, BackfillMetaFail, RestartAll
  <2>2. bf'.pc \notin {"collect", "merge", "cursor"}
    BY <2>1, Idles
  <2>3. QED
    BY <1>b, <1>p, <1>q, <2>1, <2>2 DEF CoverInv
<1>4. ASSUME NEW readDone \in BOOLEAN, NEW readCursor \in BOOLEAN, BackfillStart(readDone, readCursor)
      PROVE  CoverInv'
  <2> DEFINE today == utcDayIndex(clock)
             first == today - BackfillDays + 1
             startDay == IF readCursor /\ cursor # -1 /\ cursor + 1 > first THEN cursor + 1 ELSE first
             b == [bf EXCEPT !.today = today]
  <2>1. today \in Nat /\ first \in Nat /\ startDay \in Nat /\ first <= startDay
        /\ (startDay = first \/ startDay = cursor + 1)
    BY <1>a, WalkStarts
  <2>2. /\ bf' = BackfillIdle("stopped") \/ bf' = BackfillIdle("done")
           \/ (~(startDay > today) /\ bf' = StartChunk(b, startDay, 1))
        /\ planned' = {d \in planned : d <= cursor} \cup (startDay .. today)
        /\ cursor' = cursor
    BY <1>4 DEF BackfillStart
  <2>3. b \in BfType /\ b.today = today
    BY <1>c, <2>1 DEF BfType
  <2>4. FirstDay = first /\ FirstDay' = first
    <3>1. clock' = clock
      BY <1>4 DEF BackfillStart, rawVars
    <3>2. QED
      BY <3>1 DEF FirstDay, utcDayIndex
  <2> HIDE DEF today, first, startDay, b
  <2>5. \A d \in Int : d \in planned' => d \in planned \/ ~(d <= cursor)
    <3>1. SUFFICES ASSUME NEW d \in Int, d \in startDay .. today, d <= cursor PROVE d \in planned
      BY <2>2
    <3>2. startDay = first /\ d \in FirstDay .. cursor
      BY <1>c, <2>1, <2>4, <3>1
    <3>3. QED
      BY <1>a, <3>2 DEF PlanKept
  <2>6. BehindCursor'
    <3>1. SUFFICES ASSUME NEW i \in raw', DayOf(i)' \in planned', DayOf(i)' <= cursor PROVE Covered(i)'
      BY <2>2 DEF BehindCursor
    <3>2. CASE Counted(i)'
      BY <1>e, <3>2
    <3>3. CASE i \in raw /\ DayOf(i)' = DayOf(i) /\ (Covered(i) => Covered(i)')
      <4>1. DayOf(i) \in Int
        BY <1>b, <3>1, <3>3 DEF WalkTyped
      <4>2. DayOf(i) \in planned
        BY <2>5, <3>1, <3>3, <4>1
      <4>3. QED
        BY <1>a, <3>1, <3>3, <4>2 DEF BehindCursor
    <3>4. QED
      BY <1>d, <3>1, <3>2, <3>3
  <2>7. PlanKept'
    <3>1. SUFFICES ASSUME NEW d \in first .. cursor PROVE d \in planned'
      BY <2>2, <2>4 DEF PlanKept
    <3>2. d <= cursor /\ d \in planned
      BY <1>a, <1>c, <2>1, <2>4 DEF PlanKept
    <3>3. QED
      BY <2>2, <3>2
  <2>8. CASE bf' = BackfillIdle("stopped") \/ bf' = BackfillIdle("done")
    <3>1. bf'.pc \notin {"collect", "merge", "cursor"}
      BY <2>8, Idles
    <3>2. QED
      BY <1>b, <1>q, <2>6, <2>7, <3>1 DEF CoverInv
  <2>9. CASE ~(startDay > today) /\ bf' = StartChunk(b, startDay, 1)
    <3>1. 1 \in DOMAIN sources
      BY SourceOf
    <3>2. ChunkWalked' /\ bf'.pc = "collect" /\ bf'.day = startDay /\ bf'.src = 1 /\ bf'.today = today
      BY <1>s, <2>1, <2>3, <2>9, <3>1
    <3>3. startDay <= today
      BY <2>1, <2>9
    <3>4. ASSUME NEW d \in first .. today, d >= startDay PROVE d \in planned'
      BY <2>1, <2>2, <3>4
    <3>5. ASSUME NEW d \in first .. startDay PROVE d \in planned'
      <4>1. d \in Int /\ d <= startDay
        BY <2>1
      <4>2. CASE d = startDay
        BY <2>1, <2>2, <3>3, <4>2
      <4>3. CASE d # startDay
        <5>1. startDay = cursor + 1 /\ d <= cursor /\ d \in first .. cursor
          BY <1>c, <2>1, <4>1, <4>3
        <5>2. QED
          BY <1>a, <2>2, <2>4, <5>1 DEF PlanKept
      <4>4. QED
        BY <4>2, <4>3
    <3>6. \A d \in planned' : d <= cursor \/ d >= startDay
      BY <1>c, <2>1, <2>2
    <3>7. PlanAhead'
      BY <2>2, <2>4, <3>2, <3>3, <3>4, <3>5, <3>6 DEF PlanAhead
    <3>8. QED
      BY <1>b, <1>t, <2>6, <2>7, <3>2, <3>7 DEF CoverInv
  <2>10. QED
    BY <2>2, <2>8, <2>9
<1>5. CASE BackfillCollect
  <2> DEFINE key == <<sources[bf.src], bf.at>>
             rows == {i \in raw : log[i] = key}
             n == Cardinality(rows)
             end == (bf.day + 1) * SlotsPerDay
  <2>1. /\ bf.pc = "collect" /\ UNCHANGED <<cursor, planned, raw, log>>
        /\ bf'.src = bf.src /\ bf'.day = bf.day /\ bf'.today = bf.today
        /\ bf'.at = bf.at + 1
        /\ bf'.acc = IF bf.at \in Slots THEN [bf.acc EXCEPT ![bf.at] = n] ELSE bf.acc
        /\ bf'.pc = IF bf.at + 1 = end THEN "merge" ELSE "collect"
    BY <1>5, <1>c DEF BackfillCollect, BfType, rawVars
  <2>2. Walking /\ bf.at < end /\ end \in Int
    <3>1. end \in Int
      BY <1>c, BaselineConstants
    <3>2. QED
      BY <1>a, <2>1, <3>1 DEF ChunkWalked, Walking
  <2> HIDE DEF end
  <2>3. IF bf'.pc = "collect" THEN bf'.at < end ELSE bf'.at = end
    BY <1>c, <2>1, <2>2
  <2>4. ASSUME NEW i \in raw', log'[i][1] = sources[bf.src], DayOf(i)' = bf.day, log'[i][2] < bf'.at
        PROVE  Counted(i)' \/ bf'.acc[log'[i][2]] > 0
    <3>1. i \in raw /\ i \in DOMAIN log /\ log'[i] = log[i] /\ DayOf(i)' = DayOf(i)
      BY <1>a, <2>1 DEF RowsTyped, DayOf
    <3>2. log[i] \in Keys /\ log[i][2] \in Slots /\ log[i][2] \in Nat /\ log[i] = <<log[i][1], log[i][2]>>
      BY <1>a, <3>1, RowKey DEF Slots
    <3>3. CASE log[i][2] = bf.at
      <4>1. bf.at \in Slots /\ bf'.acc[bf.at] = n
        BY <1>c, <2>1, <3>2, <3>3
      <4>2. i \in rows
        BY <2>4, <3>1, <3>2, <3>3
      <4>3. rows \subseteq stored
        BY <1>a DEF RowsTyped
      <4>4. IsFiniteSet(rows) /\ n \in Nat
        BY <1>a, <4>3, RowsFinite
      <4>5. n # 0
        BY <4>2, <4>4, FS_EmptySet
      <4>6. n > 0
        BY <4>4, <4>5
      <4>7. QED
        BY <3>1, <3>3, <4>1, <4>6
    <3>4. CASE log[i][2] # bf.at
      <4>1. log[i][2] < bf.at
        BY <1>c, <2>1, <2>4, <3>1, <3>2, <3>4
      <4>2. Counted(i) \/ bf.acc[log[i][2]] > 0
        BY <1>a, <2>1, <2>4, <3>1, <4>1 DEF ChunkWalked
      <4>3. bf'.acc[log[i][2]] = bf.acc[log[i][2]]
        BY <1>c, <2>1, <3>2, <3>4
      <4>4. Counted(i) => Counted(i)'
        BY <1>a, <3>1, CountedStays
      <4>5. QED
        BY <3>1, <4>2, <4>3, <4>4
    <3>5. QED
      BY <3>3, <3>4
  <2>5. ChunkWalked'
    BY <2>1, <2>3, <2>4 DEF ChunkWalked, end
  <2>6. DayWalked'
    <3>1. SUFFICES ASSUME NEW i \in raw', DayOf(i)' = bf.day, NEW j \in DOMAIN sources,
                          j < bf.src, sources[j] = log'[i][1]
                   PROVE  Covered(i)'
      BY <2>1 DEF DayWalked
    <3>2. CASE Counted(i)'
      BY <1>e, <3>2
    <3>3. CASE i \in raw /\ log'[i] = log[i] /\ DayOf(i)' = DayOf(i) /\ (Covered(i) => Covered(i)')
      BY <1>a, <2>2, <3>1, <3>3 DEF DayWalked
    <3>4. QED
      BY <1>d, <3>1, <3>2, <3>3
  <2>7. QED
    BY <1>b, <1>p, <1>r, <2>1, <2>2, <2>5, <2>6 DEF CoverInv
<1>6. CASE BackfillMerge \/ BackfillChunkFail
  <2>1. PICK n \in {0, bf.fails + 1} : bf' = AfterChunk([bf EXCEPT !.fails = n])
    BY <1>6 DEF BackfillMerge, BackfillChunkFail
  <2>2. UNCHANGED <<cursor, planned, raw, log>> /\ Walking
    BY <1>6 DEF BackfillMerge, BackfillChunkFail, rawVars, Walking
  <2> DEFINE b == [bf EXCEPT !.fails = n]
  <2>3. b \in BfType /\ b.src = bf.src /\ b.day = bf.day /\ b.today = bf.today
    BY <1>a, <1>c, <2>1, Fails
  <2>4. bf' = AfterChunk(b)
    BY <2>1
  <2> HIDE DEF b
  <2>5. ASSUME NEW i \in raw, DayOf(i) = bf.day, NEW j \in DOMAIN sources, j <= bf.src, sources[j] = log[i][1]
        PROVE  Covered(i)'
    <3>1. CASE j = bf.src /\ BackfillMerge
      <4>1. Counted(i)'
        BY <1>a, <2>5, <3>1, ChunkMerged
      <4>2. QED
        BY <1>e, <4>1
    <3>2. CASE j = bf.src /\ BackfillChunkFail
      <4>1. <<bf.src, bf.day>> \in skipped'
        BY <3>2 DEF BackfillChunkFail
      <4>2. log'[i] = log[i] /\ DayOf(i)' = DayOf(i)
        BY <1>a, CoveredStays
      <4>3. QED
        BY <2>5, <3>2, <4>1, <4>2 DEF Covered
    <3>3. CASE j # bf.src
      <4>1. j < bf.src
        BY <1>c, <2>5, <3>3, SourceOf
      <4>2. Covered(i)
        BY <1>a, <2>2, <2>5, <4>1 DEF DayWalked
      <4>3. QED
        BY <1>a, <4>2, CoveredStays
    <3>4. QED
      BY <1>6, <3>1, <3>2, <3>3
  <2>6. \A i \in raw : log'[i] = log[i] /\ DayOf(i)' = DayOf(i)
    BY <1>a, CoveredStays
  <2>7. CASE bf'.pc = "stopped"
    BY <1>b, <1>p, <1>q, <2>2, <2>7 DEF CoverInv
  <2>8. CASE b.src < Len(sources) /\ b.src + 1 \in DOMAIN sources /\ bf' = StartChunk(b, b.day, b.src + 1)
    <3> DEFINE m == b.src + 1
               d == b.day
    <3>1. m \in DOMAIN sources /\ d \in Nat /\ bf' = StartChunk(b, d, m)
      BY <1>c, <2>3, <2>8
    <3> HIDE DEF m, d
    <3>2. ChunkWalked' /\ bf'.pc = "collect" /\ bf'.day = d /\ bf'.src = m /\ bf'.today = b.today
      BY <1>s, <2>3, <3>1
    <3>3. m = bf.src + 1 /\ d = bf.day
      BY <2>3 DEF m, d
    <3>4. \A j \in DOMAIN sources : j < m => j <= bf.src
      BY <1>c, <3>3, SourceOf
    <3>5. DayWalked'
      BY <2>2, <2>5, <2>6, <3>2, <3>3, <3>4 DEF DayWalked
    <3>6. PlanAhead'
      BY <1>r, <2>2, <2>3, <3>2, <3>3
    <3>7. QED
      BY <1>b, <1>p, <2>2, <3>2, <3>5, <3>6 DEF CoverInv
  <2>9. CASE b.src = Len(sources) /\ bf'.pc = "cursor" /\ bf'.day = b.day /\ bf'.today = b.today
    <3>1. \A j \in DOMAIN sources : j <= bf.src
      BY <2>3, <2>9, SourceOf
    <3>2. DayWalked'
      BY <2>2, <2>3, <2>5, <2>6, <2>9, <3>1 DEF DayWalked
    <3>3. PlanAhead'
      BY <1>r, <2>2, <2>3, <2>9
    <3>4. ChunkWalked'
      BY <2>9 DEF ChunkWalked
    <3>5. QED
      BY <1>b, <1>p, <2>2, <3>2, <3>3, <3>4 DEF CoverInv
  <2>10. QED
    BY <2>3, <2>4, <2>7, <2>8, <2>9, ChunkEnds
<1>7. CASE BackfillCursor
  <2>1. bf.pc = "cursor" /\ Walking /\ cursor' = bf.day /\ UNCHANGED <<planned, raw, log, clock>>
    BY <1>7 DEF BackfillCursor, rawVars, Walking
  <2>2. BehindCursor'
    <3>1. SUFFICES ASSUME NEW i \in raw', DayOf(i)' \in planned, DayOf(i)' <= bf.day PROVE Covered(i)'
      BY <2>1 DEF BehindCursor
    <3>2. i \in raw /\ log'[i] = log[i] /\ DayOf(i)' = DayOf(i) /\ (Covered(i) => Covered(i)')
      BY <1>a, <2>1, CoveredStays
    <3>3. CASE DayOf(i) = bf.day
      <4>1. PICK j \in DOMAIN sources : sources[j] = log[i][1]
        BY <1>g, <3>2, SourceOf
      <4>2. Covered(i)
        BY <1>a, <2>1, <3>2, <3>3, <4>1 DEF DayWalked
      <4>3. QED
        BY <3>2, <4>2
    <3>4. CASE DayOf(i) # bf.day
      <4>1. DayOf(i) \in planned /\ DayOf(i) <= bf.day /\ DayOf(i) \in Int
        BY <1>c, <3>1, <3>2
      <4>2. DayOf(i) <= cursor \/ DayOf(i) >= bf.day
        BY <1>a, <2>1, <4>1 DEF PlanAhead
      <4>3. DayOf(i) <= cursor
        BY <1>c, <3>4, <4>1, <4>2
      <4>4. QED
        BY <1>a, <3>2, <4>1, <4>3 DEF BehindCursor
    <3>5. QED
      BY <3>3, <3>4
  <2>3. FirstDay' = FirstDay
    BY <2>1 DEF FirstDay
  <2>4. PlanKept'
    BY <1>a, <2>1, <2>3 DEF PlanKept, PlanAhead
  <2>5. CASE bf.day < bf.today
    <3> DEFINE d == bf.day + 1
    <3>1. bf' = StartChunk(bf, d, 1) /\ d \in Nat /\ 1 \in DOMAIN sources
      BY <1>7, <1>c, <2>5, SourceOf DEF BackfillCursor
    <3> HIDE DEF d
    <3>2. ChunkWalked' /\ bf'.pc = "collect" /\ bf'.day = d /\ bf'.src = 1 /\ bf'.today = bf.today
      BY <1>c, <1>s, <3>1
    <3>3. d = bf.day + 1 /\ d <= bf.today
      BY <1>c, <2>5 DEF d
    <3>4. ASSUME NEW e \in FirstDay .. bf.today, e >= d PROVE e \in planned
      <4>1. e >= bf.day
        BY <1>c, <1>f, <3>1, <3>3, <3>4
      <4>2. QED
        BY <1>a, <2>1, <4>1 DEF PlanAhead
    <3>5. ASSUME NEW e \in FirstDay .. d PROVE e \in planned
      <4>1. e \in FirstDay .. bf.day \/ (e \in FirstDay .. bf.today /\ e >= bf.day)
        BY <1>c, <1>f, <3>3, <3>5
      <4>2. QED
        BY <1>a, <2>1, <4>1 DEF PlanAhead
    <3>6. \A e \in planned : e <= bf.day \/ e >= d
      BY <1>c, <3>3
    <3>7. PlanAhead'
      BY <2>1, <2>3, <3>2, <3>3, <3>4, <3>5, <3>6 DEF PlanAhead
    <3>8. QED
      BY <1>b, <1>t, <2>2, <2>4, <3>2, <3>7 DEF CoverInv
  <2>6. CASE ~(bf.day < bf.today)
    <3>1. bf'.pc = "done"
      BY <1>7, <1>c, <2>6 DEF BackfillCursor, BfType
    <3>2. QED
      BY <1>b, <1>q, <2>2, <2>4, <3>1 DEF CoverInv
  <2>7. QED
    BY <2>5, <2>6
<1>8. QED
  BY <1>2, <1>3, <1>4, <1>5, <1>6, <1>7 DEF Next, BackfillStep

\* A day the cursor has passed is complete: each of its raw rows has its key in
\* the table or on the way there, unless the chunk failed or a live count was
\* lost or never made.
THEOREM CursorCorrect == Spec => []CursorCovers
<1>1. Init => CoverInv
  <2>1. SUFFICES ASSUME Init PROVE CoverInv
    OBVIOUS
  <2>2. PbTypeOK /\ RawInv
    BY <2>1, PbTypeInit
  <2>3. stored = DOMAIN log /\ planned = {} /\ cursor = -1 /\ bf = BackfillIdle("start")
    BY <2>1 DEF Init, RawInit
  <2>4. LiveCounted /\ BehindCursor
    BY <2>3 DEF LiveCounted, BehindCursor
  <2>5. PlanKept
    <3>1. clock = StartClock
      BY <2>1 DEF Init, RawInit
    <3>2. StartClock \div SlotsPerDay >= BackfillDays - 1 /\ BackfillDays \in Nat
      BY BaselineConstants
    <3> DEFINE d == StartClock \div SlotsPerDay
    <3>3. d \in Nat
      BY RawConstants, DaySlots DEF utcDayIndex
    <3>4. FirstDay = d - BackfillDays + 1 /\ d >= BackfillDays - 1
      BY <3>1, <3>2 DEF FirstDay, utcDayIndex
    <3> HIDE DEF d
    <3>5. FirstDay \in Nat
      BY <3>2, <3>3, <3>4
    <3>6. QED
      BY <2>3, <3>5 DEF PlanKept
  <2>6. bf.pc = "start"
    BY <2>3, Idles
  <2>7. PlanAhead /\ DayWalked /\ ChunkWalked
    BY <2>6 DEF PlanAhead, DayWalked, ChunkWalked, Walking
  <2>8. QED
    BY <2>2, <2>4, <2>5, <2>7 DEF CoverInv
<1>2. CoverInv /\ [Next]_vars => CoverInv'
  BY CoverStep
<1>3. CoverInv => CursorCovers
  BY DEF CoverInv, BehindCursor, CursorCovers, Covered, Counted, DayOf
<1>4. QED
  BY <1>1, <1>2, <1>3, PTL DEF Spec

=============================================================================
