---------------------------- MODULE StreamProofs ----------------------------
(***************************************************************************)
(* Proofs about SpotStream.  First the search of the history (sort.Search  *)
(* finds the first true place of a monotone test, proved by induction on   *)
(* the part still searched) and facts about sequences; then StreamInv, by  *)
(* which no spot is counted twice: a message is with a broadcast goroutine *)
(* or in the channel or in the batch or in a live frame or at the page,    *)
(* never in two of them; then LostInv, by which nothing is lost: the id    *)
(* the page resumes from is ahead by less than the overlap of everything   *)
(* it has not been sent.                                                   *)
(***************************************************************************)
EXTENDS SpotStream, SequenceTheorems, FiniteSetTheorems, WellFoundedInduction, TLAPS

\* A non-empty set of natural numbers has a smallest element.
LEMMA SmallestOf ==
  ASSUME NEW T, T \subseteq Nat, T # {}
  PROVE  \E x \in T : \A y \in T : x <= y
<1> DEFINE R == {p \in Nat \X Nat : p[1] < p[2]}
<1>1. R = OpToRel(<, Nat)
  BY DEF OpToRel
<1>2. IsWellFoundedOn(R, Nat)
  BY <1>1, NatLessThanWellFounded
<1> HIDE DEF R
<1>3. PICK x \in T : \A y \in T : ~(<<y, x>> \in R)
  BY <1>2, WFMin
<1>4. \A y \in T : <<y, x>> \in Nat \X Nat /\ ~(y < x)
  BY <1>3 DEF R
<1>5. \A p, q \in Nat : ~(q < p) => p <= q
  OBVIOUS
<1>6. x \in Nat /\ \A y \in T : y \in Nat
  BY <1>3
<1>7. \A y \in T : x <= y
  BY <1>4, <1>5, <1>6
<1>8. QED
  BY <1>3, <1>7

\* Induction over the naturals, by the smallest number left out.
LEMMA AllNaturals ==
  ASSUME NEW G, 0 \in G, \A k \in Nat : k \in G => k + 1 \in G
  PROVE  Nat \subseteq G
<1> DEFINE T == Nat \ G
<1>1. SUFFICES ASSUME T # {} PROVE FALSE
  OBVIOUS
<1>2. PICK x \in T : \A y \in T : x <= y
  BY <1>1, SmallestOf
<1>3. x \in Nat /\ x # 0 /\ x \notin G
  BY <1>2
<1>4. x - 1 \in Nat /\ ~(x <= x - 1) /\ (x - 1) + 1 = x
  BY <1>3
<1>5. x - 1 \in G
  BY <1>2, <1>4
<1>6. QED
  BY <1>3, <1>4, <1>5

\* One step of the binary search over the bounds r, with g for the rest.
FindBody(f, g, r) ==
    LET mid == (r[1] + r[2]) \div 2 IN
    IF r[1] >= r[2] THEN r[1]
    ELSE IF f[mid + 1] THEN g[<<r[1], mid>>] ELSE g[<<mid + 1, r[2]>>]

\* The middle that sort.Search probes lies in the part it still searches.
LEMMA MidBounds ==
  ASSUME NEW a \in Nat, NEW b \in Nat, a < b
  PROVE  (a + b) \div 2 \in Nat /\ a <= (a + b) \div 2 /\ (a + b) \div 2 < b
OBVIOUS

\* The pairs of bounds at most k apart.
Within(n, k) == {r \in (0..n) \X (0..n) : r[2] <= r[1] + k}

\* On a part of at most k places the body of the search stays in its bounds, given the answers on smaller parts.
LEMMA FindBodyRange ==
  ASSUME NEW n \in Nat, NEW f, NEW k \in Nat, NEW r \in Within(n, k + 1),
         NEW g \in [Within(n, k) -> 0..n]
  PROVE  FindBody(f, g, r) \in 0..n
<1>1. r = <<r[1], r[2]>> /\ r[1] \in 0..n /\ r[2] \in 0..n /\ r[2] <= r[1] + (k + 1)
  BY DEF Within
<1>2. CASE r[1] >= r[2]
  BY <1>1, <1>2 DEF FindBody
<1>3. CASE r[1] < r[2]
  <2> DEFINE mid == (r[1] + r[2]) \div 2
  <2>1. mid \in Nat /\ r[1] <= mid /\ mid < r[2]
    BY <1>1, <1>3, MidBounds
  <2> HIDE DEF mid
  <2>2. mid \in 0..n /\ mid + 1 \in 0..n /\ mid <= r[1] + k /\ r[2] <= (mid + 1) + k
    BY <1>1, <2>1
  <2>3. <<r[1], mid>> \in Within(n, k) /\ <<mid + 1, r[2]>> \in Within(n, k)
    BY <1>1, <2>2 DEF Within
  <2>4. g[<<r[1], mid>>] \in 0..n /\ g[<<mid + 1, r[2]>>] \in 0..n
    BY <2>3
  <2>5. ~(r[1] >= r[2])
    BY <1>1, <1>3
  <2>6. FindBody(f, g, r) \in {g[<<r[1], mid>>], g[<<mid + 1, r[2]>>]}
    BY <2>5 DEF FindBody, mid
  <2>7. QED
    BY <2>4, <2>6
<1>4. QED
  BY <1>1, <1>2, <1>3

\* Two functions that agree within k make the same step within k + 1.
LEMMA FindBodyAgree ==
  ASSUME NEW n \in Nat, NEW f, NEW k \in Nat, NEW r \in Within(n, k + 1), NEW g, NEW h,
         \A s \in Within(n, k) : g[s] = h[s]
  PROVE  FindBody(f, g, r) = FindBody(f, h, r)
<1>1. r = <<r[1], r[2]>> /\ r[1] \in 0..n /\ r[2] \in 0..n /\ r[2] <= r[1] + (k + 1)
  BY DEF Within
<1>2. CASE r[1] >= r[2]
  BY <1>1, <1>2 DEF FindBody
<1>3. CASE r[1] < r[2]
  <2> DEFINE mid == (r[1] + r[2]) \div 2
  <2>1. mid \in Nat /\ r[1] <= mid /\ mid < r[2]
    BY <1>1, <1>3, MidBounds
  <2> HIDE DEF mid
  <2>2. mid \in 0..n /\ mid + 1 \in 0..n /\ mid <= r[1] + k /\ r[2] <= (mid + 1) + k
    BY <1>1, <2>1
  <2>3. <<r[1], mid>> \in Within(n, k) /\ <<mid + 1, r[2]>> \in Within(n, k)
    BY <1>1, <2>2 DEF Within
  <2>4. g[<<r[1], mid>>] = h[<<r[1], mid>>] /\ g[<<mid + 1, r[2]>>] = h[<<mid + 1, r[2]>>]
    BY <2>3
  <2>5. QED
    BY <2>4 DEF FindBody, mid
<1>4. QED
  BY <1>1, <1>2, <1>3

\* The recursion of the binary search has a solution.
LEMMA FindExists ==
  ASSUME NEW n \in Nat, NEW f
  PROVE  \E g \in [(0..n) \X (0..n) -> 0..n] :
            \A r \in (0..n) \X (0..n) : g[r] = FindBody(f, g, r)
<1> DEFINE Solves(g, k) == \A r \in Within(n, k) : g[r] = FindBody(f, g, r)
           G == {k \in Nat : \E g \in [Within(n, k) -> 0..n] : Solves(g, k)}
<1>1. 0 \in G
  <2> DEFINE g == [r \in Within(n, 0) |-> r[1]]
  <2>1. g \in [Within(n, 0) -> 0..n]
    BY DEF Within
  <2>2. ASSUME NEW r \in Within(n, 0) PROVE g[r] = FindBody(f, g, r)
    <3>1. r[1] \in 0..n /\ r[2] \in 0..n /\ r[2] <= r[1] + 0
      BY DEF Within
    <3>2. r[1] >= r[2]
      BY <3>1
    <3>3. QED
      BY <3>2 DEF FindBody
  <2>3. QED
    BY <2>1, <2>2
<1>2. ASSUME NEW k \in Nat, k \in G PROVE k + 1 \in G
  <2>1. PICK g \in [Within(n, k) -> 0..n] : Solves(g, k)
    BY <1>2
  <2> DEFINE h == [r \in Within(n, k + 1) |-> FindBody(f, g, r)]
  <2>2. h \in [Within(n, k + 1) -> 0..n]
    BY FindBodyRange
  <2>3. \A r \in Within(n, k) : r \in Within(n, k + 1)
    BY DEF Within
  <2>4. \A r \in Within(n, k) : g[r] = h[r]
    BY <2>1, <2>3
  <2>5. \A r \in Within(n, k + 1) : h[r] = FindBody(f, g, r)
    OBVIOUS
  <2> HIDE DEF h
  <2>6. \A r \in Within(n, k + 1) : h[r] = FindBody(f, h, r)
    BY <2>4, <2>5, FindBodyAgree
  <2>7. k + 1 \in Nat
    OBVIOUS
  <2>8. QED
    BY <2>2, <2>6, <2>7
<1> HIDE DEF G
<1>3. n \in G
  BY <1>1, <1>2, AllNaturals
<1>4. Within(n, n) = (0..n) \X (0..n)
  BY DEF Within
<1>5. QED
  BY <1>3, <1>4 DEF G

\* Search is the value at <<0, n>> of a solution of its recursion.
LEMMA SearchSolves ==
  ASSUME NEW n \in Nat, NEW f
  PROVE  \E h : /\ \A r \in (0..n) \X (0..n) : h[r] = FindBody(f, h, r)
                /\ Search(n, f) = h[<<0, n>>]
<1> DEFINE P(h) == h = [r \in (0..n) \X (0..n) |-> FindBody(f, h, r)]
<1>1. PICK g \in [(0..n) \X (0..n) -> 0..n] : \A r \in (0..n) \X (0..n) : g[r] = FindBody(f, g, r)
  BY FindExists
<1>2. P(g)
  BY <1>1
<1>3. P(CHOOSE h : P(h))
  BY <1>2
<1>4. Search(n, f) = (CHOOSE h : P(h))[<<0, n>>]
  BY DEF Search, FindBody
<1>5. QED
  BY <1>3, <1>4

\* What the search leaves on its left is FALSE and what it finds is TRUE, for
\* a monotone f; for any f it stays in range.
THEOREM SearchCorrect ==
  ASSUME NEW n \in Nat, NEW f
  PROVE  /\ Search(n, f) \in 0..n
         /\ (\A i, j \in 1..n : i <= j /\ f[i] => f[j])
               => \A i \in 1..n : f[i] <=> i > Search(n, f)
<1>1. PICK h : /\ \A r \in (0..n) \X (0..n) : h[r] = FindBody(f, h, r)
               /\ Search(n, f) = h[<<0, n>>]
  BY SearchSolves
<1> DEFINE Mono == \A i, j \in 1..n : i <= j /\ f[i] => f[j]
           Between(r) == /\ h[r] \in r[1]..r[2]
                         /\ Mono => \A i \in 1..n : r[1] < i /\ i <= r[2] => (f[i] <=> i > h[r])
           G == {k \in Nat : \A r \in Within(n, k) : r[1] <= r[2] => Between(r)}
<1>2. ASSUME NEW r \in (0..n) \X (0..n), r[1] = r[2] PROVE Between(r)
  <2>1. r[1] \in 0..n /\ r[2] \in 0..n
    OBVIOUS
  <2>2. r[1] >= r[2] /\ h[r] = FindBody(f, h, r)
    BY <1>1, <1>2, <2>1
  <2>3. h[r] = r[1]
    BY <2>2 DEF FindBody
  <2>4. QED
    BY <1>2, <2>1, <2>3
<1>3. 0 \in G
  <2>1. \A r \in Within(n, 0) : r[1] <= r[2] => r \in (0..n) \X (0..n) /\ r[1] = r[2]
    BY DEF Within
  <2>2. QED
    BY <1>2, <2>1
<1>4. ASSUME NEW k \in Nat, k \in G PROVE k + 1 \in G
  <2>1. ASSUME NEW r \in Within(n, k + 1), r[1] < r[2] PROVE Between(r)
    <3>1. r = <<r[1], r[2]>> /\ r[1] \in 0..n /\ r[2] \in 0..n /\ r[2] <= r[1] + (k + 1)
      BY DEF Within
    <3> DEFINE mid == (r[1] + r[2]) \div 2
    <3>2. mid \in Nat /\ r[1] <= mid /\ mid < r[2]
      BY <2>1, <3>1, MidBounds
    <3>3. ~(r[1] >= r[2])
      BY <2>1, <3>1
    <3>4. h[r] = IF f[mid + 1] THEN h[<<r[1], mid>>] ELSE h[<<mid + 1, r[2]>>]
      BY <1>1, <3>1, <3>3 DEF FindBody
    <3> HIDE DEF mid
    <3>5. mid \in 0..n /\ mid + 1 \in 1..n /\ mid <= r[1] + k /\ r[2] <= (mid + 1) + k /\ mid + 1 <= r[2]
      BY <3>1, <3>2
    <3>6. <<r[1], mid>> \in Within(n, k) /\ <<mid + 1, r[2]>> \in Within(n, k)
      BY <3>1, <3>5 DEF Within
    <3>7. Between(<<r[1], mid>>) /\ Between(<<mid + 1, r[2]>>)
      BY <1>4, <3>2, <3>5, <3>6
    <3>8. CASE f[mid + 1]
      <4>1. h[r] = h[<<r[1], mid>>]
        BY <3>4, <3>8
      <4>2. h[r] \in r[1]..r[2]
        BY <3>1, <3>2, <3>7, <4>1
      <4>3. ASSUME Mono, NEW i \in 1..n, r[1] < i, i <= r[2] PROVE f[i] <=> i > h[r]
        <5>1. CASE i <= mid
          BY <3>7, <4>1, <4>3, <5>1
        <5>2. CASE i > mid
          <6>1. f[i]
            BY <3>5, <3>8, <4>3, <5>2
          <6>2. h[<<r[1], mid>>] <= mid /\ h[<<r[1], mid>>] \in Int
            BY <3>1, <3>2, <3>7
          <6>3. QED
            BY <3>2, <4>1, <5>2, <6>1, <6>2
        <5>3. QED
          BY <3>2, <5>1, <5>2
      <4>4. QED
        BY <4>2, <4>3
    <3>9. CASE ~f[mid + 1]
      <4>1. h[r] = h[<<mid + 1, r[2]>>]
        BY <3>4, <3>9
      <4>2. h[r] \in r[1]..r[2] /\ h[r] >= mid + 1 /\ h[r] \in Int
        BY <3>1, <3>2, <3>7, <4>1
      <4>3. ASSUME Mono, NEW i \in 1..n, r[1] < i, i <= r[2] PROVE f[i] <=> i > h[r]
        <5>1. CASE i > mid + 1
          BY <3>7, <4>1, <4>3, <5>1
        <5>2. CASE i <= mid + 1
          <6>1. ~f[i]
            BY <3>5, <3>9, <4>3, <5>2
          <6>2. QED
            BY <3>2, <4>2, <5>2, <6>1
        <5>3. QED
          BY <3>2, <5>1, <5>2
      <4>4. QED
        BY <4>2, <4>3
    <3>10. QED
      BY <3>8, <3>9
  <2>2. ASSUME NEW r \in Within(n, k + 1), r[1] <= r[2] PROVE Between(r)
    <3>1. r \in (0..n) \X (0..n) /\ (r[1] < r[2] \/ r[1] = r[2])
      BY <2>2 DEF Within
    <3>2. QED
      BY <1>2, <2>1, <3>1
  <2>3. QED
    BY <2>2
<1> HIDE DEF G
<1>5. n \in G
  BY <1>3, <1>4, AllNaturals
<1>6. <<0, n>> \in Within(n, n)
  BY DEF Within
<1>7. Between(<<0, n>>)
  BY <1>5, <1>6 DEF G
<1>8. QED
  BY <1>1, <1>7

\* What Tail and Head of a non-empty sequence are (the channel receive and the page taking a frame).
LEMMA TailOf ==
  ASSUME NEW S, NEW s \in Seq(S), s # <<>>
  PROVE  /\ Tail(s) \in Seq(S) /\ Head(s) = s[1] /\ s[1] \in S
         /\ Len(s) \in Nat \ {0} /\ DOMAIN s = 1..Len(s)
         /\ Len(Tail(s)) = Len(s) - 1 /\ DOMAIN Tail(s) = 1..(Len(s) - 1)
         /\ \A k \in 1..(Len(s) - 1) : k + 1 \in DOMAIN s /\ Tail(s)[k] = s[k + 1]
         /\ \A k \in DOMAIN s : k # 1 => k - 1 \in 1..(Len(s) - 1) /\ Tail(s)[k - 1] = s[k]
<1>1. Tail(s) \in Seq(S) /\ Head(s) = s[1] /\ s[1] \in S /\ Len(s) \in Nat \ {0} /\ DOMAIN s = 1..Len(s)
  OBVIOUS
<1>2. Len(Tail(s)) = Len(s) - 1 /\ DOMAIN Tail(s) = 1..(Len(s) - 1)
  OBVIOUS
<1>3. \A k \in 1..(Len(s) - 1) : k + 1 \in DOMAIN s /\ Tail(s)[k] = s[k + 1]
  OBVIOUS
<1>4. ASSUME NEW k \in DOMAIN s, k # 1
      PROVE  k - 1 \in 1..(Len(s) - 1) /\ Tail(s)[k - 1] = s[k]
  <2>1. k \in Nat /\ k - 1 \in 1..(Len(s) - 1) /\ (k - 1) + 1 = k
    BY <1>1, <1>4
  <2>2. QED
    BY <1>3, <2>1
<1>5. QED
  BY <1>1, <1>2, <1>3, <1>4

\* What Append makes of a sequence (append of Go, on the channel, the pending batch and the wire).
LEMMA AppendOf ==
  ASSUME NEW S, NEW s \in Seq(S), NEW e \in S
  PROVE  /\ Append(s, e) \in Seq(S) /\ Append(s, e) # <<>>
         /\ Len(s) \in Nat /\ DOMAIN s = 1..Len(s)
         /\ Len(Append(s, e)) = Len(s) + 1 /\ DOMAIN Append(s, e) = 1..(Len(s) + 1)
         /\ \A k \in 1..Len(s) : Append(s, e)[k] = s[k]
         /\ Append(s, e)[Len(s) + 1] = e
         /\ \A k \in DOMAIN Append(s, e) : k \in DOMAIN s \/ k = Len(s) + 1
OBVIOUS

\* A sequence over a set is one over a larger set.
LEMMA WiderSeq ==
  ASSUME NEW S, NEW T, S \subseteq T, NEW s \in Seq(S)
  PROVE  s \in Seq(T)
<1>1. Len(s) \in Nat /\ s \in [1..Len(s) -> S]
  OBVIOUS
<1>2. s \in [1..Len(s) -> T]
  BY <1>1
<1>3. QED
  BY <1>1, <1>2

\* A non-empty finite set of numbers has its Max: the number of the highest spot of a batch.
LEMMA MaxOf ==
  ASSUME NEW H \in Nat, NEW S, S \subseteq 0..H, S # {}
  PROVE  Max(S) \in S /\ \A x \in S : x <= Max(S)
<1> DEFINE T == {H - x : x \in S}
<1>1. T \subseteq Nat /\ T # {}
  <2>1. \A x \in S : x \in 0..H
    OBVIOUS
  <2>2. \A x \in 0..H : H - x \in Nat
    OBVIOUS
  <2>3. QED
    BY <2>1, <2>2
<1>2. PICK y \in T : \A z \in T : y <= z
  BY <1>1, SmallestOf
<1>3. PICK x \in S : y = H - x
  BY <1>2
<1>4. \A w \in S : w \in 0..H /\ H - x <= H - w
  BY <1>2, <1>3
<1>5. \A w \in S : x >= w
  BY <1>4, <1>3
<1>6. Max(S) \in S /\ \A w \in S : Max(S) >= w
  BY <1>5 DEF Max
<1>7. QED
  BY <1>6

\* A finite set has an enumeration as a sequence without repetition, which SetToSeqs holds.
LEMMA EnumOf ==
  ASSUME NEW S, IsFiniteSet(S), NEW h \in SetToSeqs(S)
  PROVE  /\ h \in Seq(S)
         /\ \A x \in S : \E i \in DOMAIN h : h[i] = x
         /\ \A i, j \in DOMAIN h : h[i] = h[j] => i = j
<1> DEFINE D == 1..Cardinality(S)
<1>1. Cardinality(S) \in Nat /\ h \in [D -> S] /\ \A i, j \in D : i # j => h[i] # h[j]
  BY FS_CardinalityType DEF SetToSeqs
<1>2. h \in Injection(D, S)
  BY <1>1 DEF Injection, IsInjective
<1>3. Cardinality(D) = Cardinality(S)
  BY <1>1, FS_Interval
<1>4. h \in Surjection(D, S)
  BY <1>2, <1>3, FS_Injection
<1>5. QED
  BY <1>1, <1>4 DEF Surjection

\* What SubSeq keeps when the first n elements go, as the prune of liveHistory cuts its head off.
LEMMA DropOf ==
  ASSUME NEW S, NEW s \in Seq(S), NEW n \in 0..Len(s)
  PROVE  /\ SubSeq(s, n + 1, Len(s)) \in Seq(S)
         /\ Len(SubSeq(s, n + 1, Len(s))) = Len(s) - n
         /\ \A k \in 1..(Len(s) - n) : k + n \in DOMAIN s /\ SubSeq(s, n + 1, Len(s))[k] = s[k + n]
<1>1. Len(s) \in Nat /\ n \in Nat /\ DOMAIN s = 1..Len(s)
  OBVIOUS
<1>2. \A k \in 1..(Len(s) - n) : k + n \in DOMAIN s
  BY <1>1
<1>3. \A i \in (n + 1)..Len(s) : s[i] \in S
  BY <1>1
<1>4. /\ SubSeq(s, n + 1, Len(s)) \in Seq(S)
      /\ Len(SubSeq(s, n + 1, Len(s))) = IF n + 1 <= Len(s) THEN Len(s) - (n + 1) + 1 ELSE 0
      /\ \A i \in 1..(Len(s) - (n + 1) + 1) : SubSeq(s, n + 1, Len(s))[i] = s[n + 1 + i - 1]
  BY <1>1, <1>3, SubSeqProperties
<1>5. \A i \in 1..(Len(s) - n) : i \in 1..(Len(s) - (n + 1) + 1) /\ n + 1 + i - 1 = i + n
  BY <1>1
<1>6. \A k \in 1..(Len(s) - n) : SubSeq(s, n + 1, Len(s))[k] = s[k + n]
  BY <1>4, <1>5
<1>7. Len(SubSeq(s, n + 1, Len(s))) = Len(s) - n
  <2>1. \A a \in Nat : \A c \in 0..a : (IF c + 1 <= a THEN a - (c + 1) + 1 ELSE 0) = a - c
    OBVIOUS
  <2>2. QED
    BY <1>1, <1>4, <2>1
<1>8. QED
  BY <1>2, <1>4, <1>6, <1>7

\* What the page, the frames and the queue are made of.
Phases == {"off", "connecting", "loading", "live", "suspended"}

\* An SSE id, epoch:seq.
Ids == [epoch : Nat, seq : Nat]

\* An entry of client.send and of pendingSpots: the message and its number.
Items == [msg : Nat, seq : Nat]

\* A frame of the stream; only a spots frame carries messages.
Frames == {x \in [type : {"area", "spots", "history_end", "server_error"},
                  spots : Seq(Nat), id : Ids, radius : Int] : x.type # "spots" => x.spots = <<>>}

\* The types the argument needs, by the part of the state.
HubType ==
    /\ clock \in Nat /\ epoch \in Nat \ {0} /\ baseSeq \in Nat
    /\ log \in Seq([t : Int, kind : Kinds]) /\ Len(log) <= MaxMsgs
    /\ history \in Seq(1..Len(log))

\* A broadcast goroutine that has its clients and is about to send.
SenderType == sender \in [Broadcasters -> [busy : BOOLEAN, msg : Nat, seq : Nat, to : Nat]]

\* The streamHandler that serves the page.
ConnType ==
    conn \in [open : BOOLEAN, filter : SUBSET Kinds, radius : Int, cutoff : Int,
              send : Seq(Items), pending : Seq(Items), maxSeq : Nat]

\* The frames on their way to the page.
WireType == wire \in Seq(Frames)

\* The page's stream state and the URL of its EventSource.
PageType ==
    /\ page \in [phase : Phases, lastId : Ids, esId : Ids, streamedFilter : SUBSET Kinds, area : Int,
                 url : [filter : SUBSET Kinds, since : Ids, prev : BOOLEAN,
                        prevFilter : SUBSET Kinds, prevRadius : Int]]
    /\ starts \in Nat /\ breaks \in Nat

\* The spots the page holds, counted, and the ones a full channel dropped.
HeldType == held \in [Msgs -> Nat] /\ dropped \subseteq Nat

\* The frames of the dump and the frames of the loop.
IsEarly(x) == x.type \in {"area", "spots"} /\ x.id = NoId

\* A frame of the live loop carries an id.
IsLive(x) == x.type = "spots" /\ x.id # NoId

\* The goroutines whose client is the one that is connected now.
SendersHere == {b \in Broadcasters : sender[b].busy /\ sender[b].to = connNo}

\* The connection, the goroutines that feed it and the page's phase fit together.
Connected ==
    /\ \A b \in Broadcasters : sender[b].busy => sender[b].to <= connNo
    /\ SendersHere # {} => conn.open
    /\ ~conn.open => conn = ConnClosed
    /\ conn.open => page.phase \in {"loading", "live"}
    /\ page.phase = "live" => conn.open
    /\ ~conn.open => wire = IF page.phase = "loading" THEN <<ErrorFrame>> ELSE <<>>

\* The dump, history_end and the live frames follow each other on the wire; the
\* page is live once it has read history_end.
Framed ==
    conn.open =>
        \E e \in 0..Len(wire) :
            /\ (e = 0) <=> (page.phase = "live")
            /\ e > 0 => wire[e].type = "history_end"
            /\ \A j \in DOMAIN wire : j < e => IsEarly(wire[j])
            /\ \A j \in DOMAIN wire : j > e => IsLive(wire[j])

\* Where a message for the page can be.
SenderMsgs == {sender[b].msg : b \in SendersHere}

\* In the client's channel.
QueueMsgs == {conn.send[k].msg : k \in DOMAIN conn.send}

\* In the batch of the live loop.
PendingMsgs == {conn.pending[k].msg : k \in DOMAIN conn.pending}

\* In a frame.
FrameMsgs(j) == {wire[j].spots[k] : k \in DOMAIN wire[j].spots}

\* In the frames of the live loop.
LiveMsgs == UNION {FrameMsgs(j) : j \in {i \in DOMAIN wire : IsLive(wire[i])}}

\* At the page, or on the way to it in the history dump.
PastMsgs == HeldSet \cup UNION {FrameMsgs(j) : j \in {i \in DOMAIN wire : IsEarly(wire[i])}}

\* All of them were broadcast.
InLog ==
    /\ \A b \in Broadcasters : sender[b].busy => sender[b].msg \in 1..Len(log)
    /\ QueueMsgs \cup PendingMsgs \cup LiveMsgs \cup PastMsgs \subseteq 1..Len(log)

\* No sequence number is ahead of the hub.
Bounded ==
    /\ \A b \in Broadcasters : sender[b].seq <= highSeqLocked
    /\ \A k \in DOMAIN conn.send : conn.send[k].seq <= highSeqLocked
    /\ \A k \in DOMAIN conn.pending : conn.pending[k].seq <= highSeqLocked
    /\ conn.maxSeq <= highSeqLocked

\* A live message is in one place, once, and the page was not sent it before.
Apart ==
    /\ SenderMsgs \cap (QueueMsgs \cup PendingMsgs \cup LiveMsgs \cup PastMsgs) = {}
    /\ QueueMsgs \cap (PendingMsgs \cup LiveMsgs \cup PastMsgs) = {}
    /\ PendingMsgs \cap (LiveMsgs \cup PastMsgs) = {}
    /\ LiveMsgs \cap PastMsgs = {}

\* In each of these places a message is once.
Once ==
    /\ \A b, c \in SendersHere : sender[b].msg = sender[c].msg => b = c
    /\ \A k, l \in DOMAIN conn.send : conn.send[k].msg = conn.send[l].msg => k = l
    /\ \A k, l \in DOMAIN conn.pending : conn.pending[k].msg = conn.pending[l].msg => k = l
    /\ \A j \in DOMAIN wire : IsLive(wire[j]) =>
          \A k, l \in DOMAIN wire[j].spots : wire[j].spots[k] = wire[j].spots[l] => k = l
    /\ \A i, j \in DOMAIN wire : IsLive(wire[i]) /\ IsLive(wire[j]) /\ i # j =>
          FrameMsgs(i) \cap FrameMsgs(j) = {}

\* The inductive invariant of NoDuplicates.
StreamInv ==
    /\ HubType /\ SenderType /\ ConnType /\ WireType /\ PageType /\ HeldType
    /\ Connected /\ Framed /\ InLog /\ Bounded /\ Apart /\ Once /\ NoDuplicates

\* The invariant holds before the first stream.
LEMMA StreamInitially == Init => StreamInv
<1> SUFFICES ASSUME Init PROVE StreamInv
  OBVIOUS
<1> USE StreamConstants
<1>1. HubType
  BY DEF Init, HubType
<1>2. SenderType
  BY DEF Init, SenderType, SenderIdle
<1>3. ConnType
  <2>1. <<>> \in Seq(Items)
    OBVIOUS
  <2>2. QED
    BY <2>1 DEF Init, ConnType, ConnClosed
<1>4. WireType
  BY DEF Init, WireType
<1>5. PageType
  BY DEF Init, PageType, Phases, Ids, NoId
<1>6. HeldType
  BY DEF Init, HeldType, Msgs
<1>7. Connected
  BY DEF Init, Connected, SendersHere, SenderIdle, ConnClosed
<1>8. Framed
  BY DEF Init, Framed, ConnClosed
<1>9. SenderMsgs = {} /\ QueueMsgs = {} /\ PendingMsgs = {} /\ LiveMsgs = {} /\ PastMsgs = {}
  BY DEF Init, SenderMsgs, SendersHere, SenderIdle, QueueMsgs, PendingMsgs, LiveMsgs, PastMsgs, HeldSet, ConnClosed
<1>10. InLog /\ Apart
  BY <1>9 DEF Init, InLog, Apart, SenderIdle
<1>11. Bounded
  BY DEF Init, Bounded, SenderIdle, ConnClosed, highSeqLocked
<1>12. Once
  BY DEF Init, Once, SendersHere, SenderIdle, ConnClosed
<1>13. NoDuplicates
  BY DEF Init, NoDuplicates
<1>14. QED
  BY <1>1, <1>2, <1>3, <1>4, <1>5, <1>6, <1>7, <1>8, <1>10, <1>11, <1>12, <1>13 DEF StreamInv

\* A step that only moves the clock or the history of the hub keeps it.
LEMMA StreamSame ==
  ASSUME StreamInv, UNCHANGED <<log, sender, conn, wire, page, held, dropped, starts, breaks>>,
         HubType', highSeqLocked' = highSeqLocked
  PROVE  StreamInv'
<1>1. SenderType' /\ ConnType' /\ WireType' /\ PageType' /\ HeldType'
  BY DEF StreamInv, SenderType, ConnType, WireType, PageType, HeldType
<1>2. Connected' /\ Framed'
  BY DEF StreamInv, Connected, Framed, SendersHere, connNo
<1>3. /\ SenderMsgs' = SenderMsgs /\ QueueMsgs' = QueueMsgs /\ PendingMsgs' = PendingMsgs
      /\ LiveMsgs' = LiveMsgs /\ PastMsgs' = PastMsgs
  BY DEF SenderMsgs, SendersHere, connNo, QueueMsgs, PendingMsgs, LiveMsgs, PastMsgs, HeldSet, FrameMsgs
<1>4. InLog' /\ Apart'
  BY <1>3 DEF StreamInv, InLog, Apart
<1>5. Bounded'
  BY DEF StreamInv, Bounded
<1>6. Once' /\ NoDuplicates'
  BY DEF StreamInv, Once, NoDuplicates, SendersHere, connNo, FrameMsgs
<1>7. QED
  BY <1>1, <1>2, <1>4, <1>5, <1>6 DEF StreamInv

\* What the search skips is in range.
LEMMA SkipInRange ==
  ASSUME StreamInv, NEW cutoff \in Int
  PROVE  sortSearch(cutoff) \in 0..Len(history)
<1>1. Len(history) \in Nat
  BY DEF StreamInv, HubType
<1>2. QED
  BY <1>1, SearchCorrect DEF sortSearch

\* So does the prune of the live history.
LEMMA StreamPrune == StreamInv /\ pruneLiveHistory => StreamInv'
<1> SUFFICES ASSUME StreamInv, pruneLiveHistory PROVE StreamInv'
  OBVIOUS
<1> DEFINE n == sortSearch(clock - Retention)
<1>1. n \in 0..Len(history) /\ Len(history) \in Nat /\ baseSeq \in Nat
  <2>1. clock - Retention \in Int
    BY StreamConstants DEF StreamInv, HubType
  <2>2. QED
    BY <2>1, SkipInRange DEF StreamInv, HubType
<1> HIDE DEF n
<1>2. history' = SubSeq(history, n + 1, Len(history)) /\ baseSeq' = baseSeq + n
  BY DEF pruneLiveHistory, dropFrontLocked, n
<1>3. history' \in Seq(1..Len(log)) /\ Len(history') = Len(history) - n
  BY <1>1, <1>2, DropOf DEF StreamInv, HubType
<1>4. HubType'
  BY <1>1, <1>2, <1>3 DEF StreamInv, HubType, pruneLiveHistory
<1>5. highSeqLocked' = (baseSeq + n) + (Len(history) - n)
  BY <1>2, <1>3 DEF highSeqLocked
<1>6. highSeqLocked' = highSeqLocked
  BY <1>1, <1>5 DEF highSeqLocked
<1>7. QED
  BY <1>4, <1>6, StreamSame DEF pruneLiveHistory

\* So does the clock.
LEMMA StreamTick == StreamInv /\ (Tick \/ UNCHANGED vars) => StreamInv'
<1> SUFFICES ASSUME StreamInv, Tick \/ UNCHANGED vars PROVE StreamInv'
  OBVIOUS
<1>1. HubType' /\ highSeqLocked' = highSeqLocked
  BY DEF Tick, vars, hubVars, StreamInv, HubType, highSeqLocked
<1>2. QED
  BY <1>1, StreamSame DEF Tick, vars, hubVars

\* broadcast: a new message is nowhere yet, and goes to the goroutine's copy of the clients.
LEMMA StreamBroadcast ==
  ASSUME StreamInv, NEW b \in Broadcasters, NEW k \in Kinds, NEW t \in Int, Broadcast(b, k, t)
  PROVE  StreamInv'
<1> DEFINE n == Len(log) + 1
           s == [busy |-> TRUE, msg |-> n, seq |-> highSeqLocked + 1, to |-> connNo]
<1>1. /\ Len(log) \in Nat /\ Len(history) \in Nat /\ baseSeq \in Nat /\ highSeqLocked \in Nat
      /\ connNo \in Nat
  BY DEF StreamInv, HubType, PageType, highSeqLocked, connNo
<1>2. /\ log' \in Seq([t : Int, kind : Kinds]) /\ Len(log') = n /\ n <= MaxMsgs
  BY StreamConstants, <1>1 DEF StreamInv, HubType, Broadcast
<1>3. /\ history' = Append(history, n) /\ history' \in Seq(1..n) /\ Len(history') = Len(history) + 1
  BY <1>1, <1>2 DEF StreamInv, HubType, Broadcast
<1>4. highSeqLocked' = highSeqLocked + 1
  BY <1>1, <1>3 DEF highSeqLocked, Broadcast
<1>5. HubType'
  BY <1>1, <1>2, <1>3 DEF StreamInv, HubType, Broadcast
<1>6. ConnType' /\ WireType' /\ PageType' /\ HeldType'
  BY DEF StreamInv, ConnType, WireType, PageType, HeldType, Broadcast
<1>7. /\ sender \in [Broadcasters -> [busy : BOOLEAN, msg : Nat, seq : Nat, to : Nat]]
      /\ ~sender[b].busy
      /\ sender' \in {sender, [sender EXCEPT ![b] = s]} /\ (~conn.open => sender' = sender)
  BY <1>2 DEF StreamInv, SenderType, Broadcast
<1>8. connNo' = connNo
  BY DEF Broadcast, connNo
<1>9. s \in [busy : BOOLEAN, msg : Nat, seq : Nat, to : Nat]
  BY <1>1
<1>10. s.busy /\ s.msg = n /\ s.seq = highSeqLocked + 1 /\ s.to = connNo
  OBVIOUS
<1> HIDE DEF s, n
<1>11. SenderType'
  BY <1>7, <1>9 DEF SenderType
<1>12. /\ \A c \in Broadcasters : c # b => sender'[c] = sender[c]
       /\ sender'[b] = sender[b] \/ (sender'[b] = s /\ conn.open)
  BY <1>7
<1>13. \A c \in SendersHere' : (c \in SendersHere /\ sender'[c] = sender[c]) \/ (c = b /\ sender'[c] = s)
  BY <1>7, <1>8, <1>12 DEF SendersHere
<1>14. Connected'
  <2>1. \A c \in Broadcasters : sender'[c].busy => sender'[c].to <= connNo
    BY <1>1, <1>10, <1>12 DEF StreamInv, Connected
  <2>2. SendersHere' # {} => conn.open
    <3>1. ASSUME NEW c \in SendersHere' PROVE conn.open
      <4>1. CASE c \in SendersHere
        BY <4>1 DEF StreamInv, Connected
      <4>2. CASE c = b /\ sender'[c] = s
        BY <4>2, <1>7, <1>10, <1>12
      <4>3. QED
        BY <1>13, <4>1, <4>2
    <3>2. QED
      BY <3>1
  <2>3. QED
    BY <2>1, <2>2, <1>8 DEF StreamInv, Connected, Broadcast
<1>15. Framed'
  BY DEF StreamInv, Framed, Broadcast
<1>16. /\ QueueMsgs' = QueueMsgs /\ PendingMsgs' = PendingMsgs
       /\ LiveMsgs' = LiveMsgs /\ PastMsgs' = PastMsgs
  BY DEF Broadcast, QueueMsgs, PendingMsgs, LiveMsgs, PastMsgs, HeldSet, FrameMsgs
<1>17. SenderMsgs' \subseteq SenderMsgs \cup {n}
  BY <1>13, <1>10 DEF SenderMsgs
<1>18. n \notin 1..Len(log) /\ 1..Len(log) \subseteq 1..n /\ n \in 1..n
  BY <1>1 DEF n
<1>19. \A c \in SendersHere : sender[c].msg \in 1..Len(log)
  BY DEF StreamInv, InLog, SendersHere
<1>20. InLog'
  <2>1. \A c \in Broadcasters : sender'[c].busy => sender'[c].msg \in 1..n
    BY <1>12, <1>10, <1>18 DEF StreamInv, InLog
  <2>2. QED
    BY <2>1, <1>16, <1>18, <1>2 DEF StreamInv, InLog
<1>21. Apart'
  BY <1>16, <1>17, <1>18 DEF StreamInv, InLog, Apart
<1>22. Bounded'
  <2>1. \A x \in Nat : x <= highSeqLocked => x <= highSeqLocked + 1
    BY <1>1
  <2>2. \A c \in Broadcasters : sender'[c].seq <= highSeqLocked + 1
    BY <2>1, <1>1, <1>10, <1>12, <1>7 DEF StreamInv, Bounded
  <2>3. /\ conn' = conn /\ conn.maxSeq \in Nat
        /\ \A j \in DOMAIN conn.send : conn.send[j].seq \in Nat
        /\ \A j \in DOMAIN conn.pending : conn.pending[j].seq \in Nat
    <3>1. conn.maxSeq \in Nat /\ conn.send \in Seq(Items) /\ conn.pending \in Seq(Items)
      BY DEF StreamInv, ConnType
    <3>2. /\ \A j \in DOMAIN conn.send : conn.send[j] \in Items
          /\ \A j \in DOMAIN conn.pending : conn.pending[j] \in Items
      BY <3>1, ElementOfSeq
    <3>3. QED
      BY <3>1, <3>2 DEF Items, Broadcast
  <2>4. QED
    BY <2>1, <2>2, <2>3, <1>4 DEF StreamInv, Bounded
<1>23. Once'
  <2>1. ASSUME NEW c \in SendersHere', NEW d \in SendersHere', sender'[c].msg = sender'[d].msg
        PROVE  c = d
    BY <2>1, <1>10, <1>13, <1>18, <1>19 DEF StreamInv, Once
  <2>2. conn' = conn /\ wire' = wire /\ \A j : FrameMsgs(j)' = FrameMsgs(j)
    BY DEF Broadcast, FrameMsgs
  <2>3. QED
    BY <2>1, <2>2 DEF StreamInv, Once
<1>24. NoDuplicates'
  BY DEF StreamInv, NoDuplicates, Broadcast
<1>25. QED
  BY <1>5, <1>6, <1>11, <1>14, <1>15, <1>20, <1>21, <1>22, <1>23, <1>24 DEF StreamInv

\* safeSend: the message leaves the goroutine for the channel, or is dropped when the channel is full or closed.
LEMMA StreamSafeSend ==
  ASSUME StreamInv, NEW b \in Broadcasters, SafeSend(b)
  PROVE  StreamInv'
<1> DEFINE x == sender[b].msg
           it == [msg |-> sender[b].msg, seq |-> sender[b].seq]
<1>1. /\ sender \in [Broadcasters -> [busy : BOOLEAN, msg : Nat, seq : Nat, to : Nat]]
      /\ sender[b].busy /\ sender' = [sender EXCEPT ![b] = SenderIdle]
      /\ sender[b] \in [busy : BOOLEAN, msg : Nat, seq : Nat, to : Nat]
  BY DEF StreamInv, SenderType, SafeSend
<1>2. /\ conn.send \in Seq(Items) /\ conn.pending \in Seq(Items)
      /\ conn \in [open : BOOLEAN, filter : SUBSET Kinds, radius : Int, cutoff : Int,
              send : Seq(Items), pending : Seq(Items), maxSeq : Nat]
      /\ it \in Items /\ it.msg = x /\ it.seq = sender[b].seq
  BY <1>1 DEF StreamInv, ConnType, Items
<1> HIDE DEF it
<1>3. \/ conn' = conn
      \/ b \in SendersHere /\ conn.open /\ conn' = [conn EXCEPT !.send = Append(@, it)]
  BY <1>1 DEF SafeSend, SendersHere, it
<1>4. conn'.send = conn.send \/ (b \in SendersHere /\ conn'.send = Append(conn.send, it))
  BY <1>2, <1>3
<1>5. /\ conn'.pending = conn.pending /\ conn'.open = conn.open /\ conn'.maxSeq = conn.maxSeq
      /\ conn'.radius = conn.radius /\ conn'.filter = conn.filter /\ conn'.cutoff = conn.cutoff
  BY <1>2, <1>3
<1>6. Append(conn.send, it) \in Seq(Items)
  BY <1>2, AppendOf
<1>7. ConnType'
  BY <1>2, <1>3, <1>6 DEF ConnType
<1>8. SenderType'
  BY <1>1 DEF SenderType, SenderIdle
<1>9. /\ \A c \in Broadcasters : c # b => sender'[c] = sender[c]
      /\ sender'[b] = SenderIdle /\ ~SenderIdle.busy /\ SenderIdle.seq = 0
  BY <1>1 DEF SenderIdle
<1>10. connNo' = connNo /\ connNo \in Nat /\ highSeqLocked' = highSeqLocked /\ highSeqLocked \in Nat
  <2>1. starts' = starts /\ breaks' = breaks /\ epoch' = epoch /\ history' = history /\ baseSeq' = baseSeq
    BY DEF SafeSend, hubVars
  <2>2. connNo \in Nat
    BY DEF StreamInv, PageType, connNo
  <2>3. highSeqLocked \in Nat
    BY DEF StreamInv, HubType, highSeqLocked
  <2>4. connNo' = connNo /\ highSeqLocked' = highSeqLocked
    BY <2>1 DEF connNo, highSeqLocked
  <2>5. QED
    BY <2>2, <2>3, <2>4
<1>11. /\ HubType' /\ WireType' /\ PageType'
  BY DEF SafeSend, hubVars, StreamInv, HubType, WireType, PageType
<1>12. HeldType' /\ NoDuplicates'
  <2>1. dropped' = dropped \/ dropped' = dropped \cup {sender[b].msg}
    BY DEF SafeSend
  <2>2. QED
    BY <2>1, <1>1 DEF SafeSend, StreamInv, HeldType, NoDuplicates
<1>13. \A c \in SendersHere' : c \in SendersHere /\ c # b /\ sender'[c] = sender[c]
  BY <1>9, <1>10 DEF SendersHere
<1>14. Connected'
  <2>1. \A c \in Broadcasters : sender'[c].busy => sender'[c].to <= connNo
    BY <1>9 DEF StreamInv, Connected
  <2>2. SendersHere' # {} => conn.open
    BY <1>13 DEF StreamInv, Connected
  <2>3. ~conn.open => conn' = conn
    BY <1>3
  <2>4. QED
    BY <2>1, <2>2, <2>3, <1>5, <1>10 DEF StreamInv, Connected, SafeSend
<1>15. Framed'
  BY <1>5 DEF StreamInv, Framed, SafeSend
<1>16. LiveMsgs' = LiveMsgs /\ PastMsgs' = PastMsgs /\ PendingMsgs' = PendingMsgs
  BY <1>5 DEF SafeSend, PendingMsgs, LiveMsgs, PastMsgs, HeldSet, FrameMsgs
<1>17. \A k \in DOMAIN conn'.send :
          \/ k \in DOMAIN conn.send /\ conn'.send[k] = conn.send[k]
          \/ b \in SendersHere /\ k = Len(conn.send) + 1 /\ conn'.send[k] = it
  <2>1. CASE conn'.send = conn.send
    BY <2>1
  <2>2. CASE b \in SendersHere /\ conn'.send = Append(conn.send, it)
    <3> DEFINE q == conn.send
    <3>1. q \in Seq(Items) /\ conn'.send = Append(q, it)
      BY <1>2, <2>2
    <3> HIDE DEF q
    <3>2. /\ DOMAIN q = 1..Len(q) /\ conn'.send[Len(q) + 1] = it
          /\ \A k \in 1..Len(q) : conn'.send[k] = q[k]
          /\ \A k \in DOMAIN conn'.send : k \in DOMAIN q \/ k = Len(q) + 1
      BY <1>2, <3>1, AppendOf
    <3>3. QED
      BY <3>2, <2>2 DEF q
  <2>3. QED
    BY <1>4, <2>1, <2>2
<1>18. QueueMsgs' \subseteq QueueMsgs \cup {x}
  BY <1>2, <1>17 DEF QueueMsgs
<1>19. b \notin SendersHere => QueueMsgs' \subseteq QueueMsgs
  BY <1>17 DEF QueueMsgs
<1>20. SenderMsgs' \subseteq SenderMsgs /\ (b \in SendersHere => x \in SenderMsgs)
  BY <1>13 DEF SenderMsgs
<1>21. b \in SendersHere => x \notin SenderMsgs'
  BY <1>13 DEF SenderMsgs, StreamInv, Once
<1>22. x \in 1..Len(log)
  BY <1>1 DEF StreamInv, InLog
<1>23. InLog'
  <2>1. \A c \in Broadcasters : sender'[c].busy => sender'[c].msg \in 1..Len(log)
    BY <1>9 DEF StreamInv, InLog
  <2>2. log' = log
    BY DEF SafeSend
  <2>3. QED
    BY <2>1, <2>2, <1>16, <1>18, <1>22 DEF StreamInv, InLog
<1>24. Apart'
  <2>1. CASE b \in SendersHere
    BY <2>1, <1>16, <1>18, <1>20, <1>21 DEF StreamInv, Apart
  <2>2. CASE b \notin SendersHere
    BY <2>2, <1>16, <1>19, <1>20 DEF StreamInv, Apart
  <2>3. QED
    BY <2>1, <2>2
<1>25. Bounded'
  <2>1. \A c \in Broadcasters : sender'[c].seq <= highSeqLocked
    BY <1>9, <1>10 DEF StreamInv, Bounded
  <2>2. \A k \in DOMAIN conn'.send : conn'.send[k].seq <= highSeqLocked
    BY <1>2, <1>17 DEF StreamInv, Bounded
  <2>3. QED
    BY <2>1, <2>2, <1>5, <1>10 DEF StreamInv, Bounded
<1>26. Once'
  <2>1. \A c, d \in SendersHere' : sender'[c].msg = sender'[d].msg => c = d
    BY <1>13 DEF StreamInv, Once
  <2>2. ASSUME NEW k \in DOMAIN conn'.send, NEW l \in DOMAIN conn'.send, conn'.send[k].msg = conn'.send[l].msg
        PROVE  k = l
    <3>1. b \in SendersHere => \A j \in DOMAIN conn.send : conn.send[j].msg # x
      BY <1>20 DEF StreamInv, Apart, QueueMsgs
    <3>2. QED
      BY <3>1, <2>2, <1>2, <1>17 DEF StreamInv, Once
  <2>3. wire' = wire /\ \A j : FrameMsgs(j)' = FrameMsgs(j)
    BY DEF SafeSend, FrameMsgs
  <2>4. QED
    BY <2>1, <2>2, <2>3, <1>5 DEF StreamInv, Once
<1>27. QED
  BY <1>7, <1>8, <1>11, <1>12, <1>14, <1>15, <1>23, <1>24, <1>25, <1>26 DEF StreamInv

\* The connection is closed, and what was sent to it has no place any more.
ConnectionGone ==
    /\ conn' = ConnClosed /\ wire' = <<>> /\ log' = log /\ HeldSet' \subseteq HeldSet
    /\ page'.phase \notin {"loading", "live"}
    /\ \/ sender' = [b \in Broadcasters |-> SenderIdle]
       \/ sender' = sender /\ connNo < connNo' /\ highSeqLocked' = highSeqLocked

\* A step after which no stream is open keeps it.
LEMMA StreamClosed ==
  ASSUME StreamInv, HubType', PageType', HeldType', NoDuplicates', ConnectionGone
  PROVE  StreamInv'
<1>1. connNo \in Nat /\ connNo' \in Nat /\ highSeqLocked' \in Nat
  <2>1. connNo \in Nat
    BY DEF StreamInv, PageType, connNo
  <2>2. connNo' \in Nat
    <3>1. \A p, q \in Nat : p + q \in Nat
      OBVIOUS
    <3>2. starts' \in Nat /\ breaks' \in Nat
      BY DEF PageType
    <3>3. QED
      BY <3>1, <3>2 DEF connNo
  <2>3. highSeqLocked' \in Nat
    BY DEF HubType, highSeqLocked
  <2>4. QED
    BY <2>1, <2>2, <2>3
<1>2. SenderType'
  <2>1. SenderIdle \in [busy : BOOLEAN, msg : Nat, seq : Nat, to : Nat]
    BY DEF SenderIdle
  <2>2. QED
    BY <2>1 DEF StreamInv, SenderType, ConnectionGone
<1>3. ConnType'
  <2>1. <<>> \in Seq(Items)
    OBVIOUS
  <2>2. QED
    BY <2>1 DEF ConnType, ConnClosed, ConnectionGone
<1>4. WireType'
  BY DEF WireType, ConnectionGone
<1>5. /\ ~conn'.open /\ conn'.send = <<>> /\ conn'.pending = <<>> /\ conn'.maxSeq = 0
      /\ conn' = ConnClosed /\ wire' = <<>> /\ page'.phase \notin {"loading", "live"} /\ log' = log
  BY DEF ConnClosed, ConnectionGone
<1>6. \A b \in Broadcasters : sender'[b].busy => sender'[b].to <= connNo' /\ sender'[b].to # connNo'
  <2>1. ASSUME NEW b \in Broadcasters, sender'[b].busy PROVE sender' = sender /\ connNo < connNo'
    BY <2>1 DEF SenderIdle, ConnectionGone
  <2>2. \A b \in Broadcasters : sender[b].busy => sender[b].to <= connNo /\ sender[b].to \in Nat
    BY DEF StreamInv, Connected, SenderType
  <2>3. \A y \in Nat : y <= connNo /\ connNo < connNo' => y <= connNo' /\ y # connNo'
    BY <1>1
  <2>4. QED
    BY <2>1, <2>2, <2>3
<1>7. SendersHere' = {}
  BY <1>6 DEF SendersHere
<1>8. Connected' /\ Framed'
  BY <1>5, <1>6, <1>7 DEF Connected, Framed
<1>9. SenderMsgs' = {} /\ QueueMsgs' = {} /\ PendingMsgs' = {} /\ LiveMsgs' = {}
  BY <1>5, <1>7 DEF SenderMsgs, QueueMsgs, PendingMsgs, LiveMsgs
<1>10. PastMsgs' \subseteq HeldSet
  BY <1>5 DEF PastMsgs, ConnectionGone
<1>11. InLog'
  <2>1. \A b \in Broadcasters : sender'[b].busy => sender'[b].msg \in 1..Len(log)
    BY DEF StreamInv, InLog, SenderIdle, ConnectionGone
  <2>2. QED
    BY <2>1, <1>5, <1>9, <1>10 DEF StreamInv, InLog, PastMsgs
<1>12. Apart'
  BY <1>9 DEF Apart
<1>13. Bounded'
  <2>1. \A b \in Broadcasters : sender'[b].seq <= highSeqLocked'
    BY <1>1 DEF StreamInv, Bounded, SenderIdle, ConnectionGone
  <2>2. QED
    BY <2>1, <1>1, <1>5 DEF Bounded
<1>14. Once'
  BY <1>5, <1>7 DEF Once
<1>15. QED
  BY <1>2, <1>3, <1>4, <1>8, <1>11, <1>12, <1>13, <1>14 DEF StreamInv

\* startLiveStream, the hidden tab and a broken connection all close the stream.
LEMMA StreamCloses ==
  ASSUME StreamInv,
         \/ \E f \in Filters : Submit(f) \/ RestartStream(f)
         \/ HiddenStreamClose \/ resumeSuspendedStream \/ Break
  PROVE  StreamInv'
<1>1. /\ log' = log /\ sender' = sender /\ conn' = ConnClosed /\ wire' = <<>>
      /\ UNCHANGED <<clock, baseSeq, epoch, history, dropped>>
  BY DEF Submit, RestartStream, HiddenStreamClose, resumeSuspendedStream, Break, startLiveStream, hubVars
<1>2. HubType' /\ highSeqLocked' = highSeqLocked
  BY <1>1 DEF StreamInv, HubType, highSeqLocked
<1>3. \/ starts' = starts + 1 /\ breaks' = breaks
      \/ starts' = starts /\ breaks' = breaks + 1
  BY DEF Submit, RestartStream, HiddenStreamClose, resumeSuspendedStream, Break, startLiveStream
<1>4. starts' \in Nat /\ breaks' \in Nat /\ connNo < connNo'
  BY <1>3 DEF StreamInv, PageType, connNo
<1>5. held' = held \/ held' = [m \in Msgs |-> 0]
  BY DEF Submit, RestartStream, HiddenStreamClose, resumeSuspendedStream, Break, startLiveStream
<1>6. HeldType' /\ NoDuplicates' /\ HeldSet' \subseteq HeldSet
  <2>1. CASE held' = held
    BY <2>1, <1>1 DEF StreamInv, HeldType, NoDuplicates, HeldSet
  <2>2. CASE held' = [m \in Msgs |-> 0]
    <3>1. \A m \in Msgs : held'[m] = 0
      BY <2>2
    <3>2. NoDuplicates' /\ HeldSet' = {}
      BY <3>1 DEF NoDuplicates, HeldSet
    <3>3. QED
      BY <2>2, <3>2, <1>1 DEF StreamInv, HeldType
  <2>3. QED
    BY <1>5, <2>1, <2>2
<1>7. NoId \in Ids /\ \A f \in Filters : f \subseteq Kinds
  BY StreamConstants DEF NoId, Ids
<1>8. PageType' /\ page'.phase \notin {"loading", "live"}
  <2>1. ASSUME NEW f \in SUBSET Kinds, NEW p \in BOOLEAN, startLiveStream(f, p)
        PROVE  PageType' /\ page'.phase \notin {"loading", "live"}
    <3> DEFINE canResume == /\ p /\ page.lastId # NoId
                            /\ page.streamedFilter # {} /\ HeldSet # {}
               last == IF canResume THEN page.lastId ELSE NoId
               u == [filter |-> f, since |-> last, prev |-> canResume,
                     prevFilter |-> page.streamedFilter, prevRadius |-> page.area]
    <3>1. /\ page \in [phase : Phases, lastId : Ids, esId : Ids, streamedFilter : SUBSET Kinds, area : Int,
                 url : [filter : SUBSET Kinds, since : Ids, prev : BOOLEAN,
                        prevFilter : SUBSET Kinds, prevRadius : Int]]
      BY DEF StreamInv, PageType
    <3>2. last \in Ids /\ canResume \in BOOLEAN
      BY <3>1, <1>7
    <3>3. page' = [page EXCEPT !.phase = "connecting", !.lastId = last, !.esId = NoId,
                               !.streamedFilter = f, !.url = u]
      BY <2>1 DEF startLiveStream
    <3> HIDE DEF last, canResume
    <3>4. u \in [filter : SUBSET Kinds, since : Ids, prev : BOOLEAN,
                        prevFilter : SUBSET Kinds, prevRadius : Int]
      BY <3>1, <3>2
    <3> HIDE DEF u
    <3>5. QED
      BY <3>1, <3>2, <3>3, <3>4, <1>4, <1>7 DEF PageType, Phases
  <2>2. CASE \E f \in Filters : Submit(f) \/ RestartStream(f)
    BY <2>1, <2>2, <1>7 DEF Submit, RestartStream
  <2>3. CASE resumeSuspendedStream
    BY <2>1, <2>3 DEF resumeSuspendedStream, StreamInv, PageType
  <2>4. CASE HiddenStreamClose
    BY <2>4, <1>4 DEF HiddenStreamClose, StreamInv, PageType, Phases
  <2>5. CASE Break
    BY <2>5, <1>4 DEF Break, Reconnects, StreamInv, PageType, Phases
  <2>6. QED
    BY <2>2, <2>3, <2>4, <2>5
<1>9. QED
  BY <1>1, <1>2, <1>4, <1>6, <1>8, StreamClosed DEF ConnectionGone

\* A restart of the server closes the stream and starts an epoch.
LEMMA StreamRestarts ==
  ASSUME StreamInv, NEW stored \in 0..Len(log), Restart(stored)
  PROVE  StreamInv'
<1> DEFINE S == {m \in 1..stored : log[m].t >= clock - Retention}
<1>1. PICK h \in SetToSeqs(S) : history' = h
  BY DEF Restart
<1>2. Len(log) \in Nat /\ S \subseteq 1..Len(log) /\ IsFiniteSet(S)
  <2>1. Len(log) \in Nat /\ S \subseteq 1..stored /\ 1..stored \subseteq 1..Len(log)
    BY DEF StreamInv, HubType
  <2>2. IsFiniteSet(1..stored)
    BY <2>1, FS_Interval
  <2>3. QED
    BY <2>1, <2>2, FS_Subset
<1> HIDE DEF S
<1>3. history' \in Seq(S)
  BY <1>1, <1>2, EnumOf
<1>4. history' \in Seq(1..Len(log))
  BY <1>2, <1>3, WiderSeq
<1>5. HubType'
  BY <1>4 DEF Restart, StreamInv, HubType
<1>6. PageType' /\ page'.phase \notin {"loading", "live"}
  BY DEF Restart, Reconnects, StreamInv, PageType, Phases
<1>7. HeldType' /\ NoDuplicates' /\ HeldSet' \subseteq HeldSet
  BY DEF Restart, StreamInv, HeldType, NoDuplicates, HeldSet
<1>8. QED
  BY <1>5, <1>6, <1>7, StreamClosed DEF Restart, ConnectionGone

\* What the page leaves on the wire when it takes a frame.
LEMMA WireTail ==
  ASSUME StreamInv, wire # <<>>, wire' = Tail(wire)
  PROVE  /\ WireType' /\ 1 \in DOMAIN wire /\ Head(wire) = wire[1] /\ wire[1] \in Frames
         /\ Len(wire) \in Nat \ {0} /\ DOMAIN wire = 1..Len(wire)
         /\ Len(wire') = Len(wire) - 1 /\ DOMAIN wire' = 1..(Len(wire) - 1)
         /\ \A j \in DOMAIN wire' : /\ j + 1 \in DOMAIN wire /\ wire'[j] = wire[j + 1]
                                    /\ FrameMsgs(j)' = FrameMsgs(j + 1)
<1>1. wire \in Seq(Frames)
  BY DEF StreamInv, WireType
<1>2. /\ Tail(wire) \in Seq(Frames) /\ Head(wire) = wire[1] /\ wire[1] \in Frames
      /\ Len(wire) \in Nat \ {0} /\ DOMAIN wire = 1..Len(wire)
      /\ Len(Tail(wire)) = Len(wire) - 1 /\ DOMAIN Tail(wire) = 1..(Len(wire) - 1)
      /\ \A k \in 1..(Len(wire) - 1) : k + 1 \in DOMAIN wire /\ Tail(wire)[k] = wire[k + 1]
  BY <1>1, TailOf
<1>3. \A j \in DOMAIN wire' : FrameMsgs(j)' = FrameMsgs(j + 1)
  BY <1>2 DEF FrameMsgs
<1>4. QED
  BY <1>2, <1>3 DEF WireType

\* The page reads the first frame of an open connection.
LEMMA StreamRead ==
  ASSUME StreamInv, wire # <<>>, wire' = Tail(wire), conn.open,
         UNCHANGED <<log, hubVars, clock, sender, conn, starts, breaks>>,
         PageType', HeldType', page'.phase \in {"loading", "live"}, Framed', NoDuplicates',
         HeldSet' \subseteq HeldSet \cup FrameMsgs(1),
         IsEarly(wire[1]) \/ IsLive(wire[1]) \/ HeldSet' = HeldSet
  PROVE  StreamInv'
<1>1. /\ WireType' /\ 1 \in DOMAIN wire /\ Len(wire) \in Nat \ {0} /\ DOMAIN wire = 1..Len(wire)
      /\ DOMAIN wire' = 1..(Len(wire) - 1)
      /\ \A j \in DOMAIN wire' : /\ j + 1 \in DOMAIN wire /\ wire'[j] = wire[j + 1]
                                 /\ FrameMsgs(j)' = FrameMsgs(j + 1)
  BY WireTail
<1>2. /\ HubType' /\ SenderType' /\ ConnType' /\ highSeqLocked' = highSeqLocked /\ connNo' = connNo
      /\ conn' = conn /\ sender' = sender /\ log' = log
  BY DEF StreamInv, HubType, SenderType, ConnType, highSeqLocked, hubVars, connNo
<1>3. SendersHere' = SendersHere
  BY <1>2 DEF SendersHere
<1>4. Connected'
  BY <1>2, <1>3 DEF StreamInv, Connected
<1>5. SenderMsgs' = SenderMsgs /\ QueueMsgs' = QueueMsgs /\ PendingMsgs' = PendingMsgs
  BY <1>2, <1>3 DEF SenderMsgs, QueueMsgs, PendingMsgs
<1>6. LiveMsgs' \subseteq LiveMsgs
  <2>1. ASSUME NEW j \in DOMAIN wire', IsLive(wire'[j]) PROVE FrameMsgs(j)' \subseteq LiveMsgs
    BY <2>1, <1>1 DEF LiveMsgs
  <2>2. QED
    BY <2>1 DEF LiveMsgs
<1>7. PastMsgs' \subseteq PastMsgs \cup HeldSet'
  <2>1. ASSUME NEW j \in DOMAIN wire', IsEarly(wire'[j]) PROVE FrameMsgs(j)' \subseteq PastMsgs
    BY <2>1, <1>1 DEF PastMsgs
  <2>2. QED
    BY <2>1 DEF PastMsgs
<1>8. HeldSet \subseteq PastMsgs /\ (IsEarly(wire[1]) => FrameMsgs(1) \subseteq PastMsgs)
  BY <1>1 DEF PastMsgs
<1>9. IsLive(wire[1]) => FrameMsgs(1) \subseteq LiveMsgs /\ FrameMsgs(1) \cap LiveMsgs' = {}
  <2>1. ASSUME IsLive(wire[1]) PROVE FrameMsgs(1) \subseteq LiveMsgs
    BY <1>1, <2>1 DEF LiveMsgs
  <2>2. ASSUME IsLive(wire[1]), NEW j \in DOMAIN wire', IsLive(wire'[j])
        PROVE  FrameMsgs(1) \cap FrameMsgs(j)' = {}
    <3>1. j + 1 \in DOMAIN wire /\ j + 1 # 1 /\ IsLive(wire[j + 1]) /\ FrameMsgs(j)' = FrameMsgs(j + 1)
      BY <1>1, <2>2
    <3>2. QED
      BY <1>1, <2>2, <3>1 DEF StreamInv, Once
  <2>3. QED
    BY <2>1, <2>2 DEF LiveMsgs
<1>10. PastMsgs' \subseteq PastMsgs \/ (/\ PastMsgs' \subseteq PastMsgs \cup FrameMsgs(1)
                                       /\ FrameMsgs(1) \subseteq LiveMsgs
                                       /\ FrameMsgs(1) \cap LiveMsgs' = {})
  BY <1>7, <1>8, <1>9
<1>11. InLog'
  <2>1. \A b \in Broadcasters : sender'[b].busy => sender'[b].msg \in 1..Len(log')
    BY <1>2 DEF StreamInv, InLog
  <2>2. LiveMsgs' \cup PastMsgs' \subseteq LiveMsgs \cup PastMsgs
    BY <1>6, <1>10
  <2>3. QED
    BY <2>1, <2>2, <1>2, <1>5 DEF StreamInv, InLog
<1>12. Apart'
  BY <1>5, <1>6, <1>10 DEF StreamInv, Apart
<1>13. Bounded'
  BY <1>2 DEF StreamInv, Bounded
<1>14. Once'
  <2>1. \A c, d \in SendersHere' : sender'[c].msg = sender'[d].msg => c = d
    BY <1>2, <1>3 DEF StreamInv, Once
  <2>2. ASSUME NEW j \in DOMAIN wire', IsLive(wire'[j])
        PROVE  \A k, l \in DOMAIN wire'[j].spots : wire'[j].spots[k] = wire'[j].spots[l] => k = l
    BY <1>1, <2>2 DEF StreamInv, Once
  <2>3. ASSUME NEW i \in DOMAIN wire', NEW j \in DOMAIN wire', IsLive(wire'[i]), IsLive(wire'[j]), i # j
        PROVE  FrameMsgs(i)' \cap FrameMsgs(j)' = {}
    <3>1. /\ i + 1 \in DOMAIN wire /\ j + 1 \in DOMAIN wire /\ IsLive(wire[i + 1]) /\ IsLive(wire[j + 1])
          /\ FrameMsgs(i)' = FrameMsgs(i + 1) /\ FrameMsgs(j)' = FrameMsgs(j + 1)
      BY <1>1, <2>3
    <3>2. i + 1 # j + 1
      BY <1>1, <2>3
    <3>3. QED
      BY <3>1, <3>2 DEF StreamInv, Once
  <2>4. QED
    BY <1>2, <2>1, <2>2, <2>3 DEF StreamInv, Once
<1>15. QED
  BY <1>1, <1>2, <1>4, <1>11, <1>12, <1>13, <1>14 DEF StreamInv

\* An open connection's first frame, and where history_end is.
LEMMA FirstFrame ==
  ASSUME StreamInv, wire # <<>>, wire' = Tail(wire), Head(wire).type # "server_error"
  PROVE  /\ conn.open /\ page.phase \in {"loading", "live"}
         /\ \E e \in 0..Len(wire) :
              /\ (e = 0) <=> (page.phase = "live")
              /\ e = 0 => IsLive(wire[1]) /\ \A j \in DOMAIN wire' : IsLive(wire'[j])
              /\ e = 1 => wire[1].type = "history_end" /\ \A j \in DOMAIN wire' : IsLive(wire'[j])
              /\ e > 1 => /\ IsEarly(wire[1]) /\ e - 1 \in 1..Len(wire') /\ wire'[e - 1].type = "history_end"
                          /\ \A j \in DOMAIN wire' : j < e - 1 => IsEarly(wire'[j])
                          /\ \A j \in DOMAIN wire' : j > e - 1 => IsLive(wire'[j])
<1>1. /\ 1 \in DOMAIN wire /\ Head(wire) = wire[1] /\ Len(wire) \in Nat \ {0} /\ DOMAIN wire = 1..Len(wire)
      /\ Len(wire') = Len(wire) - 1 /\ DOMAIN wire' = 1..(Len(wire) - 1)
      /\ \A j \in DOMAIN wire' : j + 1 \in DOMAIN wire /\ wire'[j] = wire[j + 1]
  BY WireTail
<1>2. conn.open /\ page.phase \in {"loading", "live"}
  <2>1. ErrorFrame.type = "server_error" /\ <<ErrorFrame>>[1] = ErrorFrame
    BY DEF ErrorFrame
  <2>2. conn.open
    BY <1>1, <2>1 DEF StreamInv, Connected
  <2>3. QED
    BY <2>2 DEF StreamInv, Connected
<1>3. PICK e \in 0..Len(wire) :
            /\ (e = 0) <=> (page.phase = "live")
            /\ e > 0 => wire[e].type = "history_end"
            /\ \A j \in DOMAIN wire : j < e => IsEarly(wire[j])
            /\ \A j \in DOMAIN wire : j > e => IsLive(wire[j])
  BY <1>2 DEF StreamInv, Framed
<1>4. e = 0 => IsLive(wire[1]) /\ \A j \in DOMAIN wire' : IsLive(wire'[j])
  <2>1. \A j \in 1..Len(wire) : e = 0 => j > e
    BY <1>1
  <2>2. QED
    BY <1>1, <1>3, <2>1
<1>5. e = 1 => wire[1].type = "history_end" /\ \A j \in DOMAIN wire' : IsLive(wire'[j])
  <2>1. \A j \in 1..(Len(wire) - 1) : e = 1 => j + 1 > e
    BY <1>1
  <2>2. QED
    BY <1>1, <1>3, <2>1
<1>6. ASSUME e > 1
      PROVE  /\ IsEarly(wire[1]) /\ e - 1 \in 1..Len(wire') /\ wire'[e - 1].type = "history_end"
             /\ \A j \in DOMAIN wire' : j < e - 1 => IsEarly(wire'[j])
             /\ \A j \in DOMAIN wire' : j > e - 1 => IsLive(wire'[j])
  <2>1. e - 1 \in 1..(Len(wire) - 1) /\ (e - 1) + 1 = e
    BY <1>1, <1>6
  <2>2. \A j \in 1..(Len(wire) - 1) : (j < e - 1 => j + 1 < e) /\ (j > e - 1 => j + 1 > e)
    BY <1>1
  <2>3. QED
    BY <1>1, <1>3, <1>6, <2>1, <2>2
<1>7. QED
  BY <1>2, <1>3, <1>4, <1>5, <1>6

\* The area frame changes only the area.
LEMMA StreamReceiveArea == StreamInv /\ ReceiveArea => StreamInv'
<1> SUFFICES ASSUME StreamInv, ReceiveArea PROVE StreamInv'
  OBVIOUS
<1>1. /\ wire # <<>> /\ wire' = Tail(wire) /\ Head(wire).type = "area"
      /\ page' = [page EXCEPT !.area = Head(wire).radius]
  BY DEF ReceiveArea
<1>2. /\ Head(wire) = wire[1] /\ wire[1] \in Frames
  BY <1>1, WireTail
<1>3. PageType' /\ page'.phase = page.phase
  BY <1>1, <1>2 DEF StreamInv, PageType, Frames, ReceiveArea
<1>4. /\ conn.open /\ page.phase \in {"loading", "live"}
  BY <1>1, FirstFrame
<1>5. PICK e \in 0..Len(wire) :
              /\ (e = 0) <=> (page.phase = "live")
              /\ e = 0 => IsLive(wire[1]) /\ \A j \in DOMAIN wire' : IsLive(wire'[j])
              /\ e = 1 => wire[1].type = "history_end" /\ \A j \in DOMAIN wire' : IsLive(wire'[j])
              /\ e > 1 => /\ IsEarly(wire[1]) /\ e - 1 \in 1..Len(wire') /\ wire'[e - 1].type = "history_end"
                          /\ \A j \in DOMAIN wire' : j < e - 1 => IsEarly(wire'[j])
                          /\ \A j \in DOMAIN wire' : j > e - 1 => IsLive(wire'[j])
  BY <1>1, FirstFrame
<1>6. e # 0 /\ e # 1 /\ page.phase = "loading"
  BY <1>1, <1>2, <1>4, <1>5 DEF IsLive
<1>7. Len(wire) \in Nat
  BY <1>1, WireTail
<1>8. e > 1 /\ e - 1 > 0 /\ e - 1 # 0
  BY <1>6, <1>7
<1>9. e - 1 \in 0..Len(wire')
  BY <1>5, <1>8
<1>10. Framed'
  BY <1>3, <1>5, <1>6, <1>8, <1>9 DEF Framed
<1>11. HeldType' /\ NoDuplicates' /\ HeldSet' = HeldSet
  BY DEF ReceiveArea, StreamInv, HeldType, NoDuplicates, HeldSet
<1>12. QED
  BY <1>1, <1>3, <1>4, <1>10, <1>11, StreamRead DEF ReceiveArea

\* history_end makes the page live; what follows on the wire is live.
LEMMA StreamReceiveHistoryEnd == StreamInv /\ ReceiveHistoryEnd => StreamInv'
<1> SUFFICES ASSUME StreamInv, ReceiveHistoryEnd PROVE StreamInv'
  OBVIOUS
<1>1. /\ wire # <<>> /\ wire' = Tail(wire) /\ Head(wire).type = "history_end"
      /\ page' = [page EXCEPT !.phase = "live", !.lastId = Head(wire).id, !.esId = Head(wire).id]
  BY DEF ReceiveHistoryEnd
<1>2. /\ Head(wire) = wire[1] /\ wire[1] \in Frames
  BY <1>1, WireTail
<1>3. PageType' /\ page'.phase = "live"
  <2>1. Head(wire).id \in Ids
    BY <1>2 DEF Frames
  <2>2. /\ page \in [phase : Phases, lastId : Ids, esId : Ids, streamedFilter : SUBSET Kinds, area : Int,
                    url : [filter : SUBSET Kinds, since : Ids, prev : BOOLEAN,
                           prevFilter : SUBSET Kinds, prevRadius : Int]]
        /\ starts' = starts /\ breaks' = breaks /\ starts \in Nat /\ breaks \in Nat
    BY DEF StreamInv, PageType, ReceiveHistoryEnd
  <2>3. page'.phase = "live"
    BY <1>1, <2>2
  <2>4. page' \in [phase : Phases, lastId : Ids, esId : Ids, streamedFilter : SUBSET Kinds, area : Int,
                   url : [filter : SUBSET Kinds, since : Ids, prev : BOOLEAN,
                          prevFilter : SUBSET Kinds, prevRadius : Int]]
    BY <1>1, <2>1, <2>2 DEF Phases
  <2>5. QED
    BY <2>2, <2>3, <2>4 DEF PageType
<1>4. /\ conn.open /\ page.phase \in {"loading", "live"}
  BY <1>1, FirstFrame
<1>5. PICK e \in 0..Len(wire) :
              /\ e = 0 => IsLive(wire[1])
              /\ e = 1 => \A j \in DOMAIN wire' : IsLive(wire'[j])
              /\ e > 1 => IsEarly(wire[1])
  BY <1>1, FirstFrame
<1>6. e # 0 /\ ~(e > 1)
  BY <1>1, <1>2, <1>4, <1>5 DEF IsLive, IsEarly
<1>7. e = 1 /\ Len(wire') \in Nat /\ DOMAIN wire' = 1..Len(wire')
  BY <1>6, <1>1, WireTail
<1>8. 0 \in 0..Len(wire') /\ \A j \in DOMAIN wire' : ~(j < 0)
  BY <1>7
<1>9. Framed'
  BY <1>3, <1>5, <1>7, <1>8 DEF Framed
<1>10. HeldType' /\ NoDuplicates' /\ HeldSet' = HeldSet
  BY DEF ReceiveHistoryEnd, StreamInv, HeldType, NoDuplicates, HeldSet
<1>11. QED
  BY <1>1, <1>3, <1>4, <1>9, <1>10, StreamRead DEF ReceiveHistoryEnd

\* The page counts each spot of a frame it reads.
LEMMA Counted ==
  ASSUME StreamInv, NEW ms \in Seq(Nat), ingestSpots(ms),
         page.phase = "live" =>
            /\ \A k, l \in DOMAIN ms : ms[k] = ms[l] => k = l
            /\ \A k \in DOMAIN ms : ms[k] \notin HeldSet
  PROVE  /\ held' \in [Msgs -> Nat] /\ NoDuplicates'
         /\ HeldSet' \subseteq HeldSet \cup {ms[k] : k \in DOMAIN ms}
         /\ HeldSet \subseteq HeldSet'
         /\ \A k \in DOMAIN ms : ms[k] \in Msgs => ms[k] \in HeldSet'
<1> DEFINE T(m) == {j \in DOMAIN ms : ms[j] = m}
           F == {ms[k] : k \in DOMAIN ms}
<1>1. /\ held \in [Msgs -> Nat] /\ \A m \in Msgs : held[m] \in {0, 1}
  <2>1. \A n \in Nat : n <= 1 => n \in {0, 1}
    OBVIOUS
  <2>2. QED
    BY <2>1 DEF StreamInv, HeldType, NoDuplicates
<1>2. CASE page.phase = "live"
  <2>1. held' = [m \in Msgs |-> held[m] + Cardinality(T(m))]
    BY <1>2 DEF ingestSpots
  <2>2. ASSUME NEW m \in F PROVE Cardinality(T(m)) = 1
    <3>1. PICK k \in DOMAIN ms : m = ms[k]
      OBVIOUS
    <3>2. T(m) = {k}
      BY <1>2, <3>1
    <3>3. QED
      BY <3>2, FS_Singleton
  <2>3. ASSUME NEW m, m \notin F PROVE Cardinality(T(m)) = 0
    <3>1. T(m) = {}
      BY <2>3
    <3>2. QED
      BY <3>1, FS_EmptySet
  <2> HIDE DEF T
  <2>4. \A m \in Msgs : m \in F => held[m] = 0
    BY <1>1, <1>2 DEF HeldSet
  <2>5. ASSUME NEW m \in Msgs
        PROVE  held'[m] = IF m \in F THEN 1 ELSE held[m]
    <3>1. CASE m \in F
      BY <2>1, <2>2, <2>4, <3>1
    <3>2. CASE m \notin F
      BY <1>1, <2>1, <2>3, <3>2
    <3>3. QED
      BY <3>1, <3>2
  <2>6. held' \in [Msgs -> Nat]
    BY <1>1, <2>1, <2>5
  <2> HIDE DEF F
  <2>7. NoDuplicates'
    BY <1>1, <2>5 DEF NoDuplicates
  <2>8. HeldSet' \subseteq HeldSet \cup F /\ HeldSet \subseteq HeldSet'
    BY <1>1, <2>5 DEF HeldSet
  <2>9. \A m \in F : m \in Msgs => m \in HeldSet'
    BY <2>5 DEF HeldSet
  <2>10. QED
    BY <2>6, <2>7, <2>8, <2>9 DEF F
<1>3. CASE page.phase # "live"
  <2>1. Range(ms) = F
    BY DEF Range
  <2>2. held' = [m \in Msgs |-> IF m \in F /\ held[m] = 0 THEN 1 ELSE held[m]]
    BY <1>3, <2>1 DEF ingestSpots
  <2> HIDE DEF F
  <2>3. \A m \in Msgs : held'[m] = IF m \in F THEN 1 ELSE held[m]
    BY <1>1, <2>2
  <2>4. held' \in [Msgs -> Nat]
    BY <1>1, <2>2
  <2>5. NoDuplicates' /\ HeldSet' \subseteq HeldSet \cup F /\ HeldSet \subseteq HeldSet'
    BY <1>1, <2>3 DEF NoDuplicates, HeldSet
  <2>6. \A m \in F : m \in Msgs => m \in HeldSet'
    BY <2>3 DEF HeldSet
  <2>7. QED
    BY <2>4, <2>5, <2>6 DEF F
<1>4. QED
  BY <1>2, <1>3

\* A spots frame: in the dump the page has the keys of what it holds, live each message is new to it.
LEMMA StreamReceiveSpots == StreamInv /\ ReceiveSpots => StreamInv'
<1> SUFFICES ASSUME StreamInv, ReceiveSpots PROVE StreamInv'
  OBVIOUS
<1>1. /\ wire # <<>> /\ wire' = Tail(wire) /\ Head(wire).type = "spots" /\ ingestSpots(Head(wire).spots)
      /\ page' = IF Head(wire).id = NoId THEN page
                 ELSE [page EXCEPT !.lastId = Head(wire).id, !.esId = Head(wire).id]
      /\ UNCHANGED <<clock, log, hubVars, sender, conn, dropped, starts, breaks>>
  BY DEF ReceiveSpots
<1>2. /\ Head(wire) = wire[1] /\ wire[1] \in Frames /\ 1 \in DOMAIN wire
      /\ wire[1].spots \in Seq(Nat) /\ wire[1].id \in Ids
  BY <1>1, WireTail DEF Frames
<1>3. PageType' /\ page'.phase = page.phase
  BY <1>1, <1>2 DEF StreamInv, PageType, Frames
<1>4. /\ conn.open /\ page.phase \in {"loading", "live"}
  BY <1>1, FirstFrame
<1>5. PICK e \in 0..Len(wire) :
              /\ (e = 0) <=> (page.phase = "live")
              /\ e = 0 => IsLive(wire[1]) /\ \A j \in DOMAIN wire' : IsLive(wire'[j])
              /\ e = 1 => wire[1].type = "history_end" /\ \A j \in DOMAIN wire' : IsLive(wire'[j])
              /\ e > 1 => /\ IsEarly(wire[1]) /\ e - 1 \in 1..Len(wire') /\ wire'[e - 1].type = "history_end"
                          /\ \A j \in DOMAIN wire' : j < e - 1 => IsEarly(wire'[j])
                          /\ \A j \in DOMAIN wire' : j > e - 1 => IsLive(wire'[j])
  BY <1>1, FirstFrame
<1>6. e # 1
  BY <1>1, <1>2, <1>5
<1>7. Len(wire) \in Nat \ {0} /\ Len(wire') \in Nat /\ DOMAIN wire' = 1..Len(wire')
  BY <1>1, WireTail
<1>8. Framed'
  <2>1. CASE e = 0
    <3>1. 0 \in 0..Len(wire') /\ \A j \in DOMAIN wire' : ~(j < 0)
      BY <1>7
    <3>2. QED
      BY <1>3, <1>5, <2>1, <3>1 DEF Framed
  <2>2. CASE e # 0
    <3>1. e > 1 /\ e - 1 > 0 /\ e - 1 # 0 /\ page.phase # "live"
      BY <1>5, <1>6, <1>7, <2>2
    <3>2. e - 1 \in 0..Len(wire')
      BY <1>5, <3>1
    <3>3. QED
      BY <1>3, <1>5, <3>1, <3>2 DEF Framed
  <2>3. QED
    BY <2>1, <2>2
<1>9. page.phase = "live" => IsLive(wire[1])
  BY <1>5
<1>10. page.phase # "live" => IsEarly(wire[1])
  BY <1>5, <1>6, <1>7
<1>11. page.phase = "live" =>
            /\ \A k, l \in DOMAIN wire[1].spots : wire[1].spots[k] = wire[1].spots[l] => k = l
            /\ \A k \in DOMAIN wire[1].spots : wire[1].spots[k] \notin HeldSet
  <2>1. ASSUME IsLive(wire[1]) PROVE FrameMsgs(1) \subseteq LiveMsgs
    BY <2>1, <1>2 DEF LiveMsgs
  <2>2. \A k \in DOMAIN wire[1].spots : wire[1].spots[k] \in FrameMsgs(1)
    BY DEF FrameMsgs
  <2>3. HeldSet \subseteq PastMsgs
    BY DEF PastMsgs
  <2>4. QED
    BY <1>2, <1>9, <2>1, <2>2, <2>3 DEF StreamInv, Once, Apart
<1>12. /\ held' \in [Msgs -> Nat] /\ NoDuplicates'
       /\ HeldSet' \subseteq HeldSet \cup FrameMsgs(1)
  BY <1>1, <1>2, <1>11, Counted DEF FrameMsgs
<1>13. HeldType'
  BY <1>1, <1>12 DEF StreamInv, HeldType
<1>14. QED
  BY <1>1, <1>3, <1>4, <1>8, <1>9, <1>10, <1>12, <1>13, StreamRead

\* server_error ends the stream for good.
LEMMA StreamReceiveServerError == StreamInv /\ ReceiveServerError => StreamInv'
<1> SUFFICES ASSUME StreamInv, ReceiveServerError PROVE StreamInv'
  OBVIOUS
<1>1. /\ wire # <<>> /\ wire' = <<>> /\ Head(wire).type = "server_error"
      /\ page' = [page EXCEPT !.phase = "off", !.streamedFilter = {}]
      /\ UNCHANGED <<clock, log, hubVars, sender, conn, held, dropped, starts, breaks>>
  BY DEF ReceiveServerError
<1>2. wire \in Seq(Frames) /\ Head(wire) = wire[1] /\ 1 \in DOMAIN wire /\ DOMAIN wire = 1..Len(wire)
      /\ Len(wire) \in Nat
  BY <1>1, TailOf DEF StreamInv, WireType
<1>3. ~conn.open
  <2>1. SUFFICES ASSUME conn.open PROVE FALSE
    OBVIOUS
  <2>2. PICK e \in 0..Len(wire) :
            /\ e > 0 => wire[e].type = "history_end"
            /\ \A j \in DOMAIN wire : j < e => IsEarly(wire[j])
            /\ \A j \in DOMAIN wire : j > e => IsLive(wire[j])
    BY <2>1 DEF StreamInv, Framed
  <2>3. ~IsEarly(wire[1]) /\ ~IsLive(wire[1]) /\ wire[1].type # "history_end"
    BY <1>1, <1>2 DEF IsEarly, IsLive
  <2>4. ~(1 < e) /\ ~(1 > e) /\ e # 1
    BY <1>2, <2>2, <2>3
  <2>5. QED
    BY <1>2, <2>4
<1>4. conn' = ConnClosed /\ conn = ConnClosed /\ SendersHere = {} /\ SendersHere' = {}
  BY <1>1, <1>3 DEF StreamInv, Connected, SendersHere, connNo
<1>5. HubType' /\ SenderType' /\ ConnType' /\ HeldType' /\ NoDuplicates' /\ HeldSet' = HeldSet
  BY <1>1 DEF StreamInv, HubType, SenderType, ConnType, HeldType, NoDuplicates, hubVars, HeldSet
<1>6. PageType' /\ WireType'
  <2>1. <<>> \in Seq(Frames)
    OBVIOUS
  <2>2. PageType'
    BY <1>1 DEF StreamInv, PageType, Phases
  <2>3. QED
    BY <1>1, <2>1, <2>2 DEF WireType
<1>7. connNo' = connNo /\ highSeqLocked' = highSeqLocked
  BY <1>1 DEF connNo, highSeqLocked, hubVars
<1>8. page'.phase = "off"
  BY <1>1 DEF StreamInv, PageType
<1>9. Connected' /\ Framed'
  BY <1>1, <1>3, <1>4, <1>7, <1>8 DEF StreamInv, Connected, Framed
<1>10. SenderMsgs' = {} /\ QueueMsgs' = QueueMsgs /\ PendingMsgs' = PendingMsgs /\ LiveMsgs' = {} /\ PastMsgs' = HeldSet
  BY <1>1, <1>4, <1>5 DEF SenderMsgs, QueueMsgs, PendingMsgs, LiveMsgs, PastMsgs
<1>11. HeldSet \subseteq PastMsgs
  BY DEF PastMsgs
<1>12. InLog' /\ Apart'
  BY <1>1, <1>10, <1>11 DEF StreamInv, InLog, Apart
<1>13. Bounded'
  BY <1>1, <1>7 DEF StreamInv, Bounded
<1>14. Once'
  BY <1>1, <1>4 DEF StreamInv, Once
<1>15. QED
  BY <1>5, <1>6, <1>9, <1>12, <1>13, <1>14 DEF StreamInv

\* A server at its client limit answers with the error frame alone.
LEMMA StreamAtCapacity == StreamInv /\ AtCapacity => StreamInv'
<1> SUFFICES ASSUME StreamInv, AtCapacity PROVE StreamInv'
  OBVIOUS
<1>1. /\ page.phase = "connecting" /\ wire' = <<ErrorFrame>> /\ page' = [page EXCEPT !.phase = "loading"]
      /\ UNCHANGED <<clock, log, hubVars, sender, conn, held, dropped, starts, breaks>>
  BY DEF AtCapacity
<1>2. ~conn.open
  BY <1>1 DEF StreamInv, Connected
<1>3. conn' = ConnClosed /\ conn = ConnClosed /\ SendersHere = {} /\ SendersHere' = {}
  BY <1>1, <1>2 DEF StreamInv, Connected, SendersHere, connNo
<1>4. HubType' /\ SenderType' /\ ConnType' /\ HeldType' /\ NoDuplicates' /\ HeldSet' = HeldSet
  BY <1>1 DEF StreamInv, HubType, SenderType, ConnType, HeldType, NoDuplicates, hubVars, HeldSet
<1>5. PageType' /\ page'.phase = "loading"
  BY <1>1 DEF StreamInv, PageType, Phases
<1>6. ErrorFrame \in Frames /\ ~IsLive(ErrorFrame) /\ ~IsEarly(ErrorFrame)
  <2>1. <<>> \in Seq(Nat)
    OBVIOUS
  <2>2. QED
    BY <2>1 DEF ErrorFrame, Frames, IsLive, IsEarly, Ids, NoId
<1>7. wire' \in Seq(Frames) /\ DOMAIN wire' = {1} /\ wire'[1] = ErrorFrame
  BY <1>1, <1>6
<1>8. WireType'
  BY <1>7 DEF WireType
<1>9. connNo' = connNo /\ highSeqLocked' = highSeqLocked
  BY <1>1 DEF connNo, highSeqLocked, hubVars
<1>10. ErrorFrame' = ErrorFrame
  BY DEF ErrorFrame
<1>11. Connected' /\ Framed'
  BY <1>1, <1>2, <1>3, <1>5, <1>9, <1>10 DEF StreamInv, Connected, Framed
<1>12. SenderMsgs' = {} /\ QueueMsgs' = QueueMsgs /\ PendingMsgs' = PendingMsgs /\ LiveMsgs' = {} /\ PastMsgs' = HeldSet
  BY <1>1, <1>3, <1>4, <1>6, <1>7 DEF SenderMsgs, QueueMsgs, PendingMsgs, LiveMsgs, PastMsgs
<1>13. HeldSet \subseteq PastMsgs
  BY DEF PastMsgs
<1>14. InLog' /\ Apart'
  BY <1>1, <1>12, <1>13 DEF StreamInv, InLog, Apart
<1>15. Bounded'
  BY <1>1, <1>9 DEF StreamInv, Bounded
<1>16. Once'
  BY <1>1, <1>3, <1>6, <1>7 DEF StreamInv, Once
<1>17. QED
  BY <1>4, <1>5, <1>8, <1>11, <1>14, <1>15, <1>16 DEF StreamInv

\* The greatest sequence number of a frame is one of the hub's.
LEMMA TopOf ==
  ASSUME StreamInv, NEW sp \in Seq(Items), \A k \in DOMAIN sp : sp[k].seq <= highSeqLocked
  PROVE  LET top == MaxSeqOf(sp, conn.maxSeq) IN
         /\ top \in Nat /\ top <= highSeqLocked /\ conn.maxSeq <= top
         /\ top \in {conn.maxSeq} \cup {sp[k].seq : k \in DOMAIN sp}
<1> DEFINE S == {conn.maxSeq} \cup {s.seq : s \in Range(sp)}
           H == highSeqLocked
<1>1. H \in Nat /\ conn.maxSeq \in 0..H
  <2>1. H \in Nat
    BY DEF StreamInv, HubType, highSeqLocked
  <2>2. conn.maxSeq \in Nat /\ conn.maxSeq <= H
    BY DEF StreamInv, ConnType, Bounded
  <2>3. QED
    BY <2>1, <2>2
<1>2. ASSUME NEW s \in Range(sp) PROVE \E k \in DOMAIN sp : s = sp[k] /\ s.seq \in 0..H
  <2>1. PICK k \in DOMAIN sp : s = sp[k]
    BY DEF Range
  <2>2. s \in Items /\ s.seq <= H
    BY <2>1, ElementOfSeq
  <2>3. QED
    BY <2>1, <2>2, <1>1 DEF Items
<1> HIDE DEF H
<1>3. S \subseteq 0..H /\ S # {} /\ S \subseteq {conn.maxSeq} \cup {sp[k].seq : k \in DOMAIN sp}
  BY <1>1, <1>2
<1>4. Max(S) \in S /\ \A x \in S : x <= Max(S)
  BY <1>1, <1>3, MaxOf
<1>5. MaxSeqOf(sp, conn.maxSeq) = Max(S)
  BY DEF MaxSeqOf
<1> HIDE DEF S
<1>6. Max(S) \in 0..H /\ conn.maxSeq <= Max(S)
  BY <1>3, <1>4 DEF S
<1>7. QED
  BY <1>1, <1>3, <1>4, <1>5, <1>6 DEF H

\* The loop: q is what stays in the channel, sp what was pending or joined it;
\* sp is kept or flushed.
LoopKeeps(q, sp) == conn' = [conn EXCEPT !.send = q, !.pending = sp] /\ wire' = wire

\* What a step of the loop writes: nothing, or one more frame with the next id.
LEMMA LoopWrites ==
  ASSUME StreamInv, conn.open, NEW q \in Seq(Items), NEW sp \in Seq(Items),
         \A k \in DOMAIN sp : sp[k].seq <= highSeqLocked,
         LoopKeeps(q, sp) \/ flushPending(q, sp)
  PROVE  LET top == MaxSeqOf(sp, conn.maxSeq)
         IN  /\ ConnType' /\ conn'.open /\ conn'.send = q
             /\ conn'.filter = conn.filter /\ conn'.radius = conn.radius /\ conn'.cutoff = conn.cutoff
             /\ wire' \in Seq(Frames) /\ Len(wire') \in Nat /\ DOMAIN wire' = 1..Len(wire')
             /\ Len(wire) \in Nat /\ DOMAIN wire = 1..Len(wire) /\ Len(wire) <= Len(wire')
             /\ \A j \in DOMAIN wire :
                   j \in DOMAIN wire' /\ wire'[j] = wire[j] /\ FrameMsgs(j)' = FrameMsgs(j)
             /\ \A j \in DOMAIN wire' : j \notin DOMAIN wire =>
                   /\ j = Len(wire) + 1 /\ IsLive(wire'[j]) /\ wire'[j].spots = MsgsOf(sp)
                   /\ wire'[j].id = [epoch |-> epoch, seq |-> top]
                   /\ FrameMsgs(j)' = {sp[k].msg : k \in DOMAIN sp}
             /\ \/ wire' = wire /\ conn'.pending = sp /\ conn'.maxSeq = conn.maxSeq
                \/ /\ Len(wire) + 1 \in DOMAIN wire' /\ Len(wire) + 1 \notin DOMAIN wire
                   /\ conn'.pending = <<>> /\ conn'.maxSeq = top
<1> DEFINE top == MaxSeqOf(sp, conn.maxSeq)
           frame == LiveFrame(MsgsOf(sp), top)
           SM == {sp[k].msg : k \in DOMAIN sp}
<1>1. /\ conn \in [open : BOOLEAN, filter : SUBSET Kinds, radius : Int, cutoff : Int,
              send : Seq(Items), pending : Seq(Items), maxSeq : Nat]
      /\ wire \in Seq(Frames) /\ Len(wire) \in Nat /\ DOMAIN wire = 1..Len(wire)
  BY DEF StreamInv, ConnType, WireType
<1>2. top \in Nat
  BY TopOf
<1>5. DOMAIN MsgsOf(sp) = DOMAIN sp /\ \A k \in DOMAIN sp : MsgsOf(sp)[k] = sp[k].msg
  BY DEF MsgsOf
<1>6. MsgsOf(sp) \in Seq(Nat)
  <2>1. \A k \in DOMAIN sp : sp[k] \in Items
    BY ElementOfSeq
  <2>2. \A k \in DOMAIN sp : sp[k].msg \in Nat
    BY <2>1 DEF Items
  <2>3. DOMAIN sp = 1..Len(sp) /\ Len(sp) \in Nat
    OBVIOUS
  <2>4. QED
    BY <2>2, <2>3 DEF MsgsOf
<1>7. frame \in Frames /\ IsLive(frame) /\ frame.spots = MsgsOf(sp) /\ frame.id = [epoch |-> epoch, seq |-> top]
  <2>1. [epoch |-> epoch, seq |-> top] \in Ids /\ [epoch |-> epoch, seq |-> top] # NoId
    <3>1. epoch \in Nat /\ epoch # 0
      BY DEF StreamInv, HubType
    <3> HIDE DEF top
    <3>2. QED
      BY <1>2, <3>1 DEF Ids, NoId
  <2> HIDE DEF top
  <2>2. QED
    BY <1>6, <2>1 DEF LiveFrame, Frames, IsLive
<1> HIDE DEF frame
<1>8. \/ LoopKeeps(q, sp)
      \/ wire' = Append(wire, frame) /\ conn' = [conn EXCEPT !.send = q, !.pending = <<>>, !.maxSeq = top]
  BY DEF flushPending, frame
<1> HIDE DEF top
<1>9. /\ ConnType' /\ conn'.open /\ conn'.send = q
      /\ conn'.filter = conn.filter /\ conn'.radius = conn.radius /\ conn'.cutoff = conn.cutoff
  <2>1. <<>> \in Seq(Items)
    OBVIOUS
  <2>2. QED
    BY <1>1, <1>2, <1>8, <2>1 DEF ConnType, LoopKeeps
<1>10. /\ wire' \in Seq(Frames) /\ Len(wire') \in Nat /\ DOMAIN wire' = 1..Len(wire') /\ Len(wire) <= Len(wire')
       /\ \A j \in DOMAIN wire' :
             \/ j \in DOMAIN wire /\ wire'[j] = wire[j]
             \/ j = Len(wire) + 1 /\ wire'[j] = frame
       /\ \A j \in DOMAIN wire : j \in DOMAIN wire' /\ wire'[j] = wire[j]
       /\ \/ wire' = wire /\ conn'.pending = sp /\ conn'.maxSeq = conn.maxSeq
          \/ /\ Len(wire) + 1 \in DOMAIN wire' /\ Len(wire) + 1 \notin DOMAIN wire
             /\ conn'.pending = <<>> /\ conn'.maxSeq = top
  <2>1. CASE LoopKeeps(q, sp)
    <3>1. wire' = wire /\ conn'.pending = sp /\ conn'.maxSeq = conn.maxSeq
      BY <1>1, <2>1 DEF LoopKeeps
    <3>2. QED
      BY <1>1, <3>1
  <2>2. CASE wire' = Append(wire, frame) /\ conn' = [conn EXCEPT !.send = q, !.pending = <<>>, !.maxSeq = top]
    <3>1. conn'.pending = <<>> /\ conn'.maxSeq = top
      BY <1>1, <2>2
    <3>2. Len(wire) + 1 \notin 1..Len(wire) /\ Len(wire) + 1 \in 1..(Len(wire) + 1) /\ Len(wire) <= Len(wire) + 1
      BY <1>1
    <3>3. /\ wire' \in Seq(Frames) /\ Len(wire') = Len(wire) + 1 /\ DOMAIN wire' = 1..(Len(wire) + 1)
          /\ \A k \in 1..Len(wire) : wire'[k] = wire[k]
          /\ wire'[Len(wire) + 1] = frame
          /\ \A k \in DOMAIN wire' : k \in DOMAIN wire \/ k = Len(wire) + 1
      BY <1>1, <1>7, <2>2, AppendOf
    <3>4. QED
      BY <1>1, <3>1, <3>2, <3>3
  <2>3. QED
    BY <1>8, <2>1, <2>2
<1>11. /\ \A j \in DOMAIN wire : FrameMsgs(j)' = FrameMsgs(j)
       /\ \A j \in DOMAIN wire' : j \notin DOMAIN wire => FrameMsgs(j)' = SM
  <2>1. \A j \in DOMAIN wire : FrameMsgs(j)' = FrameMsgs(j)
    BY <1>10 DEF FrameMsgs
  <2>2. {frame.spots[k] : k \in DOMAIN frame.spots} = SM
    BY <1>5, <1>7
  <2>3. \A j \in DOMAIN wire' : j \notin DOMAIN wire => FrameMsgs(j)' = SM
    BY <1>10, <2>2 DEF FrameMsgs
  <2>4. QED
    BY <2>1, <2>3
<1>12. QED
  BY <1>1, <1>7, <1>9, <1>10, <1>11 DEF top

\* The live loop moves messages from the channel to the batch and from the batch to the wire, each in one place.
LEMMA StreamLoop ==
  ASSUME StreamInv, conn.open, NEW q \in Seq(Items), NEW sp \in Seq(Items),
         {q[k].msg : k \in DOMAIN q} \subseteq QueueMsgs,
         {sp[k].msg : k \in DOMAIN sp} \subseteq QueueMsgs \cup PendingMsgs,
         \A k \in DOMAIN q, l \in DOMAIN sp : q[k].msg # sp[l].msg,
         \A k, l \in DOMAIN q : q[k].msg = q[l].msg => k = l,
         \A k, l \in DOMAIN sp : sp[k].msg = sp[l].msg => k = l,
         \A k \in DOMAIN q : q[k].seq <= highSeqLocked,
         \A k \in DOMAIN sp : sp[k].seq <= highSeqLocked,
         LoopKeeps(q, sp) \/ flushPending(q, sp),
         UNCHANGED <<clock, log, hubVars, sender, page, held, dropped, starts, breaks>>
  PROVE  StreamInv'
<1> DEFINE top == MaxSeqOf(sp, conn.maxSeq)
           QM == {q[k].msg : k \in DOMAIN q}
           SM == {sp[k].msg : k \in DOMAIN sp}
<1>1. Len(wire) \in Nat /\ DOMAIN wire = 1..Len(wire) /\ conn.maxSeq <= highSeqLocked
  BY DEF StreamInv, WireType, Bounded
<1>2. top \in Nat /\ top <= highSeqLocked
  BY TopOf
<1>3. HubType' /\ SenderType' /\ PageType' /\ HeldType' /\ NoDuplicates' /\ HeldSet' = HeldSet
  BY DEF StreamInv, HubType, SenderType, PageType, HeldType, NoDuplicates, hubVars, HeldSet
<1>4. connNo' = connNo /\ highSeqLocked' = highSeqLocked /\ SendersHere' = SendersHere
      /\ SenderMsgs' = SenderMsgs
  BY DEF connNo, highSeqLocked, hubVars, SendersHere, SenderMsgs
<1>5. DOMAIN MsgsOf(sp) = DOMAIN sp /\ \A k \in DOMAIN sp : MsgsOf(sp)[k] = sp[k].msg
  BY DEF MsgsOf
<1>6. /\ ConnType' /\ conn'.open /\ conn'.send = q
      /\ wire' \in Seq(Frames) /\ Len(wire') \in Nat /\ DOMAIN wire' = 1..Len(wire') /\ Len(wire) <= Len(wire')
      /\ \A j \in DOMAIN wire : j \in DOMAIN wire' /\ wire'[j] = wire[j] /\ FrameMsgs(j)' = FrameMsgs(j)
      /\ \A j \in DOMAIN wire' : j \notin DOMAIN wire =>
            /\ j = Len(wire) + 1 /\ IsLive(wire'[j]) /\ wire'[j].spots = MsgsOf(sp)
            /\ FrameMsgs(j)' = SM
      /\ \/ wire' = wire /\ conn'.pending = sp /\ conn'.maxSeq = conn.maxSeq
         \/ conn'.pending = <<>> /\ conn'.maxSeq = top
  <2>1. /\ ConnType' /\ conn'.open /\ conn'.send = q
        /\ wire' \in Seq(Frames) /\ Len(wire') \in Nat /\ DOMAIN wire' = 1..Len(wire') /\ Len(wire) <= Len(wire')
        /\ \A j \in DOMAIN wire : j \in DOMAIN wire' /\ wire'[j] = wire[j] /\ FrameMsgs(j)' = FrameMsgs(j)
    BY LoopWrites
  <2>2. \A j \in DOMAIN wire' : j \notin DOMAIN wire =>
            /\ j = Len(wire) + 1 /\ IsLive(wire'[j]) /\ wire'[j].spots = MsgsOf(sp)
            /\ FrameMsgs(j)' = SM
    <3>1. \A j \in DOMAIN wire' : j \notin DOMAIN wire =>
            j = Len(wire) + 1 /\ IsLive(wire'[j]) /\ wire'[j].spots = MsgsOf(sp)
      BY LoopWrites
    <3>2. ASSUME NEW j \in DOMAIN wire', j \notin DOMAIN wire PROVE FrameMsgs(j)' = SM
      <4>1. FrameMsgs(j)' = {wire'[j].spots[k] : k \in DOMAIN wire'[j].spots}
        BY DEF FrameMsgs
      <4>2. wire'[j].spots = MsgsOf(sp)
        BY <3>1, <3>2
      <4>3. QED
        BY <1>5, <4>1, <4>2
    <3>3. QED
      BY <3>1, <3>2
  <2>3. \/ wire' = wire /\ conn'.pending = sp /\ conn'.maxSeq = conn.maxSeq
        \/ conn'.pending = <<>> /\ conn'.maxSeq = top
    BY LoopWrites
  <2>4. QED
    BY <2>1, <2>2, <2>3
<1> HIDE DEF top
<1>11. conn'.pending \in {sp, <<>>} /\ conn'.maxSeq \in {conn.maxSeq, top}
  BY <1>6
<1>12. WireType'
  BY <1>6 DEF WireType
<1>13. Connected'
  BY <1>4, <1>6 DEF StreamInv, Connected
<1>14. Framed'
  <2>1. PICK e \in 0..Len(wire) :
            /\ (e = 0) <=> (page.phase = "live")
            /\ e > 0 => wire[e].type = "history_end"
            /\ \A j \in DOMAIN wire : j < e => IsEarly(wire[j])
            /\ \A j \in DOMAIN wire : j > e => IsLive(wire[j])
    BY DEF StreamInv, Framed
  <2>2. e \in 0..Len(wire')
    BY <1>1, <1>6
  <2>3. e > 0 => e \in DOMAIN wire
    BY <1>1
  <2>4. \A j \in DOMAIN wire' : j < e => IsEarly(wire'[j])
    <3>1. ~(Len(wire) + 1 < e)
      BY <1>1
    <3>2. QED
      BY <1>6, <2>1, <3>1
  <2>5. \A j \in DOMAIN wire' : j > e => IsLive(wire'[j])
    BY <1>6, <2>1
  <2>6. QED
    BY <1>6, <2>1, <2>2, <2>3, <2>4, <2>5 DEF Framed
<1>15. /\ \A j \in DOMAIN wire : FrameMsgs(j)' = FrameMsgs(j)
       /\ \A j \in DOMAIN wire' : j \notin DOMAIN wire => FrameMsgs(j)' = SM /\ conn'.pending = <<>>
  BY <1>6
<1>16. QueueMsgs' = QM
  BY <1>6 DEF QueueMsgs
<1>17. PendingMsgs' \subseteq SM /\ (conn'.pending = <<>> => PendingMsgs' = {})
  BY <1>11 DEF PendingMsgs
<1>18. LiveMsgs' \subseteq LiveMsgs \/ (LiveMsgs' \subseteq LiveMsgs \cup SM /\ PendingMsgs' = {})
  <2>1. ASSUME NEW j \in DOMAIN wire', IsLive(wire'[j]), j \in DOMAIN wire PROVE FrameMsgs(j)' \subseteq LiveMsgs
    BY <2>1, <1>6, <1>15 DEF LiveMsgs
  <2>2. CASE DOMAIN wire' \subseteq DOMAIN wire
    BY <2>1, <2>2 DEF LiveMsgs
  <2>3. CASE ~(DOMAIN wire' \subseteq DOMAIN wire)
    <3>1. PendingMsgs' = {}
      BY <1>15, <1>17, <2>3
    <3>2. \A j \in DOMAIN wire' : IsLive(wire'[j]) => FrameMsgs(j)' \subseteq LiveMsgs \cup SM
      BY <1>15, <2>1
    <3>3. LiveMsgs' \subseteq LiveMsgs \cup SM
      BY <3>2 DEF LiveMsgs
    <3>4. QED
      BY <3>1, <3>3
  <2>4. QED
    BY <2>2, <2>3
<1>19. PastMsgs' \subseteq PastMsgs
  <2>1. ASSUME NEW j \in DOMAIN wire', IsEarly(wire'[j]) PROVE FrameMsgs(j)' \subseteq PastMsgs
    <3>1. \A x : IsLive(x) => ~IsEarly(x)
      BY DEF IsEarly, IsLive
    <3>2. QED
      BY <2>1, <3>1, <1>6, <1>15 DEF PastMsgs
  <2>2. HeldSet \subseteq PastMsgs
    BY DEF PastMsgs
  <2>3. QED
    BY <1>3, <2>1, <2>2 DEF PastMsgs
<1>20. QM \subseteq QueueMsgs /\ SM \subseteq QueueMsgs \cup PendingMsgs /\ QM \cap SM = {}
  OBVIOUS
<1>21. InLog'
  <2>1. \A b \in Broadcasters : sender'[b].busy => sender'[b].msg \in 1..Len(log')
    BY DEF StreamInv, InLog
  <2>2. QED
    BY <2>1, <1>16, <1>17, <1>18, <1>19, <1>20 DEF StreamInv, InLog
<1>22. Apart'
  <2> HIDE DEF QM, SM
  <2>1. SM \cap (LiveMsgs \cup PastMsgs \cup SenderMsgs) = {}
    BY <1>20 DEF StreamInv, Apart
  <2>2. QED
    BY <2>1, <1>4, <1>16, <1>17, <1>18, <1>19, <1>20 DEF StreamInv, Apart
<1>23. Bounded'
  <2>1. conn'.maxSeq <= highSeqLocked
    BY <1>1, <1>2, <1>11
  <2>2. \A k \in DOMAIN conn'.pending : conn'.pending[k].seq <= highSeqLocked
    BY <1>11
  <2>3. QED
    BY <1>4, <1>6, <2>1, <2>2 DEF StreamInv, Bounded
<1>24. Once'
  <2>1. \A c, d \in SendersHere' : sender'[c].msg = sender'[d].msg => c = d
    BY <1>4 DEF StreamInv, Once
  <2>2. \A k, l \in DOMAIN conn'.pending : conn'.pending[k].msg = conn'.pending[l].msg => k = l
    BY <1>11
  <2>3. ASSUME NEW j \in DOMAIN wire', IsLive(wire'[j])
        PROVE  \A k, l \in DOMAIN wire'[j].spots : wire'[j].spots[k] = wire'[j].spots[l] => k = l
    <3>1. CASE j \in DOMAIN wire
      BY <1>6, <2>3, <3>1 DEF StreamInv, Once
    <3>2. CASE j \notin DOMAIN wire
      <4>1. wire'[j].spots = MsgsOf(sp)
        BY <1>6, <3>2
      <4>2. QED
        BY <1>5, <4>1
    <3>3. QED
      BY <3>1, <3>2
  <2>4. ASSUME NEW j \in DOMAIN wire, IsLive(wire[j]) PROVE FrameMsgs(j) \cap SM = {}
    <3>1. FrameMsgs(j) \subseteq LiveMsgs
      BY <2>4 DEF LiveMsgs
    <3> HIDE DEF SM
    <3>2. QED
      BY <1>20, <3>1 DEF StreamInv, Apart
  <2>5. ASSUME NEW i \in DOMAIN wire', NEW j \in DOMAIN wire', IsLive(wire'[i]), IsLive(wire'[j]), i # j
        PROVE  FrameMsgs(i)' \cap FrameMsgs(j)' = {}
    <3>1. CASE i \in DOMAIN wire /\ j \in DOMAIN wire
      BY <1>6, <1>15, <2>5, <3>1 DEF StreamInv, Once
    <3>2. CASE i \in DOMAIN wire /\ j \notin DOMAIN wire
      BY <1>6, <1>15, <2>4, <2>5, <3>2
    <3>3. CASE i \notin DOMAIN wire /\ j \in DOMAIN wire
      BY <1>6, <1>15, <2>4, <2>5, <3>3
    <3>4. CASE i \notin DOMAIN wire /\ j \notin DOMAIN wire
      BY <1>6, <2>5, <3>4
    <3>5. QED
      BY <3>1, <3>2, <3>3, <3>4
  <2>6. QED
    BY <1>6, <2>1, <2>2, <2>3, <2>5 DEF Once
<1>25. QED
  BY <1>3, <1>6, <1>12, <1>13, <1>14, <1>21, <1>22, <1>23, <1>24 DEF StreamInv

\* What receiving one spot from the channel leaves of it.
LEMMA HandlerRecvs ==
  ASSUME StreamInv, HandlerRecv
  PROVE  LET spot == conn.send[1] IN
         /\ conn.open /\ conn.send \in Seq(Items) /\ conn.pending \in Seq(Items) /\ spot \in Items
         /\ 1 \in DOMAIN conn.send /\ Tail(conn.send) \in Seq(Items) /\ Append(conn.pending, spot) \in Seq(Items)
         /\ DOMAIN conn.send = 1..Len(conn.send) /\ Len(conn.send) \in Nat \ {0}
         /\ \A k \in DOMAIN Tail(conn.send) : k + 1 \in DOMAIN conn.send /\ Tail(conn.send)[k] = conn.send[k + 1]
         /\ DOMAIN Tail(conn.send) = 1..(Len(conn.send) - 1)
         /\ \A k \in DOMAIN Append(conn.pending, spot) :
               \/ k \in DOMAIN conn.pending /\ Append(conn.pending, spot)[k] = conn.pending[k]
               \/ k = Len(conn.pending) + 1 /\ Append(conn.pending, spot)[k] = spot
         /\ DOMAIN conn.pending = 1..Len(conn.pending) /\ Len(conn.pending) \in Nat
         /\ \/ log[spot.msg].kind \notin conn.filter /\ LoopKeeps(Tail(conn.send), conn.pending)
            \/ LoopKeeps(Tail(conn.send), Append(conn.pending, spot))
            \/ flushPending(Tail(conn.send), Append(conn.pending, spot))
<1> DEFINE s == conn.send
           p == conn.pending
<1>1. s \in Seq(Items) /\ p \in Seq(Items) /\ s # <<>> /\ conn.open
  BY DEF HandlerRecv, StreamInv, ConnType
<1>2. /\ conn \in [open : BOOLEAN, filter : SUBSET Kinds, radius : Int, cutoff : Int,
              send : Seq(Items), pending : Seq(Items), maxSeq : Nat]
  BY DEF StreamInv, ConnType
<1>3. \/ log[Head(conn.send).msg].kind \notin conn.filter /\ conn' = [conn EXCEPT !.send = Tail(@)] /\ wire' = wire
      \/ flushPending(Tail(conn.send), Append(conn.pending, Head(conn.send)))
      \/ conn' = [conn EXCEPT !.send = Tail(@), !.pending = Append(conn.pending, Head(conn.send))] /\ wire' = wire
  BY DEF HandlerRecv
<1>4. Head(conn.send) = conn.send[1]
  BY <1>1
<1>5. \/ log[conn.send[1].msg].kind \notin conn.filter /\ LoopKeeps(Tail(conn.send), conn.pending)
      \/ LoopKeeps(Tail(conn.send), Append(conn.pending, conn.send[1]))
      \/ flushPending(Tail(conn.send), Append(conn.pending, conn.send[1]))
  BY <1>2, <1>3, <1>4 DEF LoopKeeps
<1> HIDE DEF s, p
<1>6. /\ Tail(s) \in Seq(Items) /\ s[1] \in Items
      /\ Len(s) \in Nat \ {0} /\ DOMAIN s = 1..Len(s)
      /\ DOMAIN Tail(s) = 1..(Len(s) - 1)
      /\ \A k \in 1..(Len(s) - 1) : k + 1 \in DOMAIN s /\ Tail(s)[k] = s[k + 1]
  BY <1>1, TailOf
<1>7. /\ Append(p, s[1]) \in Seq(Items) /\ DOMAIN p = 1..Len(p) /\ Len(p) \in Nat
      /\ \A k \in 1..Len(p) : Append(p, s[1])[k] = p[k]
      /\ Append(p, s[1])[Len(p) + 1] = s[1]
      /\ \A k \in DOMAIN Append(p, s[1]) : k \in DOMAIN p \/ k = Len(p) + 1
  BY <1>1, <1>6, AppendOf
<1>8. 1 \in DOMAIN s
  BY <1>6
<1>9. QED
  BY <1>1, <1>5, <1>6, <1>7, <1>8 DEF s, p

\* The loop receives a spot from the channel.
LEMMA StreamHandlerRecv == StreamInv /\ HandlerRecv => StreamInv'
<1> SUFFICES ASSUME StreamInv, HandlerRecv PROVE StreamInv'
  OBVIOUS
<1> DEFINE s == conn.send
           p == conn.pending
           spot == s[1]
           q == Tail(s)
           sp == Append(p, spot)
<1>1. /\ conn.open /\ s \in Seq(Items) /\ p \in Seq(Items) /\ spot \in Items /\ 1 \in DOMAIN s
      /\ q \in Seq(Items) /\ sp \in Seq(Items) /\ Len(s) \in Nat \ {0} /\ DOMAIN s = 1..Len(s)
      /\ \A k \in DOMAIN q : k + 1 \in DOMAIN s /\ q[k] = s[k + 1]
      /\ DOMAIN q = 1..(Len(s) - 1)
      /\ \A k \in DOMAIN sp : \/ k \in DOMAIN p /\ sp[k] = p[k]
                              \/ k = Len(p) + 1 /\ sp[k] = spot
      /\ DOMAIN p = 1..Len(p) /\ Len(p) \in Nat
      /\ LoopKeeps(q, p) \/ LoopKeeps(q, sp) \/ flushPending(q, sp)
  BY HandlerRecvs
<1>2. UNCHANGED <<clock, log, hubVars, sender, page, held, dropped, starts, breaks>>
  BY DEF HandlerRecv
<1>3. /\ QueueMsgs = {s[k].msg : k \in DOMAIN s} /\ PendingMsgs = {p[k].msg : k \in DOMAIN p}
      /\ \A k \in DOMAIN s : s[k].seq <= highSeqLocked
      /\ \A k \in DOMAIN p : p[k].seq <= highSeqLocked
      /\ \A k, l \in DOMAIN s : s[k].msg = s[l].msg => k = l
      /\ \A k, l \in DOMAIN p : p[k].msg = p[l].msg => k = l
      /\ QueueMsgs \cap PendingMsgs = {}
  BY DEF QueueMsgs, PendingMsgs, StreamInv, Bounded, Once, Apart
<1> HIDE DEF q, sp, p, s
<1>4. \A k \in DOMAIN s, l \in DOMAIN p : s[k].msg # p[l].msg
  BY <1>3
<1>5. {q[k].msg : k \in DOMAIN q} \subseteq QueueMsgs
  BY <1>1, <1>3
<1>6. /\ {p[k].msg : k \in DOMAIN p} \subseteq QueueMsgs \cup PendingMsgs
      /\ {sp[k].msg : k \in DOMAIN sp} \subseteq QueueMsgs \cup PendingMsgs
  <2>1. \A k \in DOMAIN sp : sp[k].msg \in QueueMsgs \cup PendingMsgs
    BY <1>1, <1>3
  <2>2. QED
    BY <1>3, <2>1
<1>7. \A k \in DOMAIN q : k + 1 # 1
  BY <1>1
<1>8. /\ \A k \in DOMAIN q, l \in DOMAIN p : q[k].msg # p[l].msg
      /\ \A k \in DOMAIN q, l \in DOMAIN sp : q[k].msg # sp[l].msg
  <2>1. \A k \in DOMAIN q, l \in DOMAIN p : q[k].msg # p[l].msg
    BY <1>1, <1>4
  <2>2. \A k \in DOMAIN q : q[k].msg # spot.msg
    BY <1>1, <1>3, <1>7
  <2>3. QED
    BY <1>1, <2>1, <2>2
<1>9. \A k, l \in DOMAIN q : q[k].msg = q[l].msg => k = l
  <2>1. \A k, l \in DOMAIN q : k + 1 = l + 1 => k = l
    BY <1>1
  <2>2. QED
    BY <1>1, <1>3, <2>1
<1>10. \A k, l \in DOMAIN sp : sp[k].msg = sp[l].msg => k = l
  <2>1. \A l \in DOMAIN p : p[l].msg # spot.msg
    BY <1>1, <1>4
  <2>2. QED
    BY <1>1, <1>3, <2>1
<1>11. /\ \A k \in DOMAIN q : q[k].seq <= highSeqLocked
       /\ \A k \in DOMAIN sp : sp[k].seq <= highSeqLocked
  BY <1>1, <1>3
<1>12. CASE LoopKeeps(q, p)
  BY <1>1, <1>2, <1>3, <1>5, <1>6, <1>8, <1>9, <1>11, <1>12, StreamLoop
<1>13. CASE LoopKeeps(q, sp) \/ flushPending(q, sp)
  BY <1>1, <1>2, <1>5, <1>6, <1>8, <1>9, <1>10, <1>11, <1>13, StreamLoop
<1>14. QED
  BY <1>1, <1>12, <1>13

\* The loop flushes on its ticker.
LEMMA StreamHandlerTick == StreamInv /\ HandlerTick => StreamInv'
<1> SUFFICES ASSUME StreamInv, HandlerTick PROVE StreamInv'
  OBVIOUS
<1> DEFINE q == conn.send
           sp == conn.pending
<1>1. /\ conn.open /\ q \in Seq(Items) /\ sp \in Seq(Items) /\ flushPending(q, sp)
      /\ UNCHANGED <<clock, log, hubVars, sender, page, held, dropped, starts, breaks>>
  BY DEF HandlerTick, StreamInv, ConnType
<1>2. /\ QueueMsgs = {q[k].msg : k \in DOMAIN q} /\ PendingMsgs = {sp[k].msg : k \in DOMAIN sp}
      /\ \A k \in DOMAIN q : q[k].seq <= highSeqLocked
      /\ \A k \in DOMAIN sp : sp[k].seq <= highSeqLocked
      /\ \A k, l \in DOMAIN q : q[k].msg = q[l].msg => k = l
      /\ \A k, l \in DOMAIN sp : sp[k].msg = sp[l].msg => k = l
      /\ QueueMsgs \cap PendingMsgs = {}
  BY DEF QueueMsgs, PendingMsgs, StreamInv, Bounded, Once, Apart
<1> HIDE DEF q, sp
<1>3. \A k \in DOMAIN q, l \in DOMAIN sp : q[k].msg # sp[l].msg
  BY <1>2
<1>4. {q[k].msg : k \in DOMAIN q} \subseteq QueueMsgs /\ {sp[k].msg : k \in DOMAIN sp} \subseteq QueueMsgs \cup PendingMsgs
  BY <1>2
<1>5. QED
  BY <1>1, <1>2, <1>3, <1>4, StreamLoop

\* What the handler writes and remembers when it registers.
LEMMA HandlerStarts ==
  ASSUME StreamInv, NEW radius \in Radii, StreamHandler(radius)
  PROVE  LET cutoff == clock - Minutes
             S == historySpots(decideResume(radius), radius, cutoff) IN
         /\ S \subseteq 1..Len(history)
         /\ page.phase = "connecting" /\ ~conn.open /\ cutoff \in Int /\ radius \in Nat
         /\ conn' = [open |-> TRUE, filter |-> page.url.filter, radius |-> radius, cutoff |-> cutoff,
                     send |-> <<>>, pending |-> <<>>, maxSeq |-> highSeqLocked]
         /\ page' = [page EXCEPT !.phase = "loading"]
         /\ UNCHANGED <<clock, log, hubVars, sender, held, dropped, starts, breaks>>
         /\ \E dump \in Seq(S) :
              /\ wire' \in Seq(Frames) /\ Len(dump) \in Nat /\ Len(wire') = Len(dump) + 2
              /\ DOMAIN wire' = 1..(Len(dump) + 2) /\ DOMAIN dump = 1..Len(dump)
              /\ wire'[1] = AreaFrame(radius) /\ wire'[Len(dump) + 2] = EndFrame
              /\ \A j \in 1..Len(dump) : wire'[j + 1] = DumpFrame(history[dump[j]])
              /\ \A j \in DOMAIN wire' : j = 1 \/ j = Len(dump) + 2 \/ j - 1 \in 1..Len(dump)
              /\ \A i \in S : \E j \in 1..Len(dump) : dump[j] = i
<1> DEFINE cutoff == clock - Minutes
           S == historySpots(decideResume(radius), radius, cutoff)
<1>1. /\ cutoff \in Int /\ radius \in Nat /\ Len(history) \in Nat /\ baseSeq \in Nat /\ epoch \in Nat
      /\ history \in Seq(1..Len(log)) /\ Len(log) \in Nat /\ highSeqLocked \in Nat
  BY StreamConstants DEF StreamInv, HubType, highSeqLocked
<1>2. S \subseteq 1..Len(history)
  <2>1. sortSearch(cutoff) \in 0..Len(history)
    BY <1>1, SkipInRange
  <2>2. overlapFloor(decideResume(radius)) \in Int
    <3>1. sinceRaw \in Ids
      BY DEF sinceRaw, StreamInv, PageType
    <3>2. sinceRaw.seq \in Nat /\ Overlap \in Nat
      BY <3>1, StreamConstants DEF Ids
    <3>3. QED
      BY <3>2 DEF overlapFloor
  <2>3. startIdx(decideResume(radius), cutoff) \in Nat
    <3> DEFINE from == overlapFloor(decideResume(radius)) - baseSeq
    <3>1. from \in Int
      BY <1>1, <2>2
    <3>2. startIdx(decideResume(radius), cutoff) \in {sortSearch(cutoff), Len(history)} \/
          (startIdx(decideResume(radius), cutoff) = from /\ from > sortSearch(cutoff))
      BY DEF startIdx
    <3> HIDE DEF from
    <3>3. QED
      BY <1>1, <2>1, <3>1, <3>2
  <2>4. S \subseteq startIdx(decideResume(radius), cutoff) + 1 .. Len(history)
    BY DEF historySpots
  <2>5. QED
    BY <1>1, <2>3, <2>4
<1>3. IsFiniteSet(S)
  <2>1. IsFiniteSet(1..Len(history))
    BY <1>1, FS_Interval
  <2> HIDE DEF S
  <2>2. QED
    BY <1>2, <2>1, FS_Subset
<1>4. /\ page.phase = "connecting" /\ page' = [page EXCEPT !.phase = "loading"]
      /\ UNCHANGED <<clock, log, hubVars, sender, held, dropped, starts, breaks>>
  BY DEF StreamHandler
<1>5. ~conn.open
  BY <1>4 DEF StreamInv, Connected
<1>6. conn' = [open |-> TRUE, filter |-> page.url.filter, radius |-> radius, cutoff |-> cutoff,
               send |-> <<>>, pending |-> <<>>, maxSeq |-> highSeqLocked]
  BY DEF StreamHandler, ConnClosed
<1>7. PICK dump \in SetToSeqs(S) :
         wire' = <<AreaFrame(radius)>> \o [j \in DOMAIN dump |-> DumpFrame(history[dump[j]])] \o <<EndFrame>>
  BY DEF StreamHandler
<1> HIDE DEF S, cutoff
<1>8. dump \in Seq(S) /\ \A i \in S : \E j \in DOMAIN dump : dump[j] = i
  BY <1>3, EnumOf
<1>9. Len(dump) \in Nat /\ DOMAIN dump = 1..Len(dump) /\ \A j \in 1..Len(dump) : dump[j] \in S
  BY <1>8
<1> DEFINE mid == [j \in DOMAIN dump |-> DumpFrame(history[dump[j]])]
<1>10. \A i \in 1..Len(history) : DumpFrame(history[i]) \in Frames
  <2>1. \A i \in 1..Len(history) : history[i] \in Nat
    BY <1>1
  <2>2. \A m \in Nat : <<m>> \in Seq(Nat)
    OBVIOUS
  <2>3. QED
    BY <2>1, <2>2 DEF DumpFrame, Frames, Ids, NoId
<1>11. mid \in Seq(Frames) /\ Len(mid) = Len(dump) /\ \A j \in 1..Len(dump) : mid[j] = DumpFrame(history[dump[j]])
  <2>1. \A j \in 1..Len(dump) : DumpFrame(history[dump[j]]) \in Frames
    BY <1>2, <1>9, <1>10
  <2>2. mid = [j \in 1..Len(dump) |-> DumpFrame(history[dump[j]])]
    BY <1>9
  <2>3. mid \in [1..Len(dump) -> Frames] /\ \A j \in 1..Len(dump) : mid[j] = DumpFrame(history[dump[j]])
    BY <2>1, <2>2
  <2> HIDE DEF mid
  <2>4. QED
    BY <1>9, <2>3
<1>12. AreaFrame(radius) \in Frames /\ EndFrame \in Frames
  <2>1. <<>> \in Seq(Nat)
    OBVIOUS
  <2>2. QED
    BY <1>1, <2>1 DEF AreaFrame, EndFrame, Frames, Ids, NoId
<1> HIDE DEF mid
<1>13. wire' = <<AreaFrame(radius)>> \o mid \o <<EndFrame>>
  BY <1>7 DEF mid
<1>14. /\ wire' \in Seq(Frames) /\ Len(wire') = Len(dump) + 2
       /\ wire'[1] = AreaFrame(radius) /\ wire'[Len(dump) + 2] = EndFrame
       /\ \A j \in 1..Len(dump) : wire'[j + 1] = mid[j]
  BY <1>9, <1>11, <1>12, <1>13
<1>15. DOMAIN wire' = 1..(Len(dump) + 2) /\ \A j \in DOMAIN wire' : j = 1 \/ j = Len(dump) + 2 \/ j - 1 \in 1..Len(dump)
  <2>1. DOMAIN wire' = 1..(Len(dump) + 2)
    BY <1>9, <1>14
  <2>2. \A j \in 1..(Len(dump) + 2) : j = 1 \/ j = Len(dump) + 2 \/ j - 1 \in 1..Len(dump)
    BY <1>9
  <2>3. QED
    BY <2>1, <2>2
<1>16. \E d \in Seq(S) :
              /\ wire' \in Seq(Frames) /\ Len(d) \in Nat /\ Len(wire') = Len(d) + 2
              /\ DOMAIN wire' = 1..(Len(d) + 2) /\ DOMAIN d = 1..Len(d)
              /\ wire'[1] = AreaFrame(radius) /\ wire'[Len(d) + 2] = EndFrame
              /\ \A j \in 1..Len(d) : wire'[j + 1] = DumpFrame(history[d[j]])
              /\ \A j \in DOMAIN wire' : j = 1 \/ j = Len(d) + 2 \/ j - 1 \in 1..Len(d)
              /\ \A i \in S : \E j \in 1..Len(d) : d[j] = i
  <2>1. \A j \in 1..Len(dump) : wire'[j + 1] = DumpFrame(history[dump[j]])
    BY <1>11, <1>14
  <2>2. QED
    BY <1>8, <1>9, <1>14, <1>15, <2>1
<1>17. QED
  BY <1>1, <1>2, <1>4, <1>5, <1>6, <1>16 DEF S, cutoff

\* streamHandler: what the dump carries was broadcast before the client was registered.
LEMMA StreamStarts ==
  ASSUME StreamInv, NEW radius \in Radii, StreamHandler(radius)
  PROVE  StreamInv'
<1> DEFINE cutoff == clock - Minutes
           S == historySpots(decideResume(radius), radius, cutoff)
<1>1. /\ S \subseteq 1..Len(history)
      /\ page.phase = "connecting" /\ ~conn.open /\ cutoff \in Int /\ radius \in Nat
      /\ conn' = [open |-> TRUE, filter |-> page.url.filter, radius |-> radius, cutoff |-> cutoff,
                  send |-> <<>>, pending |-> <<>>, maxSeq |-> highSeqLocked]
      /\ page' = [page EXCEPT !.phase = "loading"]
      /\ UNCHANGED <<clock, log, hubVars, sender, held, dropped, starts, breaks>>
  BY HandlerStarts
<1>2. PICK dump \in Seq(S) :
              /\ wire' \in Seq(Frames) /\ Len(dump) \in Nat /\ Len(wire') = Len(dump) + 2
              /\ DOMAIN wire' = 1..(Len(dump) + 2) /\ DOMAIN dump = 1..Len(dump)
              /\ wire'[1] = AreaFrame(radius) /\ wire'[Len(dump) + 2] = EndFrame
              /\ \A j \in 1..Len(dump) : wire'[j + 1] = DumpFrame(history[dump[j]])
              /\ \A j \in DOMAIN wire' : j = 1 \/ j = Len(dump) + 2 \/ j - 1 \in 1..Len(dump)
  BY HandlerStarts
<1> HIDE DEF S, cutoff
<1>3. \A j \in 1..Len(dump) : history[dump[j]] \in 1..Len(log)
  <2>1. \A j \in 1..Len(dump) : dump[j] \in 1..Len(history)
    BY <1>1, <1>2, ElementOfSeq
  <2>2. \A i \in 1..Len(history) : history[i] \in 1..Len(log)
    BY ElementOfSeq DEF StreamInv, HubType
  <2>3. QED
    BY <2>1, <2>2
<1>4. HubType' /\ SenderType' /\ HeldType' /\ NoDuplicates' /\ HeldSet' = HeldSet /\ log' = log
  BY <1>1 DEF StreamInv, HubType, SenderType, HeldType, NoDuplicates, hubVars, HeldSet
<1>5. highSeqLocked' = highSeqLocked /\ highSeqLocked \in Nat /\ connNo' = connNo /\ epoch' = epoch
  BY <1>1 DEF highSeqLocked, hubVars, StreamInv, HubType, connNo
<1>6. ConnType'
  <2>1. <<>> \in Seq(Items) /\ page.url.filter \subseteq Kinds
    BY DEF StreamInv, PageType
  <2>2. QED
    BY <1>1, <1>5, <2>1 DEF ConnType
<1>7. PageType' /\ page'.phase = "loading"
  BY <1>1 DEF StreamInv, PageType, Phases
<1>8. WireType'
  BY <1>2 DEF WireType
<1>9. conn'.open /\ conn'.send = <<>> /\ conn'.pending = <<>> /\ conn'.maxSeq = highSeqLocked
  BY <1>1
<1>10. SendersHere = {} /\ SendersHere' = {} /\ sender' = sender
  BY <1>1, <1>5 DEF StreamInv, Connected, SendersHere
<1>11. Connected'
  BY <1>1, <1>5, <1>7, <1>9, <1>10 DEF StreamInv, Connected
<1>12. EndFrame.type = "history_end" /\ ~IsEarly(EndFrame) /\ ~IsLive(EndFrame) /\ EndFrame.spots = <<>>
  BY DEF EndFrame, IsEarly, IsLive
<1>13. AreaFrame(radius).type = "area" /\ IsEarly(AreaFrame(radius)) /\ AreaFrame(radius).spots = <<>>
  BY DEF AreaFrame, IsEarly
<1>14. \A m : DumpFrame(m).type = "spots" /\ IsEarly(DumpFrame(m)) /\ DumpFrame(m).spots = <<m>>
  BY DEF DumpFrame, IsEarly
<1>15. \A j \in DOMAIN wire' :
          \/ j = 1 /\ wire'[j] = AreaFrame(radius)
          \/ j = Len(dump) + 2 /\ wire'[j] = EndFrame
          \/ \E i \in 1..Len(dump) : j = i + 1 /\ wire'[j] = DumpFrame(history[dump[i]])
  BY <1>2
<1>16. \A j \in DOMAIN wire' : ~IsLive(wire'[j])
  BY <1>12, <1>13, <1>14, <1>15 DEF IsEarly, IsLive
<1>17. Framed'
  <2>1. Len(dump) + 2 \in 0..Len(wire') /\ Len(dump) + 2 # 0 /\ Len(dump) + 2 > 0
    BY <1>2
  <2>2. \A j \in DOMAIN wire' : j < Len(dump) + 2 => IsEarly(wire'[j])
    <3>1. \A j \in DOMAIN wire' : j < Len(dump) + 2 => j # Len(dump) + 2
      BY <1>2
    <3>2. QED
      BY <1>13, <1>14, <1>15, <3>1
  <2>3. \A j \in DOMAIN wire' : ~(j > Len(dump) + 2)
    BY <1>2
  <2>4. QED
    BY <1>2, <1>7, <1>12, <2>1, <2>2, <2>3 DEF Framed
<1>18. SenderMsgs' = {} /\ QueueMsgs' = {} /\ PendingMsgs' = {} /\ LiveMsgs' = {}
  BY <1>9, <1>10, <1>16 DEF SenderMsgs, QueueMsgs, PendingMsgs, LiveMsgs
<1>19. PastMsgs' \subseteq HeldSet \cup 1..Len(log)
  <2>1. ASSUME NEW j \in DOMAIN wire' PROVE FrameMsgs(j)' \subseteq 1..Len(log)
    <3>1. wire'[j].spots = <<>> \/ \E i \in 1..Len(dump) : wire'[j].spots = <<history[dump[i]]>>
      BY <1>12, <1>13, <1>14, <1>15
    <3>2. \A k \in DOMAIN wire'[j].spots : wire'[j].spots[k] \in 1..Len(log)
      <4>1. CASE wire'[j].spots = <<>>
        BY <4>1
      <4>2. ASSUME NEW i \in 1..Len(dump), wire'[j].spots = <<history[dump[i]]>>
            PROVE  \A k \in DOMAIN wire'[j].spots : wire'[j].spots[k] \in 1..Len(log)
        BY <1>3, <4>2
      <4>3. QED
        BY <3>1, <4>1, <4>2
    <3>3. QED
      BY <3>2 DEF FrameMsgs
  <2>2. QED
    BY <1>4, <2>1 DEF PastMsgs
<1>20. InLog' /\ Apart'
  <2>1. HeldSet \subseteq 1..Len(log)
    BY DEF StreamInv, InLog, PastMsgs
  <2>2. QED
    BY <1>4, <1>10, <1>18, <1>19, <2>1 DEF StreamInv, InLog, Apart
<1>21. Bounded'
  BY <1>5, <1>9, <1>10 DEF StreamInv, Bounded
<1>22. Once'
  BY <1>9, <1>10, <1>16 DEF Once
<1>23. QED
  BY <1>4, <1>6, <1>7, <1>8, <1>11, <1>17, <1>20, <1>21, <1>22 DEF StreamInv

\* Every step keeps the invariant.
LEMMA StreamStep == StreamInv /\ [Next]_vars => StreamInv'
<1> SUFFICES ASSUME StreamInv, [Next]_vars PROVE StreamInv'
  OBVIOUS
<1>1. ASSUME NEW b \in Broadcasters, NEW k \in Kinds, NEW t \in clock - MaxLate .. clock, Broadcast(b, k, t)
      PROVE  StreamInv'
  <2>1. t \in Int
    BY StreamConstants DEF StreamInv, HubType
  <2>2. QED
    BY <1>1, <2>1, StreamBroadcast
<1>2. CASE HubStep
  BY <1>1, <1>2, StreamSafeSend, StreamPrune DEF HubStep
<1>3. CASE HandlerStep
  BY <1>3, StreamStarts, StreamAtCapacity, StreamHandlerRecv, StreamHandlerTick DEF HandlerStep
<1>4. CASE PageStep \/ Break
  BY <1>4, StreamCloses, StreamReceiveSpots, StreamReceiveArea, StreamReceiveHistoryEnd,
     StreamReceiveServerError DEF PageStep
<1>5. CASE Tick \/ UNCHANGED vars
  BY <1>5, StreamTick
<1>6. CASE \E stored \in 0..Len(log) : Restart(stored)
  BY <1>6, StreamRestarts
<1>7. QED
  BY <1>2, <1>3, <1>4, <1>5, <1>6 DEF Next

\* The page never counts a spot twice: what it holds, once each, whatever the order of
\* broadcasts, reconnects, resumes and restarts (the keys of ingestSpots in the dump, the
\* one place of each live message after it).
THEOREM StreamNeverDoubles == Spec => []NoDuplicates
<1>1. StreamInv => NoDuplicates
  BY DEF StreamInv
<1>2. QED
  BY <1>1, StreamInitially, StreamStep, PTL DEF Spec

\* The message at place i of the history, if it is m, comes after p - Overlap.
Behind(p, m) == \A i \in DOMAIN history : history[i] = m => p < baseSeq + i + Overlap

\* The history is in the order of its times: no sender's clock is behind.
InOrder ==
    /\ \A i, j \in DOMAIN history : i <= j => log[history[i]].t <= log[history[j]].t
    /\ \A m \in DOMAIN log : log[m].t <= clock

\* A goroutine that has not sent yet is at most MaxOvertake behind, and knows its message's number.
SenderPlaced ==
    \A b \in Broadcasters : sender[b].busy =>
        /\ highSeqLocked - sender[b].seq <= MaxOvertake
        /\ \A i \in DOMAIN history : history[i] = sender[b].msg => baseSeq + i = sender[b].seq

\* Nothing in the connection's queue is far behind p.
QueueBehind(p) ==
    /\ p <= highSeqLocked
    /\ \A m \in QueueMsgs \cup PendingMsgs : Behind(p, m)

\* The channel and the batch are in order, up to the resume overlap.
QueueOrder ==
    /\ \A k, l \in DOMAIN conn.send : k < l => Behind(conn.send[k].seq, conn.send[l].msg)
    /\ \A k \in DOMAIN conn.pending, l \in DOMAIN conn.send : Behind(conn.pending[k].seq, conn.send[l].msg)
    /\ QueueBehind(conn.maxSeq)

\* The id of a frame is not far ahead of anything sent after it.
WireOrder ==
    \A j \in DOMAIN wire :
       /\ wire[j].type = "history_end" => wire[j].id # NoId
       /\ wire[j].id # NoId =>
        /\ wire[j].id.epoch = epoch
        /\ QueueBehind(wire[j].id.seq)
        /\ \A l \in DOMAIN wire : j < l => \A m \in FrameMsgs(l) : Behind(wire[j].id.seq, m)

\* Nor is the id the page has read.
PageOrder ==
    page.phase = "live" =>
        /\ page.esId.epoch = epoch
        /\ QueueBehind(page.esId.seq)
        /\ \A l \in DOMAIN wire : \A m \in FrameMsgs(l) : Behind(page.esId.seq, m)

\* An id of this run of the server is one the server has given out.
IdKnown(id) == id.epoch <= epoch /\ (id.epoch = epoch => id.seq <= highSeqLocked)

\* The page's ids, its last id and the id in its URL.
PageIds ==
    /\ IdKnown(page.esId) /\ IdKnown(page.url.since)
    /\ page.phase \in {"live", "suspended"} => page.esId # NoId
    /\ page.esId # NoId => page.lastId = page.esId
    /\ page.phase # "off" => page.streamedFilter = page.url.filter
    /\ ~page.url.prev => page.url.since = NoId

\* The page and the handler mean the same filter, window and area.
Agreed ==
    /\ conn.open => /\ conn.filter = page.url.filter
                    /\ conn.cutoff <= clock - Minutes
                    /\ page.area = conn.radius \/ (wire # <<>> /\ wire[1].type = "area")
    /\ \A j \in DOMAIN wire : wire[j].type = "area" =>
          /\ j = 1 /\ wire[j].radius = conn.radius
          /\ page.esId # NoId /\ page.esId.epoch = epoch => conn.radius <= page.area

\* The page holds what the id it resumes from stands for.
Covers(id, filter, area) ==
    id.epoch = epoch =>
        \A i \in DOMAIN history :
            /\ baseSeq + i + Overlap <= id.seq
            /\ log[history[i]].t >= clock - Minutes
            /\ log[history[i]].kind \in filter
            /\ matchAndCreateSpot(history[i], area)
            => history[i] \in HeldSet \cup dropped

\* What a page without a live stream resumes from.
Covered ==
    /\ page.phase # "live" /\ page.esId # NoId => Covers(page.esId, page.url.filter, page.area)
    /\ page.esId = NoId /\ page.url.since # NoId =>
          Covers(page.url.since, page.url.prevFilter, page.url.prevRadius)

\* What the open stream owes the page.
Wanted ==
    {m \in Range(history) : /\ log[m].t >= conn.cutoff
                            /\ log[m].kind \in conn.filter
                            /\ matchAndCreateSpot(m, conn.radius)}

\* On the wire.
WireMsgs == UNION {FrameMsgs(j) : j \in DOMAIN wire}

\* The inductive invariant of NothingLost.
LostInv ==
    /\ StreamInv
    /\ InOrder /\ SenderPlaced /\ QueueOrder /\ WireOrder /\ PageOrder /\ PageIds /\ Agreed
    /\ Covered /\ NothingLost

\* A handler that resumes in this epoch has no wider area than the page was told of: the EventSource
\* reconnects by itself with the prev_radius of its first URL, which an area frame may have overtaken.
AreaKept == \A r \in Radii : StreamHandler(r) /\ page.esId # NoId /\ page.esId.epoch = epoch => r <= page.area

\* What is on its way is with a goroutine, in the channel, pending or on the wire.
LEMMA OnTheWayIs ==
  /\ OnTheWay = SenderMsgs \cup QueueMsgs \cup PendingMsgs \cup WireMsgs
  /\ OnTheWay' = SenderMsgs' \cup QueueMsgs' \cup PendingMsgs' \cup WireMsgs'
<1>1. \A s : Range(MsgsOf(s)) = {s[k].msg : k \in DOMAIN s}
  BY DEF Range, MsgsOf
<1>2. OnTheWay = SenderMsgs \cup QueueMsgs \cup PendingMsgs \cup WireMsgs
  BY <1>1 DEF OnTheWay, SenderMsgs, SendersHere, QueueMsgs, PendingMsgs, WireMsgs, FrameMsgs, Range
<1>3. OnTheWay' = SenderMsgs' \cup QueueMsgs' \cup PendingMsgs' \cup WireMsgs'
  BY <1>1 DEF OnTheWay, SenderMsgs, SendersHere, QueueMsgs, PendingMsgs, WireMsgs, FrameMsgs, Range
<1>4. QED
  BY <1>2, <1>3

\* NothingLost, with what the stream owes named.
LEMMA NothingLostIs ==
  /\ NothingLost <=> (conn.open => Wanted \subseteq HeldSet \cup OnTheWay \cup dropped)
  /\ NothingLost' <=> (conn'.open => Wanted' \subseteq HeldSet' \cup OnTheWay' \cup dropped')
BY DEF NothingLost, Wanted

\* The invariant holds before the first stream.
LEMMA LostInitially == Init => LostInv
<1> SUFFICES ASSUME Init PROVE LostInv
  OBVIOUS
<1>1. StreamInv
  BY StreamInitially
<1>2. history = <<>> /\ log = <<>> /\ wire = <<>> /\ DOMAIN history = {} /\ DOMAIN log = {} /\ DOMAIN wire = {} /\ baseSeq = 0
  BY DEF Init
<1>3. conn = ConnClosed /\ ~conn.open /\ conn.send = <<>> /\ conn.pending = <<>> /\ conn.maxSeq = 0
  BY DEF Init, ConnClosed
<1>4. InOrder
  BY <1>2 DEF InOrder
<1>5. SenderPlaced
  BY DEF Init, SenderPlaced, SenderIdle
<1>6. QueueMsgs = {} /\ PendingMsgs = {} /\ highSeqLocked = 0
  BY <1>2, <1>3 DEF QueueMsgs, PendingMsgs, highSeqLocked
<1>7. QueueOrder
  BY <1>2, <1>3, <1>6 DEF QueueOrder, QueueBehind
<1>8. WireOrder
  BY <1>2 DEF WireOrder
<1>9. page.phase = "off" /\ page.esId = NoId /\ page.url.since = NoId /\ page.url.prev = FALSE
  BY DEF Init
<1>10. PageOrder /\ Covered
  BY <1>9 DEF PageOrder, Covered
<1>11. PageIds
  BY <1>6, <1>9 DEF Init, PageIds, IdKnown, NoId
<1>12. Agreed /\ NothingLost
  BY <1>2, <1>3 DEF Agreed, NothingLost
<1>13. QED
  BY <1>1, <1>4, <1>5, <1>7, <1>8, <1>10, <1>11, <1>12 DEF LostInv

(***************************************************************************)
\* The hub moves on: old messages keep their places, a new one comes last.
HubMoved ==
    /\ UNCHANGED <<epoch, conn, wire, page, held, dropped, starts, breaks>>
    /\ clock <= clock' /\ highSeqLocked <= highSeqLocked'
    /\ 1..Len(log) \subseteq 1..Len(log') /\ \A m \in 1..Len(log) : log'[m] = log[m]
    /\ \A i \in DOMAIN history' :
          \/ \E j \in DOMAIN history : history[j] = history'[i] /\ baseSeq + j = baseSeq' + i
          \/ history'[i] \notin 1..Len(log) /\ highSeqLocked < baseSeq' + i

\* A message that comes after p - Overlap does so when the hub has moved on.
LEMMA BehindMoved ==
  ASSUME HubMoved, NEW p, NEW m \in 1..Len(log), Behind(p, m)
  PROVE  Behind(p, m)'
<1> SUFFICES ASSUME NEW i \in DOMAIN history', history'[i] = m
             PROVE  p < baseSeq' + i + Overlap
  BY DEF Behind
<1>1. PICK j \in DOMAIN history : history[j] = m /\ baseSeq + j = baseSeq' + i
  BY DEF HubMoved
<1>2. p < baseSeq + j + Overlap
  BY <1>1 DEF Behind
<1>3. QED
  BY <1>1, <1>2

\* Everything that is on its way was broadcast.
LEMMA InLogFacts ==
  ASSUME StreamInv
  PROVE  /\ \A k \in DOMAIN conn.send : conn.send[k].msg \in QueueMsgs /\ conn.send[k].msg \in 1..Len(log)
         /\ \A k \in DOMAIN conn.pending : conn.pending[k].msg \in PendingMsgs /\ conn.pending[k].msg \in 1..Len(log)
         /\ QueueMsgs \cup PendingMsgs \subseteq 1..Len(log)
         /\ \A j \in DOMAIN wire : \A m \in FrameMsgs(j) : m \in 1..Len(log)
<1>1. QueueMsgs \cup PendingMsgs \cup LiveMsgs \cup PastMsgs \subseteq 1..Len(log)
  BY DEF StreamInv, InLog
<1>2. \A k \in DOMAIN conn.send : conn.send[k].msg \in QueueMsgs
  BY DEF QueueMsgs
<1>3. \A k \in DOMAIN conn.pending : conn.pending[k].msg \in PendingMsgs
  BY DEF PendingMsgs
<1>4. ASSUME NEW j \in DOMAIN wire, NEW m \in FrameMsgs(j) PROVE m \in 1..Len(log)
  <2>1. wire \in Seq(Frames) /\ wire[j] \in Frames
    BY ElementOfSeq DEF StreamInv, WireType
  <2>2. wire[j].type # "spots" => FrameMsgs(j) = {}
    BY <2>1 DEF Frames, FrameMsgs
  <2>3. CASE IsEarly(wire[j])
    BY <1>1, <1>4, <2>3 DEF PastMsgs
  <2>4. CASE IsLive(wire[j])
    BY <1>1, <1>4, <2>4 DEF LiveMsgs
  <2>5. QED
    BY <1>4, <2>1, <2>2, <2>3, <2>4 DEF IsEarly, IsLive
<1>5. QED
  BY <1>1, <1>2, <1>3, <1>4

\* The numbers and the sequences of a state.
LEMMA StreamTypes ==
  ASSUME StreamInv
  PROVE  /\ highSeqLocked \in Nat /\ baseSeq \in Nat /\ epoch \in Nat \ {0} /\ clock \in Nat
         /\ Len(log) \in Nat /\ DOMAIN log = 1..Len(log)
         /\ \A m \in 1..Len(log) : log[m].t \in Int /\ log[m].kind \in Kinds
         /\ Len(history) \in Nat /\ DOMAIN history = 1..Len(history)
         /\ \A i \in DOMAIN history : history[i] \in 1..Len(log)
         /\ conn.maxSeq \in Nat /\ conn.radius \in Int /\ conn.cutoff \in Int
         /\ conn.send \in Seq(Items) /\ conn.pending \in Seq(Items)
         /\ \A k \in DOMAIN conn.send : conn.send[k].seq \in Nat /\ conn.send[k].msg \in Nat
         /\ \A k \in DOMAIN conn.pending : conn.pending[k].seq \in Nat /\ conn.pending[k].msg \in Nat
         /\ Len(wire) \in Nat /\ DOMAIN wire = 1..Len(wire) /\ \A j \in DOMAIN wire : wire[j] \in Frames
         /\ \A j \in DOMAIN wire : wire[j].id.seq \in Nat /\ wire[j].id.epoch \in Nat /\ wire[j].radius \in Int
         /\ page.phase \in Phases /\ page.area \in Int /\ page.url.prevRadius \in Int
         /\ page.esId \in Ids /\ page.lastId \in Ids /\ page.url.since \in Ids
         /\ page.esId.seq \in Nat /\ page.esId.epoch \in Nat /\ page.url.since.seq \in Nat /\ page.url.since.epoch \in Nat
         /\ Overlap \in Nat /\ Minutes \in Nat /\ MaxOvertake \in Nat
<1>1. /\ highSeqLocked \in Nat /\ baseSeq \in Nat /\ epoch \in Nat \ {0} /\ clock \in Nat
      /\ Len(log) \in Nat /\ DOMAIN log = 1..Len(log) /\ Len(history) \in Nat /\ DOMAIN history = 1..Len(history)
  BY DEF StreamInv, HubType, highSeqLocked
<1>2. \A i \in DOMAIN history : history[i] \in 1..Len(log)
  BY ElementOfSeq DEF StreamInv, HubType
<1>3. \A m \in 1..Len(log) : log[m].t \in Int /\ log[m].kind \in Kinds
  <2>1. \A m \in 1..Len(log) : log[m] \in [t : Int, kind : Kinds]
    BY ElementOfSeq DEF StreamInv, HubType
  <2>2. QED
    BY <2>1
<1>4. /\ conn.maxSeq \in Nat /\ conn.radius \in Int /\ conn.cutoff \in Int
      /\ conn.send \in Seq(Items) /\ conn.pending \in Seq(Items)
  BY DEF StreamInv, ConnType
<1>5. /\ \A k \in DOMAIN conn.send : conn.send[k].seq \in Nat /\ conn.send[k].msg \in Nat
      /\ \A k \in DOMAIN conn.pending : conn.pending[k].seq \in Nat /\ conn.pending[k].msg \in Nat
  <2>1. /\ \A k \in DOMAIN conn.send : conn.send[k] \in Items
        /\ \A k \in DOMAIN conn.pending : conn.pending[k] \in Items
    BY <1>4, ElementOfSeq
  <2>2. QED
    BY <2>1 DEF Items
<1>6. Len(wire) \in Nat /\ DOMAIN wire = 1..Len(wire) /\ \A j \in DOMAIN wire : wire[j] \in Frames
  BY ElementOfSeq DEF StreamInv, WireType
<1>7. \A j \in DOMAIN wire : wire[j].id.seq \in Nat /\ wire[j].id.epoch \in Nat /\ wire[j].radius \in Int
  BY <1>6 DEF Frames, Ids
<1>8. /\ page.phase \in Phases /\ page.area \in Int /\ page.url.prevRadius \in Int
      /\ page.esId \in Ids /\ page.lastId \in Ids /\ page.url.since \in Ids
  BY DEF StreamInv, PageType
<1>9. page.esId.seq \in Nat /\ page.esId.epoch \in Nat /\ page.url.since.seq \in Nat /\ page.url.since.epoch \in Nat
  BY <1>8 DEF Ids
<1>10. Overlap \in Nat /\ Minutes \in Nat /\ MaxOvertake \in Nat
  BY StreamConstants
<1>11. QED
  BY <1>1, <1>2, <1>3, <1>4, <1>5, <1>6, <1>7, <1>8, <1>9, <1>10

\* And so does a queue of them.
LEMMA QueueBehindMoved ==
  ASSUME StreamInv, HubMoved, highSeqLocked' \in Nat, NEW p \in Nat, QueueBehind(p)
  PROVE  QueueBehind(p)'
<1>1. p <= highSeqLocked'
  BY StreamTypes DEF HubMoved, QueueBehind
<1>2. QueueMsgs' = QueueMsgs /\ PendingMsgs' = PendingMsgs
  BY DEF HubMoved, QueueMsgs, PendingMsgs
<1>3. \A m \in QueueMsgs \cup PendingMsgs : Behind(p, m)'
  BY InLogFacts, BehindMoved DEF QueueBehind
<1>4. QED
  BY <1>1, <1>2, <1>3 DEF QueueBehind

\* What an id stands for is not more when the hub moves on.
LEMMA CoversMoved ==
  ASSUME StreamInv, HubMoved, highSeqLocked' \in Nat, clock' \in Nat, baseSeq' \in Nat, history' \in Seq(Nat),
         NEW id \in Ids, IdKnown(id), NEW F, NEW a, Covers(id, F, a)
  PROVE  Covers(id, F, a)'
<1>1. SUFFICES ASSUME id.epoch = epoch, NEW i \in DOMAIN history',
               baseSeq' + i + Overlap <= id.seq,
               log'[history'[i]].t >= clock' - Minutes,
               log'[history'[i]].kind \in F,
               Ring(log'[history'[i]].kind) <= a
             PROVE  history'[i] \in HeldSet' \cup dropped'
  BY DEF Covers, HubMoved, matchAndCreateSpot
<1>2. HeldSet' = HeldSet /\ dropped' = dropped
  BY DEF HubMoved, HeldSet
<1>3. i \in Nat /\ id.seq \in Nat /\ id.seq <= highSeqLocked
  BY <1>1 DEF IdKnown, Ids
<1>4. CASE history'[i] \notin 1..Len(log) /\ highSeqLocked < baseSeq' + i
  <2>1. \A b, k, o, s, h \in Nat : ~(h < b + k /\ b + k + o <= s /\ s <= h)
    OBVIOUS
  <2>2. Overlap \in Nat /\ highSeqLocked \in Nat
    BY StreamTypes
  <2>3. QED
    BY <1>1, <1>3, <1>4, <2>1, <2>2
<1>5. ASSUME NEW j \in DOMAIN history, history[j] = history'[i], baseSeq + j = baseSeq' + i
      PROVE  history[j] \in HeldSet \cup dropped
  <2>1. history[j] \in 1..Len(log) /\ log'[history[j]] = log[history[j]]
    BY StreamTypes DEF HubMoved
  <2>2. log[history[j]].t >= clock - Minutes
    <3>1. log[history[j]].t >= clock' - Minutes /\ clock <= clock'
      BY <1>1, <1>5, <2>1 DEF HubMoved
    <3>2. log[history[j]].t \in Int /\ clock \in Nat /\ Minutes \in Nat
      BY <2>1, StreamTypes
    <3>3. \A c, d, n \in Nat : c <= d => \A x \in Int : x >= d - n => x >= c - n
      OBVIOUS
    <3>4. QED
      BY <3>1, <3>2, <3>3
  <2>3. matchAndCreateSpot(history[j], a) /\ log[history[j]].kind \in F
    BY <1>1, <1>5, <2>1 DEF matchAndCreateSpot
  <2>4. baseSeq + j + Overlap <= id.seq
    BY <1>1, <1>5
  <2>5. QED
    BY <1>1, <2>2, <2>3, <2>4 DEF Covers
<1>6. QED
  BY <1>2, <1>4, <1>5 DEF HubMoved

\* What a step of the hub alone leaves of the invariant.
LEMMA MovedKeeps ==
  ASSUME LostInv, HubMoved, HubType'
  PROVE  QueueOrder' /\ WireOrder' /\ PageOrder' /\ PageIds' /\ Agreed' /\ Covered'
<1>1. StreamInv
  BY DEF LostInv
<1>2. highSeqLocked' \in Nat /\ clock' \in Nat /\ baseSeq' \in Nat /\ history' \in Seq(Nat) /\ highSeqLocked <= highSeqLocked'
  <2>1. /\ clock' \in Nat /\ baseSeq' \in Nat /\ history' \in Seq(1..Len(log'))
    BY DEF HubType
  <2>2. 1..Len(log') \subseteq Nat
    OBVIOUS
  <2>3. history' \in Seq(Nat) /\ Len(history') \in Nat
    BY <2>1, <2>2, WiderSeq
  <2>4. \A x, y \in Nat : x + y \in Nat
    OBVIOUS
  <2>5. QED
    BY <2>1, <2>3, <2>4 DEF highSeqLocked, HubMoved
<1>3. /\ conn' = conn /\ wire' = wire /\ page' = page /\ epoch' = epoch /\ clock <= clock'
      /\ \A j : FrameMsgs(j)' = FrameMsgs(j)
  BY DEF HubMoved, FrameMsgs
<1>4. \A p, m : m \in 1..Len(log) /\ Behind(p, m) => Behind(p, m)'
  BY BehindMoved
<1>5. \A p \in Nat : QueueBehind(p) => QueueBehind(p)'
  BY <1>1, <1>2, QueueBehindMoved
<1>6. QueueOrder'
  <2>1. \A k, l \in DOMAIN conn.send : k < l => Behind(conn.send[k].seq, conn.send[l].msg)'
    BY <1>1, <1>3, <1>4, InLogFacts DEF LostInv, QueueOrder
  <2>2. \A k \in DOMAIN conn.pending, l \in DOMAIN conn.send : Behind(conn.pending[k].seq, conn.send[l].msg)'
    BY <1>1, <1>3, <1>4, InLogFacts DEF LostInv, QueueOrder
  <2>3. QueueBehind(conn.maxSeq)'
    BY <1>1, <1>3, <1>5, StreamTypes DEF LostInv, QueueOrder
  <2>4. QED
    BY <1>3, <2>1, <2>2, <2>3 DEF QueueOrder
<1>7. WireOrder'
  <2>1. ASSUME NEW j \in DOMAIN wire, wire[j].id # NoId
        PROVE  /\ wire[j].id.epoch = epoch /\ QueueBehind(wire[j].id.seq)'
               /\ \A l \in DOMAIN wire : j < l => \A m \in FrameMsgs(l) : Behind(wire[j].id.seq, m)'
    BY <1>1, <1>3, <1>4, <1>5, <2>1, InLogFacts, StreamTypes DEF LostInv, WireOrder
  <2>2. \A j \in DOMAIN wire : wire[j].type = "history_end" => wire[j].id # NoId
    BY DEF LostInv, WireOrder
  <2>3. QED
    BY <1>3, <2>1, <2>2 DEF WireOrder
<1>8. PageOrder'
  <2>1. ASSUME page.phase = "live"
        PROVE  /\ page.esId.epoch = epoch /\ QueueBehind(page.esId.seq)'
               /\ \A l \in DOMAIN wire : \A m \in FrameMsgs(l) : Behind(page.esId.seq, m)'
    BY <1>1, <1>3, <1>4, <1>5, <2>1, InLogFacts, StreamTypes DEF LostInv, PageOrder
  <2>2. QED
    BY <1>3, <2>1 DEF PageOrder
<1>9. \A id \in Ids : IdKnown(id) => IdKnown(id)'
  <2>1. \A id \in Ids : id.seq \in Nat
    BY DEF Ids
  <2>2. \A x \in Nat : x <= highSeqLocked => x <= highSeqLocked'
    BY <1>1, <1>2, StreamTypes
  <2>3. QED
    BY <1>3, <2>1, <2>2 DEF IdKnown
<1>10. PageIds'
  <2>1. page.esId \in Ids /\ page.url.since \in Ids
    BY <1>1, StreamTypes
  <2>2. IdKnown(page.esId)' /\ IdKnown(page.url.since)'
    BY <1>3, <1>9, <2>1 DEF LostInv, PageIds
  <2>3. QED
    BY <1>3, <2>2 DEF LostInv, PageIds
<1>11. Agreed'
  <2>1. \A x \in Int : x <= clock - Minutes => x <= clock' - Minutes
    <3>1. \A c, d, n \in Nat : c <= d => \A x \in Int : x <= c - n => x <= d - n
      OBVIOUS
    <3>2. clock \in Nat /\ clock' \in Nat /\ Minutes \in Nat /\ clock <= clock'
      BY <1>1, <1>2, <1>3, StreamTypes
    <3>3. QED
      BY <3>1, <3>2
  <2>2. conn.cutoff \in Int
    BY <1>1, StreamTypes
  <2>3. QED
    BY <1>3, <2>1, <2>2 DEF LostInv, Agreed
<1>12. \A id \in Ids : \A F, a : IdKnown(id) /\ Covers(id, F, a) => Covers(id, F, a)'
  BY <1>1, <1>2, CoversMoved
<1>13. Covered'
  <2>1. page.esId \in Ids /\ page.url.since \in Ids /\ IdKnown(page.esId) /\ IdKnown(page.url.since)
    BY <1>1, StreamTypes DEF LostInv, PageIds
  <2>2. page.phase # "live" /\ page.esId # NoId => Covers(page.esId, page.url.filter, page.area)'
    BY <1>3, <1>12, <2>1 DEF LostInv, Covered
  <2>3. page.esId = NoId /\ page.url.since # NoId =>
           Covers(page.url.since, page.url.prevFilter, page.url.prevRadius)'
    BY <1>3, <1>12, <2>1 DEF LostInv, Covered
  <2>4. QED
    BY <1>3, <2>2, <2>3 DEF Covered
<1>14. QED
  BY <1>6, <1>7, <1>8, <1>10, <1>11, <1>13

\* broadcast: the message is at the end of the history and with the goroutine.
LEMMA LostBroadcast ==
  ASSUME LostInv, StreamInv', MaxLate = 0,
         NEW b \in Broadcasters, NEW k \in Kinds, NEW t \in clock - MaxLate .. clock, Broadcast(b, k, t)
  PROVE  LostInv'
<1> DEFINE n == Len(log) + 1
           s == [busy |-> TRUE, msg |-> n, seq |-> highSeqLocked + 1, to |-> connNo]
           e == [t |-> t, kind |-> k]
<1>1. StreamInv /\ HubType'
  BY DEF LostInv, StreamInv
<1>2. /\ t = clock /\ clock \in Nat /\ Len(log) \in Nat /\ Len(history) \in Nat /\ n \in Nat
      /\ DOMAIN history = 1..Len(history) /\ DOMAIN log = 1..Len(log) /\ baseSeq \in Nat /\ highSeqLocked \in Nat
      /\ highSeqLocked = baseSeq + Len(history)
  BY <1>1, StreamTypes DEF highSeqLocked
<1>3. /\ log' = Append(log, e) /\ Len(log') = n /\ DOMAIN log' = 1..n
      /\ \A m \in 1..Len(log) : log'[m] = log[m]
      /\ log'[n] = e /\ \A m \in 1..n : m \in 1..Len(log) \/ m = n
      /\ 1..Len(log) \subseteq 1..n /\ n \notin 1..Len(log)
  <2>1. log \in Seq([t : Int, kind : Kinds]) /\ e \in [t : Int, kind : Kinds] /\ log' = Append(log, e)
    BY <1>1, <1>2 DEF StreamInv, HubType, Broadcast
  <2>2. QED
    BY <1>2, <2>1, AppendOf
<1>4. /\ history' = Append(history, n) /\ DOMAIN history' = 1..(Len(history) + 1)
      /\ \A i \in 1..Len(history) : history'[i] = history[i]
      /\ history'[Len(history) + 1] = n /\ Len(history') = Len(history) + 1
      /\ \A i \in DOMAIN history' : i \in 1..Len(history) \/ i = Len(history) + 1
  <2>1. history \in Seq(Nat)
    <3>1. 1..Len(log) \subseteq Nat
      OBVIOUS
    <3>2. QED
      BY <1>1, <3>1, WiderSeq DEF StreamInv, HubType
  <2>2. history' = Append(history, n)
    BY <1>3 DEF Broadcast
  <2> HIDE DEF n
  <2>3. QED
    BY <1>2, <2>1, <2>2, AppendOf
<1>5. /\ UNCHANGED <<clock, baseSeq, epoch, conn, wire, page, held, dropped, starts, breaks>>
      /\ ~sender[b].busy /\ sender' = IF conn.open THEN [sender EXCEPT ![b] = s] ELSE sender
      /\ \A o \in Broadcasters : sender[o].busy => highSeqLocked + 1 - sender[o].seq <= MaxOvertake
  BY <1>3 DEF Broadcast
<1>6. s.busy /\ s.msg = n /\ s.seq = highSeqLocked + 1 /\ s.to = connNo
  OBVIOUS
<1>7. e.t = clock /\ e.kind = k
  BY <1>2
<1> HIDE DEF n, s, e
<1>8. highSeqLocked' = highSeqLocked + 1
  BY <1>2, <1>4, <1>5 DEF highSeqLocked
<1>9. \A i \in 1..Len(history) : history[i] \in 1..Len(log)
  BY <1>1, <1>2, StreamTypes
<1>10. HubMoved
  <2>1. ASSUME NEW i \in DOMAIN history'
        PROVE  \/ \E j \in DOMAIN history : history[j] = history'[i] /\ baseSeq + j = baseSeq' + i
               \/ history'[i] \notin 1..Len(log) /\ highSeqLocked < baseSeq' + i
    <3>1. CASE i \in 1..Len(history)
      BY <1>2, <1>4, <1>5, <3>1
    <3>2. CASE i = Len(history) + 1
      BY <1>2, <1>3, <1>4, <1>5, <3>2
    <3>3. QED
      BY <1>4, <3>1, <3>2
  <2>2. clock <= clock' /\ highSeqLocked <= highSeqLocked'
    BY <1>2, <1>5, <1>8
  <2>3. QED
    BY <1>3, <1>5, <2>1, <2>2 DEF HubMoved
<1>11. QueueOrder' /\ WireOrder' /\ PageOrder' /\ PageIds' /\ Agreed' /\ Covered'
  BY <1>1, <1>10, MovedKeeps
<1>12. InOrder'
  <2>1. \A m \in 1..n : log'[m].t <= clock
    BY <1>2, <1>3, <1>7 DEF LostInv, InOrder
  <2>2. ASSUME NEW i \in DOMAIN history', NEW j \in DOMAIN history', i <= j
        PROVE  log'[history'[i]].t <= log'[history'[j]].t
    <3>1. CASE j = Len(history) + 1
      <4>1. log'[history'[j]].t = clock
        BY <1>3, <1>4, <1>7, <3>1
      <4>2. history'[i] \in 1..n
        BY <1>2, <1>3, <1>4, <1>9
      <4>3. QED
        BY <2>1, <4>1, <4>2
    <3>2. CASE j \in 1..Len(history)
      <4>1. i \in 1..Len(history)
        BY <1>2, <1>4, <2>2, <3>2
      <4>2. log[history[i]].t <= log[history[j]].t
        BY <1>2, <2>2, <3>2, <4>1 DEF LostInv, InOrder
      <4>3. log'[history[i]] = log[history[i]] /\ log'[history[j]] = log[history[j]]
        BY <1>3, <1>9, <3>2, <4>1
      <4>4. QED
        BY <1>4, <3>2, <4>1, <4>2, <4>3
    <3>3. QED
      BY <1>4, <3>1, <3>2
  <2>3. QED
    BY <1>3, <1>5, <2>1, <2>2 DEF InOrder
<1>13. /\ sender \in [Broadcasters -> [busy : BOOLEAN, msg : Nat, seq : Nat, to : Nat]]
       /\ \A c \in Broadcasters : sender[c].seq \in Nat
  BY <1>1 DEF StreamInv, SenderType
<1>14. \A c \in Broadcasters : \/ sender'[c] = sender[c] /\ (c = b => ~conn.open)
                               \/ c = b /\ sender'[c] = s /\ conn.open
  BY <1>5, <1>13
<1>15. SenderPlaced'
  <2>1. ASSUME NEW c \in Broadcasters, sender'[c].busy
        PROVE  /\ highSeqLocked' - sender'[c].seq <= MaxOvertake
               /\ \A i \in DOMAIN history' : history'[i] = sender'[c].msg => baseSeq' + i = sender'[c].seq
    <3>1. CASE sender'[c] = sender[c]
      <4>1. highSeqLocked' - sender'[c].seq <= MaxOvertake
        <5>1. sender[c].busy /\ sender'[c].seq = sender[c].seq
          BY <2>1, <3>1
        <5>2. highSeqLocked + 1 - sender[c].seq <= MaxOvertake
          BY <1>5, <5>1
        <5>3. \A h, x \in Nat : \A y : h + 1 - x <= MaxOvertake /\ y = h + 1 => y - x <= MaxOvertake
          OBVIOUS
        <5>4. highSeqLocked \in Nat /\ sender[c].seq \in Nat
          BY <1>2, <1>13
        <5>5. highSeqLocked' - sender[c].seq <= MaxOvertake
          BY <1>8, <5>2, <5>3, <5>4
        <5>6. QED
          BY <5>1, <5>5
      <4>2. sender[c].msg \in 1..Len(log)
        BY <1>1, <2>1, <3>1 DEF StreamInv, InLog
      <4>3. \A i \in DOMAIN history' : history'[i] = sender[c].msg => i \in 1..Len(history) /\ history[i] = sender[c].msg
        BY <1>3, <1>4, <4>2
      <4>4. QED
        BY <1>2, <1>5, <2>1, <3>1, <4>1, <4>3 DEF LostInv, SenderPlaced
    <3>2. CASE c = b /\ sender'[c] = s
      <4>1. highSeqLocked' - sender'[c].seq <= MaxOvertake
        <5>1. \A h \in Nat : (h + 1) - (h + 1) = 0
          OBVIOUS
        <5>2. highSeqLocked' - sender'[c].seq = 0
          BY <1>2, <1>6, <1>8, <3>2, <5>1
        <5>3. 0 <= MaxOvertake
          BY <1>1, StreamTypes
        <5>4. QED
          BY <5>2, <5>3
      <4>2. \A i \in DOMAIN history' : history'[i] = n => i = Len(history) + 1
        BY <1>3, <1>4, <1>9
      <4>3. QED
        BY <1>2, <1>5, <1>6, <3>2, <4>1, <4>2
    <3>3. QED
      BY <1>14, <3>1, <3>2
  <2>2. QED
    BY <2>1 DEF SenderPlaced
<1>16. NothingLost'
  <2>1. SUFFICES ASSUME conn.open PROVE Wanted' \subseteq HeldSet' \cup OnTheWay' \cup dropped'
    BY <1>5, NothingLostIs
  <2>2. Wanted' \subseteq Wanted \cup {n}
    <3>1. ASSUME NEW m \in Wanted', m # n PROVE m \in Wanted
      <4>1. m \in Range(history')
        BY DEF Wanted
      <4>2. PICK i \in DOMAIN history' : m = history'[i]
        BY <4>1 DEF Range
      <4>3. i \in DOMAIN history /\ m = history[i] /\ m \in 1..Len(log)
        BY <1>2, <1>4, <1>9, <3>1, <4>2
      <4>4. m \in Range(history) /\ log'[m] = log[m]
        BY <1>3, <4>3 DEF Range
      <4>5. QED
        BY <1>5, <4>4 DEF Wanted, matchAndCreateSpot
    <3>2. QED
      BY <3>1
  <2>3. connNo' = connNo
    BY <1>5 DEF connNo
  <2>4. \A c \in SendersHere : c \in SendersHere' /\ sender'[c] = sender[c]
    BY <1>5, <1>14, <2>3 DEF SendersHere
  <2>5. b \in SendersHere' /\ sender'[b].msg = n
    BY <1>6, <1>14, <2>1, <2>3 DEF SendersHere
  <2>6. SenderMsgs \subseteq SenderMsgs' /\ n \in SenderMsgs'
    BY <2>4, <2>5 DEF SenderMsgs
  <2>7. QueueMsgs' = QueueMsgs /\ PendingMsgs' = PendingMsgs /\ WireMsgs' = WireMsgs /\ HeldSet' = HeldSet /\ dropped' = dropped
    BY <1>5 DEF QueueMsgs, PendingMsgs, WireMsgs, FrameMsgs, HeldSet
  <2>8. Wanted \subseteq HeldSet \cup OnTheWay \cup dropped
    BY <2>1, NothingLostIs DEF LostInv
  <2>9. QED
    BY <2>2, <2>6, <2>7, <2>8, OnTheWayIs
<1>17. QED
  BY <1>11, <1>12, <1>15, <1>16 DEF LostInv

\* The prune removes only what is older than any window.
LEMMA LostPrune ==
  ASSUME LostInv, StreamInv', pruneLiveHistory
  PROVE  LostInv'
<1> DEFINE n == sortSearch(clock - Retention)
<1>1. StreamInv /\ HubType'
  BY DEF LostInv, StreamInv
<1>2. n \in 0..Len(history) /\ Len(history) \in Nat /\ baseSeq \in Nat /\ DOMAIN history = 1..Len(history)
  <2>1. clock - Retention \in Int
    BY <1>1, StreamTypes, StreamConstants
  <2>2. QED
    BY <1>1, <2>1, SkipInRange, StreamTypes
<1> HIDE DEF n
<1>3. /\ history' = SubSeq(history, n + 1, Len(history)) /\ baseSeq' = baseSeq + n
      /\ UNCHANGED <<clock, log, epoch, sender, conn, wire, page, held, dropped, starts, breaks>>
  BY DEF pruneLiveHistory, dropFrontLocked, n
<1>4. /\ Len(history') = Len(history) - n
      /\ \A i \in 1..(Len(history) - n) : i + n \in DOMAIN history /\ history'[i] = history[i + n]
      /\ history' \in Seq(1..Len(log))
  BY <1>1, <1>2, <1>3, DropOf DEF StreamInv, HubType
<1>5. DOMAIN history' = 1..(Len(history) - n)
  BY <1>4
<1>6. highSeqLocked' = highSeqLocked
  <2>1. highSeqLocked' = (baseSeq + n) + (Len(history) - n)
    BY <1>3, <1>4 DEF highSeqLocked
  <2>2. QED
    BY <1>2, <2>1 DEF highSeqLocked
<1>7. \A i \in DOMAIN history' : i + n \in DOMAIN history /\ history'[i] = history[i + n] /\ baseSeq + (i + n) = baseSeq' + i
  <2>1. \A x, y, z \in Nat : x + (z + y) = (x + y) + z
    OBVIOUS
  <2>2. \A i \in DOMAIN history' : i \in Nat /\ i \in 1..(Len(history) - n)
    BY <1>2, <1>5
  <2>3. n \in Nat
    BY <1>2
  <2>4. QED
    BY <1>2, <1>3, <1>4, <2>1, <2>2, <2>3
<1>8. HubMoved
  <2>1. clock <= clock' /\ highSeqLocked <= highSeqLocked'
    <3>1. \A x \in Nat : x <= x
      OBVIOUS
    <3>2. clock \in Nat /\ highSeqLocked \in Nat
      BY <1>1, StreamTypes
    <3>3. QED
      BY <1>3, <1>6, <3>1, <3>2
  <2>2. \A i \in DOMAIN history' : \E j \in DOMAIN history : history[j] = history'[i] /\ baseSeq + j = baseSeq' + i
    BY <1>7
  <2>3. QED
    BY <1>3, <2>1, <2>2 DEF HubMoved
<1>9. QueueOrder' /\ WireOrder' /\ PageOrder' /\ PageIds' /\ Agreed' /\ Covered'
  BY <1>1, <1>8, MovedKeeps
<1>10. InOrder'
  <2>1. ASSUME NEW i \in DOMAIN history', NEW j \in DOMAIN history', i <= j
        PROVE  log[history'[i]].t <= log[history'[j]].t
    <3>1. i + n \in DOMAIN history /\ j + n \in DOMAIN history /\ history'[i] = history[i + n] /\ history'[j] = history[j + n]
      BY <1>7
    <3>2. i + n <= j + n
      BY <1>2, <1>5, <2>1
    <3>3. QED
      BY <3>1, <3>2 DEF LostInv, InOrder
  <2>2. QED
    BY <1>3, <2>1 DEF LostInv, InOrder
<1>11. SenderPlaced'
  BY <1>3, <1>6, <1>7 DEF LostInv, SenderPlaced
<1>12. NothingLost'
  <2>1. \A i \in DOMAIN history' : history'[i] \in Range(history)
    BY <1>7 DEF Range
  <2>2. Range(history') \subseteq Range(history)
    BY <2>1 DEF Range
  <2>3. Wanted' \subseteq Wanted
    BY <1>3, <2>2 DEF Wanted, matchAndCreateSpot
  <2>4. OnTheWay' = OnTheWay /\ HeldSet' = HeldSet
    BY <1>3 DEF OnTheWay, MsgsOf, connNo, HeldSet
  <2>5. QED
    BY <1>3, <2>3, <2>4, NothingLostIs DEF LostInv
<1>13. QED
  BY <1>9, <1>10, <1>11, <1>12 DEF LostInv

\* The clock only narrows the window.
LEMMA LostTick ==
  ASSUME LostInv, StreamInv', Tick \/ UNCHANGED vars
  PROVE  LostInv'
<1>1. StreamInv /\ HubType'
  BY DEF LostInv, StreamInv
<1>2. /\ UNCHANGED <<log, history, baseSeq, epoch, sender, conn, wire, page, held, dropped, starts, breaks>>
      /\ clock' = clock \/ clock' = clock + 1
  BY DEF Tick, vars, hubVars
<1>3. highSeqLocked' = highSeqLocked
  BY <1>2 DEF highSeqLocked
<1>4. clock <= clock' /\ highSeqLocked <= highSeqLocked' /\ clock \in Nat
  <2>1. \A x \in Nat : x <= x /\ x <= x + 1
    OBVIOUS
  <2>2. clock \in Nat /\ highSeqLocked \in Nat
    BY <1>1, StreamTypes
  <2>3. QED
    BY <1>2, <1>3, <2>1, <2>2
<1>5. HubMoved
  BY <1>2, <1>4 DEF HubMoved
<1>6. QueueOrder' /\ WireOrder' /\ PageOrder' /\ PageIds' /\ Agreed' /\ Covered'
  BY <1>1, <1>5, MovedKeeps
<1>7. InOrder'
  <2>1. \A m \in DOMAIN log : log[m].t \in Int /\ log[m].t <= clock
    BY <1>1, StreamTypes DEF LostInv, InOrder
  <2>2. \A m \in DOMAIN log : log[m].t <= clock'
    BY <1>2, <1>4, <2>1
  <2>3. QED
    BY <1>2, <2>2 DEF LostInv, InOrder
<1>8. SenderPlaced'
  BY <1>2, <1>3 DEF LostInv, SenderPlaced
<1>9. NothingLost'
  BY <1>2 DEF LostInv, NothingLost, OnTheWay, MsgsOf, connNo, HeldSet, matchAndCreateSpot
<1>10. QED
  BY <1>6, <1>7, <1>8, <1>9 DEF LostInv

\* What a step that leaves the hub alone does not change.
LEMMA StillHub ==
  ASSUME UNCHANGED <<clock, log, hubVars>>
  PROVE  /\ highSeqLocked' = highSeqLocked
         /\ \A p, m : Behind(p, m)' <=> Behind(p, m)
         /\ \A id : IdKnown(id)' <=> IdKnown(id)
         /\ InOrder => InOrder'
         /\ sender' = sender /\ SenderPlaced => SenderPlaced'
         /\ HeldSet \cup dropped \subseteq HeldSet' \cup dropped' =>
               \A id, F, a : Covers(id, F, a) => Covers(id, F, a)'
<1>1. UNCHANGED <<clock, log, history, baseSeq, epoch>>
  BY DEF hubVars
<1>2. highSeqLocked' = highSeqLocked
  BY <1>1 DEF highSeqLocked
<1>3. \A p, m : Behind(p, m)' <=> Behind(p, m)
  BY <1>1 DEF Behind
<1>4. \A id : IdKnown(id)' <=> IdKnown(id)
  BY <1>1, <1>2 DEF IdKnown
<1>5. InOrder => InOrder'
  BY <1>1 DEF InOrder
<1>6. sender' = sender /\ SenderPlaced => SenderPlaced'
  BY <1>1, <1>2 DEF SenderPlaced
<1>7. ASSUME HeldSet \cup dropped \subseteq HeldSet' \cup dropped', NEW id, NEW F, NEW a, Covers(id, F, a)
      PROVE  Covers(id, F, a)'
  BY <1>1, <1>7 DEF Covers, matchAndCreateSpot
<1>8. QED
  BY <1>2, <1>3, <1>4, <1>5, <1>6, <1>7

\* A message whose send is still to come is never left behind by a resume.
LEMMA SenderBehind ==
  ASSUME LostInv, MaxOvertake < Overlap, NEW b \in Broadcasters, sender[b].busy,
         NEW p \in Nat, p <= highSeqLocked
  PROVE  Behind(p, sender[b].msg)
<1>1. StreamInv
  BY DEF LostInv
<1>2. sender[b].seq \in Nat /\ highSeqLocked \in Nat /\ baseSeq \in Nat /\ Overlap \in Nat /\ MaxOvertake \in Nat
  BY <1>1, StreamTypes DEF StreamInv, SenderType
<1>3. highSeqLocked - sender[b].seq <= MaxOvertake
  BY DEF LostInv, SenderPlaced
<1>4. p < sender[b].seq + Overlap
  BY <1>2, <1>3
<1>5. \A i \in DOMAIN history : history[i] = sender[b].msg => baseSeq + i = sender[b].seq
  BY DEF LostInv, SenderPlaced
<1>6. QED
  BY <1>4, <1>5 DEF Behind

\* What safeSend does: nothing, a push or a drop.
LEMMA SafeSends ==
  ASSUME StreamInv, NEW b \in Broadcasters, SafeSend(b)
  PROVE  LET x == sender[b].msg
         IN  /\ sender[b].busy /\ sender' = [sender EXCEPT ![b] = SenderIdle]
             /\ \A c \in Broadcasters : c # b => sender'[c] = sender[c]
             /\ ~sender'[b].busy /\ connNo' = connNo
             /\ conn'.pending = conn.pending /\ conn'.open = conn.open /\ conn'.maxSeq = conn.maxSeq
             /\ conn'.radius = conn.radius /\ conn'.filter = conn.filter /\ conn'.cutoff = conn.cutoff
             /\ \/ /\ conn' = conn /\ dropped' = dropped
                   /\ b \in SendersHere => ~matchAndCreateSpot(x, conn.radius)
                \/ /\ b \in SendersHere /\ conn' = conn /\ dropped' = dropped \cup {x}
                \/ /\ b \in SendersHere /\ dropped' = dropped
                   /\ conn'.send = Append(conn.send, [msg |-> x, seq |-> sender[b].seq])
<1>1. /\ sender \in [Broadcasters -> [busy : BOOLEAN, msg : Nat, seq : Nat, to : Nat]]
      /\ sender[b].busy /\ sender' = [sender EXCEPT ![b] = SenderIdle]
  BY DEF StreamInv, SenderType, SafeSend
<1>2. conn \in [open : BOOLEAN, filter : SUBSET Kinds, radius : Int, cutoff : Int,
              send : Seq(Items), pending : Seq(Items), maxSeq : Nat]
  BY DEF StreamInv, ConnType
<1>3. \A c \in Broadcasters : c # b => sender'[c] = sender[c]
  BY <1>1
<1>4. ~sender'[b].busy
  BY <1>1 DEF SenderIdle
<1>5. connNo' = connNo
  BY DEF SafeSend, connNo
<1> DEFINE it == [msg |-> sender[b].msg, seq |-> sender[b].seq]
<1> HIDE DEF it
<1>6. CASE ~conn.open \/ sender[b].to # connNo \/ ~matchAndCreateSpot(sender[b].msg, conn.radius)
  BY <1>1, <1>3, <1>4, <1>5, <1>6 DEF SafeSend, SendersHere, Connected, StreamInv
<1>7. CASE ~(~conn.open \/ sender[b].to # connNo \/ ~matchAndCreateSpot(sender[b].msg, conn.radius))
  <2>1. b \in SendersHere
    BY <1>1, <1>7 DEF SendersHere
  <2>2. CASE Len(conn.send) < Buffer
    <3>1. conn' = [conn EXCEPT !.send = Append(@, it)] /\ dropped' = dropped
      BY <1>7, <2>2 DEF SafeSend, it
    <3>2. /\ conn'.send = Append(conn.send, it)
          /\ conn'.pending = conn.pending /\ conn'.open = conn.open /\ conn'.maxSeq = conn.maxSeq
          /\ conn'.radius = conn.radius /\ conn'.filter = conn.filter /\ conn'.cutoff = conn.cutoff
      BY <1>2, <3>1
    <3>3. QED
      BY <1>1, <1>3, <1>4, <1>5, <2>1, <3>1, <3>2 DEF it
  <2>3. CASE ~(Len(conn.send) < Buffer)
    BY <1>1, <1>3, <1>4, <1>5, <1>7, <2>1, <2>3 DEF SafeSend
  <2>4. QED
    BY <2>2, <2>3
<1>8. QED
  BY <1>6, <1>7

\* safeSend: the message goes to the channel, at most MaxOvertake places out of order, or is dropped.
LEMMA LostSafeSend ==
  ASSUME LostInv, StreamInv', MaxOvertake < Overlap, NEW b \in Broadcasters, SafeSend(b)
  PROVE  LostInv'
<1> DEFINE x == sender[b].msg
           it == [msg |-> x, seq |-> sender[b].seq]
<1>1. StreamInv
  BY DEF LostInv
<1>2. /\ sender[b].busy /\ ~sender'[b].busy /\ connNo' = connNo
      /\ \A c \in Broadcasters : c # b => sender'[c] = sender[c]
      /\ conn'.pending = conn.pending /\ conn'.open = conn.open /\ conn'.maxSeq = conn.maxSeq
      /\ conn'.radius = conn.radius /\ conn'.filter = conn.filter /\ conn'.cutoff = conn.cutoff
      /\ \/ /\ conn' = conn /\ dropped' = dropped
            /\ b \in SendersHere => ~matchAndCreateSpot(x, conn.radius)
         \/ b \in SendersHere /\ conn' = conn /\ dropped' = dropped \cup {x}
         \/ b \in SendersHere /\ dropped' = dropped /\ conn'.send = Append(conn.send, it)
  BY <1>1, SafeSends
<1>3. it \in Items /\ it.msg = x /\ it.seq = sender[b].seq /\ sender[b].seq \in Nat
  BY <1>1 DEF StreamInv, SenderType, Items
<1>4. UNCHANGED <<clock, log, hubVars, wire, page, held>>
  BY DEF SafeSend
<1> HIDE DEF x, it
<1>5. /\ \A p, m : Behind(p, m)' <=> Behind(p, m)
      /\ highSeqLocked' = highSeqLocked /\ InOrder'
      /\ \A id : IdKnown(id)' <=> IdKnown(id)
      /\ \A j : FrameMsgs(j)' = FrameMsgs(j)
      /\ PendingMsgs' = PendingMsgs /\ HeldSet' = HeldSet
  BY <1>2, <1>4, StillHub DEF LostInv, FrameMsgs, PendingMsgs, HeldSet
<1>6. \A k \in DOMAIN conn'.send :
          \/ k \in DOMAIN conn.send /\ conn'.send[k] = conn.send[k]
          \/ k = Len(conn.send) + 1 /\ conn'.send[k] = it
  <2>1. CASE conn' = conn
    BY <2>1
  <2>2. CASE conn'.send = Append(conn.send, it)
    <3> DEFINE q == conn.send
    <3>1. q \in Seq(Items) /\ conn'.send = Append(q, it)
      BY <1>1, <2>2, StreamTypes
    <3> HIDE DEF q
    <3>2. /\ DOMAIN q = 1..Len(q) /\ conn'.send[Len(q) + 1] = it
          /\ \A k \in 1..Len(q) : conn'.send[k] = q[k]
          /\ \A k \in DOMAIN conn'.send : k \in DOMAIN q \/ k = Len(q) + 1
      BY <1>3, <3>1, AppendOf
    <3>3. QED
      BY <3>2 DEF q
  <2>3. QED
    BY <1>2, <2>1, <2>2
<1>7. QueueMsgs' \subseteq QueueMsgs \cup {x}
  BY <1>3, <1>6 DEF QueueMsgs
<1>8. \A p \in Nat : p <= highSeqLocked => Behind(p, x)
  BY <1>2, SenderBehind DEF x
<1>9. \A p \in Nat : QueueBehind(p) => QueueBehind(p)'
  BY <1>5, <1>7, <1>8 DEF QueueBehind
<1>10. QueueOrder'
  <2>1. ASSUME NEW k \in DOMAIN conn'.send, NEW l \in DOMAIN conn'.send, k < l
        PROVE  Behind(conn'.send[k].seq, conn'.send[l].msg)
    <3>1. k \in DOMAIN conn.send /\ conn'.send[k] = conn.send[k]
      <4>1. conn.send \in Seq(Items) /\ Len(conn.send) \in Nat /\ DOMAIN conn.send = 1..Len(conn.send)
        <5>1. conn.send \in Seq(Items)
          BY <1>1, StreamTypes
        <5>2. \A q \in Seq(Items) : Len(q) \in Nat /\ DOMAIN q = 1..Len(q)
          OBVIOUS
        <5>3. QED
          BY <5>1, <5>2
      <4>2. CASE k = Len(conn.send) + 1
        <5>1. l \in 1..Len(conn.send) \/ l = Len(conn.send) + 1
          BY <1>6, <4>1
        <5>2. QED
          BY <2>1, <4>1, <4>2, <5>1
      <4>3. QED
        BY <1>6, <4>2
    <3>2. conn.send[k].seq \in Nat /\ conn.send[k].seq <= highSeqLocked
      BY <1>1, <3>1, StreamTypes DEF StreamInv, Bounded
    <3>3. CASE l \in DOMAIN conn.send /\ conn'.send[l] = conn.send[l]
      BY <2>1, <3>1, <3>3 DEF LostInv, QueueOrder
    <3>4. CASE conn'.send[l] = it
      BY <1>3, <1>8, <3>1, <3>2, <3>4
    <3>5. QED
      BY <1>6, <3>3, <3>4
  <2>2. ASSUME NEW k \in DOMAIN conn.pending, NEW l \in DOMAIN conn'.send
        PROVE  Behind(conn.pending[k].seq, conn'.send[l].msg)
    <3>1. conn.pending[k].seq \in Nat /\ conn.pending[k].seq <= highSeqLocked
      BY <1>1, StreamTypes DEF StreamInv, Bounded
    <3>2. QED
      BY <1>3, <1>6, <1>8, <3>1 DEF LostInv, QueueOrder
  <2>3. QueueBehind(conn.maxSeq)'
    <3>1. conn.maxSeq \in Nat /\ QueueBehind(conn.maxSeq)
      BY <1>1, StreamTypes DEF LostInv, QueueOrder
    <3>2. \A p : p = conn.maxSeq => QueueBehind(p)'
      BY <1>9, <3>1
    <3>3. QED
      BY <1>2, <3>2 DEF QueueBehind
  <2>4. QED
    BY <1>2, <1>5, <2>1, <2>2, <2>3 DEF QueueOrder
<1>11. WireOrder'
  <2>1. \A j \in DOMAIN wire : wire[j].id # NoId => QueueBehind(wire[j].id.seq)'
    <3>1. \A j \in DOMAIN wire : wire[j].id.seq \in Nat
      BY <1>1, StreamTypes
    <3>2. QED
      BY <1>4, <1>9, <3>1 DEF LostInv, WireOrder
  <2>2. QED
    BY <1>4, <1>5, <2>1 DEF LostInv, WireOrder, hubVars
<1>12. PageOrder'
  <2>1. page.phase = "live" => QueueBehind(page.esId.seq)'
    BY <1>1, <1>4, <1>9, StreamTypes DEF LostInv, PageOrder
  <2>2. QED
    BY <1>4, <1>5, <2>1 DEF LostInv, PageOrder, hubVars
<1>13. SenderPlaced'
  BY <1>2, <1>4, <1>5 DEF LostInv, SenderPlaced, hubVars
<1>14. PageIds' /\ Agreed'
  BY <1>2, <1>4, <1>5 DEF LostInv, PageIds, Agreed, hubVars
<1>15. Covered'
  <2>1. HeldSet \cup dropped \subseteq HeldSet' \cup dropped'
    BY <1>2, <1>5
  <2>2. \A id, F, a : Covers(id, F, a) => Covers(id, F, a)'
    BY <1>4, <2>1, StillHub
  <2>3. QED
    BY <1>4, <2>2 DEF LostInv, Covered
<1>16. NothingLost'
  <2>1. SUFFICES ASSUME conn.open PROVE Wanted' \subseteq HeldSet' \cup OnTheWay' \cup dropped'
    BY <1>2, NothingLostIs
  <2>2. Wanted' = Wanted
    BY <1>2, <1>4 DEF Wanted, matchAndCreateSpot, hubVars
  <2>3. Wanted \subseteq HeldSet \cup OnTheWay \cup dropped
    BY <2>1, NothingLostIs DEF LostInv
  <2>4. SenderMsgs \subseteq SenderMsgs' \cup {x}
    <3>1. \A c \in SendersHere : c # b => c \in SendersHere' /\ sender'[c] = sender[c]
      BY <1>2 DEF SendersHere
    <3>2. QED
      BY <3>1 DEF SenderMsgs, x
  <2>5. b \notin SendersHere => SenderMsgs \subseteq SenderMsgs'
    <3>1. \A c \in SendersHere : c # b => c \in SendersHere' /\ sender'[c] = sender[c]
      BY <1>2 DEF SendersHere
    <3>2. QED
      BY <3>1 DEF SenderMsgs
  <2>6. QueueMsgs \subseteq QueueMsgs'
    <3>1. CASE conn' = conn
      BY <3>1 DEF QueueMsgs
    <3>2. CASE conn'.send = Append(conn.send, it)
      <4> DEFINE q == conn.send
      <4>1. q \in Seq(Items) /\ conn'.send = Append(q, it)
        BY <1>1, <3>2, StreamTypes
      <4> HIDE DEF q
      <4>2. \A k \in DOMAIN q : k \in DOMAIN conn'.send /\ conn'.send[k] = q[k]
        BY <1>3, <4>1, AppendOf
      <4>3. QED
        BY <4>2 DEF QueueMsgs, q
    <3>3. QED
      BY <1>2, <3>1, <3>2
  <2>7. WireMsgs' = WireMsgs /\ dropped \subseteq dropped'
    BY <1>2, <1>4 DEF WireMsgs, FrameMsgs
  <2>8. x \in QueueMsgs' \cup dropped' \/ b \notin SendersHere \/ ~matchAndCreateSpot(x, conn.radius)
    <3>1. CASE conn'.send = Append(conn.send, it)
      <4> DEFINE q == conn.send
      <4>1. q \in Seq(Items) /\ conn'.send = Append(q, it)
        BY <1>1, <3>1, StreamTypes
      <4> HIDE DEF q
      <4>2. Len(q) + 1 \in DOMAIN conn'.send /\ conn'.send[Len(q) + 1] = it
        BY <1>3, <4>1, AppendOf
      <4>3. QED
        BY <1>3, <4>2 DEF QueueMsgs
    <3>2. QED
      BY <1>2, <3>1
  <2>9. ~matchAndCreateSpot(x, conn.radius) => x \notin Wanted
    BY DEF Wanted
  <2>10. QED
    BY <1>5, <2>2, <2>3, <2>4, <2>5, <2>6, <2>7, <2>8, <2>9, OnTheWayIs
<1>17. QED
  BY <1>5, <1>10, <1>11, <1>12, <1>13, <1>14, <1>15, <1>16 DEF LostInv

\* While the stream is live the page holds everything its last id stands for.
LEMMA LiveCovers ==
  ASSUME LostInv, MaxOvertake < Overlap, page.phase = "live"
  PROVE  page.esId # NoId /\ Covers(page.esId, page.url.filter, page.area)
<1>1. StreamInv
  BY DEF LostInv
<1>2. page.esId # NoId /\ conn.open /\ conn.filter = page.url.filter /\ conn.cutoff <= clock - Minutes
  BY <1>1 DEF LostInv, PageIds, StreamInv, Connected, Agreed
<1>3. page.area = conn.radius
  <2>1. PICK e \in 0..Len(wire) : e = 0 /\ \A j \in DOMAIN wire : j > e => IsLive(wire[j])
    BY <1>1, <1>2 DEF StreamInv, Framed
  <2>2. wire # <<>> => 1 \in DOMAIN wire /\ IsLive(wire[1])
    <3>1. wire # <<>> => 1 \in DOMAIN wire
      BY <1>1, TailOf DEF StreamInv, WireType
    <3>2. QED
      BY <2>1, <3>1
  <2>3. QED
    BY <1>2, <2>2 DEF LostInv, Agreed, IsLive
<1>4. page.esId.seq \in Nat /\ page.esId.seq <= highSeqLocked
  BY <1>1, StreamTypes DEF LostInv, PageOrder, QueueBehind
<1>5. \A m \in SenderMsgs : Behind(page.esId.seq, m)
  <2>1. \A b \in Broadcasters : sender[b].busy => Behind(page.esId.seq, sender[b].msg)
    BY <1>4, SenderBehind
  <2>2. QED
    BY <2>1 DEF SenderMsgs, SendersHere
<1>6. \A m \in QueueMsgs \cup PendingMsgs \cup WireMsgs : Behind(page.esId.seq, m)
  BY DEF LostInv, PageOrder, QueueBehind, WireMsgs
<1>7. ASSUME NEW i \in DOMAIN history,
             baseSeq + i + Overlap <= page.esId.seq,
             log[history[i]].t >= clock - Minutes,
             log[history[i]].kind \in page.url.filter,
             matchAndCreateSpot(history[i], page.area)
      PROVE  history[i] \in HeldSet \cup dropped
  <2>1. log[history[i]].t >= conn.cutoff
    <3>1. log[history[i]].t \in Int /\ conn.cutoff \in Int /\ clock - Minutes \in Int
      <4>1. history[i] \in 1..Len(log)
        BY <1>1, StreamTypes
      <4>2. log[history[i]].t \in Int
        BY <1>1, <4>1, StreamTypes
      <4>3. conn.cutoff \in Int /\ clock \in Nat /\ Minutes \in Nat
        BY <1>1, StreamTypes
      <4>4. QED
        BY <4>2, <4>3
    <3>2. QED
      BY <1>2, <1>7, <3>1
  <2>2. history[i] \in Wanted
    BY <1>2, <1>3, <1>7, <2>1 DEF Wanted, Range
  <2>3. history[i] \in HeldSet \cup OnTheWay \cup dropped
    BY <1>2, <2>2, NothingLostIs DEF LostInv
  <2>4. ~ Behind(page.esId.seq, history[i])
    <3>1. \A x, y \in Nat : x <= y => ~(y < x)
      OBVIOUS
    <3>2. baseSeq + i + Overlap \in Nat
      <4>1. baseSeq \in Nat /\ i \in Nat /\ Overlap \in Nat
        BY <1>1, StreamTypes
      <4>2. QED
        BY <4>1
    <3>3. ~(page.esId.seq < baseSeq + i + Overlap)
      BY <1>4, <1>7, <3>1, <3>2
    <3>4. QED
      BY <3>3 DEF Behind
  <2>5. history[i] \notin OnTheWay
    BY <1>5, <1>6, <2>4, OnTheWayIs
  <2>6. QED
    BY <2>3, <2>5
<1>8. Covers(page.esId, page.url.filter, page.area)
  BY <1>7 DEF Covers
<1>9. QED
  BY <1>2, <1>8

\* A closed connection owes nothing; what is left is what the page will ask for.
LEMMA LostClosed ==
  ASSUME LostInv, StreamInv', UNCHANGED <<clock, log, hubVars, sender>>, conn' = ConnClosed, wire' = <<>>,
         page'.phase # "live", PageIds', Covered'
  PROVE  LostInv'
<1>1. /\ ~conn'.open /\ conn'.send = <<>> /\ conn'.pending = <<>> /\ conn'.maxSeq = 0
      /\ DOMAIN conn'.send = {} /\ DOMAIN conn'.pending = {} /\ DOMAIN wire' = {}
  BY DEF ConnClosed
<1>2. InOrder' /\ SenderPlaced' /\ highSeqLocked' = highSeqLocked
  BY StillHub DEF LostInv
<1>3. QueueMsgs' = {} /\ PendingMsgs' = {}
  BY <1>1 DEF QueueMsgs, PendingMsgs
<1>4. 0 <= highSeqLocked
  BY StreamTypes DEF LostInv
<1>5. QueueOrder'
  BY <1>1, <1>2, <1>3, <1>4 DEF QueueOrder, QueueBehind
<1>6. WireOrder' /\ PageOrder' /\ Agreed' /\ NothingLost'
  BY <1>1 DEF WireOrder, PageOrder, Agreed, NothingLost
<1>7. QED
  BY <1>2, <1>5, <1>6 DEF LostInv

\* A broken connection: the page resumes from the id it has read.
LEMMA LostBreak ==
  ASSUME LostInv, StreamInv', MaxOvertake < Overlap, Break
  PROVE  LostInv'
<1>1. /\ page.phase \in {"loading", "live"} /\ page' = [page EXCEPT !.phase = "connecting"]
      /\ conn' = ConnClosed /\ wire' = <<>> /\ UNCHANGED <<clock, log, hubVars, sender, held, dropped>>
  BY DEF Break, Reconnects
<1>2. /\ page'.phase = "connecting" /\ page'.esId = page.esId /\ page'.lastId = page.lastId
      /\ page'.url = page.url /\ page'.area = page.area /\ page'.streamedFilter = page.streamedFilter
  BY <1>1 DEF LostInv, StreamInv, PageType
<1>3. /\ \A id : IdKnown(id)' <=> IdKnown(id)
      /\ \A id, F, a : Covers(id, F, a) => Covers(id, F, a)'
  <2>1. HeldSet \cup dropped \subseteq HeldSet' \cup dropped'
    BY <1>1 DEF HeldSet
  <2>2. QED
    BY <1>1, <2>1, StillHub
<1>4. PageIds'
  BY <1>1, <1>2, <1>3 DEF LostInv, PageIds
<1>5. page.esId # NoId => Covers(page.esId, page.url.filter, page.area)
  BY LiveCovers DEF LostInv, Covered
<1>6. Covered'
  BY <1>2, <1>3, <1>5 DEF LostInv, Covered
<1>7. QED
  BY <1>1, <1>2, <1>4, <1>6, LostClosed

\* A hidden tab: likewise.
LEMMA LostHidden ==
  ASSUME LostInv, StreamInv', MaxOvertake < Overlap, Patient, HiddenStreamClose
  PROVE  LostInv'
<1>1. /\ page.phase = "live" /\ page' = [page EXCEPT !.phase = "suspended"]
      /\ conn' = ConnClosed /\ wire' = <<>> /\ UNCHANGED <<clock, log, hubVars, sender, held, dropped>>
  BY DEF HiddenStreamClose
<1>2. /\ page'.phase = "suspended" /\ page'.esId = page.esId /\ page'.lastId = page.lastId
      /\ page'.url = page.url /\ page'.area = page.area /\ page'.streamedFilter = page.streamedFilter
  BY <1>1 DEF LostInv, StreamInv, PageType
<1>3. /\ \A id : IdKnown(id)' <=> IdKnown(id)
      /\ \A id, F, a : Covers(id, F, a) => Covers(id, F, a)'
  <2>1. HeldSet \cup dropped \subseteq HeldSet' \cup dropped'
    BY <1>1 DEF HeldSet
  <2>2. QED
    BY <1>1, <2>1, StillHub
<1>4. PageIds'
  BY <1>1, <1>2, <1>3 DEF LostInv, PageIds
<1>5. page.esId # NoId /\ Covers(page.esId, page.url.filter, page.area)
  BY <1>1, LiveCovers
<1>6. Covered'
  BY <1>2, <1>3, <1>5 DEF LostInv, Covered
<1>7. QED
  BY <1>1, <1>2, <1>4, <1>6, LostClosed

\* A new stream resumes only from an id whose messages the page holds.
LEMMA LostOpens ==
  ASSUME LostInv, StreamInv', MaxOvertake < Overlap, NEW f, NEW preserve \in BOOLEAN,
         startLiveStream(f, preserve), UNCHANGED <<clock, log, hubVars, sender, dropped>>,
         preserve => page.phase \in {"live", "suspended"}
  PROVE  LostInv'
<1> DEFINE canResume == /\ preserve /\ page.lastId # NoId
                        /\ page.streamedFilter # {} /\ HeldSet # {}
<1>1. /\ page' = [page EXCEPT
               !.phase = "connecting",
               !.lastId = IF canResume THEN @ ELSE NoId,
               !.esId = NoId,
               !.streamedFilter = f,
               !.url = [filter |-> f, since |-> IF canResume THEN page.lastId ELSE NoId,
                        prev |-> canResume, prevFilter |-> page.streamedFilter,
                        prevRadius |-> page.area]]
      /\ held' = IF preserve THEN held ELSE [m \in Msgs |-> 0]
      /\ conn' = ConnClosed /\ wire' = <<>>
  BY DEF startLiveStream
<1>2. canResume => preserve /\ page.lastId # NoId
  OBVIOUS
<1> HIDE DEF canResume
<1>3. /\ page'.phase = "connecting" /\ page'.esId = NoId /\ page'.streamedFilter = f
      /\ page'.url.filter = f /\ page'.url.since = (IF canResume THEN page.lastId ELSE NoId)
      /\ page'.url.prev = canResume /\ page'.url.prevFilter = page.streamedFilter
      /\ page'.url.prevRadius = page.area
  BY <1>1 DEF LostInv, StreamInv, PageType
<1>4. ASSUME canResume
      PROVE  /\ page.lastId = page.esId /\ page.esId # NoId /\ IdKnown(page.esId)
             /\ Covers(page.esId, page.streamedFilter, page.area) /\ held' = held
  <2>1. page.phase \in {"live", "suspended"} /\ held' = held
    BY <1>1, <1>2, <1>4
  <2>2. page.esId # NoId /\ page.lastId = page.esId /\ IdKnown(page.esId) /\ page.streamedFilter = page.url.filter
    BY <2>1 DEF LostInv, PageIds
  <2>3. Covers(page.esId, page.url.filter, page.area)
    BY <2>1, <2>2, LiveCovers DEF LostInv, Covered
  <2>4. QED
    BY <2>1, <2>2, <2>3
<1>5. /\ \A id : IdKnown(id)' <=> IdKnown(id)
      /\ canResume => \A id, F, a : Covers(id, F, a) => Covers(id, F, a)'
  <2>1. ASSUME canResume PROVE HeldSet \cup dropped \subseteq HeldSet' \cup dropped'
    BY <1>4, <2>1 DEF HeldSet
  <2>2. QED
    BY <2>1, StillHub
<1>6. IdKnown(NoId)
  <2>1. epoch \in Nat \ {0}
    BY StreamTypes DEF LostInv
  <2>2. NoId.epoch = 0
    BY DEF NoId
  <2>3. QED
    BY <2>1, <2>2 DEF IdKnown
<1>7. PageIds'
  <2>1. \A id : id = NoId => IdKnown(id)'
    BY <1>5, <1>6
  <2>2. \A id : id = page'.url.since => IdKnown(id)'
    <3>1. page'.url.since = NoId \/ (canResume /\ page'.url.since = page.esId)
      BY <1>3, <1>4
    <3>2. canResume => \A id : id = page.esId => IdKnown(id)'
      BY <1>4, <1>5
    <3>3. QED
      BY <2>1, <3>1, <3>2
  <2>3. QED
    BY <1>3, <2>1, <2>2 DEF PageIds, IdKnown
<1>8. Covered'
  <2>1. canResume => \A id, F, a : id = page.esId /\ F = page.streamedFilter /\ a = page.area => Covers(id, F, a)'
    BY <1>4, <1>5
  <2>2. page'.url.since # NoId => canResume /\ page'.url.since = page.esId
    BY <1>3, <1>4
  <2>3. QED
    BY <1>3, <2>1, <2>2 DEF Covered, Covers
<1>9. QED
  BY <1>1, <1>3, <1>7, <1>8, LostClosed

\* A new search starts from nothing.
LEMMA LostSubmit ==
  ASSUME LostInv, StreamInv', MaxOvertake < Overlap, NEW f \in Filters, Submit(f)
  PROVE  LostInv'
<1>1. startLiveStream(f, FALSE) /\ UNCHANGED <<clock, log, hubVars, sender, dropped>>
  BY DEF Submit
<1>2. QED
  BY <1>1, LostOpens

\* A changed filter resumes from the last id with the filter it had.
LEMMA LostRestartStream ==
  ASSUME LostInv, StreamInv', MaxOvertake < Overlap, Patient, NEW f \in Filters, RestartStream(f)
  PROVE  LostInv'
<1>1. startLiveStream(f, TRUE) /\ UNCHANGED <<clock, log, hubVars, sender, dropped>> /\ page.phase = "live"
  BY DEF RestartStream
<1>2. QED
  BY <1>1, LostOpens

\* A tab shown again resumes with the filter it had.
LEMMA LostResume ==
  ASSUME LostInv, StreamInv', MaxOvertake < Overlap, resumeSuspendedStream
  PROVE  LostInv'
<1>1. /\ startLiveStream(page.streamedFilter, TRUE) /\ UNCHANGED <<clock, log, hubVars, sender, dropped>>
      /\ page.phase = "suspended"
  BY DEF resumeSuspendedStream
<1>2. QED
  BY <1>1, LostOpens

\* server_error turns the stream off.
LEMMA LostServerError ==
  ASSUME LostInv, StreamInv', ReceiveServerError
  PROVE  LostInv'
<1>1. /\ page' = [page EXCEPT !.phase = "off", !.streamedFilter = {}]
      /\ wire' = <<>> /\ UNCHANGED <<clock, log, hubVars, sender, conn, held, dropped>>
  BY DEF ReceiveServerError
<1>2. /\ page'.phase = "off" /\ page'.esId = page.esId /\ page'.lastId = page.lastId
      /\ page'.url = page.url /\ page'.area = page.area
  BY <1>1 DEF LostInv, StreamInv, PageType
<1>3. /\ \A id : IdKnown(id)' <=> IdKnown(id)
      /\ \A id, F, a : Covers(id, F, a) => Covers(id, F, a)'
  <2>1. HeldSet \cup dropped \subseteq HeldSet' \cup dropped'
    BY <1>1 DEF HeldSet
  <2>2. QED
    BY <1>1, <2>1, StillHub
<1>4. PageIds'
  BY <1>2, <1>3 DEF LostInv, PageIds
<1>5. page.phase = "live" => conn'.open
  BY <1>1 DEF LostInv, StreamInv, Connected
<1>6. conn' = ConnClosed /\ page.phase # "live"
  BY <1>2, <1>5 DEF StreamInv, Connected
<1>7. Covered'
  BY <1>2, <1>3, <1>6 DEF LostInv, Covered
<1>8. QED
  BY <1>1, <1>2, <1>4, <1>6, <1>7, LostClosed

\* The refused stream owes nothing.
LEMMA LostAtCapacity ==
  ASSUME LostInv, StreamInv', AtCapacity
  PROVE  LostInv'
<1>1. /\ page.phase = "connecting" /\ wire' = <<ErrorFrame>> /\ page' = [page EXCEPT !.phase = "loading"]
      /\ UNCHANGED <<clock, log, hubVars, sender, conn, held, dropped>>
  BY DEF AtCapacity
<1>2. conn = ConnClosed
  BY <1>1 DEF LostInv, StreamInv, Connected
<1>3. /\ page'.phase = "loading" /\ page'.esId = page.esId /\ page'.lastId = page.lastId
      /\ page'.url = page.url /\ page'.area = page.area /\ page'.streamedFilter = page.streamedFilter
  BY <1>1 DEF LostInv, StreamInv, PageType
<1>4. /\ \A id : IdKnown(id)' <=> IdKnown(id)
      /\ \A id, F, a : Covers(id, F, a) => Covers(id, F, a)'
      /\ \A p, m : Behind(p, m)' <=> Behind(p, m)
      /\ InOrder' /\ SenderPlaced' /\ highSeqLocked' = highSeqLocked
  <2>1. HeldSet \cup dropped \subseteq HeldSet' \cup dropped'
    BY <1>1 DEF HeldSet
  <2>2. QED
    BY <1>1, <2>1, StillHub DEF LostInv
<1>5. PageIds'
  BY <1>1, <1>3, <1>4 DEF LostInv, PageIds
<1>6. Covered'
  BY <1>1, <1>3, <1>4 DEF LostInv, Covered
<1>7. QueueMsgs' = QueueMsgs /\ PendingMsgs' = PendingMsgs
  BY <1>1 DEF QueueMsgs, PendingMsgs
<1>8. QueueOrder'
  BY <1>1, <1>4, <1>7 DEF LostInv, QueueOrder, QueueBehind
<1>9. DOMAIN wire' = {1} /\ wire'[1].id = NoId /\ wire'[1].type = "server_error"
  BY <1>1 DEF ErrorFrame
<1>10. ~conn'.open
  BY <1>1, <1>2 DEF ConnClosed
<1>11. WireOrder' /\ PageOrder' /\ Agreed' /\ NothingLost'
  BY <1>3, <1>9, <1>10 DEF WireOrder, PageOrder, Agreed, NothingLost
<1>12. QED
  BY <1>4, <1>5, <1>6, <1>8, <1>11 DEF LostInv

\* After a restart no id of the page is of this epoch.
LEMMA LostRestart ==
  ASSUME LostInv, StreamInv', NEW stored \in 0..Len(log), Restart(stored)
  PROVE  LostInv'
<1>1. /\ epoch' = epoch + 1 /\ baseSeq' = 0 /\ sender' = [b \in Broadcasters |-> SenderIdle]
      /\ conn' = ConnClosed /\ wire' = <<>> /\ Reconnects
      /\ UNCHANGED <<clock, log, held, dropped, starts, breaks>>
  BY DEF Restart
<1>2. StreamInv /\ HubType'
  BY DEF LostInv, StreamInv
<1>3. /\ ~conn'.open /\ conn'.send = <<>> /\ conn'.pending = <<>> /\ conn'.maxSeq = 0
      /\ DOMAIN conn'.send = {} /\ DOMAIN conn'.pending = {} /\ DOMAIN wire' = {}
  BY <1>1 DEF ConnClosed
<1>4. InOrder'
  <2>1. \A i, j \in DOMAIN history' : i < j =>
              \/ log[history'[i]].t < log[history'[j]].t
              \/ log[history'[i]].t = log[history'[j]].t /\ history'[i] < history'[j]
    BY DEF Restart
  <2>2. \A i \in DOMAIN history' : log[history'[i]].t \in Int /\ i \in Nat
    <3>1. history' \in Seq(1..Len(log))
      BY <1>1, <1>2 DEF HubType
    <3>2. \A i \in DOMAIN history' : history'[i] \in 1..Len(log) /\ i \in Nat
      BY <3>1, ElementOfSeq
    <3>3. QED
      BY <1>2, <3>2, StreamTypes
  <2>3. ASSUME NEW i \in DOMAIN history', NEW j \in DOMAIN history', i <= j
        PROVE  log[history'[i]].t <= log[history'[j]].t
    <3>1. CASE i = j
      <4>1. \A x \in Int : x <= x
        OBVIOUS
      <4>2. QED
        BY <2>2, <3>1, <4>1
    <3>2. CASE i # j
      <4>1. i < j
        BY <2>2, <2>3, <3>2
      <4>2. log[history'[i]].t < log[history'[j]].t \/ log[history'[i]].t = log[history'[j]].t
        BY <2>1, <4>1
      <4>3. \A x, y \in Int : x < y \/ x = y => x <= y
        OBVIOUS
      <4>4. QED
        BY <2>2, <4>2, <4>3
    <3>3. QED
      BY <3>1, <3>2
  <2>4. QED
    BY <1>1, <2>3 DEF LostInv, InOrder
<1>5. SenderPlaced'
  BY <1>1 DEF SenderPlaced, SenderIdle
<1>6. 0 <= highSeqLocked'
  <2>1. highSeqLocked' = 0 + Len(history') /\ Len(history') \in Nat
    BY <1>1, <1>2 DEF highSeqLocked, HubType
  <2>2. QED
    BY <2>1
<1>7. QueueMsgs' = {} /\ PendingMsgs' = {}
  BY <1>3 DEF QueueMsgs, PendingMsgs
<1>8. QueueOrder'
  BY <1>3, <1>6, <1>7 DEF QueueOrder, QueueBehind
<1>9. WireOrder' /\ Agreed' /\ NothingLost'
  BY <1>3 DEF WireOrder, Agreed, NothingLost
<1>10. /\ page'.phase = (IF page.phase \in {"loading", "live"} THEN "connecting" ELSE page.phase)
       /\ page'.esId = page.esId /\ page'.lastId = page.lastId /\ page'.url = page.url
       /\ page'.area = page.area /\ page'.streamedFilter = page.streamedFilter
  BY <1>1, <1>2 DEF StreamInv, PageType, Reconnects
<1>11. \A id \in Ids : IdKnown(id) => IdKnown(id)' /\ id.epoch # epoch'
  <2>1. epoch \in Nat
    BY <1>2, StreamTypes
  <2>2. \A id \in Ids : id.epoch \in Nat
    BY DEF Ids
  <2>3. \A x, y \in Nat : x <= y => x <= y + 1 /\ x # y + 1
    OBVIOUS
  <2>4. QED
    BY <1>1, <2>1, <2>2, <2>3 DEF IdKnown
<1>12. page.esId \in Ids /\ page.url.since \in Ids /\ IdKnown(page.esId) /\ IdKnown(page.url.since)
  BY <1>2, StreamTypes DEF LostInv, PageIds
<1>13. PageOrder'
  BY <1>10 DEF PageOrder
<1>14. PageIds'
  <2>1. /\ \A id : id = page.esId => IdKnown(id)'
        /\ \A id : id = page.url.since => IdKnown(id)'
    BY <1>11, <1>12
  <2>2. QED
    BY <1>10, <2>1 DEF LostInv, PageIds, IdKnown
<1>15. Covered'
  BY <1>10, <1>11, <1>12 DEF Covered, Covers
<1>16. QED
  BY <1>4, <1>5, <1>8, <1>9, <1>13, <1>14, <1>15 DEF LostInv

\* What the page keeps when it has read the first frame.
LEMMA LostRead ==
  ASSUME LostInv, StreamInv', wire # <<>>, wire' = Tail(wire),
         UNCHANGED <<clock, log, hubVars, sender, conn, dropped, starts, breaks>>,
         HeldSet \subseteq HeldSet', FrameMsgs(1) \subseteq HeldSet',
         page'.url = page.url, page'.streamedFilter = page.streamedFilter,
         page.phase # "off", page'.phase = "suspended" => page.phase = "suspended",
         \/ /\ page'.esId = page.esId /\ page'.lastId = page.lastId
            /\ page'.phase = "live" => page.phase = "live"
         \/ page'.esId = wire[1].id /\ page'.lastId = wire[1].id /\ wire[1].id # NoId,
         Covered', Agreed'
  PROVE  LostInv'
<1>1. StreamInv
  BY DEF LostInv
<1>2. /\ 1 \in DOMAIN wire /\ DOMAIN wire = 1..Len(wire) /\ Len(wire) \in Nat \ {0}
      /\ DOMAIN wire' = 1..(Len(wire) - 1)
      /\ \A j \in DOMAIN wire' : /\ j + 1 \in DOMAIN wire /\ wire'[j] = wire[j + 1]
                                 /\ FrameMsgs(j)' = FrameMsgs(j + 1)
  BY <1>1, WireTail
<1>3. /\ \A p, m : Behind(p, m)' <=> Behind(p, m)
      /\ \A id : IdKnown(id)' <=> IdKnown(id)
      /\ InOrder' /\ SenderPlaced' /\ highSeqLocked' = highSeqLocked /\ epoch' = epoch
  BY StillHub DEF LostInv, hubVars
<1>4. QueueMsgs' = QueueMsgs /\ PendingMsgs' = PendingMsgs /\ conn' = conn
  BY DEF QueueMsgs, PendingMsgs
<1>5. \A p : QueueBehind(p)' <=> QueueBehind(p)
  BY <1>3, <1>4 DEF QueueBehind
<1>6. QueueOrder'
  <2>1. \A p : p = conn.maxSeq => QueueBehind(p)'
    BY <1>5 DEF LostInv, QueueOrder
  <2>2. QED
    BY <1>3, <1>4, <2>1 DEF LostInv, QueueOrder, QueueBehind
<1>7. \A j, l \in DOMAIN wire' : j < l => j + 1 < l + 1
  BY <1>2
<1>8. WireOrder'
  <2>1. ASSUME NEW j \in DOMAIN wire'
        PROVE  /\ wire'[j].type = "history_end" => wire'[j].id # NoId
               /\ wire'[j].id # NoId =>
                    /\ wire'[j].id.epoch = epoch
                    /\ QueueBehind(wire[j + 1].id.seq)
                    /\ \A l \in DOMAIN wire' : j < l =>
                          \A m \in FrameMsgs(l + 1) : Behind(wire[j + 1].id.seq, m)
    BY <1>2, <1>7 DEF LostInv, WireOrder
  <2>2. ASSUME NEW j \in DOMAIN wire', wire'[j].id # NoId, NEW p, p = wire'[j].id.seq
        PROVE  QueueBehind(p)' /\ \A l \in DOMAIN wire' : j < l => \A m \in FrameMsgs(l)' : Behind(p, m)'
    BY <1>2, <1>3, <1>5, <2>1, <2>2
  <2>3. QED
    BY <1>3, <2>1, <2>2 DEF WireOrder, QueueBehind, Behind
<1>9. wire[1].id # NoId =>
         /\ wire[1].id.epoch = epoch /\ QueueBehind(wire[1].id.seq)
         /\ \A l \in DOMAIN wire' : \A m \in FrameMsgs(l + 1) : Behind(wire[1].id.seq, m)
  <2>1. \A l \in DOMAIN wire' : l + 1 \in DOMAIN wire /\ 1 < l + 1
    BY <1>2
  <2>2. QED
    BY <1>2, <2>1 DEF LostInv, WireOrder
<1>10. PageOrder'
  <2>1. ASSUME page'.phase = "live", NEW p, p = page'.esId.seq
        PROVE  /\ page'.esId.epoch = epoch
               /\ QueueBehind(p)' /\ \A l \in DOMAIN wire' : \A m \in FrameMsgs(l)' : Behind(p, m)'
    <3>1. /\ page'.esId.epoch = epoch
          /\ QueueBehind(p) /\ \A l \in DOMAIN wire' : \A m \in FrameMsgs(l + 1) : Behind(p, m)
      <4>1. CASE page'.esId = page.esId /\ page.phase = "live"
        BY <1>2, <2>1, <4>1 DEF LostInv, PageOrder
      <4>2. CASE page'.esId = wire[1].id /\ wire[1].id # NoId
        BY <1>9, <2>1, <4>2
      <4>3. QED
        BY <2>1, <4>1, <4>2
    <3>2. QED
      BY <1>2, <1>3, <1>5, <3>1
  <2>2. QED
    BY <1>3, <2>1 DEF PageOrder, QueueBehind, Behind
<1>11. PageIds'
  <2>1. \A id : id = page.esId \/ id = page.url.since => IdKnown(id)'
    BY <1>3 DEF LostInv, PageIds
  <2>2. wire[1].id # NoId => \A id : id = wire[1].id => IdKnown(id)'
    <3>1. epoch <= epoch
      BY <1>1, StreamTypes
    <3>2. wire[1].id # NoId => IdKnown(wire[1].id)
      BY <1>9, <3>1 DEF IdKnown, QueueBehind
    <3>3. QED
      BY <1>3, <3>2
  <2>3. \A id : id = page'.esId \/ id = page'.url.since => IdKnown(id)'
    BY <2>1, <2>2
  <2>4. QED
    BY <2>3 DEF LostInv, PageIds, IdKnown
<1>12. NothingLost'
  <2>1. SUFFICES ASSUME conn.open PROVE Wanted' \subseteq HeldSet' \cup OnTheWay' \cup dropped'
    BY <1>4, NothingLostIs
  <2>2. Wanted' = Wanted
    BY DEF Wanted, matchAndCreateSpot, hubVars
  <2>3. Wanted \subseteq HeldSet \cup OnTheWay \cup dropped
    BY <2>1, NothingLostIs DEF LostInv
  <2>4. SenderMsgs' = SenderMsgs
    BY DEF SenderMsgs, SendersHere, connNo
  <2>5. WireMsgs \subseteq WireMsgs' \cup FrameMsgs(1)
    <3>1. ASSUME NEW j \in DOMAIN wire, j # 1 PROVE FrameMsgs(j) \subseteq WireMsgs'
      <4>1. j - 1 \in DOMAIN wire' /\ (j - 1) + 1 = j
        BY <1>2, <3>1
      <4>2. FrameMsgs(j - 1)' = FrameMsgs((j - 1) + 1)
        BY <1>2, <4>1
      <4>3. QED
        BY <4>1, <4>2 DEF WireMsgs
    <3>2. QED
      BY <3>1 DEF WireMsgs
  <2>6. QED
    BY <1>4, <2>2, <2>3, <2>4, <2>5, OnTheWayIs
<1>13. QED
  BY <1>3, <1>6, <1>8, <1>10, <1>11, <1>12 DEF LostInv

\* The area frame tells the page the radius of the stream it reads.
LEMMA LostReceiveArea ==
  ASSUME LostInv, StreamInv', ReceiveArea
  PROVE  LostInv'
<1>1. /\ wire # <<>> /\ wire' = Tail(wire) /\ Head(wire).type = "area"
      /\ page' = [page EXCEPT !.area = Head(wire).radius]
      /\ UNCHANGED <<clock, log, hubVars, sender, conn, held, dropped, starts, breaks>>
  BY DEF ReceiveArea
<1>2. StreamInv
  BY DEF LostInv
<1>3. /\ 1 \in DOMAIN wire /\ Head(wire) = wire[1] /\ wire[1] \in Frames /\ wire[1].type = "area"
      /\ Len(wire) \in Nat \ {0} /\ DOMAIN wire' = 1..(Len(wire) - 1)
      /\ \A j \in DOMAIN wire' : j + 1 \in DOMAIN wire /\ wire'[j] = wire[j + 1]
  BY <1>1, <1>2, WireTail
<1>4. wire[1].radius = conn.radius /\ wire[1].radius \in Int
  BY <1>2, <1>3, StreamTypes DEF LostInv, Agreed
<1>5. /\ page'.phase = page.phase /\ page'.esId = page.esId /\ page'.lastId = page.lastId
      /\ page'.url = page.url /\ page'.area = conn.radius /\ page'.streamedFilter = page.streamedFilter
  BY <1>1, <1>2, <1>3, <1>4 DEF StreamInv, PageType
<1>6. FrameMsgs(1) = {} /\ HeldSet' = HeldSet
  BY <1>1, <1>3 DEF FrameMsgs, Frames, HeldSet
<1>7. page.phase # "off"
  BY <1>1, <1>2, FirstFrame
<1>8. \A id, F, a : Covers(id, F, a) => Covers(id, F, a)'
  <2>1. HeldSet \cup dropped \subseteq HeldSet' \cup dropped'
    BY <1>1, <1>6
  <2>2. QED
    BY <1>1, <2>1, StillHub
<1>9. Covered'
  <2>1. ASSUME page.phase # "live", page.esId # NoId PROVE Covers(page.esId, page.url.filter, conn.radius)
    <3>1. SUFFICES ASSUME page.esId.epoch = epoch PROVE Covers(page.esId, page.url.filter, conn.radius)
      BY DEF Covers
    <3>2. Covers(page.esId, page.url.filter, page.area)
      BY <2>1 DEF LostInv, Covered
    <3>3. conn.radius <= page.area
      BY <1>3, <2>1, <3>1 DEF LostInv, Agreed
    <3>4. \A m : m \in 1..Len(log) /\ matchAndCreateSpot(m, conn.radius) => matchAndCreateSpot(m, page.area)
      <4>1. \A m \in 1..Len(log) : Ring(log[m].kind) \in Nat
        BY <1>2, StreamTypes, StreamConstants
      <4>2. conn.radius \in Int /\ page.area \in Int
        BY <1>2, StreamTypes
      <4>3. QED
        BY <3>3, <4>1, <4>2 DEF matchAndCreateSpot
    <3>5. \A i \in DOMAIN history : history[i] \in 1..Len(log)
      BY <1>2, StreamTypes
    <3>6. QED
      BY <3>2, <3>4, <3>5 DEF Covers
  <2>2. \A id, F, a : id = page.esId /\ F = page.url.filter /\ a = conn.radius
            /\ page.phase # "live" /\ page.esId # NoId => Covers(id, F, a)'
    BY <1>8, <2>1
  <2>3. page.esId = NoId /\ page.url.since # NoId =>
            \A id, F, a : id = page.url.since /\ F = page.url.prevFilter /\ a = page.url.prevRadius => Covers(id, F, a)'
    BY <1>8 DEF LostInv, Covered
  <2>4. QED
    BY <1>5, <2>2, <2>3 DEF Covered, Covers
<1>10. Agreed'
  <2>1. \A j \in DOMAIN wire' : wire'[j].type # "area"
    <3>1. \A j \in DOMAIN wire' : j + 1 # 1
      BY <1>3
    <3>2. QED
      BY <1>3, <3>1 DEF LostInv, Agreed
  <2>2. QED
    BY <1>1, <1>5, <2>1 DEF LostInv, Agreed
<1>11. QED
  BY <1>1, <1>5, <1>6, <1>7, <1>9, <1>10, LostRead

\* history_end gives the page the id as of the dump.
LEMMA LostReceiveEnd ==
  ASSUME LostInv, StreamInv', ReceiveHistoryEnd
  PROVE  LostInv'
<1>1. /\ wire # <<>> /\ wire' = Tail(wire) /\ Head(wire).type = "history_end"
      /\ page' = [page EXCEPT !.phase = "live", !.lastId = Head(wire).id, !.esId = Head(wire).id]
      /\ UNCHANGED <<clock, log, hubVars, sender, conn, held, dropped, starts, breaks>>
  BY DEF ReceiveHistoryEnd
<1>2. StreamInv
  BY DEF LostInv
<1>3. /\ 1 \in DOMAIN wire /\ Head(wire) = wire[1] /\ wire[1] \in Frames /\ wire[1].type = "history_end"
      /\ Len(wire) \in Nat \ {0} /\ DOMAIN wire' = 1..(Len(wire) - 1)
      /\ \A j \in DOMAIN wire' : j + 1 \in DOMAIN wire /\ wire'[j] = wire[j + 1]
  BY <1>1, <1>2, WireTail
<1>4. wire[1].id # NoId
  BY <1>3 DEF LostInv, WireOrder
<1>5. /\ page'.phase = "live" /\ page'.esId = wire[1].id /\ page'.lastId = wire[1].id
      /\ page'.url = page.url /\ page'.area = page.area /\ page'.streamedFilter = page.streamedFilter
  BY <1>1, <1>2, <1>3 DEF StreamInv, PageType
<1>6. FrameMsgs(1) = {} /\ HeldSet' = HeldSet
  BY <1>1, <1>3 DEF FrameMsgs, Frames, HeldSet
<1>7. page.phase # "off"
  BY <1>1, <1>2, FirstFrame
<1>8. Covered'
  BY <1>4, <1>5 DEF Covered
<1>9. Agreed'
  <2>1. \A j \in DOMAIN wire' : wire'[j].type # "area"
    <3>1. \A j \in DOMAIN wire' : j + 1 # 1
      BY <1>3
    <3>2. QED
      BY <1>3, <3>1 DEF LostInv, Agreed
  <2>2. QED
    BY <1>1, <1>3, <1>5, <2>1 DEF LostInv, Agreed
<1>10. QED
  BY <1>1, <1>4, <1>5, <1>6, <1>7, <1>8, <1>9, LostRead

\* A spots frame moves its messages to the page, and its id is behind none of the rest.
LEMMA LostReceiveSpots ==
  ASSUME LostInv, StreamInv', ReceiveSpots
  PROVE  LostInv'
<1>1. /\ wire # <<>> /\ wire' = Tail(wire) /\ Head(wire).type = "spots" /\ ingestSpots(Head(wire).spots)
      /\ page' = IF Head(wire).id = NoId THEN page
                 ELSE [page EXCEPT !.lastId = Head(wire).id, !.esId = Head(wire).id]
      /\ UNCHANGED <<clock, log, hubVars, sender, conn, dropped, starts, breaks>>
  BY DEF ReceiveSpots
<1>2. StreamInv
  BY DEF LostInv
<1>3. /\ 1 \in DOMAIN wire /\ Head(wire) = wire[1] /\ wire[1] \in Frames /\ wire[1].type = "spots"
      /\ wire[1].spots \in Seq(Nat)
      /\ Len(wire) \in Nat \ {0} /\ DOMAIN wire' = 1..(Len(wire) - 1)
      /\ \A j \in DOMAIN wire' : j + 1 \in DOMAIN wire /\ wire'[j] = wire[j + 1]
  BY <1>1, <1>2, WireTail DEF Frames
<1>4. /\ page'.phase = page.phase
      /\ page'.url = page.url /\ page'.area = page.area /\ page'.streamedFilter = page.streamedFilter
      /\ \/ wire[1].id = NoId /\ page' = page
         \/ wire[1].id # NoId /\ page'.esId = wire[1].id /\ page'.lastId = wire[1].id
  BY <1>1, <1>2, <1>3 DEF StreamInv, PageType
<1>5. page.phase # "off"
  BY <1>1, <1>2, FirstFrame
<1>6. PICK e \in 0..Len(wire) :
              /\ (e = 0) <=> (page.phase = "live")
              /\ e = 0 => IsLive(wire[1])
              /\ e = 1 => wire[1].type = "history_end"
              /\ e > 1 => IsEarly(wire[1])
  BY <1>1, <1>2, <1>3, FirstFrame
<1>7. page.phase = "live" => IsLive(wire[1])
  BY <1>6
<1>8. page.phase # "live" => wire[1].id = NoId
  <2>1. page.phase # "live" => e > 1
    BY <1>3, <1>6
  <2>2. QED
    BY <1>6, <2>1 DEF IsEarly
<1>9. page.phase = "live" =>
            /\ \A k, l \in DOMAIN wire[1].spots : wire[1].spots[k] = wire[1].spots[l] => k = l
            /\ \A k \in DOMAIN wire[1].spots : wire[1].spots[k] \notin HeldSet
  <2>1. ASSUME IsLive(wire[1]) PROVE FrameMsgs(1) \subseteq LiveMsgs
    BY <2>1, <1>3 DEF LiveMsgs
  <2>2. \A k \in DOMAIN wire[1].spots : wire[1].spots[k] \in FrameMsgs(1)
    BY DEF FrameMsgs
  <2>3. HeldSet \subseteq PastMsgs
    BY DEF PastMsgs
  <2>4. QED
    BY <1>2, <1>3, <1>7, <2>1, <2>2, <2>3 DEF StreamInv, Once, Apart
<1>10. HeldSet \subseteq HeldSet' /\ \A m \in FrameMsgs(1) : m \in Msgs => m \in HeldSet'
  BY <1>1, <1>2, <1>3, <1>9, Counted DEF FrameMsgs
<1>11. FrameMsgs(1) \subseteq HeldSet'
  <2>1. Len(log) \in Nat /\ Len(log) <= MaxMsgs /\ MaxMsgs \in Nat
    BY <1>2, StreamTypes, StreamConstants DEF StreamInv, HubType
  <2>2. 1..Len(log) \subseteq Msgs
    BY <2>1 DEF Msgs
  <2>3. \A m \in FrameMsgs(1) : m \in 1..Len(log)
    BY <1>2, <1>3, InLogFacts
  <2>4. QED
    BY <1>10, <2>2, <2>3
<1>12. \A id, F, a : Covers(id, F, a) => Covers(id, F, a)'
  <2>1. HeldSet \cup dropped \subseteq HeldSet' \cup dropped'
    BY <1>1, <1>10
  <2>2. QED
    BY <1>1, <2>1, StillHub
<1>13. Covered'
  <2>1. page.phase # "live" => page' = page
    BY <1>4, <1>8
  <2>2. page'.esId = NoId => page' = page
    BY <1>4
  <2>3. QED
    BY <1>4, <1>12, <2>1, <2>2 DEF LostInv, Covered, Covers
<1>14. Agreed'
  <2>1. \A j \in DOMAIN wire' : wire'[j].type # "area"
    <3>1. \A j \in DOMAIN wire' : j + 1 # 1
      BY <1>3
    <3>2. QED
      BY <1>3, <3>1 DEF LostInv, Agreed
  <2>2. QED
    BY <1>1, <1>3, <1>4, <2>1 DEF LostInv, Agreed
<1>15. QED
  BY <1>1, <1>4, <1>5, <1>10, <1>11, <1>13, <1>14, LostRead

\* A step of the loop keeps what the stream owes, and no new id overtakes what
\* is still in the channel.
LEMMA LostLoop ==
  ASSUME LostInv, StreamInv', conn.open, NEW q \in Seq(Items), NEW sp \in Seq(Items),
         {q[k].msg : k \in DOMAIN q} \subseteq QueueMsgs,
         {sp[k].msg : k \in DOMAIN sp} \subseteq QueueMsgs \cup PendingMsgs,
         \A m \in QueueMsgs \cup PendingMsgs : m \in Wanted =>
             m \in {q[k].msg : k \in DOMAIN q} \cup {sp[k].msg : k \in DOMAIN sp},
         \A k, l \in DOMAIN q : k < l => Behind(q[k].seq, q[l].msg),
         \A k \in DOMAIN sp, l \in DOMAIN q : Behind(sp[k].seq, q[l].msg),
         \A k \in DOMAIN sp : sp[k].seq <= highSeqLocked,
         LoopKeeps(q, sp) \/ flushPending(q, sp),
         UNCHANGED <<clock, log, hubVars, sender, page, held, dropped, starts, breaks>>
  PROVE  LostInv'
<1> DEFINE top == MaxSeqOf(sp, conn.maxSeq)
           QM == {q[k].msg : k \in DOMAIN q}
           SM == {sp[k].msg : k \in DOMAIN sp}
<1>1. StreamInv
  BY DEF LostInv
<1>2. /\ top \in Nat /\ top <= highSeqLocked /\ top \in {conn.maxSeq} \cup {sp[k].seq : k \in DOMAIN sp}
  BY <1>1, TopOf
<1>3. /\ conn'.open /\ conn'.send = q
      /\ conn'.filter = conn.filter /\ conn'.radius = conn.radius /\ conn'.cutoff = conn.cutoff
      /\ Len(wire) \in Nat /\ DOMAIN wire = 1..Len(wire)
      /\ \A j \in DOMAIN wire : j \in DOMAIN wire' /\ wire'[j] = wire[j] /\ FrameMsgs(j)' = FrameMsgs(j)
  BY <1>1, LoopWrites
<1>4. \A j \in DOMAIN wire' : j \notin DOMAIN wire =>
         /\ j = Len(wire) + 1 /\ IsLive(wire'[j]) /\ wire'[j].spots = MsgsOf(sp)
         /\ wire'[j].id = [epoch |-> epoch, seq |-> top]
  BY <1>1, LoopWrites
<1>5. \/ wire' = wire /\ conn'.pending = sp /\ conn'.maxSeq = conn.maxSeq
      \/ Len(wire) + 1 \in DOMAIN wire' /\ Len(wire) + 1 \notin DOMAIN wire /\ conn'.pending = <<>> /\ conn'.maxSeq = top
  BY <1>1, LoopWrites
<1>6. \A j \in DOMAIN wire' : j \notin DOMAIN wire => FrameMsgs(j)' = SM
  <2>1. ASSUME NEW j \in DOMAIN wire', j \notin DOMAIN wire PROVE FrameMsgs(j)' = SM
    <3>1. FrameMsgs(j)' = {wire'[j].spots[k] : k \in DOMAIN wire'[j].spots}
      BY DEF FrameMsgs
    <3>2. DOMAIN MsgsOf(sp) = DOMAIN sp /\ \A k \in DOMAIN sp : MsgsOf(sp)[k] = sp[k].msg
      BY DEF MsgsOf
    <3>3. wire'[j].spots = MsgsOf(sp)
      BY <1>4, <2>1
    <3>4. QED
      BY <3>1, <3>2, <3>3
  <2>2. QED
    BY <2>1
<1>7. QM \subseteq QueueMsgs /\ SM \subseteq QueueMsgs \cup PendingMsgs
      /\ \A m \in QueueMsgs \cup PendingMsgs : m \in Wanted => m \in QM \cup SM
  OBVIOUS
<1>8. QueueMsgs' = QM /\ PendingMsgs' \in {SM, {}}
  BY <1>3, <1>5 DEF QueueMsgs, PendingMsgs
<1>9. QueueBehind(conn.maxSeq)
  BY DEF LostInv, QueueOrder
<1>10. \A m \in QM : Behind(top, m)
  <2>1. CASE top = conn.maxSeq
    BY <1>7, <1>9, <2>1 DEF QueueBehind
  <2>2. CASE top \in {sp[k].seq : k \in DOMAIN sp}
    BY <2>2
  <2>3. QED
    BY <1>2, <2>1, <2>2
<1>11. conn'.pending = sp \/ PendingMsgs' = {}
  BY <1>5 DEF PendingMsgs
<1> HIDE DEF top, QM, SM
<1>12. /\ \A p, m : Behind(p, m)' <=> Behind(p, m)
       /\ \A id : IdKnown(id)' <=> IdKnown(id)
       /\ InOrder' /\ SenderPlaced' /\ highSeqLocked' = highSeqLocked /\ epoch' = epoch
  BY StillHub DEF LostInv, hubVars
<1>13. \A p : QueueBehind(p) => QueueBehind(p)' /\ \A m \in SM : Behind(p, m)
  BY <1>7, <1>8, <1>12 DEF QueueBehind
<1>14. conn'.pending = <<>> => \A p : p = top => QueueBehind(p)'
  <2>1. conn'.pending = <<>> => PendingMsgs' = {}
    BY DEF PendingMsgs
  <2>2. QED
    BY <1>2, <1>8, <1>10, <1>12, <2>1 DEF QueueBehind
<1>15. QueueOrder'
  <2>1. \A k, l \in DOMAIN conn'.send : k < l => Behind(conn'.send[k].seq, conn'.send[l].msg)
    BY <1>3
  <2>2. \A k \in DOMAIN conn'.pending, l \in DOMAIN conn'.send : Behind(conn'.pending[k].seq, conn'.send[l].msg)
    <3>1. CASE conn'.pending = sp
      BY <1>3, <3>1
    <3>2. CASE conn'.pending = <<>>
      BY <3>2
    <3>3. QED
      BY <1>5, <3>1, <3>2
  <2>3. \A p : p = conn'.maxSeq => QueueBehind(p)'
    BY <1>5, <1>9, <1>13, <1>14
  <2>4. QED
    BY <1>12, <2>1, <2>2, <2>3 DEF QueueOrder, QueueBehind
<1>16. WireOrder'
  <2>1. ASSUME NEW j \in DOMAIN wire', wire'[j].id # NoId, NEW p, p = wire'[j].id.seq
        PROVE  /\ wire'[j].id.epoch = epoch /\ QueueBehind(p)'
               /\ \A l \in DOMAIN wire' : j < l => \A m \in FrameMsgs(l)' : Behind(p, m)
    <3>1. CASE j \in DOMAIN wire
      <4>1. /\ wire[j].id # NoId /\ wire[j].id.epoch = epoch /\ QueueBehind(p)
            /\ \A l \in DOMAIN wire : j < l => \A m \in FrameMsgs(l) : Behind(p, m)
        BY <1>3, <2>1, <3>1 DEF LostInv, WireOrder
      <4>2. \A l \in DOMAIN wire' : j < l => \A m \in FrameMsgs(l)' : Behind(p, m)
        BY <1>3, <1>6, <1>13, <4>1
      <4>3. QED
        BY <1>3, <1>13, <3>1, <4>1, <4>2
    <3>2. CASE j \notin DOMAIN wire
      <4>1. j = Len(wire) + 1 /\ p = top /\ wire'[j].id.epoch = epoch /\ conn'.pending = <<>>
        BY <1>4, <1>5, <2>1, <3>2
      <4>2. \A l \in DOMAIN wire' : ~(j < l)
        <5>1. \A l \in DOMAIN wire' : l \in 1..Len(wire) \/ l = Len(wire) + 1
          BY <1>3, <1>4
        <5>2. QED
          BY <1>3, <4>1, <5>1
      <4>3. QED
        BY <1>14, <4>1, <4>2
    <3>3. QED
      BY <3>1, <3>2
  <2>2. \A j \in DOMAIN wire' : wire'[j].type = "history_end" => wire'[j].id # NoId
    BY <1>3, <1>4 DEF LostInv, WireOrder, IsLive
  <2>3. QED
    BY <1>12, <2>1, <2>2 DEF WireOrder, QueueBehind, Behind
<1>17. PageOrder'
  <2>1. ASSUME page.phase = "live", NEW p, p = page.esId.seq
        PROVE  /\ page.esId.epoch = epoch /\ QueueBehind(p)'
               /\ \A l \in DOMAIN wire' : \A m \in FrameMsgs(l)' : Behind(p, m)'
    <3>1. /\ page.esId.epoch = epoch /\ QueueBehind(p)
          /\ \A l \in DOMAIN wire : \A m \in FrameMsgs(l) : Behind(p, m)
      BY <2>1 DEF LostInv, PageOrder
    <3>2. QED
      BY <1>3, <1>6, <1>12, <1>13, <3>1
  <2>2. QED
    BY <1>12, <2>1 DEF PageOrder, QueueBehind, Behind
<1>18. PageIds'
  <2>1. \A id : id = page.esId \/ id = page.url.since => IdKnown(id)'
    BY <1>12 DEF LostInv, PageIds
  <2>2. QED
    BY <2>1 DEF LostInv, PageIds, IdKnown
<1>19. Agreed'
  <2>1. wire # <<>> /\ wire[1].type = "area" => wire' # <<>> /\ wire'[1].type = "area"
    <3>1. wire # <<>> => 1 \in DOMAIN wire
      BY <1>1, TailOf DEF StreamInv, WireType
    <3>2. wire # <<>> => 1 \in DOMAIN wire' /\ wire'[1] = wire[1]
      BY <1>3, <3>1
    <3>3. wire' = <<>> => DOMAIN wire' = {}
      OBVIOUS
    <3>4. QED
      BY <3>2, <3>3
  <2>2. \A j \in DOMAIN wire' : wire'[j].type = "area" => j \in DOMAIN wire /\ wire'[j] = wire[j]
    BY <1>3, <1>4 DEF IsLive
  <2>3. QED
    BY <1>3, <1>12, <2>1, <2>2 DEF LostInv, Agreed, hubVars
<1>20. Covered'
  <2>1. \A id, F, a : Covers(id, F, a) => Covers(id, F, a)'
    <3>1. HeldSet \cup dropped \subseteq HeldSet' \cup dropped'
      BY DEF HeldSet
    <3>2. QED
      BY <3>1, StillHub
  <2>2. QED
    BY <2>1 DEF LostInv, Covered, Covers
<1>21. NothingLost'
  <2>1. SUFFICES Wanted' \subseteq HeldSet' \cup OnTheWay' \cup dropped'
    BY NothingLostIs
  <2>2. Wanted' = Wanted
    BY <1>3 DEF Wanted, matchAndCreateSpot, hubVars
  <2>3. Wanted \subseteq HeldSet \cup OnTheWay \cup dropped
    BY NothingLostIs DEF LostInv
  <2>4. SenderMsgs' = SenderMsgs /\ HeldSet' = HeldSet
    BY DEF SenderMsgs, SendersHere, connNo, HeldSet
  <2>5. WireMsgs \subseteq WireMsgs'
    BY <1>3 DEF WireMsgs
  <2>6. SM \subseteq PendingMsgs' \cup WireMsgs'
    <3>1. CASE conn'.pending = sp
      BY <3>1 DEF PendingMsgs, SM
    <3>2. CASE Len(wire) + 1 \in DOMAIN wire' /\ Len(wire) + 1 \notin DOMAIN wire
      BY <1>6, <3>2 DEF WireMsgs
    <3>3. QED
      BY <1>5, <3>1, <3>2
  <2>7. QED
    BY <1>7, <1>8, <2>2, <2>3, <2>4, <2>5, <2>6, OnTheWayIs
<1>22. QED
  BY <1>12, <1>15, <1>16, <1>17, <1>18, <1>19, <1>20, <1>21 DEF LostInv

\* The loop receives a spot from the channel.
LEMMA LostHandlerRecv ==
  ASSUME LostInv, StreamInv', HandlerRecv
  PROVE  LostInv'
<1> DEFINE s == conn.send
           p == conn.pending
           spot == s[1]
           q == Tail(s)
           sp == Append(p, spot)
<1>1. StreamInv
  BY DEF LostInv
<1>2. /\ conn.open /\ s \in Seq(Items) /\ p \in Seq(Items) /\ spot \in Items /\ 1 \in DOMAIN s
      /\ q \in Seq(Items) /\ sp \in Seq(Items) /\ Len(s) \in Nat \ {0} /\ DOMAIN s = 1..Len(s)
      /\ \A k \in DOMAIN q : k + 1 \in DOMAIN s /\ q[k] = s[k + 1]
      /\ DOMAIN q = 1..(Len(s) - 1)
      /\ \A k \in DOMAIN sp : \/ k \in DOMAIN p /\ sp[k] = p[k]
                              \/ k = Len(p) + 1 /\ sp[k] = spot
      /\ DOMAIN p = 1..Len(p) /\ Len(p) \in Nat
      /\ \/ log[spot.msg].kind \notin conn.filter /\ LoopKeeps(q, p)
         \/ LoopKeeps(q, sp) \/ flushPending(q, sp)
  BY <1>1, HandlerRecvs
<1>3. UNCHANGED <<clock, log, hubVars, sender, page, held, dropped, starts, breaks>>
  BY DEF HandlerRecv
<1>4. /\ QueueMsgs = {s[k].msg : k \in DOMAIN s} /\ PendingMsgs = {p[k].msg : k \in DOMAIN p}
      /\ \A k \in DOMAIN s : s[k].seq <= highSeqLocked
      /\ \A k \in DOMAIN p : p[k].seq <= highSeqLocked
      /\ \A k, l \in DOMAIN s : k < l => Behind(s[k].seq, s[l].msg)
      /\ \A k \in DOMAIN p, l \in DOMAIN s : Behind(p[k].seq, s[l].msg)
  BY DEF QueueMsgs, PendingMsgs, LostInv, StreamInv, Bounded, QueueOrder
<1>5. Len(p) + 1 \in DOMAIN sp /\ sp[Len(p) + 1] = spot /\ \A k \in DOMAIN p : k \in DOMAIN sp /\ sp[k] = p[k]
  <2> HIDE DEF p, spot
  <2>1. QED
    BY <1>2, AppendOf DEF sp
<1>6. \A k \in DOMAIN s : k = 1 \/ (k - 1 \in DOMAIN q /\ q[k - 1] = s[k])
  <2> HIDE DEF s
  <2>1. s # <<>>
    BY <1>2
  <2>2. QED
    BY <1>2, <2>1, TailOf DEF q
<1>7. log[spot.msg].kind \notin conn.filter => spot.msg \notin Wanted
  BY DEF Wanted
<1> HIDE DEF q, sp, p, s, spot
<1>8. {q[k].msg : k \in DOMAIN q} \subseteq QueueMsgs
  BY <1>2, <1>4
<1>9. \A k, l \in DOMAIN q : k < l => k + 1 < l + 1
  BY <1>2
<1>10. \A k, l \in DOMAIN q : k < l => Behind(q[k].seq, q[l].msg)
  BY <1>2, <1>4, <1>9
<1>11. \A k \in DOMAIN p, l \in DOMAIN q : Behind(p[k].seq, q[l].msg)
  BY <1>2, <1>4
<1>12. \A l \in DOMAIN q : Behind(spot.seq, q[l].msg)
  <2>1. spot = s[1] /\ \A l \in DOMAIN q : 1 < l + 1
    BY <1>2 DEF spot
  <2>2. QED
    BY <1>2, <1>4, <2>1
<1>13. \A k \in DOMAIN sp, l \in DOMAIN q : Behind(sp[k].seq, q[l].msg)
  BY <1>2, <1>11, <1>12
<1>14. spot.msg \in QueueMsgs /\ spot.seq <= highSeqLocked
  BY <1>2, <1>4 DEF spot
<1>15. CASE log[spot.msg].kind \notin conn.filter /\ LoopKeeps(q, p)
  <2>1. {p[k].msg : k \in DOMAIN p} \subseteq QueueMsgs \cup PendingMsgs
    BY <1>4
  <2>2. \A m \in QueueMsgs \cup PendingMsgs : m \in Wanted =>
             m \in {q[k].msg : k \in DOMAIN q} \cup {p[k].msg : k \in DOMAIN p}
    <3>1. ASSUME NEW k \in DOMAIN s, s[k].msg \in Wanted PROVE s[k].msg \in {q[l].msg : l \in DOMAIN q}
      <4>1. k # 1
        BY <1>7, <1>15, <3>1 DEF spot
      <4>2. QED
        BY <1>6, <4>1
    <3>2. QED
      BY <1>4, <3>1
  <2>3. QED
    BY <1>2, <1>3, <1>4, <1>8, <1>10, <1>11, <1>15, <2>1, <2>2, LostLoop
<1>16. CASE LoopKeeps(q, sp) \/ flushPending(q, sp)
  <2>1. {sp[k].msg : k \in DOMAIN sp} \subseteq QueueMsgs \cup PendingMsgs
    <3>1. \A k \in DOMAIN sp : sp[k].msg \in QueueMsgs \cup PendingMsgs
      BY <1>2, <1>4, <1>14
    <3>2. QED
      BY <3>1
  <2>2. \A m \in QueueMsgs \cup PendingMsgs : m \in Wanted =>
             m \in {q[k].msg : k \in DOMAIN q} \cup {sp[k].msg : k \in DOMAIN sp}
    <3>1. \A k \in DOMAIN s : s[k].msg \in {q[l].msg : l \in DOMAIN q} \cup {sp[l].msg : l \in DOMAIN sp}
      <4>1. spot.msg \in {sp[l].msg : l \in DOMAIN sp}
        BY <1>5
      <4>2. \A k \in DOMAIN s : k = 1 \/ s[k].msg \in {q[l].msg : l \in DOMAIN q}
        BY <1>6
      <4>3. QED
        BY <4>1, <4>2 DEF spot
    <3>2. \A k \in DOMAIN p : p[k].msg \in {sp[l].msg : l \in DOMAIN sp}
      BY <1>5
    <3>3. QED
      BY <1>4, <3>1, <3>2
  <2>3. \A k \in DOMAIN sp : sp[k].seq <= highSeqLocked
    BY <1>2, <1>4, <1>14
  <2>4. QED
    BY <1>2, <1>3, <1>8, <1>10, <1>13, <1>16, <2>1, <2>2, <2>3, LostLoop
<1>17. QED
  BY <1>2, <1>15, <1>16

\* The loop flushes on its ticker.
LEMMA LostHandlerTick ==
  ASSUME LostInv, StreamInv', HandlerTick
  PROVE  LostInv'
<1> DEFINE q == conn.send
           sp == conn.pending
<1>1. /\ conn.open /\ q \in Seq(Items) /\ sp \in Seq(Items) /\ flushPending(q, sp)
      /\ UNCHANGED <<clock, log, hubVars, sender, page, held, dropped, starts, breaks>>
  BY DEF HandlerTick, LostInv, StreamInv, ConnType
<1>2. /\ QueueMsgs = {q[k].msg : k \in DOMAIN q} /\ PendingMsgs = {sp[k].msg : k \in DOMAIN sp}
      /\ \A k \in DOMAIN sp : sp[k].seq <= highSeqLocked
      /\ \A k, l \in DOMAIN q : k < l => Behind(q[k].seq, q[l].msg)
      /\ \A k \in DOMAIN sp, l \in DOMAIN q : Behind(sp[k].seq, q[l].msg)
  BY DEF QueueMsgs, PendingMsgs, LostInv, StreamInv, Bounded, QueueOrder
<1> HIDE DEF q, sp
<1>3. /\ {q[k].msg : k \in DOMAIN q} \subseteq QueueMsgs
      /\ {sp[k].msg : k \in DOMAIN sp} \subseteq QueueMsgs \cup PendingMsgs
      /\ \A m \in QueueMsgs \cup PendingMsgs : m \in Wanted =>
             m \in {q[k].msg : k \in DOMAIN q} \cup {sp[k].msg : k \in DOMAIN sp}
  BY <1>2
<1>4. QED
  BY <1>1, <1>2, <1>3, LostLoop

\* The history is in order of time, so the binary search finds the window.
LEMMA WindowFound ==
  ASSUME LostInv, NEW cutoff \in Int
  PROVE  \A i \in DOMAIN history : log[history[i]].t >= cutoff <=> i > sortSearch(cutoff)
<1> DEFINE f == [i \in DOMAIN history |-> log[history[i]].t >= cutoff]
<1>1. StreamInv
  BY DEF LostInv
<1>2. Len(history) \in Nat /\ DOMAIN history = 1..Len(history)
      /\ \A i \in DOMAIN history : log[history[i]].t \in Int
  <2>1. \A i \in DOMAIN history : history[i] \in 1..Len(log)
    BY <1>1, StreamTypes
  <2>2. QED
    BY <1>1, <2>1, StreamTypes
<1>3. \A i, j \in 1..Len(history) : i <= j /\ f[i] => f[j]
  <2>1. \A i, j \in DOMAIN history : i <= j => log[history[i]].t <= log[history[j]].t
    BY DEF LostInv, InOrder
  <2>2. \A i \in DOMAIN history : f[i] <=> log[history[i]].t >= cutoff
    OBVIOUS
  <2>3. \A x, y \in Int : x <= y /\ x >= cutoff => y >= cutoff
    OBVIOUS
  <2> HIDE DEF f
  <2>4. QED
    BY <1>2, <2>1, <2>2, <2>3
<1>4. \A i \in 1..Len(history) : f[i] <=> i > Search(Len(history), f)
  <2> HIDE DEF f
  <2>1. QED
    BY <1>2, <1>3, SearchCorrect
<1>5. sortSearch(cutoff) = Search(Len(history), f)
  BY DEF sortSearch
<1>6. \A i \in DOMAIN history : f[i] <=> log[history[i]].t >= cutoff
  OBVIOUS
<1> HIDE DEF f
<1>7. QED
  BY <1>2, <1>4, <1>5, <1>6

\* What a resume leaves out is what the page holds already.
LEMMA ResumeSkips ==
  ASSUME LostInv, AreaKept, NEW radius \in Radii, StreamHandler(radius),
         NEW i \in DOMAIN history,
         baseSeq + i <= overlapFloor(decideResume(radius)),
         log[history[i]].t >= clock - Minutes,
         log[history[i]].kind \in page.url.filter,
         matchAndCreateSpot(history[i], radius),
         page.url.prev => log[history[i]].kind \in page.url.prevFilter
  PROVE  history[i] \in HeldSet \cup dropped
<1>1. StreamInv
  BY DEF LostInv
<1>2. baseSeq \in Nat /\ i \in Nat \ {0} /\ Overlap \in Nat /\ radius \in Nat
      /\ history[i] \in 1..Len(log) /\ page.area \in Int
  <2>1. Len(history) \in Nat /\ DOMAIN history = 1..Len(history) /\ baseSeq \in Nat /\ Overlap \in Nat
    BY <1>1, StreamTypes
  <2>2. i \in Nat \ {0} /\ radius \in Nat
    BY <2>1, StreamConstants
  <2>3. history[i] \in 1..Len(log) /\ page.area \in Int
    BY <1>1, StreamTypes
  <2>4. QED
    BY <2>1, <2>2, <2>3
<1>3. sinceRaw \in Ids /\ sinceRaw.seq \in Nat
  <2>1. page.esId \in Ids /\ page.url.since \in Ids
    BY <1>1, StreamTypes
  <2>2. QED
    BY <2>1 DEF sinceRaw, Ids
<1>4. decideResume(radius) = "delta" /\ baseSeq + i + Overlap <= sinceRaw.seq
  <2>1. overlapFloor(decideResume(radius)) # 0
    <3>1. baseSeq + i > 0
      BY <1>2
    <3>2. QED
      BY <1>2, <3>1
  <2>2. decideResume(radius) = "delta" /\ overlapFloor(decideResume(radius)) = sinceRaw.seq - Overlap
    BY <2>1 DEF overlapFloor
  <2>3. QED
    BY <1>2, <1>3, <2>2
<1>5. sinceRaw # NoId /\ sinceRaw.epoch = epoch /\ (page.url.prev => page.url.prevRadius = radius)
  BY <1>4 DEF decideResume
<1>6. page.phase # "live"
  BY DEF StreamHandler
<1>7. CASE page.esId # NoId
  <2>1. sinceRaw = page.esId
    BY <1>7 DEF sinceRaw
  <2>2. Covers(page.esId, page.url.filter, page.area)
    BY <1>6, <1>7 DEF LostInv, Covered
  <2>3. radius <= page.area
    BY <1>5, <1>7, <2>1 DEF AreaKept
  <2>4. matchAndCreateSpot(history[i], page.area)
    <3>1. Ring(log[history[i]].kind) \in Nat
      BY <1>1, <1>2, StreamTypes, StreamConstants
    <3>2. QED
      BY <1>2, <2>3, <3>1 DEF matchAndCreateSpot
  <2>5. QED
    BY <1>4, <1>5, <2>1, <2>2, <2>4 DEF Covers
<1>8. CASE page.esId = NoId
  <2>1. sinceRaw = page.url.since
    BY <1>8 DEF sinceRaw
  <2>2. page.url.prev
    BY <1>5, <2>1 DEF LostInv, PageIds
  <2>3. Covers(page.url.since, page.url.prevFilter, radius)
    BY <1>5, <1>8, <2>1, <2>2 DEF LostInv, Covered
  <2>4. QED
    BY <1>4, <1>5, <2>1, <2>2, <2>3 DEF Covers
<1>9. QED
  BY <1>7, <1>8

\* The dump, and what the page holds already, are the whole window.
LEMMA DumpCovers ==
  ASSUME LostInv, AreaKept, NEW radius \in Radii, StreamHandler(radius),
         NEW i \in DOMAIN history,
         log[history[i]].t >= clock - Minutes,
         log[history[i]].kind \in page.url.filter,
         matchAndCreateSpot(history[i], radius)
  PROVE  \/ history[i] \in HeldSet \cup dropped
         \/ i \in historySpots(decideResume(radius), radius, clock - Minutes)
<1> DEFINE mode == decideResume(radius)
           cutoff == clock - Minutes
           from == overlapFloor(mode) - baseSeq
<1>1. StreamInv
  BY DEF LostInv
<1>2. /\ Len(history) \in Nat /\ DOMAIN history = 1..Len(history) /\ baseSeq \in Nat /\ i \in 1..Len(history)
      /\ clock \in Nat /\ Minutes \in Nat
  BY <1>1, StreamTypes
<1>3. cutoff \in Int
  BY <1>2
<1>4. i > sortSearch(cutoff) /\ sortSearch(cutoff) \in 0..Len(history)
  BY <1>1, <1>3, WindowFound, SkipInRange
<1>5. overlapFloor(mode) \in Int
  <2>1. sinceRaw \in Ids
    BY <1>1, StreamTypes DEF sinceRaw
  <2>2. sinceRaw.seq \in Nat /\ Overlap \in Nat
    BY <2>1, StreamConstants DEF Ids
  <2>3. QED
    BY <2>2 DEF overlapFloor
<1>6. startIdx(mode, cutoff) =
        IF ~page.url.prev /\ from > sortSearch(cutoff)
        THEN IF from < Len(history) THEN from ELSE Len(history)
        ELSE sortSearch(cutoff)
  BY DEF startIdx
<1>7. CASE ~page.url.prev /\ i <= from
  <2>1. baseSeq + i <= overlapFloor(mode)
    BY <1>2, <1>5, <1>7
  <2>2. QED
    BY <1>7, <2>1, ResumeSkips
<1>8. CASE page.url.prev /\ baseSeq + i <= overlapFloor(mode) /\ log[history[i]].kind \in page.url.prevFilter
  BY <1>8, ResumeSkips
<1>9. CASE /\ page.url.prev \/ ~(i <= from)
           /\ ~(page.url.prev /\ baseSeq + i <= overlapFloor(mode) /\ log[history[i]].kind \in page.url.prevFilter)
  <2>1. startIdx(mode, cutoff) \in Int /\ startIdx(mode, cutoff) < i
    <3>1. CASE ~page.url.prev /\ from > sortSearch(cutoff)
      <4>1. from \in Int /\ ~(i <= from)
        BY <1>2, <1>5, <1>9, <3>1
      <4>2. from < i /\ from < Len(history)
        BY <1>2, <4>1
      <4> HIDE DEF from
      <4>3. QED
        BY <1>6, <3>1, <4>1, <4>2
    <3>2. CASE ~(~page.url.prev /\ from > sortSearch(cutoff))
      BY <1>4, <1>6, <3>2
    <3>3. QED
      BY <3>1, <3>2
  <2>2. i \in startIdx(mode, cutoff) + 1 .. Len(history)
    BY <1>2, <2>1
  <2>3. QED
    BY <1>9, <2>2 DEF historySpots
<1>10. QED
  BY <1>7, <1>8, <1>9

\* streamHandler: the page holds, or is sent in the dump, all that the window wants.
LEMMA LostStarts ==
  ASSUME LostInv, StreamInv', AreaKept, NEW radius \in Radii, StreamHandler(radius)
  PROVE  LostInv'
<1> DEFINE S == historySpots(decideResume(radius), radius, clock - Minutes)
<1>1. StreamInv
  BY DEF LostInv
<1>2. /\ S \subseteq 1..Len(history)
      /\ page.phase = "connecting" /\ ~conn.open
      /\ conn' = [open |-> TRUE, filter |-> page.url.filter, radius |-> radius, cutoff |-> clock - Minutes,
                  send |-> <<>>, pending |-> <<>>, maxSeq |-> highSeqLocked]
      /\ page' = [page EXCEPT !.phase = "loading"]
      /\ UNCHANGED <<clock, log, hubVars, sender, held, dropped, starts, breaks>>
  BY <1>1, HandlerStarts
<1>3. PICK dump \in Seq(S) :
              /\ Len(dump) \in Nat
              /\ DOMAIN wire' = 1..(Len(dump) + 2) /\ DOMAIN dump = 1..Len(dump)
              /\ wire'[1] = AreaFrame(radius) /\ wire'[Len(dump) + 2] = EndFrame
              /\ \A j \in 1..Len(dump) : wire'[j + 1] = DumpFrame(history[dump[j]])
              /\ \A j \in DOMAIN wire' : j = 1 \/ j = Len(dump) + 2 \/ j - 1 \in 1..Len(dump)
              /\ \A i \in S : \E j \in 1..Len(dump) : dump[j] = i
  BY <1>1, HandlerStarts
<1> HIDE DEF S
<1>4. /\ page'.phase = "loading" /\ page'.esId = page.esId /\ page'.lastId = page.lastId
      /\ page'.url = page.url /\ page'.area = page.area /\ page'.streamedFilter = page.streamedFilter
  BY <1>1, <1>2 DEF StreamInv, PageType
<1>5. /\ conn'.open /\ conn'.filter = page.url.filter /\ conn'.radius = radius /\ conn'.cutoff = clock - Minutes
      /\ conn'.send = <<>> /\ conn'.pending = <<>> /\ conn'.maxSeq = highSeqLocked
      /\ DOMAIN conn'.send = {} /\ DOMAIN conn'.pending = {}
  BY <1>2
<1>6. /\ \A p, m : Behind(p, m)' <=> Behind(p, m)
      /\ \A id : IdKnown(id)' <=> IdKnown(id)
      /\ InOrder' /\ SenderPlaced' /\ highSeqLocked' = highSeqLocked
      /\ UNCHANGED <<clock, log, history, baseSeq, epoch>>
  BY <1>2, StillHub DEF LostInv, hubVars
<1>7. QueueMsgs' = {} /\ PendingMsgs' = {}
  BY <1>5 DEF QueueMsgs, PendingMsgs
<1>8. highSeqLocked \in Nat /\ highSeqLocked <= highSeqLocked /\ epoch \in Nat /\ epoch # 0
  <2>1. highSeqLocked \in Nat /\ epoch \in Nat \ {0}
    BY <1>1, StreamTypes
  <2>2. \A x \in Nat : x <= x
    OBVIOUS
  <2>3. QED
    BY <2>1, <2>2
<1>9. \A p : p = highSeqLocked => QueueBehind(p)'
  BY <1>6, <1>7, <1>8 DEF QueueBehind
<1>10. QueueOrder'
  BY <1>5, <1>9 DEF QueueOrder, QueueBehind
<1>11. /\ AreaFrame(radius).type = "area" /\ AreaFrame(radius).id = NoId /\ AreaFrame(radius).radius = radius
       /\ \A m : DumpFrame(m).type = "spots" /\ DumpFrame(m).id = NoId /\ DumpFrame(m).spots = <<m>>
       /\ EndFrame.type = "history_end" /\ EndFrame.id = [epoch |-> epoch, seq |-> highSeqLocked]
  BY DEF AreaFrame, DumpFrame, EndFrame
<1>12. EndFrame.id # NoId /\ EndFrame.id.epoch = epoch /\ EndFrame.id.seq = highSeqLocked
  BY <1>8, <1>11 DEF NoId
<1>13. \A j \in DOMAIN wire' :
          \/ j = 1 /\ wire'[j] = AreaFrame(radius)
          \/ j = Len(dump) + 2 /\ wire'[j] = EndFrame
          \/ \E k \in 1..Len(dump) : wire'[j] = DumpFrame(history[dump[k]])
  <2>1. ASSUME NEW j \in DOMAIN wire', j - 1 \in 1..Len(dump)
        PROVE  wire'[j] = DumpFrame(history[dump[j - 1]])
    <3>1. wire'[(j - 1) + 1] = DumpFrame(history[dump[j - 1]])
      BY <1>3, <2>1
    <3>2. (j - 1) + 1 = j
      BY <1>3
    <3>3. QED
      BY <3>1, <3>2
  <2>2. QED
    BY <1>3, <2>1
<1>14. WireOrder'
  <2>1. ASSUME NEW j \in DOMAIN wire', wire'[j].id # NoId
        PROVE  /\ wire'[j].id.epoch = epoch
               /\ wire'[j].id.seq = highSeqLocked
               /\ \A l \in DOMAIN wire' : ~(j < l)
    <3>1. j = Len(dump) + 2 /\ wire'[j] = EndFrame
      BY <1>11, <1>13, <2>1
    <3>2. \A l \in 1..(Len(dump) + 2) : ~(Len(dump) + 2 < l)
      BY <1>3
    <3>3. QED
      BY <1>3, <1>12, <3>1, <3>2
  <2>2. \A j \in DOMAIN wire' : wire'[j].type = "history_end" => wire'[j].id # NoId
    BY <1>11, <1>12, <1>13
  <2>3. QED
    BY <1>6, <1>9, <2>1, <2>2 DEF WireOrder, QueueBehind
<1>15. PageOrder'
  BY <1>4 DEF PageOrder
<1>16. PageIds'
  <2>1. \A id : id = page.esId \/ id = page.url.since => IdKnown(id)'
    BY <1>6 DEF LostInv, PageIds
  <2>2. QED
    BY <1>2, <1>4, <2>1 DEF LostInv, PageIds, IdKnown
<1>17. Covered'
  <2>1. \A id, F, a : Covers(id, F, a) => Covers(id, F, a)'
    <3>1. HeldSet \cup dropped \subseteq HeldSet' \cup dropped'
      BY <1>2 DEF HeldSet
    <3>2. QED
      BY <1>2, <3>1, StillHub
  <2>2. QED
    BY <1>2, <1>4, <2>1 DEF LostInv, Covered, Covers
<1>18. Agreed'
  <2>1. wire' # <<>> /\ wire'[1].type = "area"
    <3>1. 1 \in DOMAIN wire'
      BY <1>3
    <3>2. QED
      BY <1>3, <1>11, <3>1
  <2>2. \A j \in DOMAIN wire' : wire'[j].type = "area" => j = 1 /\ wire'[j].radius = radius
    BY <1>11, <1>13
  <2>3. page.esId # NoId /\ page.esId.epoch = epoch => radius <= page.area
    BY DEF AreaKept
  <2>4. clock - Minutes <= clock - Minutes
    <3>1. clock \in Nat /\ Minutes \in Nat
      BY <1>1, StreamTypes
    <3>2. QED
      BY <3>1
  <2>5. QED
    BY <1>4, <1>5, <1>6, <2>1, <2>2, <2>3, <2>4 DEF Agreed
<1>19. NothingLost'
  <2>1. SUFFICES Wanted' \subseteq HeldSet' \cup OnTheWay' \cup dropped'
    BY NothingLostIs
  <2>2. HeldSet' = HeldSet /\ dropped' = dropped
    BY <1>2 DEF HeldSet
  <2>3. ASSUME NEW m \in Wanted' PROVE m \in HeldSet \cup dropped \cup WireMsgs'
    <3>1. /\ m \in Range(history) /\ log[m].t >= clock - Minutes
          /\ log[m].kind \in page.url.filter /\ matchAndCreateSpot(m, radius)
      BY <1>5, <1>6, <2>3 DEF Wanted, matchAndCreateSpot
    <3>2. PICK i \in DOMAIN history : m = history[i]
      BY <3>1 DEF Range
    <3>3. m \in HeldSet \cup dropped \/ i \in S
      BY <3>1, <3>2, DumpCovers DEF S
    <3>4. ASSUME i \in S PROVE m \in WireMsgs'
      <4>1. PICK j \in 1..Len(dump) : dump[j] = i
        BY <1>3, <3>4
      <4>2. j + 1 \in DOMAIN wire' /\ wire'[j + 1].spots = <<m>>
        <5>1. j + 1 \in 1..(Len(dump) + 2)
          BY <1>3
        <5>2. QED
          BY <1>3, <1>11, <3>2, <4>1, <5>1
      <4>3. 1 \in DOMAIN <<m>> /\ <<m>>[1] = m
        OBVIOUS
      <4>4. m \in FrameMsgs(j + 1)'
        BY <4>2, <4>3 DEF FrameMsgs
      <4>5. QED
        BY <4>2, <4>4 DEF WireMsgs
    <3>5. QED
      BY <3>3, <3>4
  <2>4. QED
    BY <2>2, <2>3, OnTheWayIs
<1>20. QED
  BY <1>6, <1>10, <1>14, <1>15, <1>16, <1>17, <1>18, <1>19 DEF LostInv

\* Every step keeps the invariant.
LEMMA LostStep ==
  ASSUME Patient, MaxLate = 0, MaxOvertake < Overlap, LostInv, [Next]_vars, AreaKept \/ UNCHANGED vars
  PROVE  LostInv'
<1>1. StreamInv'
  BY StreamStep DEF LostInv
<1>2. CASE UNCHANGED vars
  BY <1>1, <1>2, LostTick
<1>3. CASE AreaKept /\ Next
  <2>1. CASE HubStep
    BY <1>1, <2>1, LostBroadcast, LostSafeSend, LostPrune DEF HubStep
  <2>2. CASE HandlerStep
    BY <1>1, <1>3, <2>2, LostStarts, LostAtCapacity, LostHandlerRecv, LostHandlerTick DEF HandlerStep
  <2>3. CASE PageStep
    BY <1>1, <2>3, LostSubmit, LostRestartStream, LostHidden, LostResume,
       LostReceiveSpots, LostReceiveArea, LostReceiveEnd, LostServerError DEF PageStep
  <2>4. CASE Break
    BY <1>1, <2>4, LostBreak
  <2>5. CASE Tick
    BY <1>1, <2>5, LostTick
  <2>6. CASE \E stored \in 0..Len(log) : Restart(stored)
    BY <1>1, <2>6, LostRestart
  <2>7. QED
    BY <1>3, <2>1, <2>2, <2>3, <2>4, <2>5, <2>6 DEF Next
<1>4. QED
  BY <1>2, <1>3

\* An open stream loses nothing: every spot of the history the stream wants is at the page, on its
\* way, or was dropped at a full channel. The page waits for history_end before a new stream
\* (Patient), the senders' clocks are right (MaxLate = 0), fewer goroutines overtake than resumeOverlap
\* allows for, and a resumed stream has no wider area than the page was told of (AreaKept).
THEOREM StreamLosesNothing ==
  ASSUME Patient, MaxLate = 0, MaxOvertake < Overlap
  PROVE  Spec /\ [][AreaKept]_vars => []NothingLost
<1>1. LostInv => NothingLost
  BY DEF LostInv
<1>2. LostInv /\ [Next]_vars /\ [AreaKept]_vars => LostInv'
  BY LostStep
<1>3. QED
  BY <1>1, <1>2, LostInitially, PTL DEF Spec

\* The radii the connection and the page know are radii the server announced.
AreaSeen ==
    /\ conn.open => conn.radius \in Radii
    /\ page.esId # NoId => page.area \in Radii

\* A frame that is not the area finds the page with the connection's radius.
LEMMA AreaRead ==
  ASSUME LostInv, AreaSeen, wire # <<>>, wire' = Tail(wire), Head(wire).type # "server_error"
  PROVE  /\ conn.radius \in Radii /\ Head(wire) = wire[1]
         /\ wire[1].type = "area" => wire[1].radius = conn.radius
         /\ wire[1].type # "area" => page.area = conn.radius
<1>1. StreamInv
  BY DEF LostInv
<1>2. conn.open
  BY <1>1, FirstFrame
<1>3. 1 \in DOMAIN wire /\ Head(wire) = wire[1]
  BY <1>1, WireTail
<1>4. QED
  BY <1>2, <1>3 DEF LostInv, Agreed, AreaSeen

\* Every step keeps it.
LEMMA AreaStep == LostInv /\ AreaSeen /\ [Next]_vars => AreaSeen'
<1> SUFFICES ASSUME LostInv, AreaSeen, [Next]_vars PROVE AreaSeen'
  OBVIOUS
<1>1. StreamInv
  BY DEF LostInv
<1>2. /\ page \in [phase : Phases, lastId : Ids, esId : Ids, streamedFilter : SUBSET Kinds, area : Int,
                   url : [filter : SUBSET Kinds, since : Ids, prev : BOOLEAN,
                          prevFilter : SUBSET Kinds, prevRadius : Int]]
      /\ conn \in [open : BOOLEAN, filter : SUBSET Kinds, radius : Int, cutoff : Int,
                   send : Seq(Items), pending : Seq(Items), maxSeq : Nat]
  BY <1>1 DEF StreamInv, PageType, ConnType
<1>3. ASSUME conn'.open = conn.open, conn'.radius = conn.radius, page' = page PROVE AreaSeen'
  BY <1>3 DEF AreaSeen
<1>4. ASSUME conn' = ConnClosed, page'.esId = NoId \/ (page'.esId = page.esId /\ page'.area = page.area)
      PROVE  AreaSeen'
  BY <1>4 DEF AreaSeen, ConnClosed
<1>5. CASE HubStep
  <2>1. ASSUME NEW b \in Broadcasters, SafeSend(b) PROVE AreaSeen'
    <3>1. conn'.open = conn.open /\ conn'.radius = conn.radius
      BY <1>1, <2>1, SafeSends
    <3>2. QED
      BY <1>3, <2>1, <3>1 DEF SafeSend
  <2>2. ASSUME conn' = conn, page' = page PROVE AreaSeen'
    BY <1>3, <2>2
  <2>3. QED
    BY <1>5, <2>1, <2>2 DEF HubStep, Broadcast, pruneLiveHistory
<1>6. CASE HandlerStep
  <2>1. ASSUME NEW radius \in Radii, StreamHandler(radius) PROVE AreaSeen'
    <3>1. conn'.radius = radius /\ page' = [page EXCEPT !.phase = "loading"]
      BY <1>1, <2>1, HandlerStarts
    <3>2. QED
      BY <1>2, <3>1 DEF AreaSeen
  <2>2. CASE AtCapacity
    BY <1>2, <2>2 DEF AtCapacity, AreaSeen
  <2>3. CASE HandlerRecv \/ HandlerTick
    <3>1. conn'.open = conn.open /\ conn'.radius = conn.radius
      BY <1>2, <2>3 DEF HandlerRecv, HandlerTick, flushPending
    <3>2. QED
      BY <1>3, <2>3, <3>1 DEF HandlerRecv, HandlerTick
  <2>4. QED
    BY <1>6, <2>1, <2>2, <2>3 DEF HandlerStep
<1>7. ASSUME NEW f, NEW preserve \in BOOLEAN, startLiveStream(f, preserve) PROVE AreaSeen'
  <2>1. page'.esId = NoId /\ conn' = ConnClosed
    BY <1>2, <1>7 DEF startLiveStream
  <2>2. QED
    BY <1>4, <2>1
<1>8. CASE Break \/ HiddenStreamClose \/ \E stored \in 0..Len(log) : Restart(stored)
  <2>1. conn' = ConnClosed /\ page'.esId = page.esId /\ page'.area = page.area
    BY <1>2, <1>8 DEF Break, HiddenStreamClose, Restart, Reconnects
  <2>2. QED
    BY <1>4, <2>1
<1>9. CASE ReceiveArea
  <2>1. /\ wire # <<>> /\ wire' = Tail(wire) /\ Head(wire).type = "area" /\ conn' = conn
        /\ page' = [page EXCEPT !.area = Head(wire).radius]
    BY <1>9 DEF ReceiveArea
  <2>2. conn.radius \in Radii /\ Head(wire).radius = conn.radius
    BY <2>1, AreaRead
  <2>3. page'.area = conn.radius
    BY <1>2, <2>1, <2>2
  <2>4. QED
    BY <2>1, <2>2, <2>3 DEF AreaSeen
<1>10. CASE ReceiveHistoryEnd \/ ReceiveSpots
  <2>1. /\ wire # <<>> /\ wire' = Tail(wire) /\ Head(wire).type \in {"history_end", "spots"} /\ conn' = conn
        /\ page'.area = page.area
    BY <1>2, <1>10 DEF ReceiveHistoryEnd, ReceiveSpots
  <2>2. conn.radius \in Radii /\ page.area = conn.radius
    BY <2>1, AreaRead
  <2>3. QED
    BY <2>1, <2>2 DEF AreaSeen
<1>11. CASE ReceiveServerError
  <2>1. conn' = conn /\ page'.esId = page.esId /\ page'.area = page.area
    BY <1>2, <1>11 DEF ReceiveServerError
  <2>2. QED
    BY <2>1 DEF AreaSeen
<1>12. CASE PageStep
  BY <1>7, <1>8, <1>9, <1>10, <1>11, <1>12 DEF PageStep, Submit, RestartStream, resumeSuspendedStream
<1>13. CASE Tick \/ UNCHANGED vars
  BY <1>13, <1>3 DEF Tick, vars
<1>14. QED
  BY <1>5, <1>6, <1>8, <1>12, <1>13 DEF Next

\* With one area radius throughout the last of these needs no assuming.
THEOREM StreamLosesNothingInArea ==
  ASSUME Patient, MaxLate = 0, MaxOvertake < Overlap, \A r, s \in Radii : r = s
  PROVE  Spec => []NothingLost
<1>1. Init => LostInv /\ AreaSeen
  <2>1. Init => AreaSeen
    BY DEF Init, AreaSeen, ConnClosed
  <2>2. QED
    BY <2>1, LostInitially
<1>2. LostInv /\ AreaSeen /\ [Next]_vars => LostInv' /\ AreaSeen'
  <2>1. SUFFICES ASSUME LostInv, AreaSeen, [Next]_vars PROVE LostInv'
    BY AreaStep
  <2>2. AreaKept
    <3>1. \A r \in Radii : r \in Nat /\ r <= r
      BY StreamConstants
    <3>2. QED
      BY <2>1, <3>1 DEF AreaSeen, AreaKept
  <2>3. QED
    BY <2>1, <2>2, LostStep
<1>3. LostInv => NothingLost
  BY DEF LostInv
<1>4. QED
  BY <1>1, <1>2, <1>3, PTL DEF Spec
=============================================================================
