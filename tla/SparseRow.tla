----------------------------- MODULE SparseRow -----------------------------
(***************************************************************************)
(* The stored form of a month of the seasonal record (cmd/horstreporter,   *)
(* almanac_sparse.go): a grid of days and slots whose non-zero cells are   *)
(* written as gap, count, SNR mask and SNR bins, the gap as a varint.      *)
(* The fold replaces one day of a stored row; rows of version 1 have no    *)
(* SNR part.                                                               *)
(*                                                                         *)
(* A behaviour: a row is written (in either version), a day of it is       *)
(* replaced.  A byte is a number below Base^2; a varint digit carries      *)
(* values below Base (128 in the code).                                    *)
(***************************************************************************)
EXTENDS Integers, Sequences, FiniteSets

CONSTANTS
    RowDaysN, RowSlots, \* 31 and 48: days and slots of a row
    Bins,           \* almanacSNRBins
    VarintBase,     \* 128
    CellChoices     \* cells a row may have: [count, hist]

Len0 == RowDaysN * RowSlots
Pos == 0 .. Len0 - 1
NoHist == [b \in 1 .. Bins |-> 0]
Zero == [count |-> 0, hist |-> NoHist]

\* Two varint digits hold every gap (1488 positions, 128 * 128).
ASSUME SparseConstants ==
    /\ {RowDaysN, RowSlots, Bins} \subseteq Nat \ {0} /\ VarintBase \in Nat \ {0, 1}
    /\ RowDaysN * RowSlots <= VarintBase * VarintBase
    /\ CellChoices \subseteq [count : Nat, hist : [1 .. Bins -> Nat]]

VARIABLES row, bytes, phase    \* what the row should say, its stored form

rowVars == <<row, bytes, phase>>

(***************************************************************************)
(* Encoding.                                                               *)
(***************************************************************************)
\* binary.AppendUvarint: low digits first, every digit but the last marked.
Uvarint(x) ==
    IF x < VarintBase THEN <<x>> ELSE <<VarintBase + (x % VarintBase), x \div VarintBase>>

\* The SNR part from bin k on: a bit per bin, the first one lowest, and the
\* bytes of the bins in use.
SnrPart(h) ==
    LET from[k \in 1 .. Bins + 1] ==
          IF k > Bins THEN [mask |-> 0, used |-> <<>>]
          ELSE LET rest == from[k + 1]
               IN IF h[k] = 0 THEN [mask |-> 2 * rest.mask, used |-> rest.used]
                  ELSE [mask |-> 2 * rest.mask + 1, used |-> <<h[k]>> \o rest.used]
    IN from

\* Gap, count, mask, the bins in use.
EncodeCell(c, gap, v) ==
    Uvarint(gap) \o <<c.count>> \o
        (IF v = 1 THEN <<>> ELSE <<SnrPart(c.hist)[1].mask>> \o SnrPart(c.hist)[1].used)

\* almanacSparseAppend, almanacSparseEncodeV1: the loop over the positions,
\* from x[1] on when x[2] was the last one written.
Encoded(r, v) ==
    LET from[x \in (0 .. Len0) \X (-1 .. Len0 - 1)] ==
          IF x[1] = Len0 THEN <<>>
          ELSE IF r[x[1]].count = 0 THEN from[<<x[1] + 1, x[2]>>]
          ELSE EncodeCell(r[x[1]], x[1] - x[2] - 1, v) \o from[<<x[1] + 1, x[1]>>]
    IN from
almanacSparseEncode(r, v) == <<v>> \o Encoded(r, v)[<<0, -1>>]

(***************************************************************************)
(* Decoding.                                                               *)
(***************************************************************************)
\* binary.Uvarint at byte i: whether it is complete, its digits, its value.
GapComplete(b, i) == b[i] < VarintBase \/ i < Len(b)
Digits(b, i) == IF b[i] < VarintBase THEN 1 ELSE 2
GapAt(b, i) == IF b[i] < VarintBase THEN b[i] ELSE (b[i] - VarintBase) + VarintBase * b[i + 1]

\* A mask shifted right, and the bins it announces.
Shifted(mask) ==
    LET by[k \in 0 .. Bins] == IF k = 0 THEN mask ELSE by[k - 1] \div 2
    IN by
BinsOf(mask) == {k \in 1 .. Bins : Shifted(mask)[k - 1] % 2 = 1}

\* The byte after the cell whose count is byte c.
NextCell(b, c) ==
    IF b[1] = 1 THEN c + 1
    ELSE IF c >= Len(b) THEN c + 2
    ELSE c + 2 + Cardinality(BinsOf(b[c + 1]))

\* The bytes of the cell whose count is byte c are there, its mask has no
\* reserved bit, and neither its count nor one of its bins is zero.
CellWhole(b, c) ==
    /\ NextCell(b, c) - 1 <= Len(b)
    /\ b[c] # 0
    /\ b[1] = 2 => /\ Shifted(b[c + 1])[Bins] = 0
                   /\ \A i \in c + 2 .. NextCell(b, c) - 1 : b[i] # 0

\* The bins of a cell: the k-th bit of the mask says whether a byte is there.
HistAt(b, c) ==
    IF b[1] = 1 THEN NoHist
    ELSE [k \in 1 .. Bins |-> IF k \in BinsOf(b[c + 1])
                              THEN b[c + 1 + Cardinality({j \in BinsOf(b[c + 1]) : j <= k})] ELSE 0]

\* almanacSparseValidate and almanacSparseEachCell: the cells of a row from
\* byte x[1] on, after position x[2], and whether they are well formed.
Malformed == [ok |-> FALSE, cells |-> {}]
CellsFrom(b) ==
    LET at[x \in (1 .. Len(b) + 1) \X (-1 .. Len0 - 1)] ==
          IF x[1] > Len(b) THEN [ok |-> TRUE, cells |-> {}]
          ELSE LET c == x[1] + Digits(b, x[1])
                   p == x[2] + 1 + GapAt(b, x[1])
               IN IF ~GapComplete(b, x[1]) \/ p >= Len0 \/ ~CellWhole(b, c) THEN Malformed
                  ELSE LET rest == at[<<NextCell(b, c), p>>]
                       IN [ok |-> rest.ok,
                           cells |-> {[pos |-> p, count |-> b[c], hist |-> HistAt(b, c)]} \cup rest.cells]
    IN at
Parsed(b) == IF Len(b) = 0 \/ b[1] \notin {1, 2} THEN Malformed ELSE CellsFrom(b)[<<2, -1>>]

\* almanacSparseDecodeHist: nothing of a malformed row is applied.
almanacSparseDecodeHist(b) ==
    LET cells == IF Parsed(b).ok THEN Parsed(b).cells ELSE {}
        at(p) == CHOOSE x \in cells : x.pos = p
    IN [p \in Pos |-> IF \E x \in cells : x.pos = p THEN [count |-> at(p).count, hist |-> at(p).hist] ELSE Zero]

\* Mutant: a day without SNR keeps the histograms it had.
ReplaceDayKeepsHist(b, dom, seg, withSNR) ==
    LET old == almanacSparseDecodeHist(b) IN
    almanacSparseEncode([p \in Pos |->
        IF p \div RowSlots # dom THEN old[p]
        ELSE IF withSNR THEN seg[p % RowSlots] ELSE [seg[p % RowSlots] EXCEPT !.hist = old[p].hist]], 2)

\* almanacSparseReplaceDay: SET semantics, written in version 2.
almanacSparseReplaceDay(b, dom, seg, withSNR) ==
    LET old == almanacSparseDecodeHist(b) IN
    almanacSparseEncode([p \in Pos |->
        IF p \div RowSlots # dom THEN old[p]
        ELSE IF withSNR THEN seg[p % RowSlots] ELSE [seg[p % RowSlots] EXCEPT !.hist = NoHist]], 2)

(***************************************************************************)
(* A row's life.                                                           *)
(***************************************************************************)
\* What a stored row says: cells without a count keep no histogram, and a row
\* of version 1 has no SNR at all.
Said(r, v) == [p \in Pos |-> IF r[p].count = 0 THEN Zero
                             ELSE IF v = 1 THEN [r[p] EXCEPT !.hist = NoHist] ELSE r[p]]

WriteRow(v) ==
    /\ phase = "given"
    /\ bytes' = almanacSparseEncode(row, v)
    /\ row' = Said(row, v)
    /\ phase' = "stored"

FoldRow(dom, seg, withSNR) ==
    /\ phase = "stored"
    /\ bytes' = almanacSparseReplaceDay(bytes, dom, seg, withSNR)
    /\ row' = Said([p \in Pos |-> IF p \div RowSlots # dom THEN row[p]
                                  ELSE IF withSNR THEN seg[p % RowSlots]
                                  ELSE [seg[p % RowSlots] EXCEPT !.hist = NoHist]], 2)
    /\ phase' = "folded"

RowInit ==
    /\ row \in [Pos -> CellChoices]
    /\ bytes = <<>> /\ phase = "given"

RowNext ==
    \/ \E v \in {1, 2} : WriteRow(v)
    \/ \E dom \in 0 .. RowDaysN - 1, seg \in [0 .. RowSlots - 1 -> CellChoices], withSNR \in BOOLEAN :
         FoldRow(dom, seg, withSNR)

RowSpec == RowInit /\ [][RowNext]_rowVars

(***************************************************************************)
(* Properties.                                                             *)
(***************************************************************************)
\* "SET semantics, so re-folding a day is byte-identical", "The other days keep
\* their counts and histograms": a row reads back as what was written and
\* folded into it, whichever version it had, and the bytes depend on nothing
\* else.
SparseRoundTrip ==
    phase \in {"stored", "folded"} =>
        /\ Parsed(bytes).ok /\ almanacSparseDecodeHist(bytes) = row
        /\ phase = "folded" => bytes = almanacSparseEncode(row, 2)

=============================================================================
