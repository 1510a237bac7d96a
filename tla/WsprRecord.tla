---------------------------- MODULE WsprRecord -----------------------------
(***************************************************************************)
(* What the WSPR backfill promises of the seasonal record's WSPR layer:    *)
(* a month of an area appears in one step, complete, and says exactly what *)
(* the wspr.live archive says; nothing else ever changes the layer.        *)
(* WsprArchive is shown to implement this.                                 *)
(*                                                                         *)
(* A spot of the archive is a record [ym, day, hour, rx, tx, id].          *)
(***************************************************************************)
EXTENDS Integers, FiniteSets, FiniteSetsExt

CONSTANTS
    WsprAreas,      \* grid4s that may be configured as an area
    RingOf,         \* area -> its grids (rings 0 to 2)
    Months, DaysOfMonth,
    Archive,        \* the spots in wspr.live
    NoLocator,      \* ends without a locator
    NoRegion,       \* grids outside every region (NoLocator among them)
    CountMax        \* what a counter of a slot holds: 255 (satAdd8)

Grids == UNION {RingOf[a] : a \in WsprAreas}

ASSUME WsprRecordConstants ==
    /\ IsFiniteSet(Archive)
    /\ \A s \in Archive : s.ym \in Months /\ s.day \in DaysOfMonth
    /\ NoLocator \subseteq NoRegion
    /\ CountMax \in Nat \ {0}

VARIABLES
    layer,          \* almanac_season_counts, layer wspr: [ym][grid][day]
    ingestSlots,    \* almanac_ingest_slots, layer wspr: [ym][day]
    monthDone,      \* almanac_wspr_backfill_done_<area>_<ym>
    ingestDone      \* almanac_wspr_ingest_done_<ym>

\* The spots whose near end is g, seen from a far end in some region.
Heard(ym, g, d) ==
    {s \in Archive : /\ s.ym = ym /\ s.day = d
                     /\ \/ s.rx = g /\ s.tx \notin NoRegion
                        \/ s.tx = g /\ s.rx \notin NoRegion}
ArchiveCount(ym, g, d) == Min({CountMax, Cardinality(Heard(ym, g, d))})

\* Two region keys per spot with both locators, world-wide.
ArchiveIngest(ym, d) ==
    2 * Cardinality({s \in Archive : s.ym = ym /\ s.day = d /\ {s.rx, s.tx} \cap NoLocator = {}})

RecordInit ==
    /\ layer = [ym \in Months |-> [g \in Grids |-> [d \in DaysOfMonth |-> 0]]]
    /\ ingestSlots = [ym \in Months |-> [d \in DaysOfMonth |-> 0]]
    /\ monthDone = {} /\ ingestDone = {}

CommitMonth(a, ym) ==
    /\ <<a, ym>> \notin monthDone
    /\ layer' = [layer EXCEPT ![ym] = [g \in Grids |->
                    IF g \in RingOf[a] THEN [d \in DaysOfMonth |-> ArchiveCount(ym, g, d)] ELSE @[g]]]
    /\ ingestSlots' = [ingestSlots EXCEPT ![ym] = [d \in DaysOfMonth |-> ArchiveIngest(ym, d)]]
    /\ monthDone' = monthDone \cup {<<a, ym>>}
    /\ ingestDone' = ingestDone \cup {ym}

RecordNext == \E a \in WsprAreas, ym \in Months : CommitMonth(a, ym)

recordVars == <<layer, ingestSlots, monthDone, ingestDone>>
RecordSpec == RecordInit /\ [][RecordNext]_recordVars
=============================================================================
