---- MODULE MCSpotStream ----
(* SpotStream for TLC: two kinds of spots in the home square and one in the next ring. *)
EXTENDS SpotStream

MCRing(k) == IF k = "far" THEN 1 ELSE 0
MCNarrowWide == {{"a"}, {"a", "b"}}
MCNearFar == {{"a"}, {"a", "far"}}
MCThree == {{"a"}, {"a", "b"}, {"a", "b", "c"}}
MCSymmetry == Permutations(Broadcasters)
====
