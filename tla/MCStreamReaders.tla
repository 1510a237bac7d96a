--------------------------- MODULE MCStreamReaders ---------------------------
(***************************************************************************)
(* The spot stream's two readers for TLC, the page and horstprop.  A       *)
(* behaviour of one is explored with the other at rest in its initial      *)
(* state: reader names the one that runs.                                  *)
(***************************************************************************)
EXTENDS MCSpotStream, Horstprop

VARIABLE reader

readersVars == <<vars, hpVars, reader>>

MCHpSnrs == {-18, 5}

ReadersInit == Init /\ HpInit /\ reader \in {"page", "horstprop"}

PageReads == reader = "page" /\ Next /\ UNCHANGED <<hpVars, reader>>
HorstpropReads == reader = "horstprop" /\ HpNext /\ UNCHANGED <<vars, reader>>

ReadersNext == PageReads \/ HorstpropReads

ReadersSpec == ReadersInit /\ [][ReadersNext]_readersVars
=============================================================================
