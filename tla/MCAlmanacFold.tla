---------------------------- MODULE MCAlmanacFold ----------------------------
(* Small instances of AlmanacFold for TLC: two clock units per UTC day.     *)
EXTENDS AlmanacFold

\* A fresh install, and a daily table with a gap (day 1).
MCPreDeploy == {[d \in Days |-> 0], [d \in Days |-> IF d \in {0, 2} THEN 1 ELSE 0]}
=============================================================================
