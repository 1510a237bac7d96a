---------------------------- MODULE MCAlmanacFlush ---------------------------
(* AlmanacFold for TLC, asked two questions that need different bounds: a  *)
(* "burst" of spots about failing flushes, all at one time of day; and, of *)
(* one spot at most, the "course" of days under the fairness of the        *)
(* tickers.                                                                *)
EXTENDS MCAlmanacFold

VARIABLE question

FlushVars == <<vars, question>>

InBurst(A) == A /\ question = "burst" /\ clock' = clock /\ UNCHANGED question
InCourse(A) == A /\ question = "course" /\ spots' <= 1 /\ UNCHANGED question

FlushInit == Init /\ question \in {"burst", "course"}
FlushNext == InBurst(Next) \/ InCourse(Next)

\* No time passes in a burst, so none is fair: what must happen is asked of the
\* courses, and what must not of both.
FlushSpec == FlushInit /\ [][FlushNext]_FlushVars /\ Fairness
=============================================================================
