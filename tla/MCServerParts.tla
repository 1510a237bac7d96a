---------------------------- MODULE MCServerParts ---------------------------
(***************************************************************************)
(* Parts of the server for TLC: the raw-spot queue, the WSPR poller, the   *)
(* WSPR climatology, the history API, the cluster-pairs cache and the push *)
(* subscriptions.  A behaviour of one is explored with the others at rest  *)
(* in their initial state: part names the one that runs.                   *)
(***************************************************************************)
EXTENDS RawSpots, WsprLive, WsprClimate, HistoryApi, BaselinePairs, PushStore

VARIABLE part

vars == <<rawVars, wlVars, wcVars, haVars, bpVars, pushVars, part>>

\* Raw spots: a queued and a direct source, one old row.
MCSources == <<"mqtt", "rbn">>
MCPreLog == << <<"mqtt", 0>> >>

\* History: a window that is over, and one that reaches into the present.
MCHaWindows == {[t0 |-> 3, t1 |-> 4], [t0 |-> 0, t1 |-> 3]}

MCPushPrefs == {{"all"}}

Init ==
    /\ part \in {"raw", "wspr", "climate", "history", "pairs", "push"}
    /\ RawInit /\ WlInit /\ WcInit /\ HaInit /\ BpInit /\ PushInit

RawRuns == part = "raw" /\ RawNext /\ UNCHANGED <<wlVars, wcVars, haVars, bpVars, pushVars, part>>
WsprRuns == part = "wspr" /\ WlNext /\ UNCHANGED <<rawVars, wcVars, haVars, bpVars, pushVars, part>>
ClimateRuns == part = "climate" /\ WcNext /\ UNCHANGED <<rawVars, wlVars, haVars, bpVars, pushVars, part>>
HistoryRuns == part = "history" /\ HaNext /\ UNCHANGED <<rawVars, wlVars, wcVars, bpVars, pushVars, part>>
PairsRun == part = "pairs" /\ BpNext /\ UNCHANGED <<rawVars, wlVars, wcVars, haVars, pushVars, part>>
PushRuns == part = "push" /\ PushNext /\ UNCHANGED <<rawVars, wlVars, wcVars, haVars, bpVars, part>>

Next == RawRuns \/ WsprRuns \/ ClimateRuns \/ HistoryRuns \/ PairsRun \/ PushRuns

Spec == Init /\ [][Next]_vars
=============================================================================
