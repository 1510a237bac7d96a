---------------------------- MODULE MCCompanions ----------------------------
(***************************************************************************)
(* The programs beside the server, for TLC: the operator agent's parts and  *)
(* pathscope.  They share no state, so a behaviour of one is explored with *)
(* the others at rest: up names the one that runs.  (Horstprop, which no   *)
(* fairness is needed for, is in MCServerParts.)                           *)
(***************************************************************************)
EXTENDS AgentConfig, AgentRotor, AgentRig, AgentBeam, Pathscope

VARIABLE up

vars == <<configVars, rotorVars, rigVars, linkVars, psVars, up>>

MCPsSnrs == {-20, 0}

Init ==
    /\ up \in {"config", "rotor", "rig", "links", "pathscope"}
    /\ ConfigInit /\ RotorInit /\ RigInit /\ LinkInit /\ PsInit
    /\ up # "config" =>
         \A k \in Keys : envFile[k] = "a" /\ environ[k] = "a" /\ args[k] = Missing
    /\ rotor.az = 0
    /\ up # "rotor" => rotor.mode = "forward"
    /\ up # "links" => beam = "forward" /\ avail

ConfigUp == up = "config" /\ ConfigNext /\ UNCHANGED <<rotorVars, rigVars, linkVars, psVars, up>>
RotorUp == up = "rotor" /\ RotorNext /\ UNCHANGED <<configVars, rigVars, linkVars, psVars, up>>
RigUp == up = "rig" /\ RigNext /\ UNCHANGED <<configVars, rotorVars, linkVars, psVars, up>>
LinksUp == up = "links" /\ LinkNext /\ UNCHANGED <<configVars, rotorVars, rigVars, psVars, up>>
PathscopeUp == up = "pathscope" /\ PsNext /\ UNCHANGED <<configVars, rotorVars, rigVars, linkVars, up>>

Next == ConfigUp \/ RotorUp \/ RigUp \/ LinksUp \/ PathscopeUp

\* RotorFairness and PsFairness, each of the program that runs.
Fairness ==
    /\ WF_rotorVars(up = "rotor" /\ PollAgain)
    /\ \A p \in Callers : WF_rotorVars(up = "rotor" /\ GetStateStep(p))
    /\ WF_rotorVars(up = "rotor" /\ HandlerNotes)
    /\ WF_rotorVars(up = "rotor" /\ PSTTestEnds)
    /\ WF_rotorVars(up = "rotor" /\ RotorArrives)
    /\ WF_rotorVars(up = "rotor" /\ ModeClock)
    /\ WF_psVars(up = "pathscope" /\ PsLoop)
    /\ \A c \in PsClients : WF_psVars(up = "pathscope" /\ PsHandler(c))

Spec == Init /\ [][Next]_vars /\ Fairness
=============================================================================
