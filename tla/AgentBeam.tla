----------------------------- MODULE AgentBeam -----------------------------
(***************************************************************************)
(* The operator agent's view of the UltraBeam controller over MQTT         *)
(* (cmd/horstoperator-agent/ultrabeam.go, handleBeam in main.go) and of the *)
(* rig over WaveLogGate's WebSocket (waveloggate_ws.go).  Both cache what  *)
(* a change-driven publisher sent last and lose the connection at times;   *)
(* the broker retains the controller's last status.                        *)
(***************************************************************************)
EXTENDS Integers, Sequences

CONSTANTS
    MaxBeamEvents,  \* bound on commands, changes of the controller and lost links
    MaxRigEvents    \* bound on changes of the rig and lost links

BeamModes == {"forward", "reverse"}

ASSUME AgentBeamConstants == {MaxBeamEvents, MaxRigEvents} \subseteq Nat

VARIABLES
    beam,       \* the controller's beam direction, as the broker retains it
    avail,      \* its availability, as the broker retains it
    link,       \* the agent's broker connection: "down", "up" or "subscribed"
    feed,       \* status messages on their way to the agent
    cache,      \* ultrabeamClient: [mode, online]
    ordered,    \* beam commands on their way to the controller
    beamEvents

VARIABLES
    rig,        \* the rig's frequency
    ws,         \* "down" or "up"
    wsFeed,     \* frames on their way
    radio,      \* waveLogGateWS: [freq, connected]
    rigEvents

beamVars == <<beam, avail, link, feed, cache, ordered, beamEvents>>
radioVars == <<rig, ws, wsFeed, radio, rigEvents>>
linkVars == <<beamVars, radioVars>>

(***************************************************************************)
(* UltraBeam.                                                              *)
(***************************************************************************)
\* The controller publishes a change with the retain flag; a subscriber gets it.
Published(msg) == IF link = "subscribed" THEN Append(feed, msg) ELSE feed

ControllerTurns(mode) ==
    /\ mode # beam /\ beamEvents < MaxBeamEvents
    /\ beamEvents' = beamEvents + 1
    /\ beam' = mode
    /\ feed' = Published([topic |-> "frequency", value |-> mode])
    /\ UNCHANGED <<avail, link, cache, ordered, radioVars>>

AvailabilityChanges ==
    /\ beamEvents < MaxBeamEvents
    /\ beamEvents' = beamEvents + 1
    /\ avail' = ~avail
    /\ feed' = Published([topic |-> "availability", value |-> avail'])
    /\ UNCHANGED <<beam, link, cache, ordered, radioVars>>

\* handleBeam and Publish: the client counts as connected also while it retries
\* the connection, and a command given meanwhile goes nowhere.
handleBeam(mode) ==
    /\ beamEvents < MaxBeamEvents
    /\ beamEvents' = beamEvents + 1
    /\ ordered' = IF link = "down" THEN ordered ELSE Append(ordered, mode)
    /\ UNCHANGED <<beam, avail, link, feed, cache, radioVars>>

\* ubctrl takes a command; QoS 0: it may also be lost.
CommandTaken ==
    /\ ordered # <<>>
    /\ ordered' = Tail(ordered)
    /\ \/ UNCHANGED <<beam, feed>>
       \/ beam' = Head(ordered) /\ feed' = Published([topic |-> "frequency", value |-> Head(ordered)])
    /\ UNCHANGED <<avail, link, cache, beamEvents, radioVars>>

\* connect-retry and auto-reconnect.
BrokerConnects ==
    /\ link = "down"
    /\ link' = "up"
    /\ UNCHANGED <<beam, avail, feed, cache, ordered, beamEvents, radioVars>>

\* Mutant: the subscription of a new session brings no retained status.
RetainedNone == <<>>

\* Subscribe: a new subscription is sent every retained status.
Retained == <<[topic |-> "frequency", value |-> beam], [topic |-> "availability", value |-> avail]>>

\* OnConnectHandler; a failed subscription is noted and not repeated.
OnConnect ==
    /\ link = "up"
    /\ link' = "subscribed"
    /\ feed' = Retained
    /\ UNCHANGED <<beam, avail, cache, ordered, beamEvents, radioVars>>

\* ConnectionLost: messages of the session are gone (clean session).
ConnectionLost ==
    /\ link # "down" /\ beamEvents < MaxBeamEvents
    /\ beamEvents' = beamEvents + 1
    /\ link' = "down"
    /\ feed' = <<>> /\ ordered' = <<>>
    /\ UNCHANGED <<beam, avail, cache, radioVars>>

\* handleMessage, applyStatus
applyStatus ==
    /\ feed # <<>>
    /\ feed' = Tail(feed)
    /\ cache' = IF Head(feed).topic = "frequency" THEN [cache EXCEPT !.mode = Head(feed).value]
                ELSE [cache EXCEPT !.online = Head(feed).value]
    /\ UNCHANGED <<beam, avail, link, ordered, beamEvents, radioVars>>

\* Status, what /v1/antenna/state shows of the beam: the last availability, since
\* connected() is true of a client that retries, as it does from the start on.
Online == cache.online

(***************************************************************************)
(* WaveLogGate.                                                            *)
(***************************************************************************)
RigTunes(f) ==
    /\ f # rig /\ rigEvents < MaxRigEvents
    /\ rigEvents' = rigEvents + 1
    /\ rig' = f
    /\ wsFeed' = IF ws = "down" THEN wsFeed ELSE Append(wsFeed, f)
    /\ UNCHANGED <<ws, radio, beamVars>>

\* connectOnce: the welcome frame (frequency 0) is the first to come.
WSDial ==
    /\ ws = "down"
    /\ ws' = "up"
    /\ wsFeed' = <<0>>
    /\ UNCHANGED <<rig, radio, rigEvents, beamVars>>

\* applyMessage: a frame without a frequency only marks the link as up.
applyMessage ==
    /\ wsFeed # <<>>
    /\ wsFeed' = Tail(wsFeed)
    /\ radio' = [freq |-> IF Head(wsFeed) > 0 THEN Head(wsFeed) ELSE radio.freq, connected |-> TRUE]
    /\ UNCHANGED <<rig, ws, rigEvents, beamVars>>

\* connectOnce returns its error, runLoop calls setDisconnected and backs off.
WSDrops ==
    /\ ws = "up" /\ rigEvents < MaxRigEvents
    /\ rigEvents' = rigEvents + 1
    /\ ws' = "down"
    /\ wsFeed' = <<>>
    /\ radio' = [radio EXCEPT !.connected = FALSE]
    /\ UNCHANGED <<rig, beamVars>>

\* RadioState
RadioOnline == radio.connected /\ radio.freq > 0

LinkInit ==
    /\ beam \in BeamModes /\ avail \in BOOLEAN
    /\ link = "down" /\ feed = <<>> /\ ordered = <<>>
    /\ cache = [mode |-> "forward", online |-> FALSE]
    /\ beamEvents = 0
    /\ rig = 1 /\ ws = "down" /\ wsFeed = <<>>
    /\ radio = [freq |-> 0, connected |-> FALSE]
    /\ rigEvents = 0

LinkNext ==
    \/ \E mode \in BeamModes : ControllerTurns(mode)
    \/ AvailabilityChanges
    \/ \E mode \in BeamModes : handleBeam(mode)
    \/ CommandTaken
    \/ BrokerConnects
    \/ OnConnect
    \/ ConnectionLost
    \/ applyStatus
    \/ \E f \in {1, 2} : RigTunes(f)
    \/ WSDial
    \/ applyMessage
    \/ WSDrops

LinkSpec == LinkInit /\ [][LinkNext]_linkVars

(***************************************************************************)
(* Properties.                                                             *)
(***************************************************************************)
\* "Retained status topics deliver current values immediately", "the reverse
\* alarm", "WS connected AND at least one status seen": once subscribed and with
\* no message under way, the beam and the availability the agent shows are the
\* controller's, whatever it did while the link was down; the rig is shown as
\* live only on a live link (but with the frequency of before a reconnect until
\* the first status after it).
LinksShown ==
    /\ link = "subscribed" /\ feed = <<>> => cache.mode = beam /\ Online = avail
    /\ RadioOnline => ws = "up"
=============================================================================
