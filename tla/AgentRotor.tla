----------------------------- MODULE AgentRotor -----------------------------
(***************************************************************************)
(* The operator agent's rotator side (cmd/horstoperator-agent/main.go): the *)
(* PSTrotator UDP client, the antenna poller that feeds the polled state,  *)
(* and the handlers that read it, turn the antenna or set its mode.        *)
(*                                                                         *)
(* Each UDP exchange holds the client's mutex, so it is one step; between  *)
(* the exchanges of one GetState others run.  The handlers of commands run *)
(* beside each other: each sends its datagram, which may be lost, and then *)
(* notes what it asked for, and several may stand between the two.  The    *)
(* connectivity test of the Settings page has a client of its own and may  *)
(* hold the reply port for the time of its exchange.  Time is counted in   *)
(* MODE? base intervals.                                                   *)
(***************************************************************************)
EXTENDS Integers, FiniteSets

CONSTANTS
    Headings,       \* azimuths in degrees the operator turns to
    SettleErrors,   \* degrees past the target at which the antenna may stop
    ModeMax,        \* modeQueryMaxInterval, in modeQueryBaseIntervals
    MaxRequests,    \* bound on the requests: commands, and reads of the state
    MaxOutages      \* bound on changes of what the controller answers

Modes == {"forward", "backward", "bidirectional"}

ASSUME AgentRotorConstants ==
    /\ Headings \subseteq 0 .. 359 /\ SettleErrors \subseteq 0 .. 179
    /\ {ModeMax, MaxRequests, MaxOutages} \subseteq Nat /\ ModeMax > 0

Callers == {"poller", "handler"}

VARIABLES
    rotor,      \* the device: [az, target, moving, mode]
    outage,     \* what the controller leaves unanswered: "none", "mode", "all"
    testing,    \* the connectivity test holds the reply port
    known,      \* lastKnownMode
    backoff,    \* modeQueryBackoff
    age,        \* base intervals since lastModeQueryAttempt
    poll,       \* pollState
    call,       \* by caller, the GetState under way
    sent,       \* commands sent and not yet noted by their handlers: [id, op, az, mode]
    asked, outages       \* used up

rotorVars == <<rotor, outage, testing, known, backoff, age, poll, call, sent, asked, outages>>
budgets == <<asked, outages>>

NoCall == [at |-> "idle", az |-> 0, mode |-> "forward", ok |-> FALSE]

(***************************************************************************)
(* Angles and modes.                                                       *)
(***************************************************************************)
normalizeAzimuth(a) == a % 360

angularDistanceDeg(a, b) ==
    LET d == IF a > b THEN a - b ELSE b - a IN IF d > 180 THEN 360 - d ELSE d

\* Mutant: arrival has to be strictly inside the tolerance.
withinTenPercentStrictly(current, target) == 10 * angularDistanceDeg(current, target) < target

\* withinTenPercentOfTarget: the tolerance is a tenth of the target azimuth.
withinTenPercentOfTarget(current, target) == 10 * angularDistanceDeg(current, target) <= target

\* buildModeCommand: the controller tells only tracking on from off.
TrackOf(mode) == IF mode = "bidirectional" THEN "bidirectional" ELSE "forward"

(***************************************************************************)
(* GetState, exchange by exchange, by the poller or a handler.             *)
(***************************************************************************)
\* A reply comes when the controller answers and the reply port can be bound.
AnswersAz == outage # "all" /\ ~testing
AnswersMode == outage = "none" /\ ~testing

\* sendAndMaybeReceive(AZ?) and parseAzimuth; an error ends the GetState.
QueryAz(p) ==
    /\ call[p].at = "az"
    /\ call' = [call EXCEPT ![p] = IF AnswersAz
                                   THEN [NoCall EXCEPT !.at = "decide", !.az = rotor.az, !.ok = TRUE]
                                   ELSE [NoCall EXCEPT !.at = "apply"]]
    /\ UNCHANGED <<rotor, outage, testing, known, backoff, age, poll, sent, budgets>>

\* getKnownMode and shouldQueryModeNow.
Interval == IF backoff = 0 THEN 1 ELSE backoff
shouldQueryModeNow(p) ==
    /\ call[p].at = "decide"
    /\ IF age >= Interval
       THEN age' = 0 /\ call' = [call EXCEPT ![p].at = "mode"]
       ELSE call' = [call EXCEPT ![p].at = "apply"] /\ UNCHANGED age
    /\ UNCHANGED <<rotor, outage, testing, known, backoff, poll, sent, budgets>>

\* sendAndMaybeReceive(MODE?): the reply waits to be noted.
QueryMode(p) ==
    /\ call[p].at = "mode" /\ AnswersMode
    /\ call' = [call EXCEPT ![p].at = "learn", ![p].mode = rotor.mode]
    /\ UNCHANGED <<rotor, outage, testing, known, backoff, age, poll, sent, budgets>>

\* resetModeQueryBackoff, parseMode, setKnownMode.
LearnMode(p) ==
    /\ call[p].at = "learn"
    /\ backoff' = 0
    /\ known' = call[p].mode
    /\ call' = [call EXCEPT ![p].at = "apply", ![p].mode = NoCall.mode]
    /\ UNCHANGED <<rotor, outage, testing, age, poll, sent, budgets>>

\* Mutant: a controller that did not answer is not asked again.
widenedForever == IF backoff = 0 THEN 1 ELSE 2 * ModeMax

\* backoffModeQuery
widened == IF backoff = 0 THEN 1 ELSE IF 2 * backoff > ModeMax THEN ModeMax ELSE 2 * backoff

QueryModeFails(p) ==
    /\ call[p].at = "mode" /\ ~AnswersMode
    /\ backoff' = widened
    /\ call' = [call EXCEPT ![p].at = "apply"]
    /\ UNCHANGED <<rotor, outage, testing, known, age, poll, sent, budgets>>

\* updatePollState; a state handler answers with it.
updatePollState(p) ==
    /\ call[p].at = "apply"
    /\ poll' = IF ~call[p].ok THEN [poll EXCEPT !.err = TRUE]
               ELSE [poll EXCEPT !.has = TRUE, !.err = FALSE,
                                 !.fast = @ /\ ~withinTenPercentOfTarget(call[p].az, poll.target)]
    /\ call' = [call EXCEPT ![p] = NoCall]
    /\ UNCHANGED <<rotor, outage, testing, known, backoff, age, sent, budgets>>

\* startAntennaPoller: the next round, after currentPollInterval.
PollAgain ==
    /\ call["poller"].at = "idle"
    /\ call' = [call EXCEPT !["poller"].at = "az"]
    /\ UNCHANGED <<rotor, outage, testing, known, backoff, age, poll, sent, budgets>>

\* handleAntennaState, getPolledStateOrFallback: the polled state, or a
\* GetState of its own when there is none or the last one failed.
handleAntennaState ==
    /\ call["handler"].at = "idle" /\ asked < MaxRequests
    /\ asked' = asked + 1
    /\ IF poll.has /\ ~poll.err THEN UNCHANGED call
       ELSE call' = [call EXCEPT !["handler"].at = "az"]
    /\ UNCHANGED <<rotor, outage, testing, known, backoff, age, poll, sent, outages>>

(***************************************************************************)
(* Commands.                                                               *)
(***************************************************************************)
\* A command is one datagram without an answer: the controller takes it, and
\* becomes as said, or it is lost.
Send(op, az, mode, taken) ==
    /\ asked < MaxRequests
    /\ asked' = asked + 1
    /\ sent' = sent \cup {[id |-> asked, op |-> op, az |-> az, mode |-> mode]}
    /\ rotor' \in {taken, rotor}
    /\ UNCHANGED <<outage, testing, known, backoff, age, poll, call, outages>>

\* handleRotate, and handleOperate's antenna leg: RotateToAzimuth ...
RotateToAzimuth(az) ==
    Send("rotate", normalizeAzimuth(az), "forward",
         [rotor EXCEPT !.target = normalizeAzimuth(az), !.moving = TRUE, !.mode = "forward"])

\* ... then beginFastPollingForTarget.
beginFastPollingForTarget(c) ==
    /\ c.op = "rotate"
    /\ poll' = [poll EXCEPT !.target = c.az, !.fast = TRUE]
    /\ sent' = sent \ {c}
    /\ UNCHANGED <<rotor, outage, testing, known, backoff, age, call, budgets>>

\* handleMode: SetMode sends the command ...
SetMode(mode) == Send("mode", 0, mode, [rotor EXCEPT !.mode = TrackOf(mode)])

\* ... and then notes the mode that was asked for.
setKnownMode(c) ==
    /\ c.op = "mode"
    /\ known' = c.mode
    /\ sent' = sent \ {c}
    /\ UNCHANGED <<rotor, outage, testing, backoff, age, poll, call, budgets>>

(***************************************************************************)
(* Surroundings: the antenna, the controller, the connectivity test, time.  *)
(***************************************************************************)
\* The antenna stops at its target or somewhat past it.
RotorArrives ==
    /\ rotor.moving
    /\ \E e \in SettleErrors :
         rotor' = [rotor EXCEPT !.az = normalizeAzimuth(rotor.target + e), !.moving = FALSE]
    /\ UNCHANGED <<outage, testing, known, backoff, age, poll, call, sent, budgets>>

ControllerChanges(o) ==
    /\ o # outage
    /\ IF o = "none" THEN UNCHANGED outages ELSE outages < MaxOutages /\ outages' = outages + 1
    /\ outage' = o
    /\ UNCHANGED <<rotor, testing, known, backoff, age, poll, call, sent, asked>>

\* handlePSTTest: a client of its own on the same reply port.
PSTTestBegins ==
    /\ ~testing /\ outages < MaxOutages
    /\ outages' = outages + 1
    /\ testing' = TRUE
    /\ UNCHANGED <<rotor, outage, known, backoff, age, poll, call, sent, asked>>

PSTTestEnds ==
    /\ testing
    /\ testing' = FALSE
    /\ UNCHANGED <<rotor, outage, known, backoff, age, poll, call, sent, budgets>>

\* A base interval passes; past the longest interval it makes no difference.
ModeClock ==
    /\ age < ModeMax
    /\ age' = age + 1
    /\ UNCHANGED <<rotor, outage, testing, known, backoff, poll, call, sent, budgets>>

RotorInit ==
    /\ \E az \in Headings, mode \in {"forward", "bidirectional"} :
         rotor = [az |-> az, target |-> az, moving |-> FALSE, mode |-> mode]
    /\ outage = "none" /\ testing = FALSE
    /\ known = "forward" /\ backoff = 0 /\ age = ModeMax
    /\ poll = [has |-> FALSE, err |-> FALSE, fast |-> FALSE, target |-> 0]
    /\ call = [p \in Callers |-> NoCall]
    /\ sent = {}
    /\ asked = 0 /\ outages = 0

GetStateStep(p) ==
    QueryAz(p) \/ shouldQueryModeNow(p) \/ QueryMode(p) \/ LearnMode(p) \/ QueryModeFails(p) \/ updatePollState(p)

HandlerNotes == \E c \in sent : beginFastPollingForTarget(c) \/ setKnownMode(c)

RotorNext ==
    \/ \E p \in Callers : GetStateStep(p)
    \/ PollAgain
    \/ handleAntennaState
    \/ \E az \in Headings : RotateToAzimuth(az)
    \/ HandlerNotes
    \/ \E mode \in Modes : SetMode(mode)
    \/ RotorArrives
    \/ \E o \in {"none", "mode", "all"} : ControllerChanges(o)
    \/ PSTTestBegins
    \/ PSTTestEnds
    \/ ModeClock

\* The poller and the handlers are goroutines that run; a test ends by its
\* timeout; a turning antenna arrives; time passes.
RotorFairness ==
    /\ WF_rotorVars(PollAgain) /\ \A p \in Callers : WF_rotorVars(GetStateStep(p))
    /\ WF_rotorVars(HandlerNotes)
    /\ WF_rotorVars(PSTTestEnds) /\ WF_rotorVars(RotorArrives) /\ WF_rotorVars(ModeClock)

RotorSpec == RotorInit /\ [][RotorNext]_rotorVars /\ RotorFairness

(***************************************************************************)
(* Properties.                                                             *)
(***************************************************************************)
\* "back off and retry rather than disabling forever, so it recovers once
\* fixed": once the controller answers for good, the mode the agent shows is
\* again and again the one the controller is in, whatever was commanded and
\* whatever stale reply was noted before.
ModeRecovers == <>[](outage = "none") => []<>(known = rotor.mode)

\* Fast polling is for the time of a turn: once the controller answers for
\* good, it ends, whatever readings failed meanwhile and whatever was read
\* before the turn.  That takes two things the code does not see to: the heading
\* polled for is the one the controller turns to, which neither a lost command
\* nor two handlers that pass each other leave so; and the antenna stops within
\* a tenth of that heading, which to the north is no tolerance at all.
FastPollingEnds ==
    /\ <>[](outage # "all")
    /\ <>[](poll.fast => poll.target = rotor.target)
    /\ <>[](\A e \in SettleErrors : 10 * e <= rotor.target)
    => []<>(~poll.fast)
=============================================================================
