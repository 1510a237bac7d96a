------------------------------ MODULE AgentRig ------------------------------
(***************************************************************************)
(* Tuning the rig through Log4OM (cmd/horstoperator-agent, rig.go and      *)
(* rig_log4om.go), reached by /v1/rig/tune and /v1/operate: a QSY is two   *)
(* UDP requests, Log4OM answers each by a broadcast that names the         *)
(* request's MessageId, and the backend reads the reply port until both    *)
(* are confirmed, one is refused or the deadline passes.                   *)
(*                                                                         *)
(* Datagrams are lost, late and out of order; a broadcast nobody listens   *)
(* for is gone.  Another program (or a diagnostics ping of a throwaway     *)
(* backend) may hold the reply port.                                       *)
(***************************************************************************)
EXTENDS Integers, FiniteSets

CONSTANTS MaxTunes      \* bound on QSYs

ASSUME AgentRigConstants == MaxTunes \in Nat

\* log4omCmdSetFreq and SetMode
RigCmds == {"SetTxFrequeny", "SetMode"}

VARIABLES
    tune,       \* Tune under way: [n, at, listens, pending, late, result]
    requests,   \* datagrams on their way to Log4OM: <<tune, command>>
    replies,    \* broadcasts on their way: [id, done]
    executed,   \* requests Log4OM carried out
    refusedSeen \* ghost: requests whose refusal the backend read

rigVars == <<tune, requests, replies, executed, refusedSeen>>

NoTune(n) == [n |-> n, at |-> "idle", listens |-> FALSE, pending |-> {}, late |-> FALSE, result |-> "none"]

\* Tune, sendAndConfirm: the reply port is bound when it is free (listenReply),
\* then every command is sent.  A send error ends the tune.
Tune(bound, sent) ==
    /\ tune.at = "idle" /\ tune.n < MaxTunes
    /\ LET n == tune.n + 1 IN
       /\ requests' = requests \cup {<<n, c>> : c \in sent}
       /\ tune' = CASE sent # RigCmds -> [NoTune(n) EXCEPT !.at = "done", !.result = "error"]
                    [] sent = RigCmds /\ ~bound -> [NoTune(n) EXCEPT !.at = "done", !.result = "ok"]
                    [] OTHER -> [NoTune(n) EXCEPT !.at = "reading", !.listens = TRUE, !.pending = RigCmds]
    /\ UNCHANGED <<replies, executed, refusedSeen>>

\* Mutant: any answer confirms one of the commands.
MatchesAny(id) == tune.pending

\* A reply is matched to the pending command whose MessageId it contains.
Matches(id) == {c \in tune.pending : id = <<tune.n, c>>}

\* One datagram of the reply port, or nothing before the deadline: the
\* commands not yet confirmed are taken as sent.
ReadReply(reply) ==
    /\ tune.at = "reading" /\ reply \in replies
    /\ replies' = replies \ {reply}
    /\ LET hit == Matches(reply.id) IN
       \/ hit = {} /\ UNCHANGED <<tune, refusedSeen>>
       \/ \E c \in hit :
            /\ refusedSeen' = IF reply.done THEN refusedSeen ELSE refusedSeen \cup {reply.id}
            /\ tune' = CASE ~reply.done -> [tune EXCEPT !.at = "done", !.result = "error"]
                         [] reply.done /\ tune.pending = {c} -> [tune EXCEPT !.at = "done", !.result = "ok", !.pending = {}]
                         [] OTHER -> [tune EXCEPT !.pending = @ \ {c}]
    /\ UNCHANGED <<requests, executed>>

ReadTimesOut ==
    /\ tune.at = "reading"
    /\ tune' = [tune EXCEPT !.at = "done", !.result = "ok", !.late = TRUE]
    /\ UNCHANGED <<requests, replies, executed, refusedSeen>>

\* handleRigTune and handleOperate answer, and the next request may come.
TuneAnswered ==
    /\ tune.at = "done"
    /\ tune' = [NoTune(tune.n) EXCEPT !.result = tune.result]
    /\ UNCHANGED <<requests, replies, executed, refusedSeen>>

\* Log4OM: a request is lost, carried out or refused; the answer goes out as a
\* broadcast, read by whoever listens at that time.
Log4OMTakes(r, done) ==
    /\ r \in requests
    /\ requests' = requests \ {r}
    /\ executed' = IF done THEN executed \cup {r} ELSE executed
    /\ replies' = replies \cup {[id |-> r, done |-> done]}
    /\ UNCHANGED <<tune, refusedSeen>>

DatagramLost ==
    /\ \/ \E r \in requests : requests' = requests \ {r} /\ UNCHANGED replies
       \/ \E r \in replies : replies' = replies \ {r} /\ UNCHANGED requests
    /\ UNCHANGED <<tune, executed, refusedSeen>>

RigInit ==
    /\ tune = NoTune(0)
    /\ requests = {} /\ replies = {} /\ executed = {} /\ refusedSeen = {}

RigNext ==
    \/ \E bound \in BOOLEAN, sent \in {{}, {"SetTxFrequeny"}, RigCmds} : Tune(bound, sent)
    \/ \E reply \in replies : ReadReply(reply)
    \/ ReadTimesOut
    \/ TuneAnswered
    \/ \E r \in requests, done \in BOOLEAN : Log4OMTakes(r, done)
    \/ DatagramLost

RigSpec == RigInit /\ [][RigNext]_rigVars

(***************************************************************************)
(* Properties.                                                             *)
(***************************************************************************)
\* "match the answer by MessageId to CONFIRM each command", "an explicit
\* <Done>False</Done> is surfaced as a real error": a QSY reported as done
\* without a timeout was carried out in both its parts, whatever answers of
\* earlier QSYs were still under way, and a refusal that was read is never
\* reported as success.
QSYReportHonest ==
    tune.at = "done" /\ tune.result = "ok" =>
        /\ \A c \in RigCmds : <<tune.n, c>> \notin refusedSeen
        /\ tune.listens /\ ~tune.late => \A c \in RigCmds : <<tune.n, c>> \in executed
=============================================================================
