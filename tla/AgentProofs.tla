----------------------------- MODULE AgentProofs -----------------------------
(***************************************************************************)
(* The operator agent never shows more than it knows and never forgets a   *)
(* setting, for every number of tunes, of commands, of lost links and of   *)
(* saves: what AgentRig says of a reported QSY, AgentBeam of the two links *)
(* and AgentConfig of a restart, as theorems; and what Horstprop says of a *)
(* score.                                                                  *)
(***************************************************************************)
EXTENDS AgentConfig, AgentRig, AgentBeam, Horstprop, SequenceTheorems, TLAPS

(***************************************************************************)
(* The QSY.                                                                *)
(***************************************************************************)
\* A request is named by its tune and its command (the MessageId).
RigIds == Nat \X RigCmds

\* The values AgentRig's variables take.
RigTypeOK ==
    /\ tune \in [n : Nat, at : {"idle", "reading", "done"}, listens : BOOLEAN,
                 pending : SUBSET RigCmds, late : BOOLEAN, result : {"none", "ok", "error"}]
    /\ requests \subseteq RigIds
    /\ replies \subseteq [id : RigIds, done : BOOLEAN]
    /\ executed \subseteq RigIds
    /\ refusedSeen \subseteq RigIds

\* Nothing under way or read belongs to a tune that has not begun: MessageIds
\* are never used twice.
RigPast ==
    /\ \A r \in requests : r[1] <= tune.n
    /\ \A p \in replies : p.id[1] <= tune.n
    /\ \A r \in refusedSeen : r[1] <= tune.n

\* Log4OM says done only of what it carried out.
RepliesTrue == \A p \in replies : p.done => p.id \in executed

\* While the reply port is read, the commands taken off the list are carried
\* out and no refusal of this tune was read.
ReadingSound ==
    tune.at = "reading" =>
        \A c \in RigCmds :
            /\ <<tune.n, c>> \notin refusedSeen
            /\ c \notin tune.pending => <<tune.n, c>> \in executed

\* The inductive invariant of QSYReportHonest.
RigInv == RigTypeOK /\ RigPast /\ RepliesTrue /\ ReadingSound /\ QSYReportHonest

\* No datagram is under way before the first QSY.
LEMMA RigInvInit == RigInit => RigInv
BY DEF RigInit, RigInv, RigTypeOK, RigPast, RepliesTrue, ReadingSound, QSYReportHonest, NoTune, RigCmds

\* A new QSY: no answer that is still under way carries its number.
LEMMA TuneKeeps ==
  ASSUME RigInv, NEW bound \in BOOLEAN, NEW sent \in {{}, {"SetTxFrequeny"}, RigCmds}, Tune(bound, sent)
  PROVE  RigInv'
<1> DEFINE n == tune.n + 1
<1>1. n \in Nat /\ n > tune.n
  BY DEF RigInv, RigTypeOK
<1>2. sent \subseteq RigCmds
  BY DEF RigCmds
<1>3. requests' = requests \cup {<<n, c>> : c \in sent} /\ UNCHANGED <<replies, executed, refusedSeen>>
  BY DEF Tune
<1>4. \/ tune' = [NoTune(n) EXCEPT !.at = "done", !.result = "error"]
      \/ sent = RigCmds /\ tune' = [NoTune(n) EXCEPT !.at = "done", !.result = "ok"]
      \/ sent = RigCmds /\ tune' = [NoTune(n) EXCEPT !.at = "reading", !.listens = TRUE, !.pending = RigCmds]
  BY Zenon DEF Tune
<1>5. /\ tune' \in [n : Nat, at : {"idle", "reading", "done"}, listens : BOOLEAN,
                 pending : SUBSET RigCmds, late : BOOLEAN, result : {"none", "ok", "error"}]
      /\ tune'.n = n
      /\ tune'.at = "reading" => tune'.pending = RigCmds
      /\ tune'.at = "done" => ~tune'.listens
  <2> DEFINE Rec(at, listens, pending, result) ==
        [n |-> n, at |-> at, listens |-> listens, pending |-> pending, late |-> FALSE, result |-> result]
  <2>1. \/ tune' = Rec("done", FALSE, {}, "error")
        \/ tune' = Rec("done", FALSE, {}, "ok")
        \/ tune' = Rec("reading", TRUE, RigCmds, "none")
    BY <1>4 DEF NoTune
  <2> HIDE DEF n
  <2>2. CASE tune' = Rec("done", FALSE, {}, "error")
    BY <1>1, <2>2
  <2>3. CASE tune' = Rec("done", FALSE, {}, "ok")
    BY <1>1, <2>3
  <2>4. CASE tune' = Rec("reading", TRUE, RigCmds, "none")
    BY <1>1, <2>4
  <2>5. QED
    BY <2>1, <2>2, <2>3, <2>4
<1> HIDE DEF n
<1>6. RigTypeOK'
  <2>1. {<<n, c>> : c \in sent} \subseteq RigIds
    BY <1>1, <1>2 DEF RigIds
  <2>2. QED
    BY <2>1, <1>3, <1>5 DEF RigInv, RigTypeOK
<1>7. RigPast'
  <2>1. \A m \in Nat : m <= tune.n => m <= n
    BY <1>1 DEF RigInv, RigTypeOK
  <2>2. \A r \in RigIds : r[1] \in Nat
    BY DEF RigIds
  <2>3. \A r \in requests' : r[1] <= n
    BY <1>1, <1>3, <2>1, <2>2 DEF RigInv, RigTypeOK, RigPast
  <2>4. QED
    BY <1>3, <1>5, <2>1, <2>2, <2>3 DEF RigInv, RigTypeOK, RigPast
<1>8. RepliesTrue'
  BY <1>3 DEF RigInv, RepliesTrue
<1>9. \A c : <<n, c>> \notin refusedSeen
  BY <1>1 DEF RigInv, RigTypeOK, RigPast
<1>10. ReadingSound' /\ QSYReportHonest'
  BY <1>3, <1>5, <1>9 DEF ReadingSound, QSYReportHonest
<1>11. QED
  BY <1>6, <1>7, <1>8, <1>10 DEF RigInv

\* A datagram is read: only the answer to a pending command of this very tune
\* changes what the backend knows.
LEMMA ReadKeeps ==
  ASSUME RigInv, NEW reply \in replies, ReadReply(reply)
  PROVE  RigInv'
<1>1. replies' = replies \ {reply} /\ UNCHANGED <<requests, executed>> /\ tune.at = "reading"
  BY DEF ReadReply
<1>2. RepliesTrue'
  BY <1>1 DEF RigInv, RepliesTrue
<1>3. CASE UNCHANGED <<tune, refusedSeen>>
  BY <1>1, <1>2, <1>3 DEF RigInv, RigTypeOK, RigPast, ReadingSound, QSYReportHonest
<1>4. CASE \E c \in Matches(reply.id) :
            /\ refusedSeen' = IF reply.done THEN refusedSeen ELSE refusedSeen \cup {reply.id}
            /\ tune' = CASE ~reply.done -> [tune EXCEPT !.at = "done", !.result = "error"]
                         [] reply.done /\ tune.pending = {c} -> [tune EXCEPT !.at = "done", !.result = "ok", !.pending = {}]
                         [] OTHER -> [tune EXCEPT !.pending = @ \ {c}]
  <2>1. PICK c \in Matches(reply.id) :
            /\ refusedSeen' = IF reply.done THEN refusedSeen ELSE refusedSeen \cup {reply.id}
            /\ tune' = CASE ~reply.done -> [tune EXCEPT !.at = "done", !.result = "error"]
                         [] reply.done /\ tune.pending = {c} -> [tune EXCEPT !.at = "done", !.result = "ok", !.pending = {}]
                         [] OTHER -> [tune EXCEPT !.pending = @ \ {c}]
    BY <1>4
  <2>2. c \in tune.pending /\ reply.id = <<tune.n, c>> /\ c \in RigCmds
    BY DEF Matches, RigInv, RigTypeOK
  <2>3. reply.done \in BOOLEAN /\ reply.id \in RigIds /\ reply.id[1] <= tune.n
    BY DEF RigInv, RigTypeOK, RigPast
  <2>4. CASE ~reply.done
    <3>1. tune' = [tune EXCEPT !.at = "done", !.result = "error"] /\ refusedSeen' = refusedSeen \cup {reply.id}
      BY <2>1, <2>4, Zenon
    <3>2. QED
      BY <3>1, <2>3, <1>1, <1>2 DEF RigInv, RigTypeOK, RigPast, ReadingSound, QSYReportHonest
  <2>5. CASE reply.done /\ tune.pending = {c}
    <3>1. tune' = [tune EXCEPT !.at = "done", !.result = "ok", !.pending = {}] /\ refusedSeen' = refusedSeen
      BY <2>1, <2>5, Zenon
    <3>2. <<tune.n, c>> \in executed
      BY <2>2, <2>5 DEF RigInv, RepliesTrue
    <3>3. QED
      BY <3>1, <3>2, <2>5, <1>1, <1>2 DEF RigInv, RigTypeOK, RigPast, ReadingSound, QSYReportHonest
  <2>6. CASE reply.done /\ tune.pending # {c}
    <3>1. tune' = [tune EXCEPT !.pending = @ \ {c}] /\ refusedSeen' = refusedSeen
      BY <2>1, <2>6, Zenon
    <3>2. <<tune.n, c>> \in executed
      BY <2>2, <2>6 DEF RigInv, RepliesTrue
    <3>3. QED
      BY <3>1, <3>2, <1>1, <1>2 DEF RigInv, RigTypeOK, RigPast, ReadingSound, QSYReportHonest
  <2>7. QED
    BY <2>3, <2>4, <2>5, <2>6
<1>5. QED
  BY <1>3, <1>4 DEF ReadReply

\* Every step of the agent, of Log4OM and of the network keeps the invariant.
LEMMA RigInvStep == RigInv /\ [RigNext]_rigVars => RigInv'
<1> SUFFICES ASSUME RigInv, [RigNext]_rigVars PROVE RigInv'
  OBVIOUS
<1>1. CASE \E bound \in BOOLEAN, sent \in {{}, {"SetTxFrequeny"}, RigCmds} : Tune(bound, sent)
  BY <1>1, TuneKeeps
<1>2. CASE \E reply \in replies : ReadReply(reply)
  BY <1>2, ReadKeeps
<1>3. CASE ReadTimesOut
  BY <1>3 DEF ReadTimesOut, RigInv, RigTypeOK, RigPast, RepliesTrue, ReadingSound, QSYReportHonest
<1>4. CASE TuneAnswered
  BY <1>4 DEF TuneAnswered, NoTune, RigInv, RigTypeOK, RigPast, RepliesTrue, ReadingSound, QSYReportHonest
<1>5. ASSUME NEW r \in requests, NEW done \in BOOLEAN, Log4OMTakes(r, done)
      PROVE  RigInv'
  <2>1. /\ executed' = IF done THEN executed \cup {r} ELSE executed
        /\ requests' = requests \ {r}
        /\ replies' = replies \cup {[id |-> r, done |-> done]}
        /\ UNCHANGED <<tune, refusedSeen>>
    BY <1>5 DEF Log4OMTakes
  <2>2. r \in RigIds /\ r[1] <= tune.n
    BY DEF RigInv, RigTypeOK, RigPast
  <2>3. RigTypeOK' /\ RigPast'
    BY <2>1, <2>2 DEF RigInv, RigTypeOK, RigPast
  <2>4. RepliesTrue'
    BY <2>1 DEF RigInv, RepliesTrue
  <2>5. executed \subseteq executed'
    BY <2>1
  <2>6. QED
    BY <2>1, <2>3, <2>4, <2>5 DEF RigInv, ReadingSound, QSYReportHonest
<1>6. CASE DatagramLost
  BY <1>6 DEF DatagramLost, RigInv, RigTypeOK, RigPast, RepliesTrue, ReadingSound, QSYReportHonest
<1>7. CASE UNCHANGED rigVars
  BY <1>7 DEF rigVars, RigInv, RigTypeOK, RigPast, RepliesTrue, ReadingSound, QSYReportHonest
<1>8. QED
  BY <1>1, <1>2, <1>3, <1>4, <1>5, <1>6, <1>7 DEF RigNext

\* However many QSYs are asked for and whatever datagrams are lost, late or out
\* of order, a QSY that sendAndConfirm reports as confirmed was carried out in
\* both its parts, and a refusal it read is never reported as success.
THEOREM QSYHonest == RigSpec => []QSYReportHonest
<1>1. RigInv => QSYReportHonest
  BY DEF RigInv
<1>2. QED
  BY <1>1, RigInvInit, RigInvStep, PTL DEF RigSpec

(***************************************************************************)
(* The links.                                                              *)
(***************************************************************************)
\* A retained status topic's messages.
Status ==
    [topic : {"frequency"}, value : BeamModes] \cup [topic : {"availability"}, value : BOOLEAN]

\* The values AgentBeam's variables take.
LinkTypeOK ==
    /\ beam \in BeamModes /\ avail \in BOOLEAN
    /\ link \in {"down", "up", "subscribed"}
    /\ feed \in Seq(Status)
    /\ cache \in [mode : BeamModes, online : BOOLEAN]
    /\ ordered \in Seq(BeamModes)
    /\ ws \in {"down", "up"}
    /\ wsFeed \in Seq(Nat)
    /\ radio \in [freq : Nat, connected : BOOLEAN]

\* Reading s to its end leaves a cache that shows c of topic t showing v: the
\* last message of the topic says so, or there is none and the cache does.
Latest(s, t, c, v) ==
    /\ \A i \in 1..Len(s) :
         s[i].topic = t /\ (\A j \in 1..Len(s) : j > i => s[j].topic # t) => s[i].value = v
    /\ (\A j \in 1..Len(s) : s[j].topic # t) => c = v

\* A subscribed agent's cache and the messages under way end at the
\* controller's state; messages are under way only to a subscriber.
CacheCatchesUp ==
    /\ feed # <<>> => link = "subscribed"
    /\ link = "subscribed" =>
         /\ Latest(feed, "frequency", cache.mode, beam)
         /\ Latest(feed, "availability", cache.online, avail)

\* Frames come, and the radio is marked as connected, only on a live link.
RadioOnLiveLink == (wsFeed # <<>> \/ radio.connected) => ws = "up"

\* The inductive invariant of LinksShown.
LinkInv == LinkTypeOK /\ CacheCatchesUp /\ RadioOnLiveLink

\* A published value is the topic's latest.
LEMMA LatestPublished ==
  ASSUME NEW s \in Seq(Status), NEW m \in Status, NEW c
  PROVE  Latest(Append(s, m), m.topic, c, m.value)
<1> DEFINE r == Append(s, m)
<1>1. r[Len(s) + 1] = m /\ Len(r) = Len(s) + 1 /\ Len(s) \in Nat
  BY AppendProperties, LenProperties
<1> HIDE DEF r
<1>2. \A i \in 1..Len(r) : i = Len(s) + 1 \/ Len(s) + 1 > i
  BY <1>1
<1>3. Len(s) + 1 \in 1..Len(r)
  BY <1>1
<1>4. QED
  BY <1>1, <1>2, <1>3 DEF Latest, r

\* A message of another topic changes nothing of this one.
LEMMA LatestOther ==
  ASSUME NEW s \in Seq(Status), NEW m \in Status, NEW t, NEW c, NEW v, Latest(s, t, c, v), m.topic # t
  PROVE  Latest(Append(s, m), t, c, v)
<1> DEFINE r == Append(s, m)
<1>1. r[Len(s) + 1] = m /\ Len(r) = Len(s) + 1 /\ Len(s) \in Nat
      /\ (\A i \in 1..Len(s) : r[i] = s[i])
  BY AppendProperties, LenProperties
<1> HIDE DEF r
<1>2. \A i \in 1..Len(r) : i \in 1..Len(s) \/ i = Len(s) + 1
  BY <1>1
<1>3. \A i \in 1..Len(s) : i \in 1..Len(r)
  BY <1>1
<1>4. QED
  BY <1>1, <1>2, <1>3 DEF Latest, r

\* Reading a message of another topic changes nothing of this one; reading one
\* of this topic puts its value in the cache's place.
LEMMA LatestRead ==
  ASSUME NEW s \in Seq(Status), s # <<>>, NEW t, NEW c, NEW v, Latest(s, t, c, v)
  PROVE  Latest(Tail(s), t, IF Head(s).topic = t THEN Head(s).value ELSE c, v)
<1> DEFINE r == Tail(s)
           d == IF Head(s).topic = t THEN Head(s).value ELSE c
<1>1. Len(s) \in Nat /\ Len(s) >= 1 /\ Len(r) = Len(s) - 1 /\ Head(s) = s[1]
      /\ (\A i \in 1..Len(r) : r[i] = s[i + 1])
  BY HeadTailProperties, LenProperties, EmptySeq
<1> HIDE DEF r
<1>2. \A j \in 1..Len(s) : j = 1 \/ (j - 1 \in 1..Len(r) /\ s[j] = r[j - 1])
  BY <1>1
<1>3. ASSUME NEW i \in 1..Len(r), r[i].topic = t, \A j \in 1..Len(r) : j > i => r[j].topic # t
      PROVE  r[i].value = v
  <2>1. i + 1 \in 1..Len(s) /\ s[i + 1] = r[i]
    BY <1>1
  <2>2. \A j \in 1..Len(s) : j > i + 1 => s[j].topic # t
    <3>1. \A j \in 1..Len(s) : j > i + 1 => j # 1 /\ j - 1 > i
      BY <1>1
    <3>2. QED
      BY <1>2, <1>3, <3>1
  <2>3. QED
    BY <1>3, <2>1, <2>2 DEF Latest
<1>4. ASSUME \A j \in 1..Len(r) : r[j].topic # t
      PROVE  d = v
  <2>1. \A j \in 1..Len(s) : j # 1 => s[j].topic # t
    BY <1>2, <1>4
  <2>2. 1 \in 1..Len(s) /\ (\A j \in 1..Len(s) : j > 1 => j # 1)
    BY <1>1
  <2>3. QED
    BY <1>1, <2>1, <2>2 DEF Latest
<1>5. QED
  BY <1>3, <1>4 DEF Latest, r

\* Both links are down and nothing was seen.
LEMMA LinkInvInit == LinkInit => LinkInv
BY DEF LinkInit, LinkInv, LinkTypeOK, CacheCatchesUp, RadioOnLiveLink, BeamModes

\* The controller's change is published to whoever is subscribed.
LEMMA FrequencyPublished ==
  ASSUME LinkInv, NEW mode \in BeamModes, beam' = mode,
         feed' = Published([topic |-> "frequency", value |-> mode]),
         UNCHANGED <<avail, link, cache>>
  PROVE  feed' \in Seq(Status) /\ CacheCatchesUp'
<1> DEFINE m == [topic |-> "frequency", value |-> mode]
<1>1. m \in Status /\ m.topic = "frequency" /\ m.value = mode
  BY DEF Status
<1> HIDE DEF m
<1>2. CASE link = "subscribed"
  <2>1. feed' = Append(feed, m) /\ feed \in Seq(Status)
    BY <1>2 DEF Published, m, LinkInv, LinkTypeOK
  <2>2. feed' \in Seq(Status)
    BY <1>1, <2>1, AppendProperties
  <2>3. Latest(feed', "frequency", cache.mode, mode)
    BY <1>1, <2>1, LatestPublished
  <2>4. Latest(feed', "availability", cache.online, avail)
    <3>1. Latest(feed, "availability", cache.online, avail)
      BY <1>2 DEF LinkInv, CacheCatchesUp
    <3>2. m.topic # "availability"
      BY <1>1
    <3>3. QED
      BY <1>1, <2>1, <3>1, <3>2, LatestOther
  <2>5. QED
    BY <1>2, <2>2, <2>3, <2>4 DEF CacheCatchesUp
<1>3. CASE link # "subscribed"
  BY <1>3 DEF Published, LinkInv, LinkTypeOK, CacheCatchesUp
<1>4. QED
  BY <1>2, <1>3

\* And so is its availability.
LEMMA AvailabilityPublished ==
  ASSUME LinkInv, AvailabilityChanges
  PROVE  feed' \in Seq(Status) /\ CacheCatchesUp'
<1> DEFINE m == [topic |-> "availability", value |-> avail']
<1>0. avail' \in BOOLEAN /\ feed' = Published(m) /\ UNCHANGED <<beam, link, cache>>
  BY DEF AvailabilityChanges, LinkInv, LinkTypeOK
<1>1. m \in Status /\ m.topic = "availability" /\ m.value = avail'
  BY <1>0 DEF Status
<1> HIDE DEF m
<1>2. CASE link = "subscribed"
  <2>1. feed' = Append(feed, m) /\ feed \in Seq(Status)
    BY <1>0, <1>2 DEF Published, LinkInv, LinkTypeOK
  <2>2. feed' \in Seq(Status)
    BY <1>1, <2>1, AppendProperties
  <2>3. Latest(feed', "availability", cache.online, avail')
    BY <1>1, <2>1, LatestPublished
  <2>4. Latest(feed', "frequency", cache.mode, beam)
    <3>1. Latest(feed, "frequency", cache.mode, beam)
      BY <1>2 DEF LinkInv, CacheCatchesUp
    <3>2. m.topic # "frequency"
      BY <1>1
    <3>3. QED
      BY <1>1, <2>1, <3>1, <3>2, LatestOther
  <2>5. QED
    BY <1>0, <1>2, <2>2, <2>3, <2>4 DEF CacheCatchesUp
<1>3. CASE link # "subscribed"
  BY <1>0, <1>3 DEF Published, LinkInv, LinkTypeOK, CacheCatchesUp
<1>4. QED
  BY <1>2, <1>3

\* The retained status of a new subscription is the controller's state.
LEMMA RetainedIsCurrent ==
  ASSUME LinkInv, OnConnect
  PROVE  feed' \in Seq(Status) /\ CacheCatchesUp'
<1> DEFINE f == [topic |-> "frequency", value |-> beam]
           a == [topic |-> "availability", value |-> avail]
<1>1. feed' = <<f, a>> /\ link' = "subscribed" /\ UNCHANGED <<beam, avail, cache>>
  BY DEF OnConnect, Retained
<1>2. /\ f \in Status /\ f.topic = "frequency" /\ f.value = beam
      /\ a \in Status /\ a.topic = "availability" /\ a.value = avail
  BY DEF Status, LinkInv, LinkTypeOK
<1> HIDE DEF f, a
<1>3. feed' \in Seq(Status) /\ Len(feed') = 2 /\ feed'[1] = f /\ feed'[2] = a
  BY <1>1, <1>2
<1>4. \A i \in 1..Len(feed') : i = 1 \/ i = 2
  BY <1>3
<1>5. 1 \in 1..Len(feed') /\ 2 \in 1..Len(feed') /\ 2 > 1
  BY <1>3
<1>6. Latest(feed', "frequency", cache.mode, beam)
  BY <1>2, <1>3, <1>4, <1>5 DEF Latest
<1>7. Latest(feed', "availability", cache.online, avail)
  BY <1>2, <1>3, <1>4, <1>5 DEF Latest
<1>8. QED
  BY <1>1, <1>3, <1>6, <1>7 DEF CacheCatchesUp

\* handleMessage takes one message off the way and into the cache.
LEMMA StatusApplied ==
  ASSUME LinkInv, applyStatus
  PROVE  feed' \in Seq(Status) /\ cache' \in [mode : BeamModes, online : BOOLEAN] /\ CacheCatchesUp'
<1>1. feed # <<>> /\ feed' = Tail(feed) /\ link = "subscribed" /\ UNCHANGED <<beam, avail, link>>
  BY DEF applyStatus, LinkInv, CacheCatchesUp
<1>2. feed \in Seq(Status) /\ cache \in [mode : BeamModes, online : BOOLEAN]
  BY DEF LinkInv, LinkTypeOK
<1>3. feed' \in Seq(Status) /\ Head(feed) \in Status
  BY <1>1, <1>2, HeadTailProperties
<1> DEFINE m == Head(feed)
<1>4. cache' = IF m.topic = "frequency" THEN [cache EXCEPT !.mode = m.value]
                                         ELSE [cache EXCEPT !.online = m.value]
  BY DEF applyStatus
<1>5. \/ m.topic = "frequency" /\ m.value \in BeamModes
      \/ m.topic = "availability" /\ m.value \in BOOLEAN
  BY <1>3 DEF Status
<1>6. /\ Latest(feed', "frequency", IF m.topic = "frequency" THEN m.value ELSE cache.mode, beam)
      /\ Latest(feed', "availability", IF m.topic = "availability" THEN m.value ELSE cache.online, avail)
  <2>1. Latest(feed, "frequency", cache.mode, beam) /\ Latest(feed, "availability", cache.online, avail)
    BY <1>1 DEF LinkInv, CacheCatchesUp
  <2>2. QED
    BY <1>1, <1>2, <2>1, LatestRead
<1> HIDE DEF m
<1>7. cache' \in [mode : BeamModes, online : BOOLEAN]
  BY <1>2, <1>4, <1>5
<1>8. /\ cache'.mode = IF m.topic = "frequency" THEN m.value ELSE cache.mode
      /\ cache'.online = IF m.topic = "availability" THEN m.value ELSE cache.online
  BY <1>2, <1>4, <1>5
<1>9. QED
  BY <1>1, <1>3, <1>6, <1>7, <1>8 DEF CacheCatchesUp

\* Every step of controller, broker, rig and agent keeps the invariant.
LEMMA LinkInvStep == LinkInv /\ [LinkNext]_linkVars => LinkInv'
<1> SUFFICES ASSUME LinkInv, [LinkNext]_linkVars PROVE LinkInv'
  OBVIOUS
<1> USE DEF LinkInv
<1>1. ASSUME NEW mode \in BeamModes, ControllerTurns(mode) PROVE LinkInv'
  <2>1. feed' \in Seq(Status) /\ CacheCatchesUp'
    BY <1>1, FrequencyPublished DEF ControllerTurns
  <2>2. QED
    BY <1>1, <2>1 DEF ControllerTurns, LinkTypeOK, RadioOnLiveLink, radioVars
<1>2. CASE AvailabilityChanges
  BY <1>2, AvailabilityPublished DEF AvailabilityChanges, LinkTypeOK, RadioOnLiveLink, radioVars
<1>3. ASSUME NEW mode \in BeamModes, handleBeam(mode) PROVE LinkInv'
  <2>1. ordered' \in Seq(BeamModes)
    BY <1>3, AppendProperties DEF handleBeam, LinkTypeOK
  <2>2. QED
    BY <1>3, <2>1 DEF handleBeam, LinkTypeOK, CacheCatchesUp, RadioOnLiveLink, radioVars
<1>4. CASE CommandTaken
  <2>1. ordered' \in Seq(BeamModes) /\ Head(ordered) \in BeamModes
    BY <1>4, HeadTailProperties DEF CommandTaken, LinkTypeOK
  <2>2. CASE UNCHANGED <<beam, feed>>
    BY <1>4, <2>1, <2>2 DEF CommandTaken, LinkTypeOK, CacheCatchesUp, RadioOnLiveLink, radioVars
  <2>3. CASE beam' = Head(ordered) /\ feed' = Published([topic |-> "frequency", value |-> Head(ordered)])
    <3>1. feed' \in Seq(Status) /\ CacheCatchesUp'
      BY <1>4, <2>1, <2>3, FrequencyPublished DEF CommandTaken
    <3>2. QED
      BY <1>4, <2>1, <2>3, <3>1 DEF CommandTaken, LinkTypeOK, RadioOnLiveLink, radioVars
  <2>4. QED
    BY <1>4, <2>2, <2>3 DEF CommandTaken
<1>5. CASE BrokerConnects
  BY <1>5 DEF BrokerConnects, LinkTypeOK, CacheCatchesUp, RadioOnLiveLink, radioVars
<1>6. CASE OnConnect
  BY <1>6, RetainedIsCurrent DEF OnConnect, LinkTypeOK, RadioOnLiveLink, radioVars
<1>7. CASE ConnectionLost
  BY <1>7 DEF ConnectionLost, LinkTypeOK, CacheCatchesUp, RadioOnLiveLink, radioVars
<1>8. CASE applyStatus
  BY <1>8, StatusApplied DEF applyStatus, LinkTypeOK, RadioOnLiveLink, radioVars
<1>9. ASSUME NEW f \in {1, 2}, RigTunes(f) PROVE LinkInv'
  <2>1. wsFeed' \in Seq(Nat) /\ (wsFeed' # <<>> => wsFeed # <<>> \/ ws = "up")
    BY <1>9, AppendProperties DEF RigTunes, LinkTypeOK
  <2>2. QED
    BY <1>9, <2>1 DEF RigTunes, LinkTypeOK, CacheCatchesUp, RadioOnLiveLink, beamVars
<1>10. CASE WSDial
  BY <1>10 DEF WSDial, LinkTypeOK, CacheCatchesUp, RadioOnLiveLink, beamVars
<1>11. CASE applyMessage
  <2>1. wsFeed # <<>> /\ wsFeed' \in Seq(Nat) /\ Head(wsFeed) \in Nat
    BY <1>11, HeadTailProperties DEF applyMessage, LinkTypeOK
  <2>2. QED
    BY <1>11, <2>1 DEF applyMessage, LinkTypeOK, CacheCatchesUp, RadioOnLiveLink, beamVars
<1>12. CASE WSDrops
  <2>1. radio' \in [freq : Nat, connected : BOOLEAN] /\ ~radio'.connected
    BY <1>12 DEF WSDrops, LinkTypeOK
  <2>2. wsFeed' = <<>> /\ wsFeed' \in Seq(Nat) /\ ws' \in {"down", "up"} /\ UNCHANGED beamVars
    BY <1>12 DEF WSDrops
  <2>3. LinkTypeOK' /\ CacheCatchesUp'
    BY <2>1, <2>2 DEF LinkTypeOK, CacheCatchesUp, beamVars
  <2>4. QED
    BY <2>1, <2>2, <2>3 DEF RadioOnLiveLink
<1>13. CASE UNCHANGED linkVars
  BY <1>13 DEF linkVars, beamVars, radioVars, LinkTypeOK, CacheCatchesUp, RadioOnLiveLink
<1>14. QED
  BY <1>1, <1>2, <1>3, <1>4, <1>5, <1>6, <1>7, <1>8, <1>9, <1>10, <1>11, <1>12, <1>13 DEF LinkNext

\* With nothing under way the cache itself is the controller's state.
LEMMA LinkInvShows == LinkInv => LinksShown
<1> SUFFICES ASSUME LinkInv PROVE LinksShown
  OBVIOUS
<1>1. ASSUME link = "subscribed", feed = <<>>
      PROVE  cache.mode = beam /\ Online = avail
  BY <1>1 DEF LinkInv, CacheCatchesUp, Latest, Online
<1>2. RadioOnline => ws = "up"
  BY DEF RadioOnline, LinkInv, RadioOnLiveLink
<1>3. QED
  BY <1>1, <1>2 DEF LinksShown

\* However often the links are lost and whatever the controller did meanwhile,
\* a subscribed agent that has read its messages shows the controller's own
\* direction and availability, and the rig is live only on a live link.
THEOREM LinksHonest == LinkSpec => []LinksShown
BY LinkInvInit, LinkInvStep, LinkInvShows, PTL DEF LinkSpec

(***************************************************************************)
(* The settings.                                                           *)
(***************************************************************************)
\* The lines of a file, and a save at its steps.
EnvFiles == [Keys -> SettingValues \cup {Blank, Missing}]
SaveStates == [at : {"none", "write", "rename"}, lines : EnvFiles, keys : SUBSET Managed]

\* Why a restart at any step finds the acknowledged values: the .env holds them
\* at every moment, a save under way has changed nothing but its own keys, and
\* the file it is about to put in place is the one it wrote.
ConfigInv ==
    /\ envFile \in EnvFiles /\ tmpFile \in EnvFiles
    /\ save \in [Savers -> SaveStates]
    /\ acked = [k \in Managed |-> envFile[k]]
    /\ \A r \in Savers : save[r].at # "none" =>
         \A k \in Managed \ save[r].keys : save[r].lines[k] = envFile[k]
    /\ \A r \in Savers : save[r].at = "rename" => tmpFile = save[r].lines

\* Without a file there is a line for no key.
LEMMA NoLinesTyped == NoLines \in EnvFiles /\ NoSave \in SaveStates
BY DEF NoLines, EnvFiles, NoSave, SaveStates

\* Initially no save is under way and the .env is what was acknowledged.
LEMMA ConfigInvInit == ConfigInit => ConfigInv
<1> SUFFICES ASSUME ConfigInit PROVE ConfigInv
  OBVIOUS
<1>1. envFile \in EnvFiles
  BY DEF ConfigInit, EnvFiles, Good
<1>2. save = [r \in Savers |-> NoSave] /\ NoSave.at = "none"
  BY DEF ConfigInit, NoSaves, NoSave
<1>3. tmpFile = NoLines /\ acked = [k \in Managed |-> envFile[k]]
  BY DEF ConfigInit
<1>4. QED
  BY <1>1, <1>2, <1>3, NoLinesTyped DEF ConfigInv

\* A save in its first step: the new lines keep every line the form leaves out.
LEMMA UpsertKeeps ==
    ASSUME NEW form \in Forms, NEW file \in EnvFiles
    PROVE  /\ upsertEnvFile(file, form) \in EnvFiles
           /\ UpdatesOf(form) \subseteq Managed
           /\ \A k \in Managed \ UpdatesOf(form) : upsertEnvFile(file, form)[k] = file[k]
BY DEF upsertEnvFile, EnvFiles, UpdatesOf, Forms, Keys

\* One save at a time: no step of a save, of a restart or of the next process
\* separates the .env from what was acknowledged.
LEMMA ConfigInvStep ==
    ASSUME \A r, s \in Savers : r = s
    PROVE  ConfigInv /\ [ConfigNext]_configVars => ConfigInv'
<1> SUFFICES ASSUME ConfigInv, [ConfigNext]_configVars PROVE ConfigInv'
  OBVIOUS
<1> USE DEF ConfigInv
<1>1. ASSUME NEW r \in Savers, NEW form \in Forms, SaveBegin(r, form) PROVE ConfigInv'
  <2> DEFINE s == [at |-> "write", lines |-> upsertEnvFile(envFile, form), keys |-> UpdatesOf(form)]
  <2>1. s \in SaveStates /\ \A k \in Managed \ s.keys : s.lines[k] = envFile[k]
    BY UpsertKeeps DEF SaveStates
  <2>2. s.at = "write"
    OBVIOUS
  <2>3. save' = [save EXCEPT ![r] = s] /\ UNCHANGED <<envFile, tmpFile, acked>>
    BY <1>1 DEF SaveBegin
  <2> HIDE DEF s
  <2>4. QED
    BY <2>1, <2>2, <2>3
<1>2. ASSUME NEW form \in Forms, SaveRefused(form) PROVE ConfigInv'
  BY <1>2 DEF SaveRefused
<1>3. ASSUME NEW r \in Savers, WriteTmp(r) PROVE ConfigInv'
  <2>1. UNCHANGED <<envFile, acked>> /\ save[r] \in SaveStates /\ save[r].at = "write"
    BY <1>3 DEF WriteTmp
  <2>2. CASE tmpFile' = save[r].lines /\ save' = [save EXCEPT ![r].at = "rename"]
    <3>1. save'[r] \in SaveStates /\ save'[r].lines = save[r].lines /\ save'[r].keys = save[r].keys
      BY <2>1, <2>2 DEF SaveStates
    <3>2. save' \in [Savers -> SaveStates] /\ tmpFile' \in EnvFiles
      BY <2>1, <2>2, <3>1 DEF SaveStates
    <3>3. QED
      BY <2>1, <2>2, <3>1, <3>2
  <2>3. CASE tmpFile' = NoLines /\ save' = [save EXCEPT ![r] = NoSave]
    BY <2>1, <2>3, NoLinesTyped DEF NoSave
  <2>4. QED
    BY <1>3, <2>2, <2>3 DEF WriteTmp
<1>4. ASSUME NEW r \in Savers, RenameTmp(r) PROVE ConfigInv'
  <2>1. save[r] \in SaveStates /\ save[r].at = "rename" /\ tmpFile = save[r].lines
    BY <1>4 DEF RenameTmp
  <2>2. save' = [q \in Savers |-> NoSave] /\ NoSave.at = "none"
    BY <1>4 DEF RenameTmp, NoSave
  <2>3. CASE UNCHANGED <<envFile, tmpFile, acked>>
    BY <2>2, <2>3, NoLinesTyped
  <2>4. CASE /\ envFile' = tmpFile /\ tmpFile' = NoLines
             /\ acked' = [k \in Managed |-> IF k \in save[r].keys THEN save[r].lines[k] ELSE acked[k]]
    <3>1. \A k \in Managed : acked'[k] = envFile'[k]
      BY <2>1, <2>4
    <3>2. acked' = [k \in Managed |-> envFile'[k]]
      BY <2>4, <3>1
    <3>3. QED
      BY <2>2, <2>4, <3>2, NoLinesTyped
  <2>5. QED
    BY <1>4, <2>3, <2>4 DEF RenameTmp
<1>5. CASE RestartAgent
  BY <1>5, NoLinesTyped DEF RestartAgent, NoSaves, NoSave
<1>6. CASE AgentComesUp
  BY <1>6 DEF AgentComesUp
<1>7. CASE UNCHANGED configVars
  BY <1>7 DEF configVars
<1>8. QED
  BY <1>1, <1>2, <1>3, <1>4, <1>5, <1>6, <1>7 DEF ConfigNext

\* The process that comes up resolves a setting that has a value in the .env to
\* that value: the child has no managed variable and no managed flag, be it a
\* copy of the process or the scheduled task.
LEMMA ComesUpWithFile ==
    ASSUME ConfigInv, AgentComesUp, NEW k \in Managed, acked[k] \in SettingValues
    PROVE  running'[k] = acked[k] /\ ~PendingRestart(k)'
<1>1. k \in Keys /\ envFile[k] = acked[k] /\ envFile[k] \notin {Missing, Blank}
  BY AgentConfigConstants DEF ConfigInv, Keys
<1>2. PICK child \in Children : running' = Resolve(child.env, child.flags, envFile)
  BY DEF AgentComesUp
<1>3. child.env[k] = Missing /\ child.flags[k] = Missing
  BY <1>1, <1>2 DEF Children, restartEnviron, restartArgs, NoLines
<1>4. running'[k] = envFile[k]
  BY <1>1, <1>2, <1>3 DEF Resolve, envOr, Load
<1>5. QED
  BY <1>1, <1>4 DEF AgentComesUp, PendingRestart, Effective

\* Saving and restarting applies the settings, for every set of settings and of
\* values and whatever the agent was first started with, if the requests to save
\* come one at a time: two of them share the temporary file.
THEOREM RestartCorrect ==
    ASSUME \A r, s \in Savers : r = s
    PROVE  ConfigSpec => RestartApplies
<1> DEFINE A == ~agentUp /\ agentUp' =>
                  \A k \in Managed : acked[k] \in SettingValues =>
                      running'[k] = acked[k] /\ ~PendingRestart(k)'
<1>1. ConfigInv /\ [ConfigNext]_configVars => [A]_configVars
  <2> SUFFICES ASSUME ConfigInv, [ConfigNext]_configVars, ~agentUp, agentUp' PROVE A
    OBVIOUS
  <2>1. AgentComesUp
    BY DEF ConfigNext, SaveBegin, SaveRefused, WriteTmp, RenameTmp, RestartAgent, configVars
  <2>2. QED
    BY <2>1, ComesUpWithFile
<1>2. ConfigInv /\ [ConfigNext]_configVars => ConfigInv'
  BY ConfigInvStep
<1> HIDE DEF A
<1>3. ConfigSpec => [][A]_configVars
  BY <1>1, <1>2, ConfigInvInit, PTL DEF ConfigSpec
<1>4. QED
  BY <1>3 DEF A, RestartApplies

(***************************************************************************)
(* The score.                                                              *)
(***************************************************************************)
\* Reports, the frames that carry them, and their deliveries.
HpReported ==
    [tx : HpSquares, rx : {"home", "away"}, src : HpSources, band : HpBands, snr : HpSnrs, at : Nat]
HpFrames == [report : HpReported, sent : Nat]
HpDelivered == [report : HpReported, sent : Nat, got : Nat]

\* The date mapSpot gave a delivered report.
Dated(h) == h.got - (h.sent - h.report.at)

\* The deliveries that count, and what their bucket keeps of one.
HpCounts(h) == h.report.rx = "home" /\ h.report.src # "dxcluster"
HpBucket(h) == <<h.report.band, h.report.tx>>
HpKept(h) == [snr |-> h.report.snr, at |-> Dated(h)]

\* Types: what is under way, delivered and stored comes from reports.
HpTypeOK ==
    /\ hpNow \in Nat
    /\ hpLog \in Seq(HpReported)
    /\ hpFeed \in [up : BOOLEAN, queue : Seq(HpFrames), drops : Nat]
    /\ hpHeard \subseteq HpDelivered
    /\ hpSondes \in [HpPoints -> [muf : Nat, at : Nat]]
    /\ DOMAIN hpStore = HpBands \X HpSquares

\* The buckets hold what was delivered, under its date, and lack of it only what
\* has expired by that date.
HpStored ==
    /\ \A k \in HpBands \X HpSquares : \A r \in DOMAIN hpStore[k] :
          \E h \in hpHeard : HpCounts(h) /\ HpBucket(h) = k /\ HpKept(h) = r
    /\ \A h \in hpHeard : HpCounts(h) /\ Dated(h) > hpNow - HpWindow =>
          HpKept(h) \in DOMAIN hpStore[HpBucket(h)]

HpInv == HpTypeOK /\ HpStored

\* A date is fresh when the report is within the window, the time it was under
\* way not counted.
LEMMA DatedFresh ==
  ASSUME HpTypeOK, NEW h \in HpDelivered
  PROVE  /\ HpBucket(h) \in HpBands \X HpSquares
         /\ Dated(h) > hpNow - HpWindow <=> hpNow - h.report.at < HpWindow + (h.got - h.sent)
<1>1. h.report \in HpReported /\ h.sent \in Nat /\ h.got \in Nat
  BY DEF HpDelivered
<1>2. h.report.at \in Nat /\ h.report.band \in HpBands /\ h.report.tx \in HpSquares
  BY <1>1 DEF HpReported
<1>3. hpNow \in Nat /\ HpWindow \in Nat
  BY HpConstants DEF HpTypeOK
<1>4. \A n, w, g, s, a \in Nat : g - (s - a) > n - w <=> n - a < w + (g - s)
  OBVIOUS
<1>5. Dated(h) > hpNow - HpWindow <=> hpNow - h.report.at < HpWindow + (h.got - h.sent)
  BY <1>1, <1>2, <1>3, <1>4 DEF Dated
<1>6. QED
  BY <1>2, <1>5 DEF HpBucket

\* The signals of a lookup are those of the evidence for the path.
LEMMA EvidenceFound ==
  ASSUME HpInv, NEW spot \in HpSpots, resolveLocation(spot) # HpNone
  PROVE  {r.snr : r \in DOMAIN Lookup(spot.freq, resolveLocation(spot))} = {r.snr : r \in HpEvidence(spot)}
<1> DEFINE sq == resolveLocation(spot)
           L == Lookup(spot.freq, sq)
<1>1. spot.freq \in HpBands /\ Near(sq) \subseteq HpSquares
  BY DEF HpSpots, Near
<1>2. DOMAIN L = UNION {{r \in DOMAIN hpStore[<<spot.freq, t>>] : Fresh(r)} : t \in Near(sq)}
  BY DEF Lookup, kept
<1> HIDE DEF L
<1>3. ASSUME NEW r \in DOMAIN L
      PROVE  \E e \in HpEvidence(spot) : e.snr = r.snr
  <2>1. PICK t \in Near(sq) : r \in DOMAIN hpStore[<<spot.freq, t>>] /\ Fresh(r)
    BY <1>2
  <2>2. <<spot.freq, t>> \in HpBands \X HpSquares
    BY <1>1
  <2>3. PICK h \in hpHeard : HpCounts(h) /\ HpBucket(h) = <<spot.freq, t>> /\ HpKept(h) = r
    BY <2>1, <2>2 DEF HpInv, HpStored
  <2>4. h \in HpDelivered /\ r.at = Dated(h) /\ r.snr = h.report.snr
    BY <2>3 DEF HpInv, HpTypeOK, HpKept
  <2>5. hpNow - h.report.at < HpWindow + (h.got - h.sent)
    BY <2>1, <2>4, DatedFresh DEF Fresh, HpInv
  <2>6. h.report.band = spot.freq /\ h.report.tx = t
    BY <2>3 DEF HpBucket
  <2>7. h.report \in HpEvidence(spot)
    BY <2>3, <2>5, <2>6 DEF HpEvidence, HpCounts
  <2>8. QED
    BY <2>4, <2>7
<1>4. ASSUME NEW e \in HpEvidence(spot)
      PROVE  \E r \in DOMAIN L : r.snr = e.snr
  <2>1. PICK h \in hpHeard : /\ e = h.report /\ HpCounts(h) /\ h.report.band = spot.freq
                             /\ h.report.tx \in Near(sq)
                             /\ hpNow - h.report.at < HpWindow + (h.got - h.sent)
    BY DEF HpEvidence, HpCounts
  <2>2. Dated(h) > hpNow - HpWindow
    BY <2>1, DatedFresh DEF HpInv, HpTypeOK
  <2>3. HpKept(h) \in DOMAIN hpStore[<<spot.freq, h.report.tx>>]
    BY <2>1, <2>2 DEF HpInv, HpStored, HpBucket
  <2>4. Fresh(HpKept(h)) /\ HpKept(h).snr = e.snr
    BY <2>1, <2>2 DEF Fresh, HpKept
  <2>5. QED
    BY <1>2, <2>1, <2>3, <2>4
<1>5. QED
  BY <1>3, <1>4 DEF L

\* ScoreGrounded follows: what the score says comes from the lookup and the gate.
LEMMA GroundedByStore == HpInv => ScoreGrounded
<1> SUFFICES ASSUME HpInv, NEW spot \in HpSpots
             PROVE  LET s == Score(spot)
                        evidence == IF resolveLocation(spot) = HpNone THEN {} ELSE HpEvidence(spot)
                        live == \E p \in HpPoints : hpSondes[p] # HpNoSonde /\ hpNow - hpSondes[p].at <= HpMaxAge
                    IN  /\ s.heard <=> evidence # {}
                        /\ s.heard => s.best = Max({r.snr : r \in evidence})
                        /\ s.gated => live /\ spot.freq < 50
                        /\ ~s.heard /\ ~s.gated => s.score = 50 /\ s.grade = "?"
  BY DEF ScoreGrounded, GroundedIn
<1> DEFINE sq == resolveLocation(spot)
           s == Score(spot)
           L == Lookup(spot.freq, sq)
           l1 == empirical(L)
           l2 == mufGate(spot.freq)
<1>1. CASE sq = HpNone
  <2>1. /\ ~s.heard /\ ~s.gated /\ s.score = 50 /\ s.grade = "?"
    BY <1>1 DEF Score
  <2>2. QED
    BY <1>1, <2>1
<1>2. CASE sq # HpNone
  <2>1. {r.snr : r \in DOMAIN L} = {r.snr : r \in HpEvidence(spot)}
    BY <1>2, EvidenceFound
  <2>w. s = Weighed(l1, l2)
    BY <1>2 DEF Score
  <2>2. s.heard = l1.ok /\ s.best = l1.best /\ s.gated = l2.ok
    BY <2>w DEF Weighed
  <2>3. IF DOMAIN L = {} THEN l1 = [ok |-> FALSE, score |-> 50, conf |-> 15, best |-> 0]
        ELSE l1.ok /\ l1.best = Max({r.snr : r \in DOMAIN L})
    BY DEF empirical
  <2>4. ~l2.ok => l2 = [ok |-> FALSE, gate |-> 100, conf |-> 0]
    BY DEF mufGate
  <2>5. l2.ok => /\ ~(spot.freq >= 50)
                 /\ \E p \in HpPoints : hpSondes[p] # HpNoSonde /\ ~(hpNow - hpSondes[p].at > HpMaxAge)
    BY DEF mufGate, MUFAt
  <2> HIDE DEF l1, l2, L, s
  <2>6. spot.freq \in Nat
    <3>1. spot.freq \in HpBands
      BY DEF HpSpots
    <3>2. QED
      BY <3>1, HpConstants
  <2>7. ~l1.ok /\ ~l2.ok => s.score = 50 /\ s.grade = "?"
    <3>1. SUFFICES ASSUME ~l1.ok, ~l2.ok PROVE s.score = 50 /\ s.grade = "?"
      OBVIOUS
    <3>2. l1.score = 50 /\ l1.conf = 15 /\ l2.gate = 100
      BY <2>3, <2>4, <3>1
    <3>3. s.score = Clamp(Rounded(l1.score * l2.gate, 100), 0, 100) /\ s.grade = Grade(s.score, l1.conf)
      BY <2>w, <3>1 DEF Weighed
    <3>4. Clamp(Rounded(50 * 100, 100), 0, 100) = 50
      BY DEF Clamp, Rounded
    <3>5. Grade(50, 15) = "?"
      BY DEF Grade
    <3>6. QED
      BY <3>2, <3>3, <3>4, <3>5
  <2>8. DOMAIN L = {} <=> HpEvidence(spot) = {}
    BY <2>1
  <2> DEFINE A == {r.snr : r \in DOMAIN L}
             B == {r.snr : r \in HpEvidence(spot)}
  <2>a. l1.ok => l1.best = Max(A)
    BY <2>3
  <2>b. A = B
    BY <2>1
  <2> HIDE DEF A, B
  <2>c. l1.ok => l1.best = Max(B)
    BY <2>a, <2>b
  <2>9. s.heard <=> HpEvidence(spot) # {}
    BY <2>2, <2>3, <2>8
  <2>10. s.heard => s.best = Max({r.snr : r \in HpEvidence(spot)})
    BY <2>2, <2>c DEF B
  <2>11. s.gated => /\ spot.freq < 50
                    /\ \E p \in HpPoints : hpSondes[p] # HpNoSonde /\ hpNow - hpSondes[p].at <= HpMaxAge
    <3>1. \A p \in HpPoints : hpSondes[p].at \in Nat
      BY DEF HpInv, HpTypeOK
    <3>2. hpNow \in Nat /\ HpMaxAge \in Nat
      BY HpConstants DEF HpInv, HpTypeOK
    <3>3. \A a \in Nat : ~(hpNow - a > HpMaxAge) => hpNow - a <= HpMaxAge
      BY <3>2
    <3>4. ~(spot.freq >= 50) => spot.freq < 50
      BY <2>6
    <3>5. QED
      BY <2>2, <2>5, <3>1, <3>3, <3>4
  <2>12. QED
    BY <1>2, <2>2, <2>7, <2>9, <2>10, <2>11 DEF s
<1>3. QED
  BY <1>1, <1>2

\* A frame on its way, and the window of the history as frames.
LEMMA FramesTyped ==
  ASSUME HpTypeOK
  PROVE  /\ \A r \in HpReported : Frame(r) \in HpFrames
         /\ \A first \in 1..(Len(hpLog) + 1) :
              LET window == SubSeq(hpLog, first, Len(hpLog))
              IN  [j \in DOMAIN window |-> Frame(window[j])] \in Seq(HpFrames)
<1>1. \A r \in HpReported : Frame(r) \in HpFrames
  BY DEF Frame, HpFrames, HpTypeOK
<1>2. ASSUME NEW first \in 1..(Len(hpLog) + 1)
      PROVE  LET window == SubSeq(hpLog, first, Len(hpLog))
             IN  [j \in DOMAIN window |-> Frame(window[j])] \in Seq(HpFrames)
  <2> DEFINE window == SubSeq(hpLog, first, Len(hpLog))
             n == Len(window)
             frames == [j \in DOMAIN window |-> Frame(window[j])]
  <2>1. hpLog \in Seq(HpReported) /\ Len(hpLog) \in Nat
    BY LenProperties DEF HpTypeOK
  <2>2. \A i \in first..Len(hpLog) : hpLog[i] \in HpReported
    BY <2>1, ElementOfSeq
  <2>3. window \in Seq(HpReported)
    BY <2>1, <2>2, SubSeqProperties
  <2>4. n \in Nat /\ DOMAIN window = 1..n /\ \A j \in 1..n : window[j] \in HpReported
    BY <2>3, LenProperties, ElementOfSeq
  <2> HIDE DEF window, n
  <2>5. frames \in [1..n -> HpFrames]
    BY <1>1, <2>4
  <2>6. QED
    BY <2>4, <2>5, SeqDef DEF window
<1>3. QED
  BY <1>1, <1>2

\* The invariant holds before the feed connects.
LEMMA HpInitially == HpInit => HpInv
<1> SUFFICES ASSUME HpInit PROVE HpInv
  OBVIOUS
<1>1. /\ hpLog = <<>> /\ hpHeard = {} /\ hpNow = 0 /\ hpFeed = [up |-> FALSE, queue |-> <<>>, drops |-> 0]
      /\ DOMAIN hpStore = HpBands \X HpSquares
      /\ \A k \in HpBands \X HpSquares : DOMAIN hpStore[k] = {}
  BY DEF HpInit, EmptyBag, SetToBag
<1>2. hpSondes \in [HpPoints -> [muf : Nat, at : Nat]]
  BY DEF HpInit, HpNoSonde
<1>3. HpTypeOK
  BY <1>1, <1>2 DEF HpTypeOK
<1>4. HpStored
  BY <1>1 DEF HpStored
<1>5. QED
  BY <1>3, <1>4 DEF HpInv

\* A step that drops only expired reports from the buckets keeps it, whatever
\* time passes and whatever the stream carries next.
LEMMA HpExpires ==
  ASSUME HpInv, HpTypeOK', hpHeard' = hpHeard, hpNow <= hpNow',
         \A k \in HpBands \X HpSquares :
             /\ DOMAIN hpStore'[k] \subseteq DOMAIN hpStore[k]
             /\ \A r \in DOMAIN hpStore[k] : r.at > hpNow' - HpWindow => r \in DOMAIN hpStore'[k]
  PROVE  HpInv'
<1>1. ASSUME NEW k \in HpBands \X HpSquares, NEW r \in DOMAIN hpStore'[k]
      PROVE  \E h \in hpHeard : HpCounts(h) /\ HpBucket(h) = k /\ HpKept(h) = r
  BY <1>1 DEF HpInv, HpStored
<1>2. ASSUME NEW h \in hpHeard, HpCounts(h), Dated(h) > hpNow' - HpWindow
      PROVE  HpKept(h) \in DOMAIN hpStore'[HpBucket(h)]
  <2>1. h \in HpDelivered
    BY DEF HpInv, HpTypeOK
  <2>2. HpBucket(h) \in HpBands \X HpSquares
    BY <2>1, DatedFresh DEF HpInv
  <2>3. Dated(h) > hpNow - HpWindow
    <3>1. \A a \in Int, p, q, w \in Nat : a > q - w /\ p <= q => a > p - w
      OBVIOUS
    <3>2. hpNow \in Nat /\ hpNow' \in Nat /\ HpWindow \in Nat
      BY HpConstants DEF HpInv, HpTypeOK
    <3>3. h.got \in Nat /\ h.sent \in Nat /\ h.report.at \in Nat
      BY <2>1 DEF HpDelivered, HpReported
    <3>4. Dated(h) \in Int
      BY <3>3 DEF Dated
    <3>5. QED
      BY <1>2, <3>1, <3>2, <3>4
  <2>4. HpKept(h) \in DOMAIN hpStore[HpBucket(h)]
    BY <1>2, <2>3 DEF HpInv, HpStored
  <2>5. HpKept(h).at > hpNow' - HpWindow
    BY <1>2 DEF HpKept
  <2>6. QED
    BY <2>2, <2>4, <2>5
<1>3. HpStored'
  BY <1>1, <1>2 DEF HpStored, HpCounts, HpBucket, HpKept, Dated
<1>4. QED
  BY <1>3 DEF HpInv

\* What the buckets hold was delivered, whatever is delivered next.
LEMMA HpDelivers == HpInv /\ HpDeliver => HpInv'
<1> SUFFICES ASSUME HpInv, HpDeliver PROVE HpInv'
  OBVIOUS
<1> DEFINE f == Head(hpFeed.queue)
           d == [report |-> f.report, sent |-> f.sent, got |-> hpNow]
           k == HpBucket(d)
           e == HpKept(d)
<1>1. /\ hpFeed.queue # <<>> /\ hpFeed' = [hpFeed EXCEPT !.queue = Tail(@)]
      /\ hpHeard' = hpHeard \cup {d}
      /\ hpStore' = IF f.report.src = "dxcluster" THEN hpStore ELSE Add(hpStore, mapSpot(f))
      /\ UNCHANGED <<hpNow, hpLog, hpSondes>>
  BY DEF HpDeliver
<1>2. hpFeed.queue \in Seq(HpFrames) /\ hpNow \in Nat /\ DOMAIN hpStore = HpBands \X HpSquares
  BY DEF HpInv, HpTypeOK
<1>3. f \in HpFrames /\ Tail(hpFeed.queue) \in Seq(HpFrames)
  BY <1>1, <1>2, HeadTailProperties
<1>4. hpFeed' \in [up : BOOLEAN, queue : Seq(HpFrames), drops : Nat]
  <2>1. hpFeed \in [up : BOOLEAN, queue : Seq(HpFrames), drops : Nat]
    BY DEF HpInv, HpTypeOK
  <2>2. QED
    BY <1>1, <1>3, <2>1
<1>5. f.report \in HpReported /\ d \in HpDelivered
  BY <1>2, <1>3 DEF HpFrames, HpDelivered
<1>6. k \in HpBands \X HpSquares
  BY <1>5, DatedFresh DEF HpInv
<1>7. /\ mapSpot(f).rx = f.report.rx /\ <<mapSpot(f).band, mapSpot(f).tx>> = k
      /\ [snr |-> mapSpot(f).snr, at |-> mapSpot(f).at] = e
  BY <1>5 DEF mapSpot, HpReported, HpBucket, HpKept, Dated
<1>8. hpStore' = IF HpCounts(d) THEN [hpStore EXCEPT ![k] = BagAdd(@, e)] ELSE hpStore
  BY <1>1, <1>7 DEF Add, HpCounts
<1>9. DOMAIN BagAdd(hpStore[k], e) = DOMAIN hpStore[k] \cup {e}
  BY DEF BagAdd
<1> HIDE DEF f, d, k, e
<1>10. /\ DOMAIN hpStore' = HpBands \X HpSquares
       /\ \A q \in HpBands \X HpSquares : \/ hpStore'[q] = hpStore[q]
                                          \/ /\ q = k /\ HpCounts(d)
                                             /\ DOMAIN hpStore'[q] = DOMAIN hpStore[q] \cup {e}
       /\ HpCounts(d) => DOMAIN hpStore'[k] = DOMAIN hpStore[k] \cup {e}
  BY <1>2, <1>6, <1>8, <1>9
<1>11. HpTypeOK'
  BY <1>1, <1>4, <1>5, <1>10 DEF HpInv, HpTypeOK
<1>12. ASSUME NEW q \in HpBands \X HpSquares, NEW r \in DOMAIN hpStore'[q]
       PROVE  \E h \in hpHeard' : HpCounts(h) /\ HpBucket(h) = q /\ HpKept(h) = r
  <2>1. CASE r \in DOMAIN hpStore[q]
    BY <1>1, <2>1 DEF HpInv, HpStored
  <2>2. CASE r \notin DOMAIN hpStore[q]
    <3>1. q = k /\ HpCounts(d) /\ r = e
      BY <1>10, <2>2
    <3>2. d \in hpHeard' /\ HpBucket(d) = k /\ HpKept(d) = e
      BY <1>1 DEF k, e
    <3>3. QED
      BY <3>1, <3>2
  <2>3. QED
    BY <2>1, <2>2
<1>13. ASSUME NEW h \in hpHeard', HpCounts(h), Dated(h) > hpNow' - HpWindow
       PROVE  HpKept(h) \in DOMAIN hpStore'[HpBucket(h)]
  <2>1. CASE h = d
    BY <1>10, <1>13, <2>1 DEF k, e
  <2>2. CASE h \in hpHeard
    <3>1. HpKept(h) \in DOMAIN hpStore[HpBucket(h)]
      BY <1>1, <1>13, <2>2 DEF HpInv, HpStored
    <3>2. HpBucket(h) \in HpBands \X HpSquares
      BY <2>2, DatedFresh DEF HpInv, HpTypeOK
    <3>3. QED
      BY <1>10, <3>1, <3>2
  <2>3. QED
    BY <1>1, <2>1, <2>2
<1>14. HpStored'
  BY <1>12, <1>13 DEF HpStored, HpCounts, HpBucket, HpKept, Dated
<1>15. QED
  BY <1>11, <1>14 DEF HpInv

\* Every step keeps the invariant.
LEMMA HpStep == HpInv /\ [HpNext]_hpVars => HpInv'
<1> SUFFICES ASSUME HpInv, [HpNext]_hpVars PROVE HpInv'
  OBVIOUS
<1>1. /\ \A k : DOMAIN kept(hpStore[k]) = {r \in DOMAIN hpStore[k] : Fresh(r)}
      /\ hpNow \in Nat /\ DOMAIN hpStore = HpBands \X HpSquares /\ hpNow <= hpNow
  BY DEF kept, HpInv, HpTypeOK
<1>f. hpFeed \in [up : BOOLEAN, queue : Seq(HpFrames), drops : Nat]
  BY DEF HpInv, HpTypeOK
<1>2. ASSUME NEW r \in HpReports, HpReport(r)
      PROVE  HpInv'
  <2>1. /\ hpLog' = Append(hpLog, r) /\ UNCHANGED <<hpNow, hpStore, hpSondes, hpHeard>>
        /\ hpFeed' = hpFeed \/ hpFeed' = [hpFeed EXCEPT !.queue = Append(@, Frame(r))]
    BY <1>2 DEF HpReport
  <2>2. r \in HpReported
    BY <1>1 DEF HpReports, HpReported
  <2>3. hpLog' \in Seq(HpReported)
    BY <2>1, <2>2, AppendProperties DEF HpInv, HpTypeOK
  <2>4. Append(hpFeed.queue, Frame(r)) \in Seq(HpFrames)
    BY <1>f, <2>2, FramesTyped, AppendProperties DEF HpInv
  <2>5. hpFeed' \in [up : BOOLEAN, queue : Seq(HpFrames), drops : Nat]
    BY <1>f, <2>1, <2>4
  <2>6. HpTypeOK'
    BY <2>1, <2>3, <2>5 DEF HpInv, HpTypeOK
  <2>7. QED
    BY <1>1, <2>1, <2>6, HpExpires
<1>3. CASE HpConnect
  <2>1. PICK first \in 1..(Len(hpLog) + 1) :
          LET window == SubSeq(hpLog, first, Len(hpLog))
          IN  hpFeed' = [hpFeed EXCEPT !.up = TRUE, !.queue = [j \in DOMAIN window |-> Frame(window[j])]]
    BY <1>3 DEF HpConnect
  <2>2. UNCHANGED <<hpNow, hpLog, hpStore, hpSondes, hpHeard>>
    BY <1>3 DEF HpConnect
  <2> DEFINE frames == [j \in DOMAIN SubSeq(hpLog, first, Len(hpLog)) |->
                           Frame(SubSeq(hpLog, first, Len(hpLog))[j])]
  <2>3. frames \in Seq(HpFrames) /\ hpFeed' = [hpFeed EXCEPT !.up = TRUE, !.queue = frames]
    BY <2>1, FramesTyped DEF HpInv
  <2> HIDE DEF frames
  <2>4. hpFeed' \in [up : BOOLEAN, queue : Seq(HpFrames), drops : Nat]
    BY <1>f, <2>3
  <2>5. HpTypeOK'
    BY <2>2, <2>4 DEF HpInv, HpTypeOK
  <2>6. QED
    BY <1>1, <2>2, <2>5, HpExpires
<1>4. CASE HpDrop
  <2>1. /\ UNCHANGED <<hpNow, hpLog, hpStore, hpSondes, hpHeard>>
        /\ hpFeed' = [up |-> FALSE, queue |-> <<>>, drops |-> hpFeed.drops + 1]
    BY <1>4 DEF HpDrop
  <2>2. hpFeed' \in [up : BOOLEAN, queue : Seq(HpFrames), drops : Nat]
    BY <1>f, <2>1
  <2>3. HpTypeOK'
    BY <2>1, <2>2 DEF HpInv, HpTypeOK
  <2>4. QED
    BY <1>1, <2>1, <2>3, HpExpires
<1>5. CASE Prune
  <2>1. /\ UNCHANGED <<hpNow, hpLog, hpFeed, hpSondes, hpHeard>>
        /\ hpStore' = [k \in DOMAIN hpStore |-> kept(hpStore[k])]
    BY <1>5 DEF Prune
  <2>2. /\ DOMAIN hpStore' = HpBands \X HpSquares
        /\ \A k \in HpBands \X HpSquares : DOMAIN hpStore'[k] = {r \in DOMAIN hpStore[k] : Fresh(r)}
    BY <1>1, <2>1
  <2>3. HpTypeOK'
    BY <2>1, <2>2 DEF HpInv, HpTypeOK
  <2>4. QED
    BY <1>1, <2>1, <2>2, <2>3, HpExpires DEF Fresh
<1>6. ASSUME NEW spot \in HpSpots, handleScore(spot)
      PROVE  HpInv'
  <2>1. /\ UNCHANGED <<hpNow, hpLog, hpFeed, hpSondes, hpHeard>>
        /\ hpStore' = [k \in DOMAIN hpStore |->
                          IF k[1] = spot.freq /\ k[2] \in Near(resolveLocation(spot))
                          THEN kept(hpStore[k]) ELSE hpStore[k]]
    BY <1>6 DEF handleScore, LookupPrunes
  <2>2. /\ DOMAIN hpStore' = HpBands \X HpSquares
        /\ \A k \in HpBands \X HpSquares : \/ hpStore'[k] = hpStore[k]
                                           \/ DOMAIN hpStore'[k] = {r \in DOMAIN hpStore[k] : Fresh(r)}
    BY <1>1, <2>1
  <2>3. HpTypeOK'
    BY <2>1, <2>2 DEF HpInv, HpTypeOK
  <2>4. QED
    BY <1>1, <2>1, <2>2, <2>3, HpExpires DEF Fresh
<1>7. ASSUME NEW snapshot \in HpSnapshots, Refresh(snapshot)
      PROVE  HpInv'
  <2>1. hpSondes' = snapshot /\ UNCHANGED <<hpNow, hpLog, hpFeed, hpStore, hpHeard>>
    BY <1>7 DEF Refresh
  <2>2. snapshot \in [HpPoints -> [muf : Nat, at : Nat]]
    <3>1. HpMufs \subseteq Nat
      BY HpConstants
    <3>2. QED
      BY <1>1, <1>7, <3>1 DEF HpSnapshots, HpNoSonde
  <2>3. HpTypeOK'
    BY <2>1, <2>2 DEF HpInv, HpTypeOK
  <2>4. QED
    BY <1>1, <2>1, <2>3, HpExpires
<1>8. CASE HpTick \/ UNCHANGED hpVars
  <2>1. /\ UNCHANGED <<hpLog, hpFeed, hpStore, hpSondes, hpHeard>>
        /\ hpNow' = hpNow \/ hpNow' = hpNow + 1
    BY <1>8 DEF HpTick, hpVars
  <2>2. hpNow' \in Nat /\ hpNow <= hpNow'
    BY <1>1, <2>1
  <2>3. HpTypeOK'
    BY <2>1, <2>2 DEF HpInv, HpTypeOK
  <2>4. QED
    BY <2>1, <2>2, <2>3, HpExpires
<1>9. QED
  BY <1>2, <1>3, <1>4, <1>5, <1>6, <1>7, <1>8, HpDelivers DEF HpNext

\* What horstprop says of a path rests on reports of the home area, of any source
\* but a cluster, that are no older than the window and the time they were under
\* way, and on fresh ionosondes, and on nothing else, whatever reconnects, prunes
\* and lookups have done to the store before.
THEOREM ScoreCorrect == HpSpec => []ScoreGrounded
<1>1. QED
  BY HpInitially, HpStep, GroundedByStore, PTL DEF HpSpec

=============================================================================
