----------------------------- MODULE SpotStream -----------------------------
(***************************************************************************)
(* The live path of cmd/horstreporter: ingest goroutines append a message  *)
(* to the hub's history and fan it out (hub.go), one /api/stream handler   *)
(* dumps the history window and then forwards live spots (stream.go), and  *)
(* the page keeps what it was sent and resumes a broken or restarted       *)
(* stream from the last event id it saw (static/app.js).                   *)
(*                                                                         *)
(* broadcastMsg holds the hub lock for the append and the copy of the      *)
(* client set only; the sends come later, so two goroutines may deliver    *)
(* out of sequence order.  The response is a byte stream that may break    *)
(* after any frame.  The process may restart, the history is then reloaded *)
(* from dx_raw_spots under a new epoch.                                    *)
(*                                                                         *)
(* One page is modelled; other clients share nothing with it but the       *)
(* capacity limit, which may refuse it at any time.  A message is a number *)
(* (its place in `log'); its content is its time and its kind, and a       *)
(* filter is a set of kinds.                                               *)
(***************************************************************************)
EXTENDS Integers, Sequences, SequencesExt

CONSTANTS
    Kinds,         \* what filters tell apart (band, source, SNR class)
    Ring(_),       \* how far from the home square a kind is (0: in it)
    Filters,       \* the filters a user may choose: sets of kinds
    Radii,         \* the area radii liveAreaForRequest may announce
    Broadcasters,  \* ingest goroutines that call broadcastMsg
    Minutes,       \* the window the page asks for
    Retention,     \* liveHistoryRetentionMinutes
    Overlap,       \* streamResumeOverlap
    Buffer,        \* capacity of Client.send (10000)
    BatchMax,      \* streamBatchMax
    Patient,       \* TRUE: the user never restarts a stream that still loads
    MaxLate,       \* how old a message may be on arrival
    MaxOvertake,   \* how many later messages may be appended before a send
    MaxMsgs, MaxClock, MaxStarts, MaxBreaks, MaxRestarts,   \* bounds
    MaxEnds         \* bound on breaks and restarts together

ASSUME StreamConstants ==
    /\ Filters \subseteq (SUBSET Kinds) \ {{}}
    /\ \A k \in Kinds : Ring(k) \in Nat
    /\ Radii \subseteq Nat
    /\ {Minutes, Retention, Overlap, MaxLate, MaxOvertake} \subseteq Nat
    /\ Buffer \in Nat \ {0} /\ BatchMax \in Nat \ {0}
    /\ Minutes <= Retention
    /\ Patient \in BOOLEAN
    /\ {MaxMsgs, MaxClock, MaxStarts, MaxBreaks, MaxRestarts, MaxEnds} \subseteq Nat

Msgs == 1 .. MaxMsgs
NoId == [epoch |-> 0, seq |-> 0]

VARIABLES
    clock,
    log,        \* every message ever broadcast: its time and kind
    history, baseSeq, epoch,   \* Hub, hubEpoch
    sender,     \* per ingest goroutine: the send it still has to do
    conn,       \* the handler's registration and locals
    wire,       \* frames written to the response and not yet read
    page,       \* the page's stream state
    held,       \* state.liveSpots: how often the page holds each message
    dropped,    \* history: messages a full channel refused
    starts, breaks

hubVars == <<history, baseSeq, epoch>>
vars == <<clock, log, hubVars, sender, conn, wire, page, held, dropped, starts, breaks>>

SenderIdle == [busy |-> FALSE, msg |-> 0, seq |-> 0, to |-> 0]
ConnClosed == [open |-> FALSE, filter |-> {}, radius |-> 0, cutoff |-> 0,
               send |-> <<>>, pending |-> <<>>, maxSeq |-> 0]

\* Every start and every break of the connection makes a new Client.
connNo == starts + breaks

HeldSet == {m \in Msgs : held[m] > 0}

(***************************************************************************)
(* The hub.                                                                *)
(***************************************************************************)
highSeqLocked == baseSeq + Len(history)

dropFrontLocked(n) ==
    /\ history' = SubSeq(history, n + 1, Len(history))
    /\ baseSeq' = baseSeq + n

\* sort.Search(n, f): a binary search, which finds the first index with f only
\* when f is monotone.  Indices of f count from 1.
Search(n, f) ==
    LET find[r \in (0 .. n) \X (0 .. n)] ==
            LET mid == (r[1] + r[2]) \div 2 IN
            IF r[1] >= r[2] THEN r[1]
            ELSE IF f[mid + 1] THEN find[<<r[1], mid>>] ELSE find[<<mid + 1, r[2]>>]
    IN find[<<0, n>>]

\* The messages older than cutoff at the front of the history.
sortSearch(cutoff) ==
    Search(Len(history), [i \in DOMAIN history |-> log[history[i]].t >= cutoff])

\* broadcastMsg under the lock.  The environment is bounded here: no message
\* is appended MaxOvertake places after one whose sends are still to come.
Broadcast(b, kind, t) ==
    /\ ~sender[b].busy
    /\ Len(log) < MaxMsgs
    /\ \A o \in Broadcasters : sender[o].busy => highSeqLocked + 1 - sender[o].seq <= MaxOvertake
    /\ log' = Append(log, [t |-> t, kind |-> kind])
    /\ history' = Append(history, Len(log'))
    /\ sender' = IF conn.open
                 THEN [sender EXCEPT ![b] = [busy |-> TRUE, msg |-> Len(log'),
                                             seq |-> highSeqLocked + 1, to |-> connNo]]
                 ELSE sender
    /\ UNCHANGED <<clock, baseSeq, epoch, conn, wire, page, held, dropped, starts, breaks>>

\* matchAndCreateSpot: the message concerns the client's area.
matchAndCreateSpot(m, radius) == Ring(log[m].kind) <= radius

\* Mutant: the set of clients is read when sending.
SafeSendCurrent(b) ==
    /\ sender[b].busy
    /\ sender' = [sender EXCEPT ![b] = SenderIdle]
    /\ IF /\ conn.open
          /\ matchAndCreateSpot(sender[b].msg, conn.radius)
          /\ Len(conn.send) < Buffer
       THEN conn' = [conn EXCEPT !.send = Append(@, [msg |-> sender[b].msg, seq |-> sender[b].seq])]
       ELSE UNCHANGED conn
    /\ UNCHANGED <<clock, log, hubVars, wire, page, held, dropped, starts, breaks>>

\* safeSend: to the client that was registered at the append; a closed
\* channel is absorbed, a full one drops the spot.
SafeSend(b) ==
    /\ sender[b].busy
    /\ sender' = [sender EXCEPT ![b] = SenderIdle]
    /\ IF \/ ~conn.open
          \/ sender[b].to # connNo
          \/ ~matchAndCreateSpot(sender[b].msg, conn.radius)
       THEN UNCHANGED <<conn, dropped>>
       ELSE IF Len(conn.send) < Buffer
       THEN /\ conn' = [conn EXCEPT !.send =
                           Append(@, [msg |-> sender[b].msg, seq |-> sender[b].seq])]
            /\ UNCHANGED dropped
       ELSE /\ dropped' = dropped \cup {sender[b].msg}
            /\ UNCHANGED conn
    /\ UNCHANGED <<clock, log, hubVars, wire, page, held, starts, breaks>>

pruneLiveHistory ==
    /\ sortSearch(clock - Retention) > 0
    /\ dropFrontLocked(sortSearch(clock - Retention))
    /\ UNCHANGED <<clock, log, epoch, sender, conn, wire, page, held, dropped, starts, breaks>>

(***************************************************************************)
(* The handler.                                                            *)
(***************************************************************************)
\* The id the request carries: EventSource's own Last-Event-ID, else `since'.
sinceRaw == IF page.esId # NoId THEN page.esId ELSE page.url.since

\* Mutant: the epoch of the id is not compared.
DecideResumeAnyEpoch(radius) ==
    CASE sinceRaw = NoId -> "none"
      [] page.url.prev /\ page.url.prevRadius # radius -> "full"
      [] OTHER -> "delta"

decideResume(radius) ==
    CASE sinceRaw = NoId -> "none"
      [] sinceRaw.epoch # epoch \/ sinceRaw.seq > highSeqLocked -> "full"
      [] page.url.prev /\ page.url.prevRadius # radius -> "full"
      [] OTHER -> "delta"

\* Mutant: the resume starts right after the id, sends still to come or not.
OverlapFloorNone(mode) == IF mode = "delta" THEN sinceRaw.seq ELSE 0

\* The last sequence number a resuming client need not be sent again.
overlapFloor(mode) ==
    IF mode = "delta" /\ sinceRaw.seq > Overlap THEN sinceRaw.seq - Overlap ELSE 0

\* A plain resume starts the window late, one with a previous filter skips
\* what that filter let through.
startIdx(mode, cutoff) ==
    LET from == overlapFloor(mode) - baseSeq IN
    IF ~page.url.prev /\ from > sortSearch(cutoff)
    THEN IF from < Len(history) THEN from ELSE Len(history)
    ELSE sortSearch(cutoff)

historySpots(mode, radius, cutoff) ==
    {i \in startIdx(mode, cutoff) + 1 .. Len(history) :
        /\ matchAndCreateSpot(history[i], radius)
        /\ log[history[i]].kind \in page.url.filter
        /\ ~ (/\ mode = "delta" /\ page.url.prev
              /\ baseSeq + i <= overlapFloor(mode)
              /\ log[history[i]].kind \in page.url.prevFilter)}

AreaFrame(radius) == [type |-> "area", spots |-> <<>>, id |-> NoId, radius |-> radius]
DumpFrame(m) == [type |-> "spots", spots |-> <<m>>, id |-> NoId, radius |-> 0]
LiveFrame(ms, seq) == [type |-> "spots", spots |-> ms, id |-> [epoch |-> epoch, seq |-> seq], radius |-> 0]
EndFrame == [type |-> "history_end", spots |-> <<>>, id |-> [epoch |-> epoch, seq |-> highSeqLocked], radius |-> 0]
ErrorFrame == [type |-> "server_error", spots |-> <<>>, id |-> NoId, radius |-> 0]

\* streamHandler up to its loop: registration, resume decision and window
\* are taken under one hub lock; the dump is written in chunks.
StreamHandler(radius) ==
    LET cutoff == clock - Minutes
    IN
    /\ page.phase = "connecting"
    /\ conn' = [ConnClosed EXCEPT !.open = TRUE, !.filter = page.url.filter,
                  !.radius = radius, !.cutoff = cutoff, !.maxSeq = highSeqLocked]
    /\ \E dump \in SetToSeqs(historySpots(decideResume(radius), radius, cutoff)) :
         /\ \A i, j \in DOMAIN dump : i < j => dump[i] < dump[j]
         /\ wire' = <<AreaFrame(radius)>> \o [j \in DOMAIN dump |-> DumpFrame(history[dump[j]])]
                    \o <<EndFrame>>
    /\ page' = [page EXCEPT !.phase = "loading"]
    /\ UNCHANGED <<clock, log, hubVars, sender, held, dropped, starts, breaks>>

\* maxClients is reached.
AtCapacity ==
    /\ page.phase = "connecting"
    /\ wire' = <<ErrorFrame>>
    /\ page' = [page EXCEPT !.phase = "loading"]
    /\ UNCHANGED <<clock, log, hubVars, sender, conn, held, dropped, starts, breaks>>

MsgsOf(spots) == [j \in DOMAIN spots |-> spots[j].msg]
MaxSeqOf(spots, low) == Max({low} \cup {s.seq : s \in Range(spots)})

\* flushPending: one frame, whose id is the greatest sequence number so far.
flushPending(send, spots) ==
    LET top == MaxSeqOf(spots, conn.maxSeq) IN
    /\ wire' = Append(wire, LiveFrame(MsgsOf(spots), top))
    /\ conn' = [conn EXCEPT !.send = send, !.pending = <<>>, !.maxSeq = top]

\* case spot := <-client.send
HandlerRecv ==
    LET spot == Head(conn.send)
        pending == Append(conn.pending, spot)
    IN
    /\ conn.open
    /\ conn.send # <<>>
    /\ IF log[spot.msg].kind \notin conn.filter
       THEN /\ conn' = [conn EXCEPT !.send = Tail(@)]
            /\ UNCHANGED wire
       ELSE IF Len(pending) >= BatchMax
       THEN flushPending(Tail(conn.send), pending)
       ELSE /\ conn' = [conn EXCEPT !.send = Tail(@), !.pending = pending]
            /\ UNCHANGED wire
    /\ UNCHANGED <<clock, log, hubVars, sender, page, held, dropped, starts, breaks>>

\* case <-ticker.C
HandlerTick ==
    /\ conn.open
    /\ conn.pending # <<>>
    /\ flushPending(conn.send, conn.pending)
    /\ UNCHANGED <<clock, log, hubVars, sender, page, held, dropped, starts, breaks>>

(***************************************************************************)
(* The page.                                                               *)
(***************************************************************************)
\* startLiveStream(preserveData): close the old stream, decide whether the
\* new one can resume, and remember the filter it asks for.
startLiveStream(f, preserveData) ==
    LET canResume == /\ preserveData /\ page.lastId # NoId
                     /\ page.streamedFilter # {} /\ HeldSet # {}
    IN
    /\ page' = [page EXCEPT
         !.phase = "connecting",
         !.lastId = IF canResume THEN @ ELSE NoId,
         !.esId = NoId,
         !.streamedFilter = f,
         !.url = [filter |-> f, since |-> IF canResume THEN page.lastId ELSE NoId,
                  prev |-> canResume, prevFilter |-> page.streamedFilter,
                  prevRadius |-> page.area]]
    /\ held' = IF preserveData THEN held ELSE [m \in Msgs |-> 0]
    /\ conn' = ConnClosed
    /\ wire' = <<>>
    /\ starts' = starts + 1

\* The submit button.
Submit(f) ==
    /\ starts < MaxStarts
    /\ page.phase = "off"
    /\ startLiveStream(f, FALSE)
    /\ UNCHANGED <<clock, log, hubVars, sender, dropped, breaks>>

\* restartStreamIfSubscribed: the user widened the filter.
RestartStream(f) ==
    /\ starts < MaxStarts
    /\ page.phase \in (IF Patient THEN {"live"} ELSE {"connecting", "loading", "live"})
    /\ ~ (f \subseteq page.streamedFilter)
    /\ startLiveStream(f, TRUE)
    /\ UNCHANGED <<clock, log, hubVars, sender, dropped, breaks>>

\* scheduleHiddenStreamClose: the tab was hidden for three minutes.
HiddenStreamClose ==
    /\ breaks < MaxBreaks /\ breaks + epoch <= MaxEnds
    /\ page.phase \in (IF Patient THEN {"live"} ELSE {"connecting", "loading", "live"})
    /\ page' = [page EXCEPT !.phase = "suspended"]
    /\ conn' = ConnClosed
    /\ wire' = <<>>
    /\ breaks' = breaks + 1
    /\ UNCHANGED <<clock, log, hubVars, sender, held, dropped, starts>>

resumeSuspendedStream ==
    /\ starts < MaxStarts
    /\ page.phase = "suspended"
    /\ startLiveStream(page.streamedFilter, TRUE)
    /\ UNCHANGED <<clock, log, hubVars, sender, dropped, breaks>>

\* ingestSpot for every spot of a frame: until history_end a message the page
\* already holds, from this frame or before, is skipped (seenKeys).
ingestSpots(ms) ==
    LET times(m) == Cardinality({j \in DOMAIN ms : ms[j] = m}) IN
    held' = [m \in Msgs |->
               IF page.phase = "live" THEN held[m] + times(m)
               ELSE IF m \in Range(ms) /\ held[m] = 0 THEN 1 ELSE held[m]]

ReceiveSpots ==
    LET frame == Head(wire) IN
    /\ wire # <<>>
    /\ frame.type = "spots"
    /\ wire' = Tail(wire)
    /\ ingestSpots(frame.spots)
    /\ page' = IF frame.id = NoId THEN page
               ELSE [page EXCEPT !.lastId = frame.id, !.esId = frame.id]
    /\ UNCHANGED <<clock, log, hubVars, sender, conn, dropped, starts, breaks>>

ReceiveArea ==
    /\ wire # <<>>
    /\ Head(wire).type = "area"
    /\ wire' = Tail(wire)
    /\ page' = [page EXCEPT !.area = Head(wire).radius]
    /\ UNCHANGED <<clock, log, hubVars, sender, conn, held, dropped, starts, breaks>>

ReceiveHistoryEnd ==
    /\ wire # <<>>
    /\ Head(wire).type = "history_end"
    /\ wire' = Tail(wire)
    /\ page' = [page EXCEPT !.phase = "live", !.lastId = Head(wire).id, !.esId = Head(wire).id]
    /\ UNCHANGED <<clock, log, hubVars, sender, conn, held, dropped, starts, breaks>>

ReceiveServerError ==
    /\ wire # <<>>
    /\ Head(wire).type = "server_error"
    /\ wire' = <<>>
    /\ page' = [page EXCEPT !.phase = "off", !.streamedFilter = {}]
    /\ UNCHANGED <<clock, log, hubVars, sender, conn, held, dropped, starts, breaks>>

(***************************************************************************)
(* The environment.                                                        *)
(***************************************************************************)
\* The connection breaks; what was not read is gone and EventSource
\* reconnects by itself, to the same URL.
Reconnects == page' = IF page.phase \in {"loading", "live"}
                      THEN [page EXCEPT !.phase = "connecting"] ELSE page

Break ==
    /\ breaks < MaxBreaks /\ breaks + epoch <= MaxEnds
    /\ page.phase \in {"loading", "live"}
    /\ Reconnects
    /\ conn' = ConnClosed
    /\ wire' = <<>>
    /\ breaks' = breaks + 1
    /\ UNCHANGED <<clock, log, hubVars, sender, held, dropped, starts>>

\* The process restarts: the startup backfill replaces the history by what
\* dx_raw_spots holds of the retention window (the newest messages may not
\* have been written yet), before ingest and the HTTP server start.
Restart(stored) ==
    /\ epoch <= MaxRestarts /\ breaks + epoch <= MaxEnds
    /\ epoch' = epoch + 1
    /\ \E h \in SetToSeqs({m \in 1 .. stored : log[m].t >= clock - Retention}) :
         /\ \A i, j \in DOMAIN h : i < j =>
              \/ log[h[i]].t < log[h[j]].t
              \/ log[h[i]].t = log[h[j]].t /\ h[i] < h[j]
         /\ history' = h
    /\ baseSeq' = 0
    /\ sender' = [b \in Broadcasters |-> SenderIdle]
    /\ conn' = ConnClosed
    /\ wire' = <<>>
    /\ Reconnects
    /\ UNCHANGED <<clock, log, held, dropped, starts, breaks>>

Tick ==
    /\ clock < MaxClock
    /\ clock' = clock + 1
    /\ UNCHANGED <<log, hubVars, sender, conn, wire, page, held, dropped, starts, breaks>>

Init ==
    /\ clock = 0
    /\ log = <<>>
    /\ history = <<>> /\ baseSeq = 0 /\ epoch = 1
    /\ sender = [b \in Broadcasters |-> SenderIdle]
    /\ conn = ConnClosed
    /\ wire = <<>>
    /\ page = [phase |-> "off", lastId |-> NoId, esId |-> NoId, streamedFilter |-> {}, area |-> -1,
               url |-> [filter |-> {}, since |-> NoId, prev |-> FALSE,
                        prevFilter |-> {}, prevRadius |-> -1]]
    /\ held = [m \in Msgs |-> 0]
    /\ dropped = {}
    /\ starts = 0 /\ breaks = 0

HubStep ==
    \/ \E b \in Broadcasters, k \in Kinds, t \in clock - MaxLate .. clock : Broadcast(b, k, t)
    \/ \E b \in Broadcasters : SafeSend(b)
    \/ pruneLiveHistory

HandlerStep ==
    \/ \E radius \in Radii : StreamHandler(radius)
    \/ AtCapacity \/ HandlerRecv \/ HandlerTick

PageStep ==
    \/ \E f \in Filters : Submit(f) \/ RestartStream(f)
    \/ HiddenStreamClose \/ resumeSuspendedStream
    \/ ReceiveSpots \/ ReceiveArea \/ ReceiveHistoryEnd \/ ReceiveServerError

Next ==
    \/ HubStep \/ HandlerStep \/ PageStep
    \/ Break \/ Tick
    \/ \E stored \in 0 .. Len(log) : Restart(stored)

Spec == Init /\ [][Next]_vars

(***************************************************************************)
(* Properties.                                                             *)
(***************************************************************************)
\* What is still on its way to the page on this connection.
OnTheWay ==
    {sender[b].msg : b \in {o \in Broadcasters : sender[o].busy /\ sender[o].to = connNo}}
    \cup Range(MsgsOf(conn.send)) \cup Range(MsgsOf(conn.pending))
    \cup UNION {Range(wire[j].spots) : j \in DOMAIN wire}

\* streamSnapshot ("taken under one hub lock so no live spot is lost ... at
\* the seam") and the resume: while a stream is open, every message of its
\* window that the page asked for is held, on its way, or was refused by a
\* full channel - whatever overtook what, whatever the page was sent before,
\* however the previous connections ended.
NothingLost ==
    conn.open =>
        \A m \in Range(history) :
            /\ log[m].t >= conn.cutoff
            /\ log[m].kind \in conn.filter
            /\ matchAndCreateSpot(m, conn.radius)
            => m \in HeldSet \cup OnTheWay \cup dropped

\* "live spots after that cannot be duplicates" (app.js): the page never
\* lists a message twice, although it stops comparing at history_end.
NoDuplicates == \A m \in Msgs : held[m] <= 1

=============================================================================
