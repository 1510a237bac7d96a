------------------------------ MODULE PushStore ------------------------------
(* The Web Push channel of horstreporter: the in-memory subscription store   *)
(* with its first-in-first-out cap, the per-address limit on subscriptions,  *)
(* the handlers the page calls, and the fan-out that sends one message per   *)
(* matching subscription and drops the endpoints the push service disowns.   *)
(* A send is an HTTP round trip: the service answers in one step and the     *)
(* answer is applied in a later one, so a subscription can be renewed,       *)
(* withdrawn or evicted in between.  Nothing is persisted: a restart starts  *)
(* empty and the page subscribes again when its status check says so.        *)
EXTENDS Integers, Sequences, FiniteSets, SequencesExt

CONSTANTS
    PushEndpoints,       \* push service URLs the browsers hold
    PushPrefs,           \* preference maps: the sets of keys that are on
    PushSurges,          \* the "band:region" cells that can surge
    PushPeers,           \* direct TCP peers
    PushForwarded,       \* X-Forwarded-For values, "" when the header is absent
    PushTrusted,         \* the peers in the trusted proxy list
    PushMaxSubscriptions,\* pushMaxSubscriptions (push.go:41)
    PushRatePerHour,     \* pushSubscribeRatePerHour (push.go:46)
    PushWorkers,         \* concurrent NotifySurges goroutines
    PushMaxPosts, PushMaxNotifies,
    PushMaxEvents    \* hours and restarts together

ASSUME PushAssumption ==
    /\ PushTrusted \subseteq PushPeers
    /\ PushMaxSubscriptions \in Nat \ {0}
    /\ PushRatePerHour \in Nat \ {0}
    /\ \A p \in PushPrefs : p \subseteq PushSurges \cup {"all"}

VARIABLES
    subs,      \* endpoint -> [prefs, created], the map
    order,     \* endpoints in insertion order
    ipWindows, \* client address -> [start, count]
    hour,      \* the wall clock, in hours
    fanouts,   \* worker -> [todo, reply]: the messages still to send, the answer being applied
    wanted,    \* endpoints whose browser wants pushes (external)
    gone,      \* endpoints the push service has revoked (external)
    posts,     \* subscribe requests so far; also the insertion stamp
    notifies,  \* fan-outs so far
    pushBoots  \* restarts so far

pushVars == <<subs, order, ipWindows, hour, fanouts, wanted, gone, posts, notifies, pushBoots>>
outside == <<hour, fanouts, gone, notifies, pushBoots>>

NoReply == <<>>
pushIdle == [todo |-> {}, reply |-> NoReply]

PushInit ==
    /\ subs = <<>> /\ order = <<>> /\ ipWindows = <<>> /\ hour = 0
    /\ fanouts = [w \in PushWorkers |-> pushIdle]
    /\ wanted = {} /\ gone = {} /\ posts = 0 /\ notifies = 0 /\ pushBoots = 0

-----------------------------------------------------------------------------
(* The subscribe limit.                                                      *)

\* The leftmost forwarded address, when the peer is a trusted proxy.
clientIPFromRequest(peer, xff) == IF peer \in PushTrusted /\ xff # "" THEN xff ELSE peer

windowOpen(ip) == ip \in DOMAIN ipWindows /\ hour - ipWindows[ip].start < 1
pushAllowed(ip) == ip = "" \/ ~windowOpen(ip) \/ ipWindows[ip].count < PushRatePerHour

\* The collection of expired windows past 10000 addresses changes no answer.
pushAllow(ip) ==
    ipWindows' = IF ip = "" \/ ~pushAllowed(ip) THEN ipWindows
                 ELSE LET w == IF windowOpen(ip) THEN [ipWindows[ip] EXCEPT !.count = @ + 1]
                               ELSE [start |-> hour, count |-> 1]
                      IN [i \in DOMAIN ipWindows \cup {ip} |-> IF i = ip THEN w ELSE ipWindows[i]]

-----------------------------------------------------------------------------
(* The store.                                                                *)

Without(f, e) == [x \in DOMAIN f \ {e} |-> f[x]]

\* Pops the insertion queue up to its first stored endpoint, and drops that one.
evictOldest ==
    LET stored == {i \in DOMAIN order : order[i] \in DOMAIN subs}
        k == CHOOSE i \in stored : \A j \in stored : i <= j
    IN IF Cardinality(DOMAIN subs) < PushMaxSubscriptions THEN [subs |-> subs, order |-> order]
       ELSE IF stored = {} THEN [subs |-> subs, order |-> <<>>]
       ELSE [subs |-> Without(subs, order[k]), order |-> SubSeq(order, k + 1, Len(order))]

\* A known endpoint keeps its place and its stamp.
pushAdd(e, prefs) ==
    IF e \in DOMAIN subs
    THEN /\ subs' = [subs EXCEPT ![e].prefs = prefs]
         /\ UNCHANGED order
    ELSE LET room == evictOldest IN
         /\ subs' = [x \in DOMAIN room.subs \cup {e} |->
                        IF x = e THEN [prefs |-> prefs, created |-> posts] ELSE room.subs[x]]
         /\ order' = Append(room.order, e)

\* Mutant: an endpoint taken out of the map stays in the queue.
pushRemoveKeepsOrder(e) == subs' = Without(subs, e) /\ UNCHANGED order

pushRemove(e) ==
    IF e \notin DOMAIN subs THEN UNCHANGED <<subs, order>>
    ELSE /\ subs' = Without(subs, e)
         /\ order' = IF e \in Range(order) THEN RemoveFirst(order, e) ELSE order

has(e) == e \in DOMAIN subs

-----------------------------------------------------------------------------
(* The handlers.  An invalid body has used up one request of its address.    *)

\* validatePushSubscription: an https URL with a host, and both keys.
pushSubscribeHandler(peer, xff, e, prefs, valid) ==
    LET ip == clientIPFromRequest(peer, xff) IN
    /\ posts < PushMaxPosts
    /\ posts' = posts + 1
    /\ pushAllow(ip)
    /\ wanted' = wanted \cup {e}
    /\ IF pushAllowed(ip) /\ valid THEN pushAdd(e, prefs) ELSE UNCHANGED <<subs, order>>
    /\ UNCHANGED outside

\* The operator switches push on, or changes what it covers.
Subscribe ==
    \E peer \in PushPeers, xff \in PushForwarded, e \in PushEndpoints, prefs \in PushPrefs,
       valid \in BOOLEAN : pushSubscribeHandler(peer, xff, e, prefs, valid)

\* The panel opens: it asks for the status of its endpoint and posts it again
\* when the server does not know it.
pushSubscriptionStatusHandler ==
    \E peer \in PushPeers, e \in wanted, prefs \in PushPrefs :
        ~has(e) /\ pushSubscribeHandler(peer, "", e, prefs, TRUE)

\* The browser withdraws an endpoint; the server may not know it any more.
pushUnsubscribeHandler ==
    \E e \in wanted :
        /\ wanted' = wanted \ {e}
        /\ pushRemove(e)
        /\ UNCHANGED <<outside, ipWindows, posts>>

-----------------------------------------------------------------------------
(* The fan-out.                                                              *)

matches(prefs, cell) == "all" \in prefs \/ cell \in prefs

\* One message per subscription and surged cell it covers, from a snapshot.
NotifySurges(w) ==
    /\ notifies < PushMaxNotifies
    /\ fanouts[w] = pushIdle
    /\ \E cells \in (SUBSET PushSurges) \ {{}} :
         fanouts' = [fanouts EXCEPT ![w].todo =
             {job \in (DOMAIN subs) \X cells : matches(subs[job[1]].prefs, job[2])}]
    /\ notifies' = notifies + 1
    /\ UNCHANGED <<subs, order, ipWindows, hour, wanted, gone, posts, pushBoots>>

\* The push service answers 410 (or 404, with the same effect) for a revoked
\* endpoint only; "error" is a 5xx, or no answer at all.
Answers(e) == IF e \in gone THEN {"410", "error"} ELSE {"201", "4xx", "error"}

\* The message reaches the push service, which answers.
defaultPushSendFunc(w) ==
    /\ fanouts[w].reply = NoReply
    /\ \E job \in fanouts[w].todo : \E status \in Answers(job[1]) :
         fanouts' = [fanouts EXCEPT ![w] = [todo |-> @.todo \ {job}, reply |-> <<job[1], status>>]]
    /\ UNCHANGED <<subs, order, ipWindows, hour, wanted, gone, posts, notifies, pushBoots>>

\* Mutant: every client error drops the subscription.
endpointGoneAnyClientError(status) == status \in {"404", "410", "4xx"}

endpointGone(status) == status \in {"404", "410"}

\* The answer comes back to the server.
sendPushNotification(w) ==
    /\ fanouts[w].reply # NoReply
    /\ fanouts' = [fanouts EXCEPT ![w].reply = NoReply]
    /\ IF endpointGone(fanouts[w].reply[2]) THEN pushRemove(fanouts[w].reply[1])
       ELSE UNCHANGED <<subs, order>>
    /\ UNCHANGED <<ipWindows, hour, wanted, gone, posts, notifies, pushBoots>>

-----------------------------------------------------------------------------

\* The push service revokes an endpoint; its URL is not handed out again.
Revoke ==
    /\ \E e \in wanted \ gone : gone' = gone \cup {e}
    /\ UNCHANGED <<subs, order, ipWindows, hour, fanouts, wanted, posts, notifies, pushBoots>>

PushTick ==
    /\ hour + pushBoots < PushMaxEvents
    /\ hour' = hour + 1
    /\ UNCHANGED <<subs, order, ipWindows, fanouts, wanted, gone, posts, notifies, pushBoots>>

PushRestart ==
    /\ hour + pushBoots < PushMaxEvents
    /\ pushBoots' = pushBoots + 1
    /\ subs' = <<>> /\ order' = <<>> /\ ipWindows' = <<>>
    /\ fanouts' = [w \in PushWorkers |-> pushIdle]
    /\ UNCHANGED <<hour, wanted, gone, posts, notifies>>

PushNext ==
    \/ Subscribe
    \/ pushSubscriptionStatusHandler
    \/ pushUnsubscribeHandler
    \/ \E w \in PushWorkers : NotifySurges(w)
    \/ \E w \in PushWorkers : defaultPushSendFunc(w)
    \/ \E w \in PushWorkers : sendPushNotification(w)
    \/ Revoke
    \/ PushTick
    \/ PushRestart

PushSpec == PushInit /\ [][PushNext]_pushVars

-----------------------------------------------------------------------------

(* add (push.go): the store never holds more than its cap, and a newcomer    *)
(* displaces only the subscription that has been stored longest, whatever    *)
(* renewals, withdrawals and disowned endpoints came before it.              *)
PushEvictsOldest ==
    [][/\ Cardinality(DOMAIN subs') <= PushMaxSubscriptions
       /\ \A x \in DOMAIN subs \ DOMAIN subs', y \in DOMAIN subs :
            DOMAIN subs' \ DOMAIN subs # {} => subs[x].created <= subs[y].created]_pushVars

(* sendPushNotification (push.go:457-504): within one run of the server, a   *)
(* subscription that its browser still wants leaves the store only to make   *)
(* room for a newcomer or because the push service revoked the endpoint; an  *)
(* answer that arrives after the subscription was renewed is no exception.   *)
PushKeepsLive ==
    [][\A e \in DOMAIN subs \ DOMAIN subs' :
         \/ e \in gone
         \/ e \notin wanted'
         \/ DOMAIN subs' \ DOMAIN subs # {}
         \/ pushBoots' # pushBoots]_pushVars
=============================================================================
