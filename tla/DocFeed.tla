------------------------------ MODULE DocFeed ------------------------------
(***************************************************************************)
(* How the ops of a document reach its readers, when they are published on *)
(* the document's own Redis channel (publishOnIndividualChannels).         *)
(* RoomManager and ChannelManager of one real-time process subscribe to    *)
(* the channel while the room has clients; joinDoc enters the room and     *)
(* then asks document-updater for the document; the browser applies the    *)
(* ops it is sent in the order of their versions, and gives the document   *)
(* up when one is missing for too long. An op is the version it applies to.*)
(***************************************************************************)
EXTENDS Naturals, Sequences, FiniteSets, SequencesExt

CONSTANTS Clients,          \* sockets of the process, with the browsers behind
          FirstVersion,     \* of the document when the behaviour begins
          MaxVersion,       \* bound: ops of the document
          MaxCalls,         \* bound: joinDoc calls of a client under way
          MaxPlans,         \* bound: planned calls of ChannelManager
          FaultSets,        \* which rare events may happen together
          None,             \* no timer
          Spent             \* a timer that has fired and was not reset

ASSUME BoundsAssumption ==
    /\ {FirstVersion, MaxVersion, MaxCalls, MaxPlans} \subseteq Nat
    /\ FirstVersion <= MaxVersion
ASSUME TimerAssumption == None \notin Nat /\ Spent \notin Nat /\ None # Spent

VARIABLES faults,           \* the rare events of this behaviour
          version,          \* of the document, in document-updater
          published,        \* the ops that have been published
          subscribed,       \* whether Redis sends the channel to the process
          wire,             \* what Redis has sent on the connection: ops, replies
          room,             \* the clients in the document's socket.io room
          plans,            \* ChannelManager's chained calls, the first at work
          issued,           \* whether Redis has carried out the first one
          handler,          \* joinDoc calls: where each is, and what it has read
          epoch,            \* the call whose joinLeaveEpoch is the client's, or 0
          downlink,         \* what each socket has been sent
          reader            \* the browser's DocumentContainer and ShareJsDoc

pubsub == <<subscribed, wire, plans, issued>>
feed == <<faults, version, published>>
vars == <<feed, pubsub, room, handler, epoch, downlink, reader>>

Calls == 1..MaxCalls
NoCall == [at |-> "none", v |-> 0]
Container(state, n) == [state |-> state, call |-> n, doc |-> 0, queue |-> {}, timer |-> None]
NoDoc == Container("closed", 0)

Init ==
    /\ faults \in FaultSets
    /\ version = FirstVersion /\ published = FirstVersion
    /\ subscribed = FALSE /\ wire = <<>> /\ plans = <<>> /\ issued = FALSE
    /\ room = {}
    /\ handler = [c \in Clients |-> [n \in Calls |-> NoCall]]
    /\ epoch = [c \in Clients |-> 0]
    /\ downlink = [c \in Clients |-> <<>>]
    /\ reader = [c \in Clients |-> NoDoc]
-----------------------------------------------------------------------------
\* RoomManager and ChannelManager.

Op(v) == [kind |-> "op", v |-> v, call |-> 0]
Reply(kind) == [kind |-> kind, v |-> 0, call |-> 0]

\* A call is chained behind those that are planned.
Plan(call) == plans' = Append(plans, call)

\* Mutant: the last one to leave does not unsubscribe while a call is planned.
LeaveRoomBusy(c) ==
    /\ room' = room \ {c}
    /\ IF room = {c} /\ plans = <<>> THEN Plan("unsubscribe") ELSE UNCHANGED plans

\* leaveEntity: the last one to leave plans to unsubscribe.
LeaveRoom(c) ==
    /\ room' = room \ {c}
    /\ IF room = {c} THEN Len(plans) < MaxPlans /\ Plan("unsubscribe") ELSE UNCHANGED plans

\* joinEntity: the first one waits for the channel, others are let in at once.
EnterRoom(c, n) ==
    /\ room' = room \cup {c}
    /\ IF room = {}
       THEN /\ Plan("subscribe")
            /\ handler' = [handler EXCEPT ![c][n].at = "subscribe"]
       ELSE /\ handler' = [handler EXCEPT ![c][n].at = "get"]
            /\ UNCHANGED plans

\* Redis carries out the first of the planned calls.
CarryOut ==
    /\ plans # <<>> /\ ~issued
    /\ issued' = TRUE
    /\ subscribed' = (Head(plans) = "subscribe")
    /\ wire' = Append(wire, Reply(Head(plans)))
    /\ UNCHANGED <<feed, room, plans, handler, epoch, downlink, reader>>

\* The connection breaks while the process subscribes: the call fails.
SubscribeFails ==
    /\ "subscribe" \in faults
    /\ plans # <<>> /\ ~issued /\ Head(plans) = "subscribe"
    /\ issued' = TRUE
    /\ wire' = Append(wire, Reply("failed"))
    /\ UNCHANGED <<feed, subscribed, room, plans, handler, epoch, downlink, reader>>

\* Mutant: a failed subscription is reported to nobody.
AnsweredSuccess(kind) ==
    [c \in Clients |-> [n \in Calls |->
        IF kind = "subscribe" /\ handler[c][n].at = "subscribe"
        THEN [NoCall EXCEPT !.at = "get"]
        ELSE handler[c][n]]]

\* The reply to a subscription: every listener for the event of the document is
\* called, whoever's subscription it was. A failure is reported to them, and
\* they stay in the room.
Answered(kind) ==
    [c \in Clients |-> [n \in Calls |->
        IF kind # "unsubscribe" /\ handler[c][n].at = "subscribe"
        THEN [NoCall EXCEPT !.at = IF kind = "failed" THEN "none" ELSE "get"]
        ELSE handler[c][n]]]

ReceiveReply ==
    /\ wire # <<>> /\ Head(wire).kind # "op"
    /\ wire' = Tail(wire)
    /\ plans' = Tail(plans) /\ issued' = FALSE
    /\ handler' = Answered(Head(wire).kind)
    /\ UNCHANGED <<feed, subscribed, room, epoch, downlink, reader>>

\* _applyUpdateFromDocumentUpdater sends an op to everybody in the room. In a
\* Redis cluster an op may be delayed.
ReceiveOp(i) ==
    /\ wire[i].kind = "op"
    /\ i = 1 \/ "delay" \in faults
    /\ wire' = RemoveAt(wire, i)
    /\ downlink' = [c \in Clients |->
           IF c \in room THEN Append(downlink[c], wire[i]) ELSE downlink[c]]
    /\ UNCHANGED <<feed, subscribed, plans, issued, room, handler, epoch, reader>>

\* Redis does not keep what it could not send.
LoseOp(i) ==
    /\ "loss" \in faults
    /\ wire[i].kind = "op"
    /\ wire' = RemoveAt(wire, i)
    /\ UNCHANGED <<feed, subscribed, plans, issued, room, handler, epoch, downlink, reader>>

\* document-updater publishes an op while it holds the document's lock, and does
\* not wait for Redis, which sends it on sooner or later ...
Publish ==
    /\ published <= version /\ published < MaxVersion
    /\ published' = published + 1
    /\ wire' = IF subscribed THEN Append(wire, Op(published)) ELSE wire
    /\ UNCHANGED <<faults, version, subscribed, plans, issued, room, handler, epoch, downlink,
                   reader>>

\* ... then it writes the new version of the document.
Apply ==
    /\ version < MaxVersion
    /\ version' = version + 1
    /\ UNCHANGED <<faults, published, pubsub, room, handler, epoch, downlink, reader>>
-----------------------------------------------------------------------------
\* joinDoc and leaveDoc of WebsocketController.

\* Mutant: a call that was overtaken goes on.
AuthoriseLate(c, n) ==
    /\ handler[c][n].at = "auth"
    /\ EnterRoom(c, n)
    /\ UNCHANGED <<feed, subscribed, wire, issued, epoch, downlink, reader>>

\* The client is authorised; a call that was overtaken by another one ends.
Authorise(c, n) ==
    /\ handler[c][n].at = "auth"
    /\ IF epoch[c] # n
       THEN /\ handler' = [handler EXCEPT ![c][n] = NoCall]
            /\ UNCHANGED <<room, plans>>
       ELSE EnterRoom(c, n)
    /\ UNCHANGED <<feed, subscribed, wire, issued, epoch, downlink, reader>>

\* document-updater reads the document under its lock ...
GetDocument(c, n) ==
    /\ handler[c][n].at = "get" /\ published <= version
    /\ handler' = [handler EXCEPT ![c][n] = [at |-> "answer", v |-> version]]
    /\ UNCHANGED <<feed, pubsub, room, epoch, downlink, reader>>

\* ... and its response is passed on to the client.
Answer(c, n) ==
    /\ handler[c][n].at = "answer"
    /\ handler' = [handler EXCEPT ![c][n] = NoCall]
    /\ downlink' = [downlink EXCEPT ![c] =
           Append(@, [kind |-> "doc", v |-> handler[c][n].v, call |-> n])]
    /\ UNCHANGED <<feed, pubsub, room, epoch, reader>>
-----------------------------------------------------------------------------
\* The browser.

\* Opening a document makes a new container, which calls joinDoc.
Open(c, n) ==
    /\ reader[c].state = "closed"
    /\ handler[c][n].at = "none" /\ \A i \in DOMAIN downlink[c] : downlink[c][i].call # n
    /\ reader' = [reader EXCEPT ![c] = Container("joining", n)]
    /\ handler' = [handler EXCEPT ![c][n].at = "auth"]
    /\ epoch' = [epoch EXCEPT ![c] = n]
    /\ UNCHANGED <<feed, pubsub, room, downlink>>

\* Leaving it calls leaveDoc; the container is discarded.
Leave(c) ==
    /\ reader[c].state \in {"joining", "open"}
    /\ reader' = [reader EXCEPT ![c] = NoDoc]
    /\ epoch' = [epoch EXCEPT ![c] = 0]
    /\ LeaveRoom(c)
    /\ UNCHANGED <<feed, subscribed, wire, issued, handler, downlink>>

\* The connection ends, after an error by the browser's own doing: the socket
\* leaves its rooms, and what goes on for it finds it disconnected.
Disconnect(c) ==
    /\ reader[c].state # "closed"
    /\ reader' = [reader EXCEPT ![c] = NoDoc]
    /\ epoch' = [epoch EXCEPT ![c] = 0]
    /\ downlink' = [downlink EXCEPT ![c] = <<>>]
    /\ handler' = [handler EXCEPT ![c] = [n \in Calls |-> NoCall]]
    /\ LeaveRoom(c)
    /\ UNCHANGED <<feed, subscribed, wire, issued>>

\* The version after the queued ops that follow a version, and the queue then.
Reached(v, queue) == CHOOSE w \in v..MaxVersion : w \notin queue /\ v..w-1 \subseteq queue

\* Mutant: an op is queued without a timer.
InOrderUntimed(d, v) ==
    IF v > d.doc /\ d.doc > 0
    THEN [d EXCEPT !.queue = @ \cup {v}]
    ELSE IF v > d.doc THEN [d EXCEPT !.state = "broken"]
    ELSE IF v < d.doc THEN d
    ELSE LET w == Reached(v + 1, d.queue)
             q == {u \in d.queue : u > w}
         IN  [d EXCEPT !.doc = w, !.queue = q,
                       !.timer = IF d.queue # {} /\ q = {} THEN None ELSE @]

\* processUpdateFromServerInOrder: an op that is ahead waits in a queue that has
\* a timer (but not at version 0, where it is an error), an old one is ignored,
\* and the next one is applied with those in the queue that follow it.
InOrder(d, v) ==
    IF v > d.doc /\ d.doc > 0
    THEN [d EXCEPT !.queue = @ \cup {v}, !.timer = IF @ = None THEN v ELSE @]
    ELSE IF v > d.doc THEN [d EXCEPT !.state = "broken"]
    ELSE IF v < d.doc THEN d
    ELSE LET w == Reached(v + 1, d.queue)
             q == {u \in d.queue : u > w}
         IN  [d EXCEPT !.doc = w, !.queue = q,
                       !.timer = IF d.queue # {} /\ q = {} THEN None ELSE @]

\* A message reaches the browser. Ops for a document that is not there yet are
\* ignored, and so is the answer to a container that was discarded.
Deliver(c) ==
    LET msg == Head(downlink[c])
        d == reader[c]
    IN /\ downlink[c] # <<>>
       /\ downlink' = [downlink EXCEPT ![c] = Tail(@)]
       /\ reader' = [reader EXCEPT ![c] =
              IF msg.kind = "op"
              THEN IF d.state = "open" THEN InOrder(d, msg.v) ELSE d
              ELSE IF d.state = "joining" /\ d.call = msg.call
                   THEN [d EXCEPT !.state = "open", !.doc = msg.v]
                   ELSE d]
       /\ UNCHANGED <<feed, pubsub, room, handler, epoch>>

\* The timer fires: the op it was set for is an error if it is still ahead, and
\* is ignored if not; the timer is not reset.
TimerFires(c) ==
    LET d == reader[c] IN
    /\ d.state = "open" /\ d.timer \in Nat
    /\ reader' = [reader EXCEPT ![c] =
           IF d.timer > d.doc THEN [d EXCEPT !.state = "broken"]
           ELSE [d EXCEPT !.timer = Spent]]
    /\ UNCHANGED <<feed, pubsub, room, handler, epoch, downlink>>

Next ==
    \/ CarryOut \/ SubscribeFails \/ ReceiveReply
    \/ \E i \in DOMAIN wire : ReceiveOp(i) \/ LoseOp(i)
    \/ Publish \/ Apply
    \/ \E c \in Clients :
          \/ \E n \in Calls :
                Open(c, n) \/ Authorise(c, n) \/ GetDocument(c, n) \/ Answer(c, n)
          \/ Leave(c) \/ Disconnect(c) \/ Deliver(c) \/ TimerFires(c)

Spec == Init /\ [][Next]_vars

\* What the processes, Redis and the connections carry out sooner or later; that
\* someone opens or leaves a document, or that it changes, is up to the users.
Fairness ==
    /\ WF_vars(published > version /\ Apply)
    /\ WF_vars(CarryOut) /\ WF_vars(ReceiveReply) /\ WF_vars(wire # <<>> /\ ReceiveOp(1))
    /\ \A c \in Clients :
          /\ \A n \in Calls : WF_vars(Authorise(c, n) \/ GetDocument(c, n) \/ Answer(c, n))
          /\ WF_vars(TimerFires(c))

FairSpec == Spec /\ Fairness
-----------------------------------------------------------------------------
Plans == {"subscribe", "unsubscribe"}

\* The subscription follows the room, however the joins, the leaves and Redis'
\* answers interleave: what was planned last is what the room needs, one planned
\* call is on its way at a time, and with none the process is subscribed exactly
\* while somebody is in the room (if no subscription has failed).
SubscriptionFollowsRoom ==
    /\ plans # <<>> => (Last(plans) = "subscribe" <=> room # {})
    /\ \A i \in 1..Len(plans) - 1 : plans[i] # plans[i+1]
    /\ plans = <<>> /\ room = {} => ~subscribed
    /\ plans = <<>> /\ room # {} /\ "subscribe" \notin faults => subscribed

\* Whoever is in the room has the document open or waits for it: a joinDoc that
\* was overtaken by a leaveDoc or by the end of the connection enters nobody.
RoomHoldsReaders == \A c \in room : reader[c].state # "closed"

\* share-js-doc.ts:201: ops never stay in the queue for good. While there are any
\* a timer runs; the exception is a delayed op (README, section 5).
QueueTimed ==
    "delay" \notin faults =>
        \A c \in Clients :
            reader[c].state = "open" /\ reader[c].queue # {} => reader[c].timer \in Nat

\* Every joinDoc call is answered, also when the subscription it waits for fails
\* or when its client leaves meanwhile.
JoinAnswered ==
    \A c \in Clients, n \in Calls :
        handler[c][n].at = "auth" ~> handler[c][n].at = "none"

\* WebsocketController.js:272: the channel "is subscribed before sending the doc to
\* the client, so that no events are missed". It is not (README, section 5).
ChannelBeforeDoc ==
    \A c \in Clients, n \in Calls :
        handler[c][n].at = "answer" /\ epoch[c] = n => subscribed
=============================================================================
