--------------------------- MODULE DocFeed_proofs ---------------------------
(***************************************************************************)
(* Proofs about DocFeed for any clients, versions, calls and faults: the   *)
(* subscription follows the room, the room holds readers only, and, unless *)
(* ops are delayed, an op that waits in a browser has a timer.             *)
(***************************************************************************)
EXTENDS DocFeed, SequenceTheorems, TLAPS

Messages == [kind : Plans \cup {"failed", "op"}, v : Nat, call : {0}]

\* The state of the connection to Redis has its type.
PubSubTypes ==
  /\ subscribed \in BOOLEAN /\ issued \in BOOLEAN
  /\ room \subseteq Clients
  /\ plans \in Seq(Plans)
  /\ wire \in Seq(Messages)
  /\ version \in Nat /\ published \in Nat

\* At most one reply is on its way, and only to a call that was carried out.
OneReply ==
  /\ issued => plans # <<>>
  /\ \A i \in DOMAIN wire : wire[i].kind # "op" => issued
  /\ \A i, j \in DOMAIN wire : wire[i].kind # "op" /\ wire[j].kind # "op" => i = j

\* What Redis does before and after it carries out the call at work.
Toggled ==
  plans # <<>> =>
    /\ ~issued /\ plans[1] = "subscribe" => ~subscribed
    /\ issued /\ plans[1] = "unsubscribe" => ~subscribed
    /\ issued /\ plans[1] = "subscribe" /\ "subscribe" \notin faults => subscribed

SubInv == PubSubTypes /\ OneReply /\ Toggled /\ SubscriptionFollowsRoom

LEMMA RemoveAtType ==
  ASSUME NEW S, NEW s \in Seq(S), NEW i \in 1..Len(s)
  PROVE  /\ RemoveAt(s, i) \in Seq(S)
         /\ Len(RemoveAt(s, i)) = Len(s) - 1
         /\ \A j \in 1..Len(s)-1 :
              RemoveAt(s, i)[j] = IF j < i THEN s[j] ELSE s[j+1]
<1> DEFINE a == SubSeq(s, 1, i-1)  b == SubSeq(s, i+1, Len(s))
<1>1. a \in Seq(S) /\ Len(a) = i-1 /\ \A j \in 1..i-1 : a[j] = s[j]
  OBVIOUS
<1>2. b \in Seq(S) /\ Len(b) = Len(s)-i /\ \A j \in 1..Len(s)-i : b[j] = s[i+j]
  OBVIOUS
<1>3. RemoveAt(s, i) = a \o b
  BY DEF RemoveAt
<1> HIDE DEF a, b
<1>4. /\ a \o b \in Seq(S) /\ Len(a \o b) = Len(s) - 1
      /\ \A j \in 1..Len(s)-1 : (a \o b)[j] = IF j <= i-1 THEN a[j] ELSE b[j-(i-1)]
  <2>1. /\ a \o b \in Seq(S) /\ Len(a \o b) = Len(a) + Len(b)
        /\ \A j \in 1..Len(a) + Len(b) : (a \o b)[j] = IF j <= Len(a) THEN a[j] ELSE b[j-Len(a)]
    BY <1>1, <1>2, ConcatProperties, Zenon
  <2>2. Len(a) = i-1 /\ Len(b) = Len(s)-i /\ Len(a) + Len(b) = Len(s)-1
    BY <1>1, <1>2
  <2> QED
    BY <2>1, <2>2
<1>5. ASSUME NEW j \in 1..Len(s)-1 PROVE (a \o b)[j] = IF j < i THEN s[j] ELSE s[j+1]
  <2>1. CASE j < i
    BY <1>1, <1>4, <2>1
  <2>2. CASE ~(j < i)
    <3>1. j-(i-1) \in 1..Len(s)-i /\ i + (j-(i-1)) = j+1
      BY <2>2
    <3> QED
      BY <1>2, <1>4, <2>2, <3>1
  <2> QED
    BY <2>1, <2>2
<1> QED
  BY <1>3, <1>4, <1>5

\* Planning a call keeps the calls alternating.
LEMMA AppendPlan ==
  ASSUME NEW s \in Seq(Plans), NEW p \in Plans,
         \A i \in 1..Len(s) - 1 : s[i] # s[i+1],
         s # <<>> => s[Len(s)] # p
  PROVE  /\ Append(s, p) \in Seq(Plans) /\ Append(s, p) # <<>>
         /\ Append(s, p)[Len(Append(s, p))] = p
         /\ Append(s, p)[1] = IF s = <<>> THEN p ELSE s[1]
         /\ \A i \in 1..Len(Append(s, p)) - 1 : Append(s, p)[i] # Append(s, p)[i+1]
<1>1. /\ Append(s, p) \in Seq(Plans) /\ Len(Append(s, p)) = Len(s) + 1 /\ Len(s) \in Nat
      /\ \A i \in 1..Len(s)+1 : Append(s, p)[i] = IF i = Len(s)+1 THEN p ELSE s[i]
      /\ (s = <<>> <=> Len(s) = 0)
  OBVIOUS
<1>2. Append(s, p) # <<>>
  BY <1>1
<1>3. /\ Append(s, p)[Len(Append(s, p))] = p
      /\ Append(s, p)[1] = IF s = <<>> THEN p ELSE s[1]
  BY <1>1
<1>4. ASSUME NEW i \in 1..Len(Append(s, p)) - 1 PROVE Append(s, p)[i] # Append(s, p)[i+1]
  BY <1>1
<1> QED
  BY <1>1, <1>2, <1>3, <1>4

\* A step that plans what the new room needs, or nothing if that does not change.
LEMMA PlanStep ==
  ASSUME SubInv, NEW p \in Plans,
         room' \subseteq Clients,
         plans' = Append(plans, p),
         p = "subscribe" <=> room = {}, p = "subscribe" <=> room' # {},
         UNCHANGED <<faults, version, published, subscribed, wire, issued>>
  PROVE  SubInv'
<1> USE DEF SubInv, PubSubTypes, SubscriptionFollowsRoom, Last
<1>1. plans # <<>> => plans[Len(plans)] # p
  BY DEF Plans
<1>2. /\ plans' \in Seq(Plans) /\ plans' # <<>>
      /\ plans'[Len(plans')] = p
      /\ plans'[1] = IF plans = <<>> THEN p ELSE plans[1]
      /\ \A i \in 1..Len(plans') - 1 : plans'[i] # plans'[i+1]
  BY <1>1, AppendPlan
<1>3. PubSubTypes'
  BY <1>2
<1>4. OneReply'
  BY <1>2 DEF OneReply
<1>5. Toggled'
  BY <1>2 DEF Toggled, OneReply, Plans
<1>6. SubscriptionFollowsRoom'
  BY <1>2 DEF Plans
<1> QED
  BY <1>3, <1>4, <1>5, <1>6

LEMMA LeaveStep ==
  ASSUME SubInv, NEW c \in Clients, LeaveRoom(c),
         UNCHANGED <<faults, version, published, subscribed, wire, issued>>
  PROVE  SubInv'
<1>1. CASE room = {c}
  <2>1. room' = {} /\ plans' = Append(plans, "unsubscribe")
    BY <1>1 DEF LeaveRoom, Plan
  <2> QED
    BY <1>1, <2>1, PlanStep DEF Plans
<1>2. CASE room # {c}
  <2>1. UNCHANGED plans /\ (room' = {} <=> room = {}) /\ room' \subseteq Clients
    BY <1>2 DEF LeaveRoom, SubInv, PubSubTypes
  <2> QED
    BY <2>1 DEF SubInv, PubSubTypes, OneReply, Toggled, SubscriptionFollowsRoom
<1> QED
  BY <1>1, <1>2

LEMMA EnterStep ==
  ASSUME SubInv, NEW c \in Clients, NEW n, EnterRoom(c, n),
         UNCHANGED <<faults, version, published, subscribed, wire, issued>>
  PROVE  SubInv'
<1>1. CASE room = {}
  <2>1. room' = {c} /\ plans' = Append(plans, "subscribe")
    BY <1>1 DEF EnterRoom, Plan
  <2> QED
    BY <1>1, <2>1, PlanStep DEF Plans
<1>2. CASE room # {}
  <2>1. UNCHANGED plans /\ room' # {} /\ room' \subseteq Clients
    BY <1>2 DEF EnterRoom, SubInv, PubSubTypes
  <2> QED
    BY <1>2, <2>1 DEF SubInv, PubSubTypes, OneReply, Toggled, SubscriptionFollowsRoom
<1> QED
  BY <1>1, <1>2

\* A message added to the connection that is an op, or the reply to the call.
LEMMA WireStep ==
  ASSUME PubSubTypes, OneReply, NEW m \in Messages,
         wire' = Append(wire, m),
         m.kind # "op" => ~issued /\ issued',
         issued => issued'
  PROVE  /\ wire' \in Seq(Messages)
         /\ \A i \in DOMAIN wire' : wire'[i].kind # "op" => issued'
         /\ \A i, j \in DOMAIN wire' : wire'[i].kind # "op" /\ wire'[j].kind # "op" => i = j
<1> USE DEF PubSubTypes, OneReply
<1>1. /\ wire' \in Seq(Messages) /\ DOMAIN wire' = 1..Len(wire)+1 /\ DOMAIN wire = 1..Len(wire)
      /\ Len(wire) \in Nat
      /\ \A i \in 1..Len(wire)+1 : wire'[i] = IF i = Len(wire)+1 THEN m ELSE wire[i]
  OBVIOUS
<1> QED
  BY <1>1

\* An op that leaves the connection leaves the replies as they are.
LEMMA UnwireStep ==
  ASSUME SubInv, NEW i \in DOMAIN wire, wire[i].kind = "op",
         wire' = RemoveAt(wire, i),
         UNCHANGED <<faults, version, published, subscribed, plans, issued, room>>
  PROVE  SubInv'
<1> USE DEF SubInv, PubSubTypes
<1>1. i \in 1..Len(wire)
  OBVIOUS
<1>2. /\ wire' \in Seq(Messages) /\ Len(wire') = Len(wire) - 1
      /\ \A j \in 1..Len(wire)-1 : wire'[j] = IF j < i THEN wire[j] ELSE wire[j+1]
  BY <1>1, RemoveAtType
<1>3. /\ DOMAIN wire' = 1..Len(wire)-1 /\ DOMAIN wire = 1..Len(wire) /\ Len(wire) \in Nat
  BY <1>2
<1>4. ASSUME NEW j \in DOMAIN wire'
      PROVE  IF j < i THEN j \in DOMAIN wire /\ wire'[j] = wire[j]
             ELSE j+1 \in DOMAIN wire /\ wire'[j] = wire[j+1]
  BY <1>1, <1>2, <1>3
<1>5. \A j \in DOMAIN wire' : wire'[j].kind # "op" => issued'
  BY <1>4 DEF OneReply
<1>6. ASSUME NEW j \in DOMAIN wire', NEW k \in DOMAIN wire', wire'[j].kind # "op", wire'[k].kind # "op"
      PROVE  j = k
  <2> DEFINE at(x) == IF x < i THEN x ELSE x+1
  <2>1. /\ at(j) \in DOMAIN wire /\ wire[at(j)].kind # "op"
        /\ at(k) \in DOMAIN wire /\ wire[at(k)].kind # "op"
    BY <1>4, <1>6
  <2>2. at(j) = at(k)
    BY <2>1 DEF OneReply
  <2> QED
    BY <1>1, <1>3, <2>2
<1>7. OneReply'
  BY <1>5, <1>6 DEF OneReply
<1> QED
  BY <1>2, <1>7 DEF Toggled, SubscriptionFollowsRoom

LEMMA InitSub == Init => SubInv
<1> SUFFICES ASSUME Init PROVE SubInv
  OBVIOUS
<1>1. FirstVersion \in Nat
  BY BoundsAssumption
<1>2. PubSubTypes
  BY <1>1, EmptySeq DEF Init, PubSubTypes
<1>3. DOMAIN wire = {} /\ Len(plans) = 0
  BY DEF Init
<1> QED
  BY <1>2, <1>3 DEF Init, SubInv, OneReply, Toggled, SubscriptionFollowsRoom

LEMMA SubStep == SubInv /\ [Next]_vars => SubInv'
<1> SUFFICES ASSUME SubInv, [Next]_vars PROVE SubInv'
  OBVIOUS
<1> USE DEF SubInv, PubSubTypes
<1>1. CASE CarryOut
  <2>1. plans[1] \in Plans /\ plans # <<>> /\ ~issued /\ Head(plans) = plans[1]
    BY <1>1 DEF CarryOut
  <2>2. Reply(Head(plans)) \in Messages /\ Reply(Head(plans)).kind # "op"
    BY <2>1 DEF Reply, Messages, Plans
  <2>3. OneReply' /\ wire' \in Seq(Messages)
    BY <1>1, <2>1, <2>2, WireStep DEF CarryOut, OneReply
  <2> QED
    BY <1>1, <2>1, <2>3 DEF CarryOut, feed, Toggled, SubscriptionFollowsRoom, Plans
<1>2. CASE SubscribeFails
  <2>1. Reply("failed") \in Messages /\ Reply("failed").kind # "op"
    BY DEF Reply, Messages
  <2>2. OneReply' /\ wire' \in Seq(Messages)
    BY <1>2, <2>1, WireStep DEF SubscribeFails, OneReply
  <2> QED
    BY <1>2, <2>2 DEF SubscribeFails, feed, Toggled, SubscriptionFollowsRoom, Plans
<1>3. CASE ReceiveReply
  <2>1. /\ wire # <<>> /\ wire[1].kind # "op" /\ wire' = Tail(wire) /\ Len(wire) \in Nat
        /\ issued /\ issued' = FALSE /\ plans # <<>> /\ plans' = Tail(plans)
    BY <1>3 DEF ReceiveReply, OneReply
  <2>2. /\ wire' \in Seq(Messages) /\ DOMAIN wire' = 1..Len(wire)-1
        /\ \A i \in 1..Len(wire)-1 : wire'[i] = wire[i+1]
    BY <2>1
  <2>3. OneReply'
    BY <2>1, <2>2 DEF OneReply
  <2>4. /\ plans' \in Seq(Plans) /\ Len(plans') = Len(plans) - 1 /\ Len(plans) \in Nat
        /\ \A i \in 1..Len(plans)-1 : plans'[i] = plans[i+1]
    BY <2>1
  <2>5. UNCHANGED <<faults, version, published, subscribed, room>>
    BY <1>3 DEF ReceiveReply, feed
  <2>6. CASE Len(plans) = 1
    <3>1. plans' = <<>> /\ Last(plans) = plans[1] /\ plans[1] \in Plans
      BY <2>1, <2>4, <2>6 DEF Last
    <3>2. Len(plans') = 0
      BY <3>1
    <3>3. SubscriptionFollowsRoom'
      BY <2>1, <2>5, <3>1, <3>2 DEF Toggled, SubscriptionFollowsRoom, Plans
    <3> QED
      BY <2>2, <2>3, <2>4, <2>5, <2>1, <3>1, <3>3 DEF Toggled
  <2>7. CASE Len(plans) # 1
    <3>1. /\ plans' # <<>> /\ Last(plans') = Last(plans) /\ plans'[1] = plans[2]
          /\ plans[1] \in Plans /\ plans[2] \in Plans /\ plans[1] # plans[2]
      <4>1. Len(plans) >= 2 /\ plans' # <<>> /\ plans'[1] = plans[2] /\ plans[1] # plans[2]
        <5>1. Len(plans) >= 2
          BY <2>1, <2>4, <2>7
        <5>2. 1 \in 1..Len(plans)-1
          BY <2>4, <5>1
        <5> QED
          BY <2>4, <5>1, <5>2 DEF SubscriptionFollowsRoom
      <4>2. plans'[Len(plans')] = plans[Len(plans)]
        BY <2>4, <4>1
      <4> QED
        BY <4>1, <4>2 DEF Last
    <3>2. \A i \in 1..Len(plans')-1 : plans'[i] # plans'[i+1]
      BY <2>4 DEF SubscriptionFollowsRoom
    <3>3. Toggled'
      BY <2>1, <2>5, <3>1 DEF Toggled, Plans
    <3>4. SubscriptionFollowsRoom'
      BY <2>1, <2>5, <3>1, <3>2 DEF SubscriptionFollowsRoom
    <3> QED
      BY <2>1, <2>2, <2>3, <2>4, <2>5, <3>3, <3>4
  <2> QED
    BY <2>6, <2>7
<1>4. ASSUME NEW i \in DOMAIN wire, ReceiveOp(i) \/ LoseOp(i) PROVE SubInv'
  BY <1>4, UnwireStep DEF ReceiveOp, LoseOp, feed
<1>5. CASE Apply
  BY <1>5 DEF Apply, pubsub, OneReply, Toggled, SubscriptionFollowsRoom
<1>6. CASE Publish
  <2>1. CASE subscribed
    <3>1. Op(published) \in Messages /\ Op(published).kind = "op"
      BY DEF Op, Messages
    <3>2. OneReply' /\ wire' \in Seq(Messages)
      BY <1>6, <2>1, <3>1, WireStep DEF Publish, OneReply
    <3> QED
      BY <1>6, <3>2 DEF Publish, Toggled, SubscriptionFollowsRoom
  <2>2. CASE ~subscribed
    BY <1>6, <2>2 DEF Publish, OneReply, Toggled, SubscriptionFollowsRoom
  <2> QED
    BY <2>1, <2>2
<1>7. ASSUME NEW c \in Clients, NEW n \in Calls, Authorise(c, n) PROVE SubInv'
  <2>1. CASE epoch[c] # n
    BY <1>7, <2>1 DEF Authorise, feed, OneReply, Toggled, SubscriptionFollowsRoom
  <2>2. CASE epoch[c] = n
    BY <1>7, <2>2, EnterStep DEF Authorise, feed
  <2> QED
    BY <2>1, <2>2
<1>8. ASSUME NEW c \in Clients, Leave(c) \/ Disconnect(c) PROVE SubInv'
  BY <1>8, LeaveStep DEF Leave, Disconnect, feed
<1>9. ASSUME UNCHANGED <<feed, pubsub, room>> PROVE SubInv'
  BY <1>9 DEF feed, pubsub, OneReply, Toggled, SubscriptionFollowsRoom
<1>10. ASSUME NEW c \in Clients,
              \/ \E n \in Calls : Open(c, n) \/ GetDocument(c, n) \/ Answer(c, n)
              \/ Deliver(c) \/ TimerFires(c)
       PROVE  SubInv'
  BY <1>9, <1>10 DEF Open, GetDocument, Answer, Deliver, TimerFires
<1> QED
  BY <1>1, <1>2, <1>3, <1>4, <1>5, <1>6, <1>7, <1>8, <1>9, <1>10 DEF Next, vars

\* The channel is subscribed for the room: whatever joins, leaves, ends of
\* connections and answers of Redis interleave, the calls ChannelManager has
\* planned end in what the room needs.
THEOREM ChannelFollowsRoom == Spec => []SubscriptionFollowsRoom
<1>1. SubInv => SubscriptionFollowsRoom
  BY DEF SubInv
<1> QED
  BY InitSub, SubStep, <1>1, PTL DEF Spec
-----------------------------------------------------------------------------
\* A browser's document is a record; of its fields only the state matters here.
Shape(d) ==
  /\ d = [state |-> d.state, call |-> d.call, doc |-> d.doc, queue |-> d.queue, timer |-> d.timer]

\* A client whose last call was not a leave has its document open or waits for it.
EpochCurrent ==
  /\ reader = [c \in Clients |-> reader[c]] /\ \A c \in Clients : Shape(reader[c])
  /\ epoch \in [Clients -> {0} \cup Calls]
  /\ \A c \in Clients : epoch[c] # 0 => reader[c].state # "closed"

RoomInv == SubInv /\ EpochCurrent /\ RoomHoldsReaders

\* Whatever an op does to an open document, it does not close it.
LEMMA InOrderOpen ==
  ASSUME NEW d, NEW v, Shape(d), d.state = "open"
  PROVE  Shape(InOrder(d, v)) /\ InOrder(d, v).state \in {"open", "broken"}
<1> DEFINE w == Reached(v + 1, d.queue)
<1> HIDE DEF w
<1>1. d = [state |-> "open", call |-> d.call, doc |-> d.doc, queue |-> d.queue, timer |-> d.timer]
  BY DEF Shape
<1>2. InOrder(d, v) =
        [state |-> InOrder(d, v).state, call |-> InOrder(d, v).call, doc |-> InOrder(d, v).doc,
         queue |-> InOrder(d, v).queue, timer |-> InOrder(d, v).timer]
  BY <1>1 DEF InOrder
<1> QED
  BY <1>1, <1>2 DEF InOrder, Shape

\* A step of one client's document that keeps it open if it is, with its epoch.
LEMMA ReaderStep ==
  ASSUME RoomInv, NEW c \in Clients, NEW d, Shape(d),
         reader' = [reader EXCEPT ![c] = d],
         reader[c].state # "closed" => d.state # "closed",
         UNCHANGED <<epoch, room>>
  PROVE  EpochCurrent' /\ RoomHoldsReaders'
<1>1. \A b \in Clients : reader'[b] = IF b = c THEN d ELSE reader[b]
  BY DEF RoomInv, EpochCurrent
<1>2. reader' = [b \in Clients |-> reader'[b]]
  BY DEF RoomInv, EpochCurrent
<1> QED
  BY <1>1, <1>2 DEF RoomInv, SubInv, PubSubTypes, EpochCurrent, RoomHoldsReaders

LEMMA InitRoom == Init => RoomInv
<1> SUFFICES ASSUME Init PROVE EpochCurrent /\ RoomHoldsReaders
  BY InitSub DEF RoomInv
<1> QED
  BY DEF Init, EpochCurrent, RoomHoldsReaders, Shape, NoDoc, Container

LEMMA RoomStep == RoomInv /\ [Next]_vars => RoomInv'
<1> SUFFICES ASSUME RoomInv, [Next]_vars PROVE EpochCurrent' /\ RoomHoldsReaders'
  BY SubStep DEF RoomInv
<1> USE DEF RoomInv, SubInv, PubSubTypes
<1>1. ASSUME UNCHANGED <<epoch, room, reader>> PROVE EpochCurrent' /\ RoomHoldsReaders'
  BY <1>1 DEF EpochCurrent, RoomHoldsReaders
<1>2. CASE CarryOut \/ SubscribeFails \/ ReceiveReply \/ Apply \/ Publish
  BY <1>1, <1>2 DEF CarryOut, SubscribeFails, ReceiveReply, Apply, Publish
<1>3. ASSUME NEW i \in DOMAIN wire, ReceiveOp(i) \/ LoseOp(i)
      PROVE  EpochCurrent' /\ RoomHoldsReaders'
  BY <1>1, <1>3 DEF ReceiveOp, LoseOp
<1>4. ASSUME NEW c \in Clients, NEW n \in Calls, Authorise(c, n)
      PROVE  EpochCurrent' /\ RoomHoldsReaders'
  <2>1. CASE epoch[c] # n
    BY <1>1, <1>4, <2>1 DEF Authorise
  <2>2. CASE epoch[c] = n
    <3>1. room' = room \cup {c} /\ UNCHANGED <<epoch, reader>>
      BY <1>4, <2>2 DEF Authorise, EnterRoom
    <3>2. n # 0
      BY BoundsAssumption DEF Calls
    <3> QED
      BY <2>2, <3>1, <3>2 DEF EpochCurrent, RoomHoldsReaders
  <2> QED
    BY <2>1, <2>2
<1>5. ASSUME NEW c \in Clients, NEW n \in Calls, GetDocument(c, n) \/ Answer(c, n)
      PROVE  EpochCurrent' /\ RoomHoldsReaders'
  BY <1>1, <1>5 DEF GetDocument, Answer
<1>6. ASSUME NEW c \in Clients, NEW n \in Calls, Open(c, n)
      PROVE  EpochCurrent' /\ RoomHoldsReaders'
  <2> DEFINE d == Container("joining", n)
  <2>1. Shape(d) /\ d.state = "joining"
    BY DEF Shape, Container
  <2>2. reader' = [reader EXCEPT ![c] = d] /\ epoch' = [epoch EXCEPT ![c] = n] /\ UNCHANGED room
    BY <1>6 DEF Open
  <2> HIDE DEF d
  <2>3. /\ \A b \in Clients : reader'[b] = IF b = c THEN d ELSE reader[b]
        /\ reader' = [b \in Clients |-> reader'[b]]
        /\ epoch' \in [Clients -> {0} \cup Calls]
        /\ \A b \in Clients : b # c => epoch'[b] = epoch[b]
    BY <2>2 DEF EpochCurrent
  <2> QED
    BY <2>1, <2>2, <2>3 DEF EpochCurrent, RoomHoldsReaders
<1>7. ASSUME NEW c \in Clients, Leave(c) \/ Disconnect(c)
      PROVE  EpochCurrent' /\ RoomHoldsReaders'
  <2>1. /\ reader' = [reader EXCEPT ![c] = NoDoc] /\ epoch' = [epoch EXCEPT ![c] = 0]
        /\ room' = room \ {c}
    BY <1>7 DEF Leave, Disconnect, LeaveRoom
  <2>2. Shape(NoDoc)
    BY DEF Shape, NoDoc, Container
  <2>3. /\ \A b \in Clients : reader'[b] = IF b = c THEN NoDoc ELSE reader[b]
        /\ reader' = [b \in Clients |-> reader'[b]]
        /\ epoch' \in [Clients -> {0} \cup Calls] /\ epoch'[c] = 0
        /\ \A b \in Clients : b # c => epoch'[b] = epoch[b]
    BY <2>1 DEF EpochCurrent
  <2> QED
    BY <2>1, <2>2, <2>3 DEF EpochCurrent, RoomHoldsReaders
<1>8. ASSUME NEW c \in Clients, Deliver(c) PROVE EpochCurrent' /\ RoomHoldsReaders'
  <2> DEFINE msg == Head(downlink[c])
             d == reader[c]
             e == IF msg.kind = "op"
                  THEN IF d.state = "open" THEN InOrder(d, msg.v) ELSE d
                  ELSE IF d.state = "joining" /\ d.call = msg.call
                       THEN [d EXCEPT !.state = "open", !.doc = msg.v]
                       ELSE d
  <2>1. Shape(d)
    BY DEF EpochCurrent
  <2>2. Shape(e) /\ (d.state # "closed" => e.state # "closed")
    <3>1. CASE e = d
      BY <2>1, <3>1
    <3>2. CASE d.state = "open" /\ e = InOrder(d, msg.v)
      BY <2>1, <3>2, InOrderOpen
    <3>3. CASE e = [d EXCEPT !.state = "open", !.doc = msg.v]
      <4>1. e = [state |-> "open", call |-> d.call, doc |-> msg.v,
                 queue |-> d.queue, timer |-> d.timer]
        BY <2>1, <3>3 DEF Shape
      <4> HIDE DEF e
      <4> QED
        BY <4>1 DEF Shape
    <3> QED
      BY <3>1, <3>2, <3>3
  <2>3. reader' = [reader EXCEPT ![c] = e] /\ UNCHANGED <<epoch, room>>
    BY <1>8 DEF Deliver
  <2> HIDE DEF e
  <2> QED
    BY <2>2, <2>3, ReaderStep
<1>9. ASSUME NEW c \in Clients, TimerFires(c) PROVE EpochCurrent' /\ RoomHoldsReaders'
  <2> DEFINE d == reader[c]
             e == IF d.timer > d.doc THEN [d EXCEPT !.state = "broken"] ELSE [d EXCEPT !.timer = Spent]
  <2>1. Shape(d) /\ d.state = "open"
    BY <1>9 DEF EpochCurrent, TimerFires
  <2>2. \/ e = [d EXCEPT !.state = "broken"]
        \/ e = [d EXCEPT !.timer = Spent]
    OBVIOUS
  <2>3. \/ e = [state |-> "broken", call |-> d.call, doc |-> d.doc, queue |-> d.queue, timer |-> d.timer]
        \/ e = [state |-> "open", call |-> d.call, doc |-> d.doc, queue |-> d.queue, timer |-> Spent]
    BY <2>1, <2>2 DEF Shape
  <2>4. reader' = [reader EXCEPT ![c] = e] /\ UNCHANGED <<epoch, room>>
    BY <1>9 DEF TimerFires
  <2> HIDE DEF e
  <2>5. Shape(e) /\ e.state # "closed"
    BY <2>3 DEF Shape
  <2> QED
    BY <2>4, <2>5, ReaderStep
<1> QED
  BY <1>1, <1>2, <1>3, <1>4, <1>5, <1>6, <1>7, <1>8, <1>9 DEF Next, vars

\* Only somebody who has the document open, or waits for it, is in its room: a
\* joinDoc overtaken by a leaveDoc or by the end of the connection enters nobody.
THEOREM RoomHasReaders == Spec => []RoomHoldsReaders
<1>1. RoomInv => RoomHoldsReaders
  BY DEF RoomInv
<1> QED
  BY InitRoom, RoomStep, <1>1, PTL DEF Spec
-----------------------------------------------------------------------------
\* What a socket is sent: ops, and documents.
Delivered == [kind : Plans \cup {"failed", "op", "doc"}, v : Nat, call : Nat]

\* The ops among messages, and that they come in the order of their versions.
Ops(s) == {s[i].v : i \in {j \in DOMAIN s : s[j].kind = "op"}}
Increasing(s) ==
  \A i, j \in DOMAIN s : i < j /\ s[i].kind = "op" /\ s[j].kind = "op" => s[i].v < s[j].v
Below(V, W) == \A v \in V, w \in W : v < w

Stages == {"none", "auth", "subscribe", "get", "answer"}

FeedTypes ==
  /\ published <= MaxVersion
  /\ handler \in [Clients -> [Calls -> [at : Stages, v : Nat]]]
  /\ downlink \in [Clients -> Seq(Delivered)]

\* Nothing overtakes an op on its way to a browser.
OpsInOrder ==
  /\ Increasing(wire) /\ Below(Ops(wire), {published})
  /\ \A c \in Clients :
       /\ Increasing(downlink[c])
       /\ Below(Ops(downlink[c]), Ops(wire) \cup {published})

\* A timer runs for an op that is ahead, and those to come are later ones: the
\* op it waits for never comes, and when it fires the document is given up.
Ahead(d, later) ==
  /\ d.queue # {} /\ d.timer \in Nat /\ d.doc < d.timer
  /\ Below({d.timer}, later)

Patient(d, later) ==
  d.state \in {"joining", "open"} =>
     /\ d.doc \in Nat
     /\ \/ d.queue = {} /\ d.timer = None
        \/ d.state = "open" /\ Ahead(d, later)

ToCome(c) == Ops(downlink[c]) \cup Ops(wire) \cup {published}

TimedInv ==
  /\ FeedTypes
  /\ OpsInOrder
  /\ \A c \in Clients : Patient(reader[c], ToCome(c))

QueueInv == RoomInv /\ ("delay" \notin faults => TimedInv)

LEMMA OpsNat == ASSUME NEW s \in Seq(Delivered) PROVE Ops(s) \subseteq Nat
<1>1. \A i \in DOMAIN s : s[i] \in Delivered
  OBVIOUS
<1> QED
  BY <1>1 DEF Ops, Delivered

\* A message more: its op is the last one.
LEMMA OpsAppend ==
  ASSUME NEW s \in Seq(Delivered), NEW m \in Delivered
  PROVE  /\ Append(s, m) \in Seq(Delivered)
         /\ Ops(Append(s, m)) = Ops(s) \cup (IF m.kind = "op" THEN {m.v} ELSE {})
         /\ Increasing(s) /\ (m.kind = "op" => Below(Ops(s), {m.v})) => Increasing(Append(s, m))
<1> DEFINE t == Append(s, m)
<1>1. /\ t \in Seq(Delivered) /\ DOMAIN t = 1..Len(s)+1 /\ DOMAIN s = 1..Len(s) /\ Len(s) \in Nat
      /\ t[Len(s)+1] = m
      /\ \A i \in 1..Len(s) : t[i] = s[i]
  OBVIOUS
<1> HIDE DEF t
<1>2. Ops(t) = Ops(s) \cup (IF m.kind = "op" THEN {m.v} ELSE {})
  <2>1. ASSUME NEW x \in Ops(s) PROVE x \in Ops(t)
    BY <1>1, <2>1 DEF Ops
  <2>2. m.kind = "op" => m.v \in Ops(t)
    BY <1>1 DEF Ops
  <2>3. ASSUME NEW x \in Ops(t) PROVE x \in Ops(s) \/ (m.kind = "op" /\ x = m.v)
    BY <1>1, <2>3 DEF Ops
  <2> QED
    BY <2>1, <2>2, <2>3
<1>3. ASSUME Increasing(s), m.kind = "op" => Below(Ops(s), {m.v})
      PROVE  Increasing(t)
  <2> SUFFICES ASSUME NEW i \in DOMAIN t, NEW j \in DOMAIN t, i < j,
                      t[i].kind = "op", t[j].kind = "op"
               PROVE  t[i].v < t[j].v
    BY DEF Increasing
  <2>1. i \in DOMAIN s /\ t[i] = s[i] /\ s[i].v \in Ops(s)
    BY <1>1 DEF Ops
  <2>2. CASE j \in DOMAIN s
    BY <1>1, <1>3, <2>1, <2>2 DEF Increasing
  <2>3. CASE j = Len(s)+1
    BY <1>1, <1>3, <2>1, <2>3 DEF Below
  <2> QED
    BY <1>1, <2>2, <2>3
<1> QED
  BY <1>1, <1>2, <1>3 DEF t

\* A message less.
LEMMA OpsWithout ==
  ASSUME NEW s \in Seq(Delivered), NEW t \in Seq(Delivered), NEW i \in 1..Len(s),
         Len(t) = Len(s) - 1,
         \A j \in 1..Len(s)-1 : t[j] = IF j < i THEN s[j] ELSE s[j+1]
  PROVE  /\ Ops(t) \subseteq Ops(s)
         /\ Increasing(s) => Increasing(t)
         /\ s[i].kind = "op" => s[i].v \in Ops(s)
         /\ i = 1 /\ s[1].kind = "op" /\ Increasing(s) => Below({s[1].v}, Ops(t))
<1> DEFINE at(x) == IF x < i THEN x ELSE x+1
<1>1. DOMAIN t = 1..Len(s)-1 /\ DOMAIN s = 1..Len(s) /\ Len(s) \in Nat
  OBVIOUS
<1> DEFINE J == 1..Len(s)-1
<1>2. \A j \in J : at(j) \in Nat /\ (j < i => at(j) = j) /\ (~(j < i) => at(j) = j+1)
  BY <1>1
<1> HIDE DEF at
<1>3. \A j \in J : at(j) \in DOMAIN s /\ t[j] = s[at(j)]
  <2>1. ASSUME NEW j \in J, j < i PROVE at(j) \in DOMAIN s /\ t[j] = s[at(j)]
    BY <1>1, <1>2, <2>1, SMTT(30)
  <2>2. ASSUME NEW j \in J, ~(j < i) PROVE at(j) \in DOMAIN s /\ t[j] = s[at(j)]
    BY <1>1, <1>2, <2>2, SMTT(30)
  <2> QED
    BY <2>1, <2>2
<1>4. \A j, k \in J : (j < k => at(j) < at(k)) /\ (i = 1 => 1 < at(j))
  BY <1>1, <1>2
<1>5. Ops(t) \subseteq Ops(s)
  BY <1>1, <1>3 DEF Ops
<1>6. ASSUME Increasing(s) PROVE Increasing(t)
  BY <1>1, <1>3, <1>4, <1>6 DEF Increasing
<1>7. s[i].kind = "op" => s[i].v \in Ops(s)
  BY <1>1 DEF Ops
<1>8. ASSUME i = 1, s[1].kind = "op", Increasing(s) PROVE Below({s[1].v}, Ops(t))
  <2> SUFFICES ASSUME NEW j \in DOMAIN t, t[j].kind = "op" PROVE s[1].v < t[j].v
    BY DEF Below, Ops
  <2>1. 1 \in DOMAIN s /\ at(j) \in DOMAIN s /\ 1 < at(j) /\ s[at(j)].kind = "op"
    BY <1>1, <1>3, <1>4, <1>8
  <2>2. s[1].v < s[at(j)].v
    BY <1>8, <2>1 DEF Increasing
  <2> QED
    BY <1>1, <1>3, <2>2
<1> QED
  BY <1>5, <1>6, <1>7, <1>8

LEMMA OpsTail ==
  ASSUME NEW s \in Seq(Delivered), s # <<>>
  PROVE  /\ Tail(s) \in Seq(Delivered) /\ Head(s) = s[1] /\ s[1] \in Delivered
         /\ Ops(Tail(s)) \subseteq Ops(s)
         /\ Increasing(s) => Increasing(Tail(s))
         /\ s[1].kind = "op" => s[1].v \in Ops(s)
         /\ s[1].kind = "op" /\ Increasing(s) => Below({s[1].v}, Ops(Tail(s)))
<1> DEFINE t == Tail(s)
<1>1. /\ t \in Seq(Delivered) /\ Len(t) = Len(s)-1 /\ 1 \in 1..Len(s)
      /\ \A j \in 1..Len(s)-1 : t[j] = s[j+1]
      /\ Head(s) = s[1] /\ s[1] \in Delivered
  OBVIOUS
<1> HIDE DEF t
<1>2. \A j \in 1..Len(s)-1 : t[j] = IF j < 1 THEN s[j] ELSE s[j+1]
  BY <1>1
<1>3. /\ Ops(t) \subseteq Ops(s)
      /\ Increasing(s) => Increasing(t)
      /\ s[1].kind = "op" => s[1].v \in Ops(s)
      /\ 1 = 1 /\ s[1].kind = "op" /\ Increasing(s) => Below({s[1].v}, Ops(t))
  BY <1>1, <1>2, OpsWithout
<1> QED
  BY <1>1, <1>3 DEF t

LEMMA OpsRemoveAt ==
  ASSUME NEW s \in Seq(Delivered), NEW i \in 1..Len(s)
  PROVE  /\ RemoveAt(s, i) \in Seq(Delivered)
         /\ Ops(RemoveAt(s, i)) \subseteq Ops(s)
         /\ Increasing(s) => Increasing(RemoveAt(s, i))
         /\ s[i].kind = "op" => s[i].v \in Ops(s)
         /\ i = 1 /\ s[1].kind = "op" /\ Increasing(s) => Below({s[1].v}, Ops(RemoveAt(s, i)))
<1> DEFINE t == RemoveAt(s, i)
<1>1. /\ t \in Seq(Delivered) /\ Len(t) = Len(s) - 1
      /\ \A j \in 1..Len(s)-1 : t[j] = IF j < i THEN s[j] ELSE s[j+1]
  BY RemoveAtType
<1> HIDE DEF t
<1>2. /\ Ops(t) \subseteq Ops(s)
      /\ Increasing(s) => Increasing(t)
      /\ s[i].kind = "op" => s[i].v \in Ops(s)
      /\ i = 1 /\ s[1].kind = "op" /\ Increasing(s) => Below({s[1].v}, Ops(t))
  BY <1>1, OpsWithout
<1> QED
  BY <1>1, <1>2 DEF t

\* Fewer ops, to an unchanged document.
LEMMA Fewer ==
  ASSUME RoomInv, TimedInv, UNCHANGED published,
         downlink' \in [Clients -> Seq(Delivered)],
         Increasing(wire'), Ops(wire') \subseteq Ops(wire),
         \A c \in Clients : /\ Increasing(downlink'[c])
                            /\ Ops(downlink'[c]) \subseteq Ops(downlink[c])
  PROVE  /\ OpsInOrder'
         /\ \A c \in Clients : \A d : Patient(d, ToCome(c)) => Patient(d, ToCome(c)')
<1>1. OpsInOrder'
  BY DEF TimedInv, OpsInOrder, Below
<1>2. \A c \in Clients : ToCome(c)' \subseteq ToCome(c)
  BY DEF ToCome
<1> QED
  BY <1>1, <1>2 DEF Patient, Ahead, Below

\* What none of these steps can disturb.
LEMMA SameFeed ==
  ASSUME RoomInv, TimedInv, UNCHANGED <<published, wire, downlink, reader>>,
         handler' \in [Clients -> [Calls -> [at : Stages, v : Nat]]]
  PROVE  TimedInv'
BY DEF TimedInv, FeedTypes, OpsInOrder, Patient, Ahead, ToCome

LEMMA HandlerStep ==
  ASSUME FeedTypes, NEW c \in Clients, NEW n \in Calls, NEW h \in [at : Stages, v : Nat],
         handler' = [handler EXCEPT ![c][n] = h]
  PROVE  handler' \in [Clients -> [Calls -> [at : Stages, v : Nat]]]
BY DEF FeedTypes

LEMMA StageStep ==
  ASSUME FeedTypes, NEW c \in Clients, NEW n \in Calls, NEW stage \in Stages,
         handler' = [handler EXCEPT ![c][n].at = stage]
  PROVE  handler' \in [Clients -> [Calls -> [at : Stages, v : Nat]]]
<1> DEFINE h == [handler[c][n] EXCEPT !.at = stage]
<1>1. handler[c][n] \in [at : Stages, v : Nat]
  BY DEF FeedTypes
<1>2. h \in [at : Stages, v : Nat]
  BY <1>1
<1>3. handler' = [handler EXCEPT ![c][n] = h]
  OBVIOUS
<1> HIDE DEF h
<1> QED
  BY <1>2, <1>3, HandlerStep

\* An op meets an open document: it is applied, or the queue waits for it to be
\* given up.
LEMMA InOrderPatient ==
  ASSUME NEW d, Shape(d), d.state = "open",
         NEW later, later \subseteq Nat,
         NEW v \in Nat, v < MaxVersion, Below({v}, later),
         Patient(d, {v} \cup later)
  PROVE  Patient(InOrder(d, v), later)
<1>1. d = [state |-> "open", call |-> d.call, doc |-> d.doc, queue |-> d.queue, timer |-> d.timer]
  BY DEF Shape
<1>2. d.doc \in Nat
  BY DEF Patient
<1>3. CASE v > d.doc /\ d.doc > 0
  <2>1. InOrder(d, v) = [state |-> "open", call |-> d.call, doc |-> d.doc,
           queue |-> d.queue \cup {v}, timer |-> IF d.timer = None THEN v ELSE d.timer]
    BY <1>1, <1>3 DEF InOrder
  <2> DEFINE e == InOrder(d, v)
  <2>2. /\ e.doc = d.doc /\ e.queue = d.queue \cup {v} /\ e.state = "open"
        /\ e.timer = IF d.timer = None THEN v ELSE d.timer
    BY <2>1
  <2> HIDE DEF e
  <2>3. ASSUME d.timer = None PROVE Patient(e, later)
    BY <1>2, <1>3, <2>2, <2>3, TimerAssumption DEF Patient, Ahead
  <2>4. ASSUME d.timer # None PROVE Patient(e, later)
    <3>1. Ahead(d, {v} \cup later)
      BY <2>4 DEF Patient
    <3> QED
      BY <1>2, <2>2, <2>4, <3>1 DEF Patient, Ahead, Below
  <2> QED
    BY <2>3, <2>4 DEF e
<1>4. CASE v > d.doc /\ ~(d.doc > 0)
  <2>1. InOrder(d, v) = [state |-> "broken", call |-> d.call, doc |-> d.doc,
                         queue |-> d.queue, timer |-> d.timer]
    BY <1>1, <1>4 DEF InOrder
  <2> QED
    BY <2>1 DEF Patient
<1>5. CASE v < d.doc
  <2>1. InOrder(d, v) = d
    BY <1>2, <1>5 DEF InOrder
  <2> QED
    BY <2>1 DEF Patient, Ahead, Below
<1>6. CASE v = d.doc
  <2>1. ~Ahead(d, {v} \cup later)
    BY <1>2, <1>6 DEF Ahead, Below
  <2>2. d.queue = {} /\ d.timer = None
    BY <2>1 DEF Patient
  <2> DEFINE w == Reached(v + 1, d.queue)
  <2>3. w \in Nat
    <3>1. w = CHOOSE x \in v+1..MaxVersion : x \notin {} /\ v+1..x-1 \subseteq {}
      BY <2>2 DEF Reached
    <3>2. v+1 \in v+1..MaxVersion /\ v+1 \notin {} /\ v+1..(v+1)-1 \subseteq {}
      BY BoundsAssumption
    <3>3. w \in v+1..MaxVersion
      BY <3>1, <3>2
    <3> QED
      BY <3>3, BoundsAssumption
  <2> HIDE DEF w
  <2>4. InOrder(d, v) = [d EXCEPT !.doc = w, !.queue = {u \in d.queue : u > w},
              !.timer = IF d.queue # {} /\ {u \in d.queue : u > w} = {} THEN None ELSE @]
    BY <1>2, <1>6 DEF InOrder, w
  <2>5. {u \in d.queue : u > w} = {}
    BY <2>2
  <2>6. InOrder(d, v) = [state |-> "open", call |-> d.call, doc |-> w, queue |-> {}, timer |-> None]
    BY <1>1, <2>2, <2>4, <2>5
  <2> QED
    BY <2>3, <2>6 DEF Patient
<1> QED
  BY <1>2, <1>3, <1>4, <1>5, <1>6

\* One client's document takes a step that its timer allows.
LEMMA PatientStep ==
  ASSUME RoomInv, TimedInv, NEW c \in Clients, NEW d,
         reader' = [reader EXCEPT ![c] = d],
         OpsInOrder', FeedTypes',
         \A b \in Clients : \A e : Patient(e, ToCome(b)) => Patient(e, ToCome(b)'),
         Patient(d, ToCome(c)')
  PROVE  TimedInv'
<1>1. ASSUME NEW b \in Clients PROVE Patient(reader'[b], ToCome(b)')
  <2>1. reader'[b] = IF b = c THEN d ELSE reader[b]
    BY DEF RoomInv, EpochCurrent
  <2>2. Patient(reader[b], ToCome(b))
    BY DEF TimedInv
  <2> QED
    BY <2>1, <2>2
<1> QED
  BY <1>1 DEF TimedInv

\* Only the documents' queues change.
LEMMA SameOps ==
  ASSUME RoomInv, TimedInv, UNCHANGED <<published, wire, downlink>>
  PROVE  /\ OpsInOrder'
         /\ \A c \in Clients : \A d : Patient(d, ToCome(c)) => Patient(d, ToCome(c)')
BY DEF TimedInv, OpsInOrder, ToCome

\* Messages of Redis can be sent on.
LEMMA WireDelivered == RoomInv => wire \in Seq(Delivered) /\ published \in Nat
<1> SUFFICES ASSUME RoomInv PROVE wire \in Seq(Delivered)
  BY DEF RoomInv, SubInv, PubSubTypes
<1>1. wire \in Seq(Messages) /\ Messages \subseteq Delivered
  BY DEF RoomInv, SubInv, PubSubTypes, Messages, Delivered
<1> QED
  BY <1>1

\* A message of Redis goes, and its op reaches the sockets of the room or nobody.
LEMMA Received ==
  ASSUME RoomInv, TimedInv, NEW i \in 1..Len(wire), wire[i].kind = "op",
         wire' = RemoveAt(wire, i),
         UNCHANGED <<published, reader, handler>>,
         \/ UNCHANGED downlink
         \/ /\ i = 1
            /\ downlink' = [c \in Clients |->
                 IF c \in room THEN Append(downlink[c], wire[i]) ELSE downlink[c]]
  PROVE  TimedInv'
<1> DEFINE m == wire[i]
<1>1. wire \in Seq(Delivered) /\ published \in Nat /\ m \in Delivered /\ m.v \in Nat
  <2>1. wire \in Seq(Delivered) /\ published \in Nat
    BY WireDelivered
  <2>2. m \in Delivered
    BY <2>1
  <2> QED
    BY <2>1, <2>2 DEF Delivered
<1>2. /\ wire' \in Seq(Delivered) /\ Ops(wire') \subseteq Ops(wire) /\ Increasing(wire')
      /\ m.v \in Ops(wire)
      /\ i = 1 => Below({m.v}, Ops(wire'))
  BY <1>1, OpsRemoveAt DEF TimedInv, OpsInOrder
<1>3. CASE UNCHANGED downlink
  <2>1. /\ OpsInOrder'
        /\ \A c \in Clients : \A d : Patient(d, ToCome(c)) => Patient(d, ToCome(c)')
    BY <1>2, <1>3, Fewer DEF TimedInv, FeedTypes, OpsInOrder
  <2> QED
    BY <1>3, <2>1 DEF TimedInv, FeedTypes
<1>4. CASE /\ i = 1
           /\ downlink' = [c \in Clients |->
                 IF c \in room THEN Append(downlink[c], wire[i]) ELSE downlink[c]]
  <2>1. m.v < published
    BY <1>2 DEF TimedInv, OpsInOrder, Below
  <2>2. ASSUME NEW c \in Clients
        PROVE  /\ downlink'[c] \in Seq(Delivered)
               /\ Ops(downlink'[c]) \subseteq Ops(downlink[c]) \cup {m.v}
               /\ Increasing(downlink'[c])
    <3>1. downlink[c] \in Seq(Delivered) /\ Increasing(downlink[c])
      BY DEF TimedInv, FeedTypes, OpsInOrder
    <3>2. Below(Ops(downlink[c]), {m.v})
      BY <1>2 DEF TimedInv, OpsInOrder, Below
    <3>3. CASE c \in room
      <4>1. downlink'[c] = Append(downlink[c], m)
        BY <1>4, <3>3
      <4> HIDE DEF m
      <4> QED
        BY <1>1, <3>1, <3>2, <4>1, OpsAppend
    <3>4. CASE c \notin room
      BY <1>4, <3>1, <3>4
    <3> QED
      BY <3>3, <3>4
  <2> HIDE DEF m
  <2>3. OpsInOrder'
    BY <1>2, <1>4, <2>1, <2>2 DEF TimedInv, OpsInOrder, Below
  <2>4. ASSUME NEW c \in Clients PROVE ToCome(c)' \subseteq ToCome(c)
    BY <1>2, <2>2 DEF ToCome
  <2>5. \A c \in Clients : Patient(reader[c], ToCome(c)')
    BY <2>4 DEF TimedInv, Patient, Ahead, Below
  <2>6. FeedTypes'
    BY <1>4, <2>2 DEF TimedInv, FeedTypes
  <2> QED
    BY <2>3, <2>5, <2>6 DEF TimedInv
<1> QED
  BY <1>3, <1>4

LEMMA InitQueue == Init => QueueInv
<1> SUFFICES ASSUME Init PROVE TimedInv
  BY InitRoom DEF QueueInv
<1> USE DEF Init
<1>1. FeedTypes
  <2>1. NoCall \in [at : Stages, v : Nat]
    BY DEF NoCall, Stages
  <2> QED
    BY <2>1, BoundsAssumption DEF FeedTypes
<1>2. Ops(wire) = {} /\ \A c \in Clients : Ops(downlink[c]) = {}
  BY DEF Ops
<1>3. OpsInOrder
  BY <1>2 DEF OpsInOrder, Increasing, Below
<1>4. \A c \in Clients : Patient(reader[c], ToCome(c))
  BY DEF Patient, NoDoc, Container
<1> QED
  BY <1>1, <1>3, <1>4 DEF TimedInv

LEMMA QueueStep == QueueInv /\ [Next]_vars => QueueInv'
<1> SUFFICES ASSUME QueueInv, [Next]_vars, "delay" \notin faults' PROVE TimedInv'
  BY RoomStep, SMTT(30) DEF QueueInv
<1>1. UNCHANGED faults
  BY DEF Next, vars, feed, CarryOut, SubscribeFails, ReceiveReply, ReceiveOp, LoseOp, Publish,
         Apply, Open, Authorise, GetDocument, Answer, Leave, Disconnect, Deliver, TimerFires
<1>2. RoomInv /\ TimedInv
  BY <1>1 DEF QueueInv
<1>3. wire \in Seq(Delivered) /\ published \in Nat
  BY <1>2, WireDelivered
<1>4. NoCall \in [at : Stages, v : Nat]
  BY DEF NoCall, Stages
<1>5. ASSUME UNCHANGED <<published, reader, handler, downlink>>,
             NEW m \in Delivered, m.kind # "op", wire' = Append(wire, m)
      PROVE  TimedInv'
  <2>1. Ops(wire') \subseteq Ops(wire) /\ Increasing(wire')
    BY <1>2, <1>3, <1>5, OpsAppend DEF TimedInv, OpsInOrder
  <2> QED
    BY <1>2, <1>5, <2>1, Fewer DEF TimedInv, FeedTypes, OpsInOrder
<1>6. CASE CarryOut
  <2>1. Reply(Head(plans)) \in Delivered /\ Reply(Head(plans)).kind # "op"
    BY <1>2, <1>6 DEF CarryOut, RoomInv, SubInv, PubSubTypes, Reply, Delivered, Plans
  <2> QED
    BY <1>5, <1>6, <2>1 DEF CarryOut, feed
<1>7. CASE SubscribeFails
  <2>1. Reply("failed") \in Delivered /\ Reply("failed").kind # "op"
    BY DEF Reply, Delivered
  <2> QED
    BY <1>5, <1>7, <2>1 DEF SubscribeFails, feed
<1>8. CASE ReceiveReply
  <2>1. /\ wire # <<>> /\ wire' = Tail(wire) /\ UNCHANGED <<published, reader, downlink>>
        /\ handler' = Answered(Head(wire).kind)
    BY <1>8 DEF ReceiveReply, feed
  <2>2. Ops(wire') \subseteq Ops(wire) /\ Increasing(wire')
    BY <1>2, <1>3, <2>1, OpsTail DEF TimedInv, OpsInOrder
  <2>3. handler' \in [Clients -> [Calls -> [at : Stages, v : Nat]]]
    BY <1>2, <2>1 DEF Answered, NoCall, Stages, TimedInv, FeedTypes
  <2> QED
    BY <1>2, <2>1, <2>2, <2>3, Fewer DEF TimedInv, FeedTypes, OpsInOrder
<1>9. ASSUME NEW i \in DOMAIN wire, ReceiveOp(i) \/ LoseOp(i) PROVE TimedInv'
  <2>1. i \in 1..Len(wire) /\ "delay" \notin faults
    BY <1>1, <1>3
  <2> QED
    BY <1>2, <1>9, <2>1, Received DEF ReceiveOp, LoseOp, feed
<1>10. CASE Publish
  <2>1. /\ published' = published + 1 /\ published < MaxVersion
        /\ UNCHANGED <<reader, handler, downlink>>
        /\ wire' = IF subscribed THEN Append(wire, Op(published)) ELSE wire
    BY <1>10 DEF Publish
  <2>2. Op(published) \in Delivered /\ Op(published).v = published
    BY <1>3 DEF Op, Delivered
  <2>3. Increasing(wire') /\ Ops(wire') \subseteq Ops(wire) \cup {published}
    BY <1>2, <1>3, <2>1, <2>2, OpsAppend DEF TimedInv, OpsInOrder
  <2>4. FeedTypes'
    <3>1. published' <= MaxVersion
      BY <1>3, <2>1, BoundsAssumption
    <3> QED
      BY <1>2, <2>1, <3>1 DEF TimedInv, FeedTypes
  <2>5. /\ Ops(wire) \subseteq Nat /\ \A c \in Clients : Ops(downlink[c]) \subseteq Nat
    BY <1>2, <1>3, OpsNat DEF TimedInv, FeedTypes
  <2>6. OpsInOrder'
    <3>1. Below(Ops(wire'), {published'})
      BY <1>2, <1>3, <2>1, <2>3, <2>5 DEF TimedInv, OpsInOrder, Below
    <3>2. ASSUME NEW c \in Clients
          PROVE  Increasing(downlink[c]) /\ Below(Ops(downlink[c]), Ops(wire') \cup {published'})
      <4>1. Increasing(downlink[c]) /\ Below(Ops(downlink[c]), Ops(wire) \cup {published})
        BY <1>2 DEF TimedInv, OpsInOrder
      <4>2. Ops(downlink[c]) \subseteq Nat
        BY <2>5
      <4>3. ASSUME NEW v \in Ops(downlink[c]), NEW w \in Ops(wire') \cup {published'}
            PROVE  v < w
        <5>1. v < published /\ v \in Nat
          BY <4>1, <4>2 DEF Below
        <5>2. w \in Ops(wire) \cup {published} \/ w = published + 1
          BY <2>1, <2>3
        <5>3. w \in Ops(wire) \cup {published} => v < w
          BY <4>1 DEF Below
        <5> QED
          BY <1>3, <5>1, <5>2, <5>3
      <4> QED
        BY <4>1, <4>3 DEF Below
    <3> QED
      BY <2>1, <2>3, <3>1, <3>2 DEF OpsInOrder
  <2>7. ASSUME NEW c \in Clients PROVE Patient(reader'[c], ToCome(c)')
    <3>1. Patient(reader[c], ToCome(c))
      BY <1>2 DEF TimedInv
    <3>2. ASSUME Ahead(reader[c], ToCome(c)) PROVE Ahead(reader[c], ToCome(c)')
      <4>1. reader[c].timer \in Nat /\ \A v \in ToCome(c) : reader[c].timer < v
        BY <3>2 DEF Ahead, Below
      <4>2. published \in ToCome(c) /\ ToCome(c)' \subseteq ToCome(c) \cup {published + 1}
        BY <2>1, <2>3 DEF ToCome
      <4>3. reader[c].timer < published + 1
        BY <1>3, <4>1, <4>2
      <4> QED
        BY <3>2, <4>1, <4>2, <4>3 DEF Ahead, Below
    <3> QED
      BY <2>1, <3>1, <3>2 DEF Patient
  <2> QED
    BY <2>4, <2>6, <2>7 DEF TimedInv
<1>11. CASE Apply
  BY <1>2, <1>11, SameFeed DEF Apply, pubsub, TimedInv, FeedTypes
<1>12. ASSUME NEW c \in Clients, NEW n \in Calls,
              Authorise(c, n) \/ GetDocument(c, n)
       PROVE  TimedInv'
  <2>1. UNCHANGED <<published, wire, downlink, reader>>
    BY <1>12 DEF Authorise, GetDocument, feed, pubsub
  <2>2. version \in Nat
    BY <1>2 DEF RoomInv, SubInv, PubSubTypes
  <2>3. handler' \in [Clients -> [Calls -> [at : Stages, v : Nat]]]
    <3>1. CASE GetDocument(c, n)
      <4>1. [at |-> "answer", v |-> version] \in [at : Stages, v : Nat]
        BY <2>2 DEF Stages
      <4> QED
        BY <1>2, <3>1, <4>1, HandlerStep DEF GetDocument, TimedInv
    <3>2. CASE handler' = [handler EXCEPT ![c][n] = NoCall]
      BY <1>2, <1>4, <3>2, HandlerStep DEF TimedInv
    <3>3. CASE EnterRoom(c, n)
      BY <1>2, <3>3, StageStep DEF EnterRoom, TimedInv, Stages
    <3> QED
      BY <1>12, <3>1, <3>2, <3>3 DEF Authorise
  <2> QED
    BY <1>2, <2>1, <2>3, SameFeed
<1>13. ASSUME NEW c \in Clients, NEW n \in Calls, Answer(c, n) PROVE TimedInv'
  <2> DEFINE m == [kind |-> "doc", v |-> handler[c][n].v, call |-> n]
  <2>1. m \in Delivered /\ m.kind # "op"
    BY <1>2, BoundsAssumption, SMTT(30) DEF TimedInv, FeedTypes, Delivered, Calls
  <2>2. /\ downlink' = [downlink EXCEPT ![c] = Append(@, m)]
        /\ handler' = [handler EXCEPT ![c][n] = NoCall]
        /\ UNCHANGED <<published, wire, reader>>
    BY <1>13 DEF Answer, feed, pubsub
  <2> HIDE DEF m
  <2>3. /\ Append(downlink[c], m) \in Seq(Delivered)
        /\ Ops(Append(downlink[c], m)) = Ops(downlink[c])
        /\ Increasing(Append(downlink[c], m))
    <3>1. downlink[c] \in Seq(Delivered) /\ Increasing(downlink[c])
      BY <1>2 DEF TimedInv, FeedTypes, OpsInOrder
    <3> QED
      BY <2>1, <3>1, OpsAppend
  <2>4. \A b \in Clients : downlink'[b] = IF b = c THEN Append(downlink[c], m) ELSE downlink[b]
    BY <1>2, <2>2 DEF TimedInv, FeedTypes
  <2>5. FeedTypes'
    BY <1>2, <1>4, <2>2, <2>3 DEF TimedInv, FeedTypes
  <2>6. \A b \in Clients : Increasing(downlink'[b]) /\ Ops(downlink'[b]) \subseteq Ops(downlink[b])
    BY <1>2, <2>3, <2>4 DEF TimedInv, OpsInOrder
  <2> QED
    BY <1>2, <2>2, <2>5, <2>6, Fewer DEF TimedInv, FeedTypes, OpsInOrder
<1>14. ASSUME NEW c \in Clients, NEW n \in Calls, Open(c, n) PROVE TimedInv'
  <2> DEFINE d == Container("joining", n)
  <2>1. /\ reader' = [reader EXCEPT ![c] = d]
        /\ handler' = [handler EXCEPT ![c][n].at = "auth"]
        /\ UNCHANGED <<published, wire, downlink>>
    BY <1>14 DEF Open, feed, pubsub
  <2>2. \A later : Patient(d, later)
    BY DEF Patient, Container
  <2> HIDE DEF d
  <2>3. FeedTypes'
    <3>1. handler' \in [Clients -> [Calls -> [at : Stages, v : Nat]]]
      BY <1>2, <2>1, StageStep DEF TimedInv, Stages
    <3> QED
      BY <1>2, <2>1, <3>1 DEF TimedInv, FeedTypes
  <2>4. /\ OpsInOrder'
        /\ \A b \in Clients : \A e : Patient(e, ToCome(b)) => Patient(e, ToCome(b)')
    BY <1>2, <2>1, SameOps
  <2> QED
    BY <1>2, <2>1, <2>2, <2>3, <2>4, PatientStep
<1>15. ASSUME NEW c \in Clients, Leave(c) \/ Disconnect(c) PROVE TimedInv'
  <2>1. /\ reader' = [reader EXCEPT ![c] = NoDoc] /\ UNCHANGED <<published, wire>>
    BY <1>15 DEF Leave, Disconnect, feed
  <2>2. Patient(NoDoc, ToCome(c)')
    BY DEF Patient, NoDoc, Container
  <2>3. FeedTypes'
    <3>1. CASE Leave(c)
      BY <1>2, <3>1 DEF Leave, feed, TimedInv, FeedTypes
    <3>2. CASE Disconnect(c)
      BY <1>2, <1>4, <3>2, EmptySeq DEF Disconnect, feed, TimedInv, FeedTypes
    <3> QED
      BY <1>15, <3>1, <3>2
  <2>4. \A b \in Clients : Increasing(downlink'[b]) /\ Ops(downlink'[b]) \subseteq Ops(downlink[b])
    <3>1. CASE UNCHANGED downlink
      BY <1>2, <3>1 DEF TimedInv, OpsInOrder
    <3>2. CASE downlink' = [downlink EXCEPT ![c] = <<>>]
      <4>1. \A b \in Clients : downlink'[b] = IF b = c THEN <<>> ELSE downlink[b]
        BY <1>2, <3>2 DEF TimedInv, FeedTypes
      <4>2. Ops(<<>>) = {} /\ Increasing(<<>>)
        BY DEF Ops, Increasing
      <4> QED
        BY <1>2, <4>1, <4>2 DEF TimedInv, OpsInOrder
    <3> QED
      BY <1>15, <3>1, <3>2 DEF Leave, Disconnect
  <2>5. /\ OpsInOrder'
        /\ \A b \in Clients : \A e : Patient(e, ToCome(b)) => Patient(e, ToCome(b)')
    BY <1>2, <2>1, <2>3, <2>4, Fewer DEF TimedInv, FeedTypes, OpsInOrder
  <2> QED
    BY <1>2, <2>1, <2>2, <2>3, <2>5, PatientStep
<1>16. ASSUME NEW c \in Clients, Deliver(c) PROVE TimedInv'
  <2> DEFINE s == downlink[c]
             msg == Head(downlink[c])
             d == reader[c]
             e == IF msg.kind = "op"
                  THEN IF d.state = "open" THEN InOrder(d, msg.v) ELSE d
                  ELSE IF d.state = "joining" /\ d.call = msg.call
                       THEN [d EXCEPT !.state = "open", !.doc = msg.v]
                       ELSE d
  <2>1. /\ reader' = [reader EXCEPT ![c] = e] /\ UNCHANGED <<published, wire, handler>>
        /\ s # <<>> /\ downlink' = [downlink EXCEPT ![c] = Tail(@)]
    BY <1>16 DEF Deliver, feed, pubsub
  <2>2. s \in Seq(Delivered) /\ Increasing(s) /\ Below(Ops(s), Ops(wire) \cup {published})
    BY <1>2 DEF TimedInv, FeedTypes, OpsInOrder
  <2>3. Shape(d) /\ Patient(d, ToCome(c))
    BY <1>2 DEF RoomInv, EpochCurrent, TimedInv
  <2> HIDE DEF s, e, d
  <2>4. /\ Tail(s) \in Seq(Delivered) /\ msg \in Delivered /\ msg.v \in Nat
        /\ Ops(Tail(s)) \subseteq Ops(s) /\ Increasing(Tail(s))
        /\ msg.kind = "op" => msg.v \in Ops(s) /\ Below({msg.v}, Ops(Tail(s)))
    <3>1. msg = s[1]
      BY <2>1, <2>2, OpsTail DEF s
    <3>2. s[1] \in Delivered
      BY <2>1, <2>2, OpsTail
    <3>3. msg.v \in Nat
      BY <3>1, <3>2 DEF Delivered
    <3> HIDE DEF msg
    <3> QED
      BY <2>1, <2>2, <3>1, <3>2, <3>3, OpsTail
  <2> HIDE DEF msg
  <2>5. \A b \in Clients : downlink'[b] = IF b = c THEN Tail(s) ELSE downlink[b]
    BY <1>2, <2>1 DEF TimedInv, FeedTypes, s
  <2>6. FeedTypes'
    BY <1>2, <2>1, <2>4, <2>5 DEF TimedInv, FeedTypes, s
  <2>7. \A b \in Clients : Increasing(downlink'[b]) /\ Ops(downlink'[b]) \subseteq Ops(downlink[b])
    BY <1>2, <2>4, <2>5 DEF TimedInv, OpsInOrder, s
  <2>8. /\ OpsInOrder'
        /\ \A b \in Clients : \A x : Patient(x, ToCome(b)) => Patient(x, ToCome(b)')
    BY <1>2, <2>1, <2>6, <2>7, Fewer DEF TimedInv, FeedTypes, OpsInOrder
  <2>9. Patient(e, ToCome(c)')
    <3>1. Patient(d, ToCome(c)')
      BY <2>3, <2>8
    <3>2. CASE e = d
      BY <3>1, <3>2
    <3>3. CASE msg.kind = "op" /\ d.state = "open" /\ e = InOrder(d, msg.v)
      <4> DEFINE later == Ops(Tail(s)) \cup Ops(wire) \cup {published}
      <4>1. ToCome(c)' = later
        <5>1. downlink'[c] = Tail(s)
          BY <2>5
        <5> QED
          BY <2>1, <5>1 DEF ToCome
      <4>2. later \subseteq Nat
        BY <1>3, <2>4, OpsNat
      <4>3. msg.v < published /\ published <= MaxVersion
        BY <1>2, <2>2, <2>4, <3>3 DEF Below, TimedInv, FeedTypes
      <4>4. Below({msg.v}, later)
        BY <2>2, <2>4, <3>3 DEF Below
      <4>5. {msg.v} \cup later \subseteq ToCome(c)
        BY <2>4, <3>3 DEF ToCome, s
      <4> HIDE DEF later
      <4>6. Patient(d, {msg.v} \cup later)
        BY <2>3, <4>5 DEF Patient, Ahead, Below
      <4>7. msg.v < MaxVersion
        BY <1>3, <2>4, <4>3, BoundsAssumption
      <4>8. Patient(InOrder(d, msg.v), later)
        BY <2>3, <2>4, <3>3, <4>2, <4>4, <4>6, <4>7, InOrderPatient
      <4> QED
        BY <3>3, <4>1, <4>8
    <3>4. CASE d.state = "joining" /\ e = [d EXCEPT !.state = "open", !.doc = msg.v]
      <4>1. d.queue = {} /\ d.timer = None
        BY <2>3, <3>4 DEF Patient
      <4>2. e = [state |-> "open", call |-> d.call, doc |-> msg.v, queue |-> {}, timer |-> None]
        BY <2>3, <3>4, <4>1 DEF Shape
      <4> QED
        BY <2>4, <4>2 DEF Patient
    <3> QED
      BY <3>2, <3>3, <3>4 DEF e
  <2> QED
    BY <1>2, <2>1, <2>6, <2>8, <2>9, PatientStep
<1>17. ASSUME NEW c \in Clients, TimerFires(c) PROVE TimedInv'
  <2> DEFINE d == reader[c]
  <2>1. Shape(d) /\ Patient(d, ToCome(c))
    BY <1>2 DEF RoomInv, EpochCurrent, TimedInv
  <2>2. d.state = "open" /\ d.timer \in Nat /\ UNCHANGED <<published, wire, downlink, handler>>
    BY <1>17 DEF TimerFires, feed, pubsub
  <2>3. d.timer > d.doc
    BY <2>1, <2>2, TimerAssumption DEF Patient, Ahead
  <2>4. reader' = [reader EXCEPT ![c] = [d EXCEPT !.state = "broken"]]
    BY <1>17, <2>3 DEF TimerFires
  <2> HIDE DEF d
  <2>5. [d EXCEPT !.state = "broken"] = [state |-> "broken", call |-> d.call, doc |-> d.doc,
                                        queue |-> d.queue, timer |-> d.timer]
    BY <2>1 DEF Shape
  <2>6. Patient([d EXCEPT !.state = "broken"], ToCome(c)')
    BY <2>5 DEF Patient
  <2>7. /\ OpsInOrder' /\ FeedTypes'
        /\ \A b \in Clients : \A e : Patient(e, ToCome(b)) => Patient(e, ToCome(b)')
    BY <1>2, <2>2, SameOps DEF TimedInv, FeedTypes
  <2> QED
    BY <1>2, <2>4, <2>6, <2>7, PatientStep
<1>18. CASE UNCHANGED vars
  BY <1>2, <1>18, SameFeed DEF vars, feed, pubsub, TimedInv, FeedTypes
<1> QED
  BY <1>6, <1>7, <1>8, <1>9, <1>10, <1>11, <1>12, <1>13, <1>14, <1>15, <1>16, <1>17, <1>18 DEF Next

\* Without delayed ops, an op never stays in the queue of an open document for
\* good: a timer runs for it, and when it fires the document is given up. For a
\* timer to be spent before, an op would have to arrive after a later one.
THEOREM OpsNotStuck == Spec => []QueueTimed
<1>1. QueueInv => QueueTimed
  BY DEF QueueInv, TimedInv, Patient, Ahead, QueueTimed
<1> QED
  BY InitQueue, QueueStep, <1>1, PTL DEF Spec
=============================================================================
