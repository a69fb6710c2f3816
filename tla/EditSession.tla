----------------------------- MODULE EditSession -----------------------------
(***************************************************************************)
(* Browsers that edit one document together. Each keeps an op in flight    *)
(* and one pending, transforms what it receives over them, sends the op in *)
(* flight again when it hears nothing, and rejoins with its version after  *)
(* the connection has gone. The server puts the ops into one order. That   *)
(* it takes an update as a whole is the subject of DocUpdater; how ops are *)
(* queued that come too early, and how a room is entered, that of DocFeed. *)
(***************************************************************************)
EXTENDS TextOT, FiniteSets

CONSTANTS Clients,
          InitialText,      \* characters, each of them once
          MaxEvents,        \* bound: characters typed and erased, and connections
                            \* that end, together
          MaxDelete,        \* bound: characters an edit deletes
          MaxDrops,         \* bound: connections that end
          MaxRetries,       \* bound: updates that are sent again
          Faults            \* "stale": an offline retry outlives its op;
                            \* "overtake": ops come between a room and its document

ASSUME SessionAssumption ==
    /\ {MaxEvents, MaxDelete, MaxDrops, MaxRetries} \subseteq Nat
    /\ InitialText \in Seq(Nat)
    /\ Faults \subseteq {"stale", "overtake"}

VARIABLES log,              \* the ops the server has applied, with their senders
          uplink,           \* updates of each client on their way to the server
          downlink,         \* messages on their way to each client
          client,           \* the browsers' documents
          drops, retries,   \* how many there were
          typed, erased,    \* characters that clients have inserted and deleted
          failed            \* an update was refused, or a client threw

bounds == <<drops, retries>>
users == <<typed, erased>>
vars == <<log, uplink, downlink, client, bounds, users, failed>>

\* A document that has just been opened, on the first connection of a client. There
\* is at most one op in flight and one pending: each is <<>>, or the op in a tuple.
Opened(c) == [text |-> InitialText, version |-> 0, inflight |-> <<>>, pending |-> <<>>,
              link |-> "ok", source |-> <<c, 1>>, submitted |-> {}, sent |-> 0,
              timers |-> {}, polls |-> {}, from |-> 0]

Init ==
    /\ log = <<>> /\ failed = FALSE
    /\ uplink = [c \in Clients |-> <<>>] /\ downlink = [c \in Clients |-> <<>>]
    /\ client = [c \in Clients |-> Opened(c)]
    /\ drops = 0 /\ retries = 0
    /\ typed = {} /\ erased = {}
-----------------------------------------------------------------------------
\* The browser's document.

\* The op in flight, the n-th one this client sends, and the update made of it.
Sent(d) == <<d.source[1], d.sent>>
UpdateOf(d) == [op |-> d.inflight[1], v |-> d.version, of |-> Sent(d)]

\* applyOtUpdate: an update as it arrives, with the publicId of the connection.
Packet(d, u, dupIfSource) ==
    [op |-> u.op, v |-> u.v, of |-> u.of, source |-> d.source, dupIfSource |-> dupIfSource]

\* flush: the pending op is in flight, with a timer to send it again.
MayFlush(d) == d.inflight = <<>> /\ d.pending # <<>>
Flushed(d) ==
    LET e == [d EXCEPT !.inflight = d.pending, !.pending = <<>>, !.sent = @ + 1]
    IN [e EXCEPT !.timers = @ \cup {UpdateOf(e)}]
FirstPacket(d) == Packet(d, UpdateOf(d), {})

\* An op of the client's own, if there is one, and an op from the server, each over
\* the other.
Over(mine, theirs) ==
    IF mine = <<>> THEN [left |-> <<>>, right |-> theirs]
    ELSE LET x == TransformX(mine[1], theirs) IN [left |-> <<x.left>>, right |-> x.right]

\* Mutant: the op in flight is forgotten when an op comes from the server.
RemoteOverPending(d, op) ==
    LET over == Over(d.pending, op)
    IN [d EXCEPT !.pending = over.left, !.version = @ + 1, !.text = Apply(@, over.right)]

\* An op from the server is transformed over what is in flight and pending, and
\* they over it.
Remote(d, op) ==
    LET first == Over(d.inflight, op)
        second == Over(d.pending, first.right)
    IN [d EXCEPT !.inflight = first.left, !.pending = second.left,
                 !.version = @ + 1, !.text = Apply(@, second.right)]

\* The op in flight is acknowledged: its timers stop, but not what polls.
Acknowledged(d, v) ==
    LET e == [d EXCEPT !.inflight = <<>>, !.submitted = {}]
    IN IF v = d.version THEN [e EXCEPT !.version = @ + 1, !.timers = {}] ELSE e

\* _onMessage, of a message that is not ahead of the version.
OnMessage(d, msg) ==
    CASE msg.kind = "ack" -> IF msg.v < d.version THEN d ELSE Acknowledged(d, msg.v)
      [] msg.kind = "op" /\ msg.source \in d.submitted -> Acknowledged(d, msg.v)
      [] msg.kind = "op" /\ msg.source \notin d.submitted ->
            IF msg.v < d.version THEN d ELSE Remote(d, msg.op)

\* catchUp: whatever their versions are, the ops are applied to the version the
\* document has.
CaughtUpWith(d, o) ==
    OnMessage(d, [kind |-> "op", v |-> d.version, op |-> o.op, source |-> o.source])
CaughtUp(d, ops) == FoldLeft(CaughtUpWith, d, ops)
-----------------------------------------------------------------------------
\* What the users and the timers do.

Events == Cardinality(typed) + Cardinality(erased) + drops

\* A client in an open document inserts a character or deletes some.
Edits(text) ==
    {Insert(<<Cardinality(typed) + Len(InitialText) + 1>>, p) : p \in 0..Len(text)}
    \cup UNION {{Delete(Slice(text, p, p + n), p) : p \in 0..Len(text) - n} : n \in 1..MaxDelete}

Texts(kind, e) == IF e.kind = kind THEN ToSet(e.s) ELSE {}

\* submitOp.
Submitted(d, op) ==
    [d EXCEPT !.text = Apply(@, op),
              !.pending = <<IF @ = <<>> THEN op ELSE Compose(@[1], op)>>]

Edit(c) ==
    /\ client[c].link = "ok" /\ Events < MaxEvents
    /\ \E e \in Edits(client[c].text) :
        /\ client' = [client EXCEPT ![c] = Submitted(@, Normalize(<<e>>))]
        /\ typed' = typed \cup Texts("i", e) /\ erased' = erased \cup Texts("d", e)
    /\ UNCHANGED <<log, uplink, downlink, bounds, failed>>

Send(c, packet) == uplink' = [uplink EXCEPT ![c] = Append(@, packet)]

Flush(c) ==
    LET d == Flushed(client[c]) IN
    /\ client[c].link = "ok" /\ MayFlush(client[c])
    /\ client' = [client EXCEPT ![c] = d]
    /\ Send(c, FirstPacket(d))
    /\ UNCHANGED <<log, downlink, bounds, users, failed>>

\* retryOp sends the update it was made for, at the version it had.
Resend(c, u) ==
    /\ Send(c, Packet(client[c], u, {client[c].source} \cup client[c].submitted))
    /\ retries' = retries + 1

\* No acknowledgement has come in 5 s: the timer of an update fires. It does
\* nothing when no op is in flight; without a connection, retryOp polls for one,
\* in timeouts of its own.
Retry(c, u) ==
    /\ u \in client[c].timers /\ client[c].inflight # <<>>
    /\ \/ /\ client[c].link = "ok" /\ retries < MaxRetries
          /\ Resend(c, u)
          /\ UNCHANGED client
       \/ /\ client[c].link # "ok"
          /\ client' = [client EXCEPT ![c].timers = @ \ {u}, ![c].polls = @ \cup {u}]
          /\ UNCHANGED <<uplink, retries>>
    /\ UNCHANGED <<log, downlink, drops, users, failed>>

\* Half a second later there is a connection: the update is sent again if an op
\* is in flight, be it this one or another.
Poll(c, u) ==
    /\ client[c].link = "ok" /\ u \in client[c].polls
    /\ IF client[c].inflight = <<>>
       THEN /\ client' = [client EXCEPT ![c].polls = @ \ {u}]
            /\ UNCHANGED <<uplink, retries>>
       ELSE /\ u.of = Sent(client[c]) \/ "stale" \in Faults
            /\ retries < MaxRetries
            /\ Resend(c, u)
            /\ client' = [client EXCEPT ![c].polls = @ \ {u}, ![c].timers = @ \cup {u}]
    /\ UNCHANGED <<log, downlink, drops, users, failed>>
-----------------------------------------------------------------------------
\* The server.

\* The document after the first v ops.
TextAt(v) == FoldLeft(LAMBDA text, o : Apply(text, o.op), InitialText, SubSeq(log, 1, v))
Document == TextAt(Len(log))

\* The ops an update is transformed over, and those of them it repeats.
Since(u) == SubSeq(log, u.v + 1, Len(log))
Repeats(u) == {i \in u.v + 1 .. Len(log) : log[i].source \in u.dupIfSource}

InRoom(c) == client[c].link \in {"ok", "room", "read"}

\* Mutant: a duplicate is acknowledged at the version the document has.
DuplicateNow(c, u) ==
    downlink' = [downlink EXCEPT ![c] =
        IF InRoom(c) /\ u.source = client[c].source
        THEN Append(@, [kind |-> "ack", v |-> Len(log), op |-> <<>>, source |-> u.source])
        ELSE @]

\* "Op already submitted": its sender is told, with the version it was applied at.
Duplicate(c, u) ==
    LET first == CHOOSE i \in Repeats(u) : \A j \in Repeats(u) : i <= j IN
    downlink' = [downlink EXCEPT ![c] =
        IF InRoom(c) /\ u.source = client[c].source
        THEN Append(@, [kind |-> "ack", v |-> first - 1, op |-> <<>>, source |-> u.source])
        ELSE @]

\* The sender gets the version, everybody else in the room the op.
Published(u, op) ==
    downlink' = [c \in Clients |->
        IF ~InRoom(c) THEN downlink[c]
        ELSE Append(downlink[c],
                    IF u.source = client[c].source
                    THEN [kind |-> "ack", v |-> Len(log), op |-> <<>>, source |-> u.source]
                    ELSE [kind |-> "op", v |-> Len(log), op |-> op, source |-> u.source])]

\* An update is transformed over what it has not seen, applied, and published.
Serve(c) ==
    LET u == Head(uplink[c])
        op == FoldLeft(LAMBDA mine, o : Transform(mine, o.op, "left"), u.op, Since(u))
    IN /\ uplink[c] # <<>>
       /\ "overtake" \in Faults \/ \A d \in Clients : client[d].link # "room"
       /\ uplink' = [uplink EXCEPT ![c] = Tail(@)]
       /\ IF u.v > Len(log) THEN failed' = TRUE /\ UNCHANGED <<log, downlink>>
          ELSE IF Repeats(u) # {} THEN Duplicate(c, u) /\ UNCHANGED <<log, failed>>
          ELSE IF Apply(Document, op) = Failed THEN failed' = TRUE /\ UNCHANGED <<log, downlink>>
          ELSE /\ log' = Append(log, [op |-> op, source |-> u.source, of |-> u.of])
               /\ Published(u, op)
               /\ UNCHANGED failed
       /\ UNCHANGED <<client, bounds, users>>
-----------------------------------------------------------------------------
\* Connections.

\* What the browser makes of a message. One that is ahead of the version waits for
\* the catching up that is under way, by which it is applied.
Received(d, msg) ==
    IF msg.kind = "catchUp" THEN [CaughtUp(d, msg.op) EXCEPT !.link = "ok"]
    ELSE IF msg.v > d.version THEN d
    ELSE OnMessage(d, msg)

\* The next message is dealt with; after catching up the pending op is sent.
Deliver(c) ==
    LET msg == Head(downlink[c]) IN
    /\ downlink[c] # <<>>
    /\ downlink' = [downlink EXCEPT ![c] = Tail(@)]
    /\ \E d \in {Received(client[c], msg)} :
        /\ IF msg.kind = "catchUp" /\ MayFlush(d)
           THEN client' = [client EXCEPT ![c] = Flushed(d)] /\ Send(c, FirstPacket(Flushed(d)))
           ELSE client' = [client EXCEPT ![c] = d] /\ UNCHANGED uplink
        /\ failed' = (failed \/ d.text = Failed
                             \/ (msg.v > client[c].version /\ client[c].link = "ok"))
    /\ UNCHANGED <<log, bounds, users>>

\* Mutant: the id of the connection an op was sent on is forgotten.
DisconnectedClean(d) == [d EXCEPT !.link = "down"]

\* _connectionStateChanged: the id an op was sent with is kept.
Disconnected(d) ==
    [d EXCEPT !.link = "down",
              !.submitted = IF d.inflight = <<>> THEN @ ELSE @ \cup {d.source}]

\* The connection ends: what was on its way down is lost, and what was on its way
\* up from some point on.
Disconnect(c) ==
    /\ client[c].link # "down" /\ drops < MaxDrops /\ Events < MaxEvents
    /\ drops' = drops + 1
    /\ client' = [client EXCEPT ![c] = Disconnected(@)]
    /\ downlink' = [downlink EXCEPT ![c] = <<>>]
    /\ \E n \in 0..Len(uplink[c]) : uplink' = [uplink EXCEPT ![c] = SubSeq(@, 1, n)]
    /\ UNCHANGED <<log, retries, users, failed>>

\* joinDoc with the client's version: it is in the room ...
Rejoin(c) ==
    /\ client[c].link = "down"
    /\ client' = [client EXCEPT ![c].link = "room", ![c].source[2] = @ + 1, ![c].from = client[c].version]
    /\ UNCHANGED <<log, uplink, downlink, bounds, users, failed>>

\* ... and is sent the ops from that version on.
ReadOps(c) ==
    /\ client[c].link = "room"
    /\ client' = [client EXCEPT ![c].link = "read"]
    /\ downlink' = [downlink EXCEPT ![c] =
           Append(@, [kind |-> "catchUp", v |-> 0, source |-> client[c].source,
                      op |-> SubSeq(log, client[c].from + 1, Len(log))])]
    /\ UNCHANGED <<log, uplink, bounds, users, failed>>

\* An error makes the browser load the document again.
Next ==
    ~failed /\ \E c \in Clients :
        \/ Edit(c) \/ Flush(c) \/ Serve(c) \/ Deliver(c)
        \/ Disconnect(c) \/ Rejoin(c) \/ ReadOps(c)
        \/ \E u \in client[c].timers : Retry(c, u)
        \/ \E u \in client[c].polls : Poll(c, u)

Spec == Init /\ [][Next]_vars
-----------------------------------------------------------------------------
\* No op is applied twice, however often it is sent and on whatever connections
\* (inflightSubmittedIds, dupIfSource).
AppliedOnce == \A i, j \in DOMAIN log : log[i].of = log[j].of => i = j

\* No update is refused, and no browser throws: what is deleted is the text that
\* is there, and versions fit ("Op at future version", "Delete component ... does not
\* match", the versions _onMessage expects).
NeverRefused == ~failed

\* What a browser shows is the document at its version, one the server has had,
\* with the op in flight and then the pending op applied: TP1 for whatever they
\* were transformed over (_onMessage, _xf, catchUp).
ViewsAgree ==
    \A c \in Clients :
        LET d == client[c]
            after(text, mine) == IF mine = <<>> THEN text ELSE Apply(text, mine[1])
        IN /\ d.version <= Len(log)
           /\ d.text = after(after(TextAt(d.version), d.inflight), d.pending)

\* The document has every character typed and not erased, once, and no other, as
\* soon as the clients' ops are acknowledged; and no two texts, of clients or the
\* server, ever have two characters in different orders (text.js).
EditsMerge ==
    LET texts == {Document} \cup {client[c].text : c \in Clients}
        common(s, t) == SelectSeq(s, LAMBDA x : x \in ToSet(t))
    IN /\ \A s, t \in texts : common(s, t) = common(t, s)
       /\ (\A c \in Clients : client[c].inflight = <<>> /\ client[c].pending = <<>>) =>
            ToSet(Document) = (ToSet(InitialText) \cup typed) \ erased
=============================================================================
