------------------------- MODULE EditSession_proofs -------------------------
(***************************************************************************)
(* Proofs about EditSession, for any clients, texts and bounds, without    *)
(* the two faults: every op is applied once, however often and on whatever *)
(* connections it was sent, and what a client stops sending has been.      *)
(*                                                                         *)
(* A client is related to the log and to no other client. So the invariant *)
(* is one of the log, and one of each client, its packets, its messages    *)
(* and the log; the lemmas take these four as values, and a step of the    *)
(* specification is one or two of theirs.                                  *)
(*                                                                         *)
(* The last sections are about the text type: two concurrent components    *)
(* converge, and append joins two of an op faithfully, whatever the text.  *)
(***************************************************************************)
EXTENDS EditSession, WellFoundedInduction, TLAPS

(***************************************************************************)
(* What the ops are is left open: what a recursive function computes       *)
(* cannot be proved. So a sequence is one of whatever its elements are.    *)
(***************************************************************************)
IsSeq(s) == \E S : s \in Seq(S)

Fields == {"text", "version", "inflight", "pending", "link", "source", "submitted",
           "sent", "timers", "polls", "from"}

Connections(c) == {c} \X Nat
Named(c, n) == {c} \X (1..n)        \* the ops this client has sent

Shape(c, d, up, ops) ==
  /\ IsSeq(ops) /\ IsSeq(up)
  /\ DOMAIN d = Fields
  /\ d.version \in 0..Len(ops) /\ d.sent \in Nat
  /\ d.link \in {"ok", "room", "read", "down"}
  /\ d.source \in Connections(c) /\ d.submitted \subseteq Connections(c)
  /\ d.inflight # <<>> => d.sent > 0

-----------------------------------------------------------------------------
(* Where the ops are *)

\* A connection that a client has used: it sends nothing before it has caught up.
Used(c, d, source) ==
  /\ source \in Connections(c)
  /\ source[2] <= d.source[2]
  /\ d.link \in {"room", "read"} => source[2] # d.source[2]

\* What came from a client's connections is an op of its own, and the reverse.
Own(c, d, ops) ==
  \A k \in 1..Len(ops) : c \in {ops[k].source[1], ops[k].of[1]} =>
    Used(c, d, ops[k].source) /\ ops[k].of \in Named(c, d.sent)

\* The first packet of an op comes before all others, and any other names the
\* connections on which the op was sent before it.
Packets(c, d, up, ops) ==
  \A i \in 1..Len(up) :
    /\ Used(c, d, up[i].source) /\ up[i].of \in Named(c, d.sent) /\ up[i].v \in 0..Len(ops)
    /\ \A k \in 1..Len(ops) : ops[k].of = up[i].of =>
          k > up[i].v /\ ops[k].source \in up[i].dupIfSource
    /\ \A j \in 1..i - 1 : up[j].of = up[i].of => up[j].source \in up[i].dupIfSource

\* What a timer sends again is the op in flight, which the log has only after the
\* version it was made for; what polls is an op of the client's.
Timers(c, d, ops) ==
  /\ \A u \in d.timers : d.inflight # <<>> /\ u.of = Sent(d)
  /\ \A u \in d.timers \cup d.polls :
       /\ u.v \in 0..Len(ops) /\ u.of \in Named(c, d.sent)
       /\ \A k \in 1..Len(ops) : ops[k].of = u.of => k > u.v

\* The connections on which the op in flight was sent are remembered.
Remembered(d, source) == source \in d.submitted \/ (d.link = "ok" /\ source = d.source)

SourcesKept(d, up, ops) ==
  d.inflight # <<>> =>
    /\ \A i \in 1..Len(up) : up[i].of = Sent(d) => Remembered(d, up[i].source)
    /\ \A k \in 1..Len(ops) : ops[k].of = Sent(d) => Remembered(d, ops[k].source)

\* An op that is no longer in flight is in the log, and the client has seen it there.
Finished(d, n) == n \in 1..d.sent /\ (n < d.sent \/ d.inflight = <<>>)

Settled(c, d, ops) ==
  /\ \A n \in Nat : Finished(d, n) => \E k \in 1..d.version : ops[k].of = <<c, n>>
  /\ \A k \in d.version + 1..Len(ops) : ops[k].source[1] = c =>
        d.inflight # <<>> /\ ops[k].of = Sent(d)

-----------------------------------------------------------------------------
(* What is on its way down *)

\* The k-th message is the first to come with its version, after the b-th.
News(down, b, version, k) ==
  down[k].v >= version /\ \A j \in b + 1..k - 1 : down[j].v < down[k].v

\* The messages after the b-th are those published since the version, each in its
\* place, to the connection, and acknowledgements of what was acknowledged before.
Follows(down, b, version, source, ops) ==
  /\ version \in 0..Len(ops)
  /\ \A k \in b + 1..Len(down) :
       /\ down[k].kind \in {"ack", "op"} /\ down[k].v \in 0..Len(ops) - 1
       /\ down[k].kind = "op" =>
            /\ News(down, b, version, k)
            /\ down[k].source = ops[down[k].v + 1].source /\ down[k].source # source
       /\ News(down, b, version, k) =>
            /\ down[k].kind = "ack" => ops[down[k].v + 1].source = source
            /\ \A w \in version..down[k].v - 1 : \E j \in b + 1..k - 1 : down[j].v = w
  /\ \A w \in version..Len(ops) - 1 : \E j \in b + 1..Len(down) : down[j].v = w

\* The ops a client catches up with, from its version on.
Missed(d, missed, ops) ==
  /\ IsSeq(missed) /\ d.version + Len(missed) <= Len(ops)
  /\ \A i \in 1..Len(missed) : missed[i] = ops[d.version + i]

Feed(d, down, ops) ==
  /\ d.link = "ok" => Follows(down, 0, d.version, d.source, ops)
  /\ d.link = "read" =>
       /\ down # <<>> /\ down[1].kind = "catchUp" /\ Missed(d, down[1].op, ops)
       /\ Follows(down, 1, d.version + Len(down[1].op), d.source, ops)
  /\ d.link = "room" => d.from = d.version
  /\ d.link \in {"room", "down"} => down = <<>>

\* A client's part of the invariant, without what is on its way down and with it.
Core(c, d, up, ops) ==
  /\ Shape(c, d, up, ops) /\ Own(c, d, ops)
  /\ Packets(c, d, up, ops) /\ Timers(c, d, ops) /\ SourcesKept(d, up, ops)
  /\ Settled(c, d, ops)

ClientInv(c, d, up, down, ops) ==
  Core(c, d, up, ops) /\ IsSeq(down) /\ Feed(d, down, ops)

\* Each op is in the log once, as an op of the client whose connection it came on.
LogInv(ops) ==
  /\ IsSeq(ops)
  /\ \A k \in 1..Len(ops) :
       /\ ops[k].source \in Clients \X Nat /\ ops[k].of \in Clients \X Nat
       /\ ops[k].of[1] = ops[k].source[1]
  /\ \A i, j \in 1..Len(ops) : ops[i].of = ops[j].of => i = j

OnceInv ==
  /\ DOMAIN client = Clients /\ DOMAIN uplink = Clients /\ DOMAIN downlink = Clients
  /\ LogInv(log)
  /\ \A c \in Clients : ClientInv(c, client[c], uplink[c], downlink[c], log)

-----------------------------------------------------------------------------
(* Sequences *)

LEMMA AppendIs ==
  ASSUME NEW s, IsSeq(s), NEW e
  PROVE  /\ IsSeq(Append(s, e)) /\ Len(s) \in Nat /\ Len(Append(s, e)) = Len(s) + 1
         /\ \A i \in 1..Len(s) : Append(s, e)[i] = s[i]
         /\ Append(s, e)[Len(s) + 1] = e
<1>1. PICK S : s \in Seq(S)
  BY DEF IsSeq
<1> DEFINE T == S \cup {e}
<1>2. s \in Seq(T) /\ e \in T
  BY <1>1
<1> HIDE DEF T
<1>3. Append(s, e) \in Seq(T)
  BY <1>2
<1> QED
  BY <1>2, <1>3 DEF IsSeq

LEMMA TailIs ==
  ASSUME NEW s, IsSeq(s), s # <<>>
  PROVE  /\ IsSeq(Tail(s)) /\ Len(s) \in Nat \ {0} /\ Len(Tail(s)) = Len(s) - 1
         /\ \A i \in 1..Len(s) - 1 : Tail(s)[i] = s[i + 1]
         /\ Head(s) = s[1]
<1>1. PICK S : s \in Seq(S)
  BY DEF IsSeq
<1>2. Tail(s) \in Seq(S)
  BY <1>1
<1> QED
  BY <1>1, <1>2 DEF IsSeq

LEMMA PartIs ==
  ASSUME NEW s, IsSeq(s), NEW m \in 0..Len(s), NEW n \in m..Len(s)
  PROVE  /\ IsSeq(SubSeq(s, m + 1, n)) /\ Len(SubSeq(s, m + 1, n)) = n - m
         /\ \A i \in 1..n - m : SubSeq(s, m + 1, n)[i] = s[m + i]
<1>1. PICK S : s \in Seq(S)
  BY DEF IsSeq
<1>2. /\ SubSeq(s, m + 1, n) \in Seq(S) /\ Len(s) \in Nat
      /\ Len(SubSeq(s, m + 1, n)) = n - m
  BY <1>1
<1>3. ASSUME NEW i \in 1..n - m PROVE SubSeq(s, m + 1, n)[i] = s[m + i]
  <2>1. i \in 1..n + 1 - (m + 1) /\ m + 1 + i - 1 = m + i
    BY <1>2
  <2>2. SubSeq(s, m + 1, n)[i] = s[m + 1 + i - 1]
    BY <1>1, <1>2, <2>1
  <2> QED
    BY <2>1, <2>2
<1> QED
  BY <1>2, <1>3 DEF IsSeq

LEMMA EmptyIs ==
  /\ IsSeq(<<>>) /\ Len(<<>>) = 0
  /\ \A s : IsSeq(s) => Len(s) \in Nat /\ (Len(s) = 0 => s = <<>>)
<1>1. <<>> \in Seq({})
  OBVIOUS
<1>2. ASSUME NEW s, IsSeq(s) PROVE Len(s) \in Nat /\ (Len(s) = 0 => s = <<>>)
  <2>1. PICK S : s \in Seq(S)
    BY <1>2 DEF IsSeq
  <2> QED
    BY <2>1
<1> QED
  BY <1>1, <1>2 DEF IsSeq

LEMMA NotEmptyIs ==
  ASSUME NEW s, Len(s) # 0
  PROVE  s # <<>>
<1> SUFFICES ASSUME s = <<>> PROVE FALSE
  OBVIOUS
<1>1. Len(s) = Len(<<>>)
  OBVIOUS
<1>2. Len(<<>>) = 0
  BY EmptyIs
<1> QED
  BY <1>1, <1>2

-----------------------------------------------------------------------------
(* The browser's functions on its document, by fields *)

\* Two documents that differ in their texts and in what the ops are.
Alike(d, e) ==
  /\ DOMAIN e = Fields
  /\ e.version = d.version /\ e.link = d.link /\ e.source = d.source
  /\ e.submitted = d.submitted /\ e.sent = d.sent /\ e.timers = d.timers
  /\ e.polls = d.polls /\ e.from = d.from
  /\ e.inflight = <<>> <=> d.inflight = <<>>

LEMMA FlushedIs ==
  ASSUME NEW d, DOMAIN d = Fields, MayFlush(d)
  PROVE  LET e == Flushed(d) IN
         /\ DOMAIN e = Fields
         /\ e.version = d.version /\ e.link = d.link /\ e.source = d.source
         /\ e.submitted = d.submitted /\ e.sent = d.sent + 1 /\ e.polls = d.polls
         /\ e.from = d.from /\ e.inflight # <<>>
         /\ \E u : /\ e.timers = d.timers \cup {u} /\ u.v = d.version
                   /\ u.of = <<d.source[1], d.sent + 1>>
                   /\ UpdateOf(e).v = u.v /\ UpdateOf(e).of = u.of
<1> DEFINE e == [d EXCEPT !.inflight = d.pending, !.pending = <<>>, !.sent = @ + 1]
           u == UpdateOf(e)
           f == [e EXCEPT !.timers = @ \cup {u}]
<1>1. /\ DOMAIN e = Fields
      /\ e.version = d.version /\ e.link = d.link /\ e.source = d.source
      /\ e.submitted = d.submitted /\ e.sent = d.sent + 1 /\ e.polls = d.polls
      /\ e.from = d.from /\ e.inflight # <<>> /\ e.timers = d.timers
  BY DEF Fields, MayFlush
<1>2. Flushed(d) = f
  BY DEF Flushed
<1>3. u.v = d.version /\ u.of = <<d.source[1], d.sent + 1>>
  BY <1>1 DEF UpdateOf, Sent
<1> HIDE DEF e, u
<1>4. /\ DOMAIN f = Fields
      /\ f.version = e.version /\ f.link = e.link /\ f.source = e.source
      /\ f.submitted = e.submitted /\ f.sent = e.sent /\ f.polls = e.polls
      /\ f.from = e.from /\ f.inflight = e.inflight /\ f.timers = e.timers \cup {u}
  BY <1>1 DEF Fields
<1>5. UpdateOf(f).v = f.version /\ UpdateOf(f).of = <<f.source[1], f.sent>>
  BY DEF UpdateOf, Sent
<1> HIDE DEF f
<1> QED
  BY <1>1, <1>2, <1>3, <1>4, <1>5

LEMMA AcknowledgedIs ==
  ASSUME NEW d, DOMAIN d = Fields
  PROVE  LET e == Acknowledged(d, d.version) IN
         /\ DOMAIN e = Fields
         /\ e.version = d.version + 1 /\ e.link = d.link /\ e.source = d.source
         /\ e.submitted = {} /\ e.sent = d.sent /\ e.polls = d.polls
         /\ e.from = d.from /\ e.inflight = <<>> /\ e.timers = {}
BY DEF Acknowledged, Fields

LEMMA RemoteIs ==
  ASSUME NEW d, DOMAIN d = Fields, NEW op
  PROVE  LET e == Remote(d, op) IN
         /\ DOMAIN e = Fields
         /\ e.version = d.version + 1 /\ e.link = d.link /\ e.source = d.source
         /\ e.submitted = d.submitted /\ e.sent = d.sent /\ e.polls = d.polls
         /\ e.from = d.from /\ e.timers = d.timers
         /\ e.inflight = <<>> <=> d.inflight = <<>>
<1> DEFINE first == Over(d.inflight, op)
           second == Over(d.pending, first.right)
<1>1. first.left = <<>> <=> d.inflight = <<>>
  BY DEF Over
<1> HIDE DEF first, second
<1>2. Remote(d, op) = [d EXCEPT !.inflight = first.left, !.pending = second.left,
                 !.version = @ + 1, !.text = Apply(@, second.right)]
  BY DEF Remote, first, second
<1> QED
  BY <1>1, <1>2 DEF Fields

LEMMA SubmittedIs ==
  ASSUME NEW d, DOMAIN d = Fields, NEW op
  PROVE  Alike(d, Submitted(d, op))
BY DEF Alike, Fields, Submitted

-----------------------------------------------------------------------------
(* What a client does by itself *)

LEMMA AlikeStep ==
  ASSUME NEW c, NEW d, NEW up, NEW down, NEW ops, ClientInv(c, d, up, down, ops),
         NEW e, Alike(d, e)
  PROVE  ClientInv(c, e, up, down, ops)
<1> USE DEF Alike, ClientInv, Core
<1>1. Shape(c, e, up, ops)
  BY DEF Shape
<1>2. Sent(e) = Sent(d)
  BY DEF Sent
<1>3. Own(c, e, ops) /\ Packets(c, e, up, ops)
  BY DEF Own, Packets, Used
<1>4. Timers(c, e, ops)
  BY <1>2 DEF Timers
<1>5. SourcesKept(e, up, ops)
  BY <1>2 DEF SourcesKept, Remembered
<1>6. Settled(c, e, ops)
  BY <1>2 DEF Settled, Finished
<1>7. Feed(e, down, ops)
  BY DEF Feed, Missed
<1> QED
  BY <1>1, <1>3, <1>4, <1>5, <1>6, <1>7

\* A packet after those that are on their way.
LEMMA SendStep ==
  ASSUME NEW c, NEW d, NEW up, NEW down, NEW ops, ClientInv(c, d, up, down, ops),
         NEW p, Used(c, d, p.source), p.of \in Named(c, d.sent), p.v \in 0..Len(ops),
         \A k \in 1..Len(ops) : ops[k].of = p.of => k > p.v /\ ops[k].source \in p.dupIfSource,
         \A j \in 1..Len(up) : up[j].of = p.of => up[j].source \in p.dupIfSource,
         d.inflight # <<>> /\ p.of = Sent(d) => Remembered(d, p.source)
  PROVE  ClientInv(c, d, Append(up, p), down, ops)
<1> DEFINE w == Append(up, p)
<1>1. /\ IsSeq(w) /\ Len(up) \in Nat /\ Len(w) = Len(up) + 1
      /\ \A i \in 1..Len(up) : w[i] = up[i]
      /\ w[Len(up) + 1] = p
  BY AppendIs DEF ClientInv, Core, Shape
<1> HIDE DEF w
<1>2. Shape(c, d, w, ops)
  BY <1>1 DEF ClientInv, Core, Shape
<1>3. Packets(c, d, w, ops)
  <2> SUFFICES ASSUME NEW i \in 1..Len(w)
               PROVE  /\ Used(c, d, w[i].source) /\ w[i].of \in Named(c, d.sent)
                      /\ w[i].v \in 0..Len(ops)
                      /\ \A k \in 1..Len(ops) : ops[k].of = w[i].of =>
                            k > w[i].v /\ ops[k].source \in w[i].dupIfSource
                      /\ \A j \in 1..i - 1 : w[j].of = w[i].of =>
                            w[j].source \in w[i].dupIfSource
    BY DEF Packets
  <2>1. CASE i \in 1..Len(up)
    <3>1. w[i] = up[i] /\ \A j \in 1..i - 1 : w[j] = up[j]
      BY <1>1, <2>1
    <3> QED
      BY <2>1, <3>1 DEF ClientInv, Core, Packets
  <2>2. CASE i = Len(up) + 1
    <3>1. w[i] = p /\ \A j \in 1..i - 1 : w[j] = up[j] /\ j \in 1..Len(up)
      BY <1>1, <2>2
    <3> QED
      BY <3>1
  <2> QED
    BY <1>1, <2>1, <2>2
<1>4. SourcesKept(d, w, ops)
  BY <1>1 DEF ClientInv, Core, SourcesKept
<1> QED
  BY <1>2, <1>3, <1>4 DEF ClientInv, Core, w

\* flush: a new op is in flight. Nothing on its way and nothing in the log is of it.
LEMMA BeginStep ==
  ASSUME NEW c, NEW d, NEW up, NEW down, NEW ops, ClientInv(c, d, up, down, ops),
         d.link = "ok", MayFlush(d)
  PROVE  ClientInv(c, Flushed(d), up, down, ops)
<1> DEFINE e == Flushed(d)
<1>1. PICK u :
        /\ e.timers = d.timers \cup {u} /\ u.v = d.version
        /\ u.of = <<d.source[1], d.sent + 1>>
        /\ DOMAIN e = Fields
        /\ e.version = d.version /\ e.link = d.link /\ e.source = d.source
        /\ e.submitted = d.submitted /\ e.sent = d.sent + 1 /\ e.polls = d.polls
        /\ e.from = d.from /\ e.inflight # <<>>
  BY FlushedIs DEF ClientInv, Core, Shape
<1>2. d.inflight = <<>> /\ d.timers = {}
  BY DEF ClientInv, Core, Timers, MayFlush
<1> HIDE DEF e
<1>3. d.source[1] = c /\ d.sent \in Nat /\ Len(ops) \in Nat /\ d.version \in 0..Len(ops)
  BY EmptyIs DEF ClientInv, Core, Shape, Connections
<1>4. Sent(e) = <<c, d.sent + 1>> /\ u.of = Sent(e)
  BY <1>1, <1>3 DEF Sent
<1>5. \A o \in Named(c, d.sent) : o # Sent(e) /\ o \in Named(c, e.sent)
  BY <1>1, <1>3, <1>4 DEF Named
<1>6. \A k \in 1..Len(ops) : ops[k].of # Sent(e)
  <2> SUFFICES ASSUME NEW k \in 1..Len(ops), ops[k].of = Sent(e) PROVE FALSE
    OBVIOUS
  <2>1. ops[k].of \in Named(c, d.sent)
    BY <1>4 DEF ClientInv, Core, Own
  <2> QED
    BY <1>5, <2>1
<1>7. \A i \in 1..Len(up) : up[i].of # Sent(e)
  BY <1>5 DEF ClientInv, Core, Packets
<1>8. Shape(c, e, up, ops)
  BY <1>1, <1>3 DEF ClientInv, Core, Shape
<1>9. Own(c, e, ops) /\ Packets(c, e, up, ops)
  BY <1>1, <1>5 DEF ClientInv, Core, Own, Packets, Used
<1>10. Timers(c, e, ops)
  <2>1. u.of \in Named(c, e.sent)
    BY <1>1, <1>3, <1>4 DEF Named
  <2>2. \A w \in e.timers \cup e.polls : w = u \/ w \in d.timers \cup d.polls
    BY <1>1
  <2>3. \A w \in e.timers : w = u
    BY <1>1, <1>2
  <2> QED
    BY <1>1, <1>3, <1>4, <1>5, <1>6, <2>1, <2>2, <2>3 DEF ClientInv, Core, Timers
<1>11. SourcesKept(e, up, ops)
  BY <1>6, <1>7 DEF SourcesKept
<1>12. Settled(c, e, ops)
  <2>1. ASSUME NEW n \in Nat, Finished(e, n) PROVE \E k \in 1..e.version : ops[k].of = <<c, n>>
    <3>1. Finished(d, n)
      BY <1>1, <1>2, <1>3, <2>1 DEF Finished
    <3> QED
      BY <1>1, <3>1 DEF ClientInv, Core, Settled
  <2>2. \A k \in e.version + 1..Len(ops) : ops[k].source[1] # c
    BY <1>1, <1>2 DEF ClientInv, Core, Settled
  <2> QED
    BY <2>1, <2>2 DEF Settled
<1>13. Feed(e, down, ops)
  BY <1>1 DEF ClientInv, Core, Feed
<1> QED
  BY <1>8, <1>9, <1>10, <1>11, <1>12, <1>13 DEF ClientInv, Core, e

LEMMA FlushStep ==
  ASSUME NEW c, NEW d, NEW up, NEW down, NEW ops, ClientInv(c, d, up, down, ops),
         d.link = "ok", MayFlush(d)
  PROVE  ClientInv(c, Flushed(d), Append(up, FirstPacket(Flushed(d))), down, ops)
<1> DEFINE e == Flushed(d)
           p == FirstPacket(e)
<1>1. ClientInv(c, e, up, down, ops)
  BY BeginStep
<1>2. PICK u :
        /\ e.timers = d.timers \cup {u}
        /\ u.of = <<d.source[1], d.sent + 1>>
        /\ UpdateOf(e).v = u.v /\ UpdateOf(e).of = u.of
        /\ e.link = d.link /\ e.source = d.source /\ e.sent = d.sent + 1
  BY FlushedIs DEF ClientInv, Core, Shape
<1>3. p.source = e.source /\ p.of = u.of /\ p.v = u.v /\ p.dupIfSource = {}
  BY <1>2 DEF FirstPacket, Packet
<1> HIDE DEF e, p
<1>4. d.source[1] = c /\ d.sent \in Nat /\ e.source \in Connections(c) /\ e.link = "ok"
  BY <1>1, <1>2 DEF ClientInv, Core, Shape, Connections
<1>5. u.of = <<c, d.sent + 1>> /\ u.of \notin Named(c, d.sent)
  BY <1>2, <1>4 DEF Named
<1>6. u.v \in 0..Len(ops) /\ u.of \in Named(c, e.sent)
  BY <1>1, <1>2 DEF ClientInv, Core, Timers
<1>7. \A k \in 1..Len(ops) : ops[k].of # u.of
  BY <1>5 DEF ClientInv, Core, Own
<1>8. \A j \in 1..Len(up) : up[j].of # u.of
  BY <1>5 DEF ClientInv, Core, Packets
<1>9. Used(c, e, p.source) /\ Remembered(e, p.source)
  BY <1>3, <1>4 DEF Used, Remembered, Connections
<1>10. ClientInv(c, e, Append(up, p), down, ops)
  BY <1>1, <1>3, <1>6, <1>7, <1>8, <1>9, SendStep
<1> QED
  BY <1>10 DEF e, p

\* retryOp, with a connection.
LEMMA ResendStep ==
  ASSUME NEW c, NEW d, NEW up, NEW down, NEW ops, ClientInv(c, d, up, down, ops),
         NEW u \in d.timers, d.link = "ok"
  PROVE  ClientInv(c, d, Append(up, Packet(d, u, {d.source} \cup d.submitted)), down, ops)
<1> DEFINE p == Packet(d, u, {d.source} \cup d.submitted)
<1>1. p.source = d.source /\ p.of = u.of /\ p.v = u.v /\ p.dupIfSource = {d.source} \cup d.submitted
  BY DEF Packet
<1> HIDE DEF p
<1>2. /\ d.inflight # <<>> /\ u.of = Sent(d) /\ u.v \in 0..Len(ops) /\ u.of \in Named(c, d.sent)
      /\ \A k \in 1..Len(ops) : ops[k].of = u.of => k > u.v
  BY DEF ClientInv, Core, Timers
<1>3. \A source : Remembered(d, source) => source \in p.dupIfSource
  BY <1>1 DEF Remembered
<1>4. /\ \A k \in 1..Len(ops) : ops[k].of = u.of => ops[k].source \in p.dupIfSource
      /\ \A j \in 1..Len(up) : up[j].of = u.of => up[j].source \in p.dupIfSource
  BY <1>2, <1>3 DEF ClientInv, Core, SourcesKept
<1>5. Used(c, d, p.source) /\ Remembered(d, p.source)
  BY <1>1 DEF ClientInv, Core, Shape, Used, Remembered, Connections
<1> QED
  BY <1>1, <1>2, <1>4, <1>5, SendStep DEF p

\* Timers that fire without a connection poll for one; what polls is dropped, or
\* is a timer again, if it is for the op in flight.
LEMMA TimersStep ==
  ASSUME NEW c, NEW d, NEW up, NEW down, NEW ops, ClientInv(c, d, up, down, ops),
         NEW timers, NEW polls, timers \cup polls \subseteq d.timers \cup d.polls,
         \A u \in timers : u \in d.timers \/ (d.inflight # <<>> /\ u.of = Sent(d))
  PROVE  ClientInv(c, [d EXCEPT !.timers = timers, !.polls = polls], up, down, ops)
<1> DEFINE e == [d EXCEPT !.timers = timers, !.polls = polls]
<1>1. /\ DOMAIN e = Fields /\ e.timers = timers /\ e.polls = polls
      /\ e.version = d.version /\ e.link = d.link /\ e.source = d.source
      /\ e.submitted = d.submitted /\ e.sent = d.sent
      /\ e.from = d.from /\ e.inflight = d.inflight
  BY DEF ClientInv, Core, Shape, Fields
<1> HIDE DEF e
<1>2. Sent(e) = Sent(d)
  BY <1>1 DEF Sent
<1>3. Shape(c, e, up, ops)
  BY <1>1 DEF ClientInv, Core, Shape
<1>4. Own(c, e, ops) /\ Packets(c, e, up, ops)
  BY <1>1 DEF ClientInv, Core, Own, Packets, Used
<1>5. Timers(c, e, ops)
  BY <1>1, <1>2 DEF ClientInv, Core, Timers
<1>6. SourcesKept(e, up, ops)
  BY <1>1, <1>2 DEF ClientInv, Core, SourcesKept, Remembered
<1>7. Settled(c, e, ops)
  BY <1>1, <1>2 DEF ClientInv, Core, Settled, Finished
<1>8. Feed(e, down, ops)
  BY <1>1 DEF ClientInv, Core, Feed, Missed
<1> QED
  BY <1>3, <1>4, <1>5, <1>6, <1>7, <1>8 DEF ClientInv, Core, e

-----------------------------------------------------------------------------
(* What a client hears *)

\* The entry at the version is the op in flight: it is acknowledged.
LEMMA AckCore ==
  ASSUME NEW c, NEW d, NEW up, NEW ops, Core(c, d, up, ops), LogInv(ops),
         d.version < Len(ops), ops[d.version + 1].source[1] = c
  PROVE  Core(c, Acknowledged(d, d.version), up, ops)
<1> DEFINE e == Acknowledged(d, d.version)
<1>1. /\ DOMAIN e = Fields
      /\ e.version = d.version + 1 /\ e.link = d.link /\ e.source = d.source
      /\ e.submitted = {} /\ e.sent = d.sent /\ e.polls = d.polls
      /\ e.from = d.from /\ e.inflight = <<>> /\ e.timers = {}
  BY AcknowledgedIs DEF Core, Shape
<1> HIDE DEF e
<1>2. Len(ops) \in Nat /\ d.version \in 0..Len(ops) /\ d.sent \in Nat /\ d.source[1] = c
  BY EmptyIs DEF Core, Shape, Connections
<1> DEFINE x == d.version + 1
<1>3. x \in 1..Len(ops) /\ x \in d.version + 1..Len(ops)
  BY <1>2
<1>4. d.inflight # <<>> /\ ops[x].of = <<c, d.sent>>
  BY <1>2, <1>3 DEF Core, Settled, Sent
<1> HIDE DEF x
<1>5. Shape(c, e, up, ops)
  BY <1>1, <1>2, <1>3 DEF Core, Shape, x
<1>6. Own(c, e, ops) /\ Packets(c, e, up, ops)
  BY <1>1 DEF Core, Own, Packets, Used
<1>7. Timers(c, e, ops) /\ SourcesKept(e, up, ops)
  BY <1>1 DEF Core, Timers, SourcesKept
<1>8. Settled(c, e, ops)
  <2>1. ASSUME NEW n \in Nat, Finished(e, n) PROVE \E k \in 1..e.version : ops[k].of = <<c, n>>
    <3>1. CASE n = d.sent
      BY <1>1, <1>2, <1>3, <1>4, <3>1 DEF x
    <3>2. CASE n # d.sent
      <4>1. Finished(d, n)
        BY <1>1, <1>2, <2>1, <3>2 DEF Finished
      <4>2. PICK k \in 1..d.version : ops[k].of = <<c, n>>
        BY <4>1 DEF Core, Settled
      <4> QED
        BY <1>1, <1>2, <4>2
    <3> QED
      BY <3>1, <3>2
  <2>2. ASSUME NEW k \in e.version + 1..Len(ops), ops[k].source[1] = c PROVE FALSE
    <3>1. k \in d.version + 1..Len(ops) /\ k \in 1..Len(ops) /\ k # x
      BY <1>1, <1>2 DEF x
    <3>2. ops[k].of = <<c, d.sent>>
      BY <1>2, <2>2, <3>1 DEF Core, Settled, Sent
    <3> QED
      BY <1>3, <1>4, <3>1, <3>2 DEF LogInv
  <2> QED
    BY <2>1, <2>2 DEF Settled
<1> QED
  BY <1>5, <1>6, <1>7, <1>8 DEF Core, e

\* The entry at the version is somebody else's.
LEMMA RemoteCore ==
  ASSUME NEW c, NEW d, NEW up, NEW ops, Core(c, d, up, ops),
         d.version < Len(ops), ops[d.version + 1].source[1] # c, NEW op
  PROVE  Core(c, Remote(d, op), up, ops)
<1> DEFINE e == Remote(d, op)
<1>1. /\ DOMAIN e = Fields
      /\ e.version = d.version + 1 /\ e.link = d.link /\ e.source = d.source
      /\ e.submitted = d.submitted /\ e.sent = d.sent /\ e.polls = d.polls
      /\ e.from = d.from /\ e.timers = d.timers
      /\ e.inflight = <<>> <=> d.inflight = <<>>
  BY RemoteIs DEF Core, Shape
<1> HIDE DEF e
<1>2. Len(ops) \in Nat /\ d.version \in 0..Len(ops)
  BY EmptyIs DEF Core, Shape
<1>3. Sent(e) = Sent(d)
  BY <1>1 DEF Sent
<1>4. Shape(c, e, up, ops)
  BY <1>1, <1>2 DEF Core, Shape
<1>5. Own(c, e, ops) /\ Packets(c, e, up, ops)
  BY <1>1 DEF Core, Own, Packets, Used
<1>6. Timers(c, e, ops)
  BY <1>1, <1>3 DEF Core, Timers
<1>7. SourcesKept(e, up, ops)
  BY <1>1, <1>3 DEF Core, SourcesKept, Remembered
<1>8. Settled(c, e, ops)
  <2>1. ASSUME NEW n \in Nat, Finished(e, n) PROVE \E k \in 1..e.version : ops[k].of = <<c, n>>
    <3>1. PICK k \in 1..d.version : ops[k].of = <<c, n>>
      BY <1>1, <2>1 DEF Core, Settled, Finished
    <3> QED
      BY <1>1, <1>2, <3>1
  <2>2. \A k \in e.version + 1..Len(ops) : k \in d.version + 1..Len(ops)
    BY <1>1, <1>2
  <2> QED
    BY <1>1, <1>3, <2>1, <2>2 DEF Core, Settled
<1> QED
  BY <1>4, <1>5, <1>6, <1>7, <1>8 DEF Core, e

\* _onMessage of an op that is in its place, and not of the client's own connection.
LEMMA OpCore ==
  ASSUME NEW c, NEW d, NEW up, NEW ops, Core(c, d, up, ops), LogInv(ops),
         d.version < Len(ops), NEW msg, msg.kind = "op", msg.v = d.version,
         msg.source = ops[d.version + 1].source,
         d.link = "ok" => msg.source # d.source
  PROVE  LET e == OnMessage(d, msg) IN
         /\ Core(c, e, up, ops)
         /\ e.version = d.version + 1 /\ e.link = d.link /\ e.source = d.source
         /\ DOMAIN e = Fields
<1>1. DOMAIN d = Fields /\ Len(ops) \in Nat /\ d.version \in 0..Len(ops)
  BY EmptyIs DEF Core, Shape
<1>2. CASE msg.source \in d.submitted
  <2>1. OnMessage(d, msg) = Acknowledged(d, d.version)
    BY <1>2 DEF OnMessage
  <2>2. msg.source[1] = c
    BY <1>2 DEF Core, Shape, Connections
  <2>3. ops[d.version + 1].source[1] = c
    BY <2>2
  <2>4. Core(c, Acknowledged(d, d.version), up, ops)
    BY <2>3, AckCore
  <2>5. LET e == Acknowledged(d, d.version) IN
        DOMAIN e = Fields /\ e.version = d.version + 1 /\ e.link = d.link /\ e.source = d.source
    BY <1>1, AcknowledgedIs
  <2> QED
    BY <2>1, <2>4, <2>5
<1>3. CASE msg.source \notin d.submitted
  <2>1. OnMessage(d, msg) = Remote(d, msg.op)
    BY <1>1, <1>3 DEF OnMessage
  <2>2. ops[d.version + 1].source[1] # c
    <3> SUFFICES ASSUME ops[d.version + 1].source[1] = c PROVE FALSE
      OBVIOUS
    <3>1. d.version + 1 \in d.version + 1..Len(ops) /\ d.version + 1 \in 1..Len(ops)
      BY <1>1
    <3>2. d.inflight # <<>> /\ ops[d.version + 1].of = Sent(d)
      BY <3>1 DEF Core, Settled
    <3>3. Remembered(d, msg.source)
      BY <3>1, <3>2 DEF Core, SourcesKept
    <3> QED
      BY <1>3, <3>3 DEF Remembered
  <2> QED
    BY <1>1, <2>1, <2>2, RemoteCore, RemoteIs
<1> QED
  BY <1>2, <1>3

\* What is on its way down, after its first message has been heard.
LEMMA FollowsNext ==
  ASSUME NEW down, IsSeq(down), down # <<>>, NEW version, NEW source, NEW ops, IsSeq(ops),
         Follows(down, 0, version, source, ops)
  PROVE  /\ down[1].v <= version /\ down[1].v \in Nat /\ down[1].kind \in {"ack", "op"}
         /\ down[1].kind = "op" => /\ down[1].v = version
                                   /\ down[1].source = ops[version + 1].source
                                   /\ down[1].source # source
         /\ down[1].v = version =>
              /\ version < Len(ops)
              /\ down[1].kind = "ack" => ops[version + 1].source = source
              /\ Follows(Tail(down), 0, version + 1, source, ops)
         /\ down[1].v < version => Follows(Tail(down), 0, version, source, ops)
<1> DEFINE t == Tail(down)
<1>1. /\ Len(down) \in Nat /\ 1 \in 0 + 1..Len(down) /\ Len(ops) \in Nat
      /\ Len(t) = Len(down) - 1
      /\ \A i \in 1..Len(t) : t[i] = down[i + 1] /\ i + 1 \in 1..Len(down)
  BY TailIs, EmptyIs
<1> HIDE DEF t
<1>2. /\ down[1].kind \in {"ack", "op"} /\ down[1].v \in 0..Len(ops) - 1 /\ version \in 0..Len(ops)
      /\ down[1].kind = "op" =>
            /\ News(down, 0, version, 1)
            /\ down[1].source = ops[down[1].v + 1].source /\ down[1].source # source
      /\ News(down, 0, version, 1) =>
            /\ down[1].kind = "ack" => ops[down[1].v + 1].source = source
            /\ \A w \in version..down[1].v - 1 : \E j \in 0 + 1..1 - 1 : down[j].v = w
  BY <1>1 DEF Follows
<1>3. News(down, 0, version, 1) <=> down[1].v >= version
  BY DEF News
<1>4. down[1].v <= version
  <2> SUFFICES ASSUME down[1].v > version PROVE FALSE
    BY <1>2
  <2>1. version \in version..down[1].v - 1
    BY <1>2
  <2>2. \E j \in 0 + 1..1 - 1 : down[j].v = version
    BY <1>2, <1>3, <2>1
  <2> QED
    BY <2>2
<1>5. \A k \in 2..Len(down) :
        /\ down[k].kind \in {"ack", "op"} /\ down[k].v \in 0..Len(ops) - 1
        /\ down[k].kind = "op" =>
            /\ News(down, 0, version, k)
            /\ down[k].source = ops[down[k].v + 1].source /\ down[k].source # source
        /\ News(down, 0, version, k) =>
            /\ down[k].kind = "ack" => ops[down[k].v + 1].source = source
            /\ \A w \in version..down[k].v - 1 : \E j \in 1..k - 1 : down[j].v = w
  BY DEF Follows
<1>6. ASSUME NEW next \in {version, version + 1},
             next = IF down[1].v = version THEN version + 1 ELSE version
      PROVE  Follows(t, 0, next, source, ops)
  <2>1. next \in 0..Len(ops) /\ next \in Nat
    BY <1>2, <1>6
  <2>2. ASSUME NEW k \in 1..Len(t)
        PROVE  News(t, 0, next, k) <=> News(down, 0, version, k + 1)
    <3>1. t[k] = down[k + 1] /\ k + 1 \in 2..Len(down) /\ down[k + 1].v \in Nat
      BY <1>1, <1>5
    <3>2. (\A j \in 0 + 1..k + 1 - 1 : down[j].v < down[k + 1].v) <=>
            /\ down[1].v < down[k + 1].v
            /\ \A j \in 0 + 1..k - 1 : t[j].v < t[k].v
      <4>1. ASSUME \A j \in 0 + 1..k + 1 - 1 : down[j].v < down[k + 1].v,
                   NEW j \in 0 + 1..k - 1
            PROVE  t[j].v < t[k].v
        <5>1. t[j] = down[j + 1] /\ j + 1 \in 0 + 1..k + 1 - 1
          BY <1>1
        <5> QED
          BY <3>1, <4>1, <5>1
      <4>2. ASSUME down[1].v < down[k + 1].v, \A j \in 0 + 1..k - 1 : t[j].v < t[k].v,
                   NEW j \in 0 + 1..k + 1 - 1, j # 1
            PROVE  down[j].v < down[k + 1].v
        <5>1. j - 1 \in 0 + 1..k - 1 /\ j - 1 \in 1..Len(t) /\ j - 1 + 1 = j
          BY <1>1, <4>2
        <5>2. t[j - 1] = down[j]
          BY <1>1, <5>1
        <5> QED
          BY <3>1, <4>2, <5>1, <5>2
      <4>3. 1 \in 0 + 1..k + 1 - 1
        OBVIOUS
      <4> QED
        BY <4>1, <4>2, <4>3
    <3>3. News(t, 0, next, k) <=>
            down[k + 1].v >= next /\ \A j \in 0 + 1..k - 1 : t[j].v < t[k].v
      BY <3>1 DEF News
    <3>4. News(down, 0, version, k + 1) <=>
            /\ down[k + 1].v >= version
            /\ \A j \in 0 + 1..k + 1 - 1 : down[j].v < down[k + 1].v
      BY DEF News
    <3>5. down[k + 1].v >= next <=> down[k + 1].v >= version /\ down[1].v < down[k + 1].v
      BY <1>2, <1>4, <1>6, <3>1
    <3> QED
      BY <3>2, <3>3, <3>4, <3>5, Zenon
  <2>3. ASSUME NEW k \in 1..Len(t), News(t, 0, next, k), NEW w \in next..t[k].v - 1
        PROVE  \E j \in 0 + 1..k - 1 : t[j].v = w
    <3>1. t[k] = down[k + 1] /\ k + 1 \in 2..Len(down) /\ down[k + 1].v \in Nat
      BY <1>1, <1>5
    <3>5. w \in version..down[k + 1].v - 1
      BY <1>2, <1>6, <2>3, <3>1
    <3>2. PICK j \in 1..k : down[j].v = w
      <4>1. News(down, 0, version, k + 1)
        BY <2>2, <2>3
      <4>2. \E j \in 1..k + 1 - 1 : down[j].v = w
        BY <1>5, <3>1, <3>5, <4>1
      <4> QED
        BY <4>2
    <3>3. j # 1
      BY <1>2, <1>4, <1>6, <2>3, <3>2
    <3>4. j - 1 \in 0 + 1..k - 1 /\ j - 1 \in 1..Len(t) /\ j - 1 + 1 = j
      BY <3>3, <1>1
    <3> QED
      BY <1>1, <3>2, <3>4
  <2>4. ASSUME NEW w \in next..Len(ops) - 1
        PROVE  \E j \in 0 + 1..Len(t) : t[j].v = w
    <3>1. PICK j \in 1..Len(down) : down[j].v = w
      BY <1>2, <1>6 DEF Follows
    <3>2. j # 1
      BY <1>2, <1>4, <1>6, <2>4, <3>1
    <3>3. j - 1 \in 0 + 1..Len(t) /\ j - 1 \in 1..Len(t) /\ j - 1 + 1 = j
      BY <3>2, <1>1
    <3>4. t[j - 1] = down[j]
      BY <1>1, <3>3
    <3> QED
      BY <3>1, <3>3, <3>4
  <2>5. \A k \in 0 + 1..Len(t) : t[k] = down[k + 1] /\ k + 1 \in 2..Len(down)
    BY <1>1
  <2> QED
    BY <1>5, <2>1, <2>2, <2>3, <2>4, <2>5, SMTT(30) DEF Follows
<1> QED
  BY <1>2, <1>3, <1>4, <1>6 DEF t

\* What comes after the ops that were missed, once these have been heard.
LEMMA FollowsShift ==
  ASSUME NEW down, IsSeq(down), down # <<>>, NEW version, NEW source, NEW ops, IsSeq(ops),
         Follows(down, 1, version, source, ops)
  PROVE  Follows(Tail(down), 0, version, source, ops)
<1> DEFINE t == Tail(down)
<1>1. /\ Len(down) \in Nat /\ Len(t) = Len(down) - 1
      /\ \A i \in 1..Len(t) : t[i] = down[i + 1] /\ i + 1 \in 1 + 1..Len(down)
      /\ \A i \in 1 + 1..Len(down) : i - 1 \in 0 + 1..Len(t) /\ i = i - 1 + 1
  BY TailIs
<1> HIDE DEF t
<1>2. ASSUME NEW k \in 0 + 1..Len(t) PROVE News(t, 0, version, k) <=> News(down, 1, version, k + 1)
  <2>1. t[k] = down[k + 1]
    BY <1>1
  <2>2. ASSUME \A j \in 1 + 1..k + 1 - 1 : down[j].v < down[k + 1].v, NEW j \in 0 + 1..k - 1
        PROVE  t[j].v < t[k].v
    <3>1. t[j] = down[j + 1] /\ j + 1 \in 1 + 1..k + 1 - 1
      BY <1>1
    <3> QED
      BY <2>1, <2>2, <3>1
  <2>3. ASSUME \A j \in 0 + 1..k - 1 : t[j].v < t[k].v, NEW j \in 1 + 1..k + 1 - 1
        PROVE  down[j].v < down[k + 1].v
    <3>1. j - 1 \in 0 + 1..k - 1 /\ j - 1 \in 1..Len(t) /\ j - 1 + 1 = j
      BY <1>1
    <3>2. t[j - 1] = down[j]
      BY <1>1, <3>1
    <3> QED
      BY <2>1, <2>3, <3>1, <3>2
  <2> QED
    BY <2>1, <2>2, <2>3 DEF News
<1>3. ASSUME NEW k \in 0 + 1..Len(t), News(t, 0, version, k), NEW w \in version..t[k].v - 1
      PROVE  \E j \in 0 + 1..k - 1 : t[j].v = w
  <2>1. t[k] = down[k + 1] /\ k + 1 \in 1 + 1..Len(down)
    BY <1>1
  <2>2. PICK j \in 1 + 1..k + 1 - 1 : down[j].v = w
    BY <1>2, <1>3, <2>1 DEF Follows
  <2>3. j - 1 \in 0 + 1..k - 1 /\ j - 1 \in 1..Len(t) /\ j - 1 + 1 = j
    BY <1>1
  <2> QED
    BY <1>1, <2>2, <2>3
<1>4. ASSUME NEW w \in version..Len(ops) - 1 PROVE \E j \in 0 + 1..Len(t) : t[j].v = w
  <2>1. PICK j \in 1 + 1..Len(down) : down[j].v = w
    BY DEF Follows
  <2>2. j - 1 \in 0 + 1..Len(t) /\ j - 1 \in 1..Len(t) /\ j - 1 + 1 = j
    BY <1>1
  <2> QED
    BY <1>1, <2>1, <2>2
<1>5. \A k \in 0 + 1..Len(t) : t[k] = down[k + 1] /\ k + 1 \in 1 + 1..Len(down)
  BY <1>1
<1> QED
  BY <1>2, <1>3, <1>4, <1>5 DEF Follows, t

\* The next message, while the connection lasts: it is never ahead of the version.
LEMMA HeardStep ==
  ASSUME NEW c, NEW d, NEW up, NEW down, NEW ops, ClientInv(c, d, up, down, ops), LogInv(ops),
         d.link = "ok", down # <<>>
  PROVE  /\ ClientInv(c, Received(d, down[1]), up, Tail(down), ops)
         /\ down[1].kind # "catchUp" /\ down[1].v <= d.version
         /\ Received(d, down[1]).link = "ok"
<1> DEFINE msg == down[1]
           e == Received(d, msg)
<1>1. /\ IsSeq(down) /\ IsSeq(ops) /\ IsSeq(Tail(down)) /\ Follows(down, 0, d.version, d.source, ops)
      /\ Core(c, d, up, ops) /\ DOMAIN d = Fields /\ d.version \in Nat /\ d.source[1] = c
  BY TailIs, EmptyIs DEF ClientInv, Core, Shape, Feed, Connections
<1>2. /\ msg.v <= d.version /\ msg.v \in Nat /\ msg.kind \in {"ack", "op"}
      /\ msg.kind = "op" => /\ msg.v = d.version
                            /\ msg.source = ops[d.version + 1].source
                            /\ msg.source # d.source
      /\ msg.v = d.version =>
           /\ d.version < Len(ops)
           /\ msg.kind = "ack" => ops[d.version + 1].source = d.source
           /\ Follows(Tail(down), 0, d.version + 1, d.source, ops)
      /\ msg.v < d.version => Follows(Tail(down), 0, d.version, d.source, ops)
  BY <1>1, FollowsNext
<1> HIDE DEF msg
<1>3. e = OnMessage(d, msg)
  BY <1>1, <1>2 DEF Received
<1> HIDE DEF e
<1>4. CASE msg.kind = "ack" /\ msg.v < d.version
  <2>1. e = d
    BY <1>3, <1>4 DEF OnMessage
  <2> QED
    BY <1>1, <1>2, <1>4, <2>1 DEF ClientInv, Feed, e, msg
<1>5. CASE msg.v = d.version
  <2>1. Core(c, e, up, ops) /\ e.version = d.version + 1 /\ e.link = d.link /\ e.source = d.source
    <3>1. CASE msg.kind = "ack"
      <4>1. e = Acknowledged(d, d.version)
        BY <1>1, <1>3, <1>5, <3>1 DEF OnMessage
      <4>2. ops[d.version + 1].source[1] = c
        BY <1>1, <1>2, <1>5, <3>1
      <4>3. Core(c, e, up, ops)
        BY <1>1, <1>2, <1>5, <4>1, <4>2, AckCore
      <4> QED
        BY <1>1, <4>1, <4>3, AcknowledgedIs
    <3>2. CASE msg.kind = "op"
      BY <1>1, <1>2, <1>3, <1>5, <3>2, OpCore
    <3> QED
      BY <1>2, <3>1, <3>2
  <2>2. Feed(e, Tail(down), ops)
    BY <1>2, <1>5, <2>1 DEF Feed
  <2> QED
    BY <1>1, <1>2, <2>1, <2>2 DEF ClientInv, e, msg
<1> QED
  BY <1>1, <1>2, <1>4, <1>5

-----------------------------------------------------------------------------
(***************************************************************************)
(* Catching up. A fold of the library is a function on the sets of         *)
(* indices, chosen for its equation: one exists, and its values on the     *)
(* sets 1..k are the documents the client goes through.                    *)
(***************************************************************************)
LEMMA LeastNumber ==
  ASSUME NEW N \in SUBSET Nat, N # {}
  PROVE  \E n \in N : \A m \in Nat : m < n => m \notin N
<1> DEFINE R == OpToRel(<, Nat)
<1>1. PICK n \in N : \A m \in N : <<m, n>> \notin R
  <2> HIDE DEF R
  <2> QED
    BY WFMin, NatLessThanWellFounded DEF R
<1> QED
  BY <1>1 DEF OpToRel

LEMMA Climb ==
  ASSUME NEW n \in Nat, NEW P, 0 \in P, \A k \in 1..n : k - 1 \in P => k \in P
  PROVE  \A k \in 0..n : k \in P
<1> DEFINE N == {k \in 0..n : k \notin P}
<1>1. ASSUME NEW k \in N, \A m \in Nat : m < k => m \notin N PROVE FALSE
  <2>1. k # 0 /\ k \in 1..n /\ k - 1 \in Nat /\ k - 1 < k /\ k - 1 \in 0..n
    OBVIOUS
  <2> QED
    BY <1>1, <2>1
<1>2. N \in SUBSET Nat
  OBVIOUS
<1> HIDE DEF N
<1>3. N = {}
  BY <1>1, <1>2, LeastNumber
<1> QED
  BY <1>3 DEF N

LEMMA Greatest ==
  ASSUME NEW n \in Nat, NEW s \in SUBSET (1..n), s # {}
  PROVE  Max(s) \in s /\ \A y \in s : y <= Max(s)
<1> DEFINE N == {m \in Nat : \A y \in s : y <= m}
<1>1. N \in SUBSET Nat /\ n \in N
  OBVIOUS
<1>2. PICK m \in N : \A k \in Nat : k < m => k \notin N
  <2> HIDE DEF N
  <2> QED
    BY <1>1, LeastNumber
<1>3. m \in s
  <2> SUFFICES ASSUME m \notin s PROVE FALSE
    OBVIOUS
  <2>1. \A y \in s : y \in Nat /\ y <= m - 1
    OBVIOUS
  <2>2. m # 0
    <3>1. PICK y \in s : TRUE
      OBVIOUS
    <3> QED
      BY <2>1, <3>1
  <2>3. m - 1 \in Nat /\ m - 1 < m /\ m - 1 \in N
    BY <2>1, <2>2
  <2> QED
    BY <1>2, <2>3
<1>4. m \in s /\ \A y \in s : m >= y
  BY <1>3
<1>5. \A x \in s : (\A y \in s : x >= y) => x = m
  BY <1>4
<1> QED
  BY <1>4, <1>5 DEF Max

LEMMA GreatestUpto ==
  ASSUME NEW k \in Nat, k # 0
  PROVE  Max(1..k) = k /\ (1..k) \ {k} = 1..(k - 1)
<1>1. 1..k \in SUBSET (1..k) /\ 1..k # {} /\ k \in 1..k
  OBVIOUS
<1>2. Max(1..k) \in 1..k /\ k <= Max(1..k)
  BY <1>1, Greatest
<1> QED
  BY <1>2

HeardOf(h, s, d, q) == IF s = {} THEN d ELSE CaughtUpWith(h[s \ {Max(s)}], q[Max(s)])

HearsAll(h, n, d, q) == h = [s \in SUBSET (1..n) |-> HeardOf(h, s, d, q)]

LEMMA CatchingUpExists ==
  ASSUME NEW n \in Nat, NEW d, NEW q
  PROVE  \E h : HearsAll(h, n, d, q)
<1> DEFINE Good(h, m) == HearsAll(h, m, d, q)
           P == {m \in 0..n : \E h : Good(h, m)}
<1>1. 0 \in P
  <2> DEFINE h == [s \in SUBSET (1..0) |-> d]
  <2>1. \A s \in SUBSET (1..0) : s = {}
    OBVIOUS
  <2>2. Good(h, 0)
    BY <2>1 DEF HeardOf, HearsAll
  <2> HIDE DEF h, Good
  <2>3. \E f : Good(f, 0)
    BY <2>2
  <2> QED
    BY <2>3
<1>2. ASSUME NEW m \in 1..n, m - 1 \in P PROVE m \in P
  <2>1. PICK h : Good(h, m - 1)
    BY <1>2
  <2> DEFINE j == [s \in SUBSET (1..m) |-> HeardOf(h, s, d, q)]
  <2>2. ASSUME NEW s \in SUBSET (1..m), s # {}
        PROVE  s \ {Max(s)} \in SUBSET (1..(m - 1))
    <3> DEFINE x == Max(s)
    <3>1. x \in s /\ \A y \in s : y <= x
      BY <2>2, Greatest
    <3> HIDE DEF x
    <3>2. \A y \in s \ {x} : y \in 1..(m - 1)
      BY <3>1
    <3> QED
      BY <3>2 DEF x
  <2>3. ASSUME NEW s \in SUBSET (1..(m - 1)) PROVE s \in SUBSET (1..m) /\ j[s] = h[s]
    <3>1. h[s] = HeardOf(h, s, d, q)
      BY <2>1 DEF HearsAll
    <3>2. s \in SUBSET (1..m)
      OBVIOUS
    <3> QED
      BY <3>1, <3>2
  <2>4. ASSUME NEW s \in SUBSET (1..m) PROVE HeardOf(j, s, d, q) = HeardOf(h, s, d, q)
    <3>1. s # {} => j[s \ {Max(s)}] = h[s \ {Max(s)}]
      BY <2>2, <2>3
    <3> QED
      BY <3>1 DEF HeardOf
  <2>5. Good(j, m)
    BY <2>4 DEF HearsAll
  <2> HIDE DEF j, Good
  <2>6. \E f : Good(f, m)
    BY <2>5
  <2> QED
    BY <2>6
<1>3. n \in P
  <2> HIDE DEF P
  <2>1. \A m \in 0..n : m \in P
    BY <1>1, <1>2, Climb
  <2> QED
    BY <2>1
<1> QED
  BY <1>3

\* catchUp goes through the ops one by one.
LEMMA CaughtUpIs ==
  ASSUME NEW d, NEW q, IsSeq(q)
  PROVE  \E g : /\ g[0] = d /\ g[Len(q)] = CaughtUp(d, q)
                /\ \A k \in 1..Len(q) : g[k] = CaughtUpWith(g[k - 1], q[k])
<1> DEFINE n == Len(q)
           Folds(h) == h = [s \in SUBSET DOMAIN q |->
              IF s = {} THEN d ELSE CaughtUpWith(h[s \ {Max(s)}], q[Max(s)])]
           j == CHOOSE h : Folds(h)
           g == [k \in 0..n |-> j[1..k]]
<1>1. n \in Nat /\ DOMAIN q = 1..n
  <2>1. PICK S : q \in Seq(S)
    BY DEF IsSeq
  <2> QED
    BY <2>1
<1>2. CaughtUp(d, q) = j[1..n]
  BY <1>1 DEF CaughtUp, FoldLeft, MapThenFoldSet
<1> HIDE DEF n
<1>3. PICK i : HearsAll(i, n, d, q)
  BY <1>1, CatchingUpExists
<1>4. Folds(i)
  BY <1>1, <1>3 DEF HeardOf, HearsAll
<1>5. Folds(j)
  <2> HIDE DEF Folds
  <2> QED
    BY <1>4
<1>6. \A s \in SUBSET (1..n) :
        j[s] = IF s = {} THEN d ELSE CaughtUpWith(j[s \ {Max(s)}], q[Max(s)])
  BY <1>1, <1>5
<1> HIDE DEF j, Folds
<1>7. j[1..0] = d
  <2>1. 1..0 = {} /\ {} \in SUBSET (1..n)
    OBVIOUS
  <2> QED
    BY <1>6, <2>1
<1>8. ASSUME NEW k \in 1..n PROVE g[k] = CaughtUpWith(g[k - 1], q[k])
  <2>1. k \in Nat /\ k # 0 /\ k \in 0..n /\ k - 1 \in 0..n /\ 1..k # {}
    BY <1>1
  <2>2. 1..k \in SUBSET (1..n)
    BY <1>1
  <2>3. Max(1..k) = k /\ (1..k) \ {k} = 1..(k - 1)
    BY <2>1, GreatestUpto
  <2> QED
    BY <1>6, <2>1, <2>2, <2>3
<1>9. g[0] = d /\ g[n] = j[1..n]
  BY <1>1, <1>7
<1> HIDE DEF g
<1> QED
  BY <1>2, <1>8, <1>9 DEF n

-----------------------------------------------------------------------------
(* Connections that come and go *)

\* Whatever becomes of the connection, as long as those that were used are known,
\* and those on which the op in flight was sent are remembered.
LEMMA LinkCore ==
  ASSUME NEW c, NEW d, NEW up, NEW ops, Core(c, d, up, ops), NEW e,
         DOMAIN e = Fields, e.version = d.version, e.sent = d.sent, e.timers = d.timers,
         e.polls = d.polls, e.inflight = d.inflight,
         e.link \in {"ok", "room", "read", "down"}, e.source \in Connections(c),
         e.submitted \subseteq Connections(c),
         \A source : Used(c, d, source) => Used(c, e, source),
         d.inflight # <<>> => \A source : Remembered(d, source) => Remembered(e, source)
  PROVE  Core(c, e, up, ops)
<1>1. Sent(e) = Sent(d)
  BY DEF Sent, Core, Shape, Connections
<1>2. Shape(c, e, up, ops)
  BY DEF Core, Shape
<1>3. Own(c, e, ops) /\ Packets(c, e, up, ops)
  BY DEF Core, Own, Packets
<1>4. Timers(c, e, ops)
  BY <1>1 DEF Core, Timers
<1>5. SourcesKept(e, up, ops)
  BY <1>1 DEF Core, SourcesKept
<1>6. Settled(c, e, ops)
  BY <1>1 DEF Core, Settled, Finished
<1> QED
  BY <1>2, <1>3, <1>4, <1>5, <1>6 DEF Core

\* catchUp: the ops that were missed are heard one by one.
LEMMA CatchUpCore ==
  ASSUME NEW c, NEW d, NEW up, NEW ops, Core(c, d, up, ops), LogInv(ops), d.link # "ok",
         NEW q, Missed(d, q, ops)
  PROVE  LET e == CaughtUp(d, q) IN
         /\ Core(c, e, up, ops) /\ DOMAIN e = Fields
         /\ e.version = d.version + Len(q) /\ e.link = d.link /\ e.source = d.source
<1> DEFINE n == Len(q)
           e == CaughtUp(d, q)
<1>1. /\ n \in Nat /\ d.version + n <= Len(ops) /\ IsSeq(q) /\ d.version \in Nat
      /\ Len(ops) \in Nat /\ DOMAIN d = Fields
      /\ \A i \in 1..n : q[i] = ops[d.version + i]
  BY EmptyIs DEF Missed, Core, Shape
<1>2. PICK g : /\ g[0] = d /\ g[n] = e
               /\ \A k \in 1..n : g[k] = CaughtUpWith(g[k - 1], q[k])
  BY <1>1, CaughtUpIs
<1> HIDE DEF n, e
<1> DEFINE Good(k) == /\ Core(c, g[k], up, ops) /\ DOMAIN g[k] = Fields
                      /\ g[k].version = d.version + k
                      /\ g[k].link = d.link /\ g[k].source = d.source
           P == {k \in 0..n : Good(k)}
<1>3. 0 \in P
  BY <1>1, <1>2
<1>4. ASSUME NEW k \in 1..n, k - 1 \in P PROVE k \in P
  <2> DEFINE f == g[k - 1]
             msg == [kind |-> "op", v |-> f.version, op |-> q[k].op, source |-> q[k].source]
  <2>1. /\ Core(c, f, up, ops) /\ f.version = d.version + (k - 1)
        /\ f.link = d.link /\ f.source = d.source
    BY <1>4
  <2>2. g[k] = OnMessage(f, msg)
    BY <1>2 DEF CaughtUpWith
  <2>3. f.version + 1 = d.version + k /\ f.version < Len(ops) /\ q[k] = ops[d.version + k]
    BY <1>1, <2>1
  <2>4. msg.kind = "op" /\ msg.v = f.version /\ msg.source = ops[f.version + 1].source
    BY <2>3
  <2> HIDE DEF f, msg
  <2>5. /\ Core(c, g[k], up, ops) /\ DOMAIN g[k] = Fields /\ g[k].version = f.version + 1
        /\ g[k].link = f.link /\ g[k].source = f.source
    BY <2>1, <2>2, <2>3, <2>4, OpCore
  <2> QED
    BY <1>1, <2>1, <2>3, <2>5
<1>5. n \in P
  <2> HIDE DEF P
  <2>1. \A k \in 0..n : k \in P
    BY <1>1, <1>3, <1>4, Climb
  <2> QED
    BY <1>1, <2>1
<1> QED
  BY <1>2, <1>5 DEF n, e

LEMMA CatchUpStep ==
  ASSUME NEW c, NEW d, NEW up, NEW down, NEW ops, ClientInv(c, d, up, down, ops), LogInv(ops),
         d.link = "read"
  PROVE  /\ ClientInv(c, Received(d, down[1]), up, Tail(down), ops)
         /\ down # <<>> /\ down[1].kind = "catchUp"
         /\ Received(d, down[1]).link = "ok"
<1> DEFINE q == down[1].op
           f == CaughtUp(d, q)
           e == [f EXCEPT !.link = "ok"]
<1>1. /\ down # <<>> /\ down[1].kind = "catchUp" /\ Missed(d, q, ops) /\ IsSeq(down) /\ IsSeq(ops)
      /\ Follows(down, 1, d.version + Len(q), d.source, ops)
      /\ Core(c, d, up, ops)
  BY DEF ClientInv, Core, Shape, Feed
<1>2. /\ Core(c, f, up, ops) /\ DOMAIN f = Fields
      /\ f.version = d.version + Len(q) /\ f.link = d.link /\ f.source = d.source
  BY <1>1, CatchUpCore
<1>3. e = Received(d, down[1])
  BY <1>1 DEF Received
<1> HIDE DEF f
<1>4. /\ DOMAIN e = Fields /\ e.version = f.version /\ e.sent = f.sent /\ e.timers = f.timers
      /\ e.polls = f.polls /\ e.inflight = f.inflight /\ e.source = f.source
      /\ e.submitted = f.submitted /\ e.link = "ok"
  BY <1>2 DEF Fields
<1> HIDE DEF e
<1>5. Core(c, e, up, ops)
  <2>1. e.source \in Connections(c) /\ e.submitted \subseteq Connections(c)
    BY <1>2, <1>4 DEF Core, Shape
  <2>2. \A source : Used(c, f, source) => Used(c, e, source)
    BY <1>4 DEF Used
  <2>3. \A source : Remembered(f, source) => Remembered(e, source)
    BY <1>2, <1>4 DEF Remembered
  <2> QED
    BY <1>2, <1>4, <2>1, <2>2, <2>3, LinkCore
<1>6. Follows(Tail(down), 0, e.version, e.source, ops) /\ IsSeq(Tail(down))
  BY <1>1, <1>2, <1>4, FollowsShift, TailIs
<1>7. Feed(e, Tail(down), ops)
  BY <1>4, <1>6 DEF Feed
<1> QED
  BY <1>1, <1>3, <1>4, <1>5, <1>6, <1>7 DEF ClientInv

\* Packets that are lost: those from some point on.
LEMMA CutCore ==
  ASSUME NEW c, NEW d, NEW up, NEW ops, Core(c, d, up, ops), NEW n \in 0..Len(up)
  PROVE  Core(c, d, SubSeq(up, 1, n), ops)
<1> DEFINE w == SubSeq(up, 1, n)
<1>1. IsSeq(up) /\ Len(up) \in Nat /\ 0 \in 0..Len(up) /\ n \in 0..Len(up)
  BY EmptyIs DEF Core, Shape
<1>2. /\ IsSeq(SubSeq(up, 0 + 1, n)) /\ Len(SubSeq(up, 0 + 1, n)) = n - 0
      /\ \A i \in 1..n - 0 : SubSeq(up, 0 + 1, n)[i] = up[0 + i]
  BY <1>1, PartIs
<1>3. IsSeq(w) /\ Len(w) = n /\ \A i \in 1..n : w[i] = up[i] /\ i \in 1..Len(up)
  BY <1>1, <1>2
<1> HIDE DEF w
<1>4. Shape(c, d, w, ops)
  BY <1>3 DEF Core, Shape
<1>5. Packets(c, d, w, ops)
  <2> SUFFICES ASSUME NEW i \in 1..n
               PROVE  /\ Used(c, d, w[i].source) /\ w[i].of \in Named(c, d.sent)
                      /\ w[i].v \in 0..Len(ops)
                      /\ \A k \in 1..Len(ops) : ops[k].of = w[i].of =>
                            k > w[i].v /\ ops[k].source \in w[i].dupIfSource
                      /\ \A j \in 1..i - 1 : w[j].of = w[i].of =>
                            w[j].source \in w[i].dupIfSource
    BY <1>3 DEF Packets
  <2>1. w[i] = up[i] /\ i \in 1..Len(up) /\ \A j \in 1..i - 1 : w[j] = up[j]
    BY <1>1, <1>3
  <2> QED
    BY <2>1 DEF Core, Packets
<1>6. SourcesKept(d, w, ops)
  BY <1>3 DEF Core, SourcesKept
<1> QED
  BY <1>4, <1>5, <1>6 DEF Core, w

\* _connectionStateChanged, with what is lost.
LEMMA DisconnectStep ==
  ASSUME NEW c, NEW d, NEW up, NEW down, NEW ops, ClientInv(c, d, up, down, ops),
         NEW n \in 0..Len(up)
  PROVE  ClientInv(c, Disconnected(d), SubSeq(up, 1, n), <<>>, ops)
<1> DEFINE e == Disconnected(d)
           w == SubSeq(up, 1, n)
<1>1. Core(c, d, w, ops)
  BY CutCore DEF ClientInv
<1>2. /\ DOMAIN e = Fields /\ e.version = d.version /\ e.sent = d.sent /\ e.timers = d.timers
      /\ e.polls = d.polls /\ e.inflight = d.inflight /\ e.source = d.source /\ e.link = "down"
      /\ e.submitted = IF d.inflight = <<>> THEN d.submitted ELSE d.submitted \cup {d.source}
  BY <1>1 DEF Disconnected, Core, Shape, Fields
<1> HIDE DEF e, w
<1>3. e.source \in Connections(c) /\ e.submitted \subseteq Connections(c)
  BY <1>1, <1>2 DEF Core, Shape
<1>4. \A source : Used(c, d, source) => Used(c, e, source)
  BY <1>2 DEF Used
<1>5. d.inflight # <<>> => \A source : Remembered(d, source) => Remembered(e, source)
  BY <1>2 DEF Remembered
<1>6. Core(c, e, w, ops)
  BY <1>1, <1>2, <1>3, <1>4, <1>5, LinkCore
<1>7. IsSeq(<<>>) /\ Feed(e, <<>>, ops)
  BY <1>2, EmptyIs DEF Feed
<1> QED
  BY <1>6, <1>7 DEF ClientInv, e, w

\* joinDoc, on a connection that has not been used.
LEMMA RejoinStep ==
  ASSUME NEW c, NEW d, NEW up, NEW down, NEW ops, ClientInv(c, d, up, down, ops),
         d.link = "down",
         NEW e, e = [d EXCEPT !.link = "room", !.source[2] = @ + 1, !.from = d.version]
  PROVE  ClientInv(c, e, up, down, ops)
<1>1. DOMAIN d = Fields /\ d.source \in {c} \X Nat
  BY DEF ClientInv, Core, Shape, Connections
<1>2. /\ DOMAIN e = Fields /\ e.version = d.version /\ e.sent = d.sent /\ e.timers = d.timers
      /\ e.polls = d.polls /\ e.inflight = d.inflight /\ e.submitted = d.submitted
      /\ e.link = "room" /\ e.from = d.version
      /\ e.source = [d.source EXCEPT ![2] = @ + 1]
  BY <1>1 DEF Fields
<1>3. e.source \in Connections(c) /\ e.source[2] = d.source[2] + 1 /\ d.source[2] \in Nat
  BY <1>1, <1>2 DEF Connections
<1>4. e.submitted \subseteq Connections(c)
  BY <1>2 DEF ClientInv, Core, Shape
<1>5. \A source : Used(c, d, source) => Used(c, e, source)
  BY <1>3 DEF Used, Connections
<1>6. \A source : Remembered(d, source) => Remembered(e, source)
  BY <1>2 DEF Remembered
<1>7. Core(c, e, up, ops)
  BY <1>2, <1>3, <1>4, <1>5, <1>6, LinkCore DEF ClientInv
<1>8. Feed(e, down, ops)
  BY <1>2 DEF ClientInv, Feed
<1> QED
  BY <1>7, <1>8 DEF ClientInv

\* The ops from the client's version on, read in the room.
LEMMA ReadStep ==
  ASSUME NEW c, NEW d, NEW up, NEW down, NEW ops, ClientInv(c, d, up, down, ops),
         d.link = "room", NEW msg, msg.kind = "catchUp",
         msg.op = SubSeq(ops, d.from + 1, Len(ops))
  PROVE  ClientInv(c, [d EXCEPT !.link = "read"], up, Append(down, msg), ops)
<1> DEFINE e == [d EXCEPT !.link = "read"]
           w == Append(down, msg)
<1>1. DOMAIN d = Fields /\ down = <<>> /\ d.from = d.version /\ IsSeq(down) /\ IsSeq(ops)
  BY DEF ClientInv, Core, Shape, Feed
<1>2. Len(ops) \in Nat /\ d.version \in 0..Len(ops) /\ Len(ops) \in d.version..Len(ops)
  BY EmptyIs DEF ClientInv, Core, Shape
<1>3. /\ DOMAIN e = Fields /\ e.version = d.version /\ e.sent = d.sent /\ e.timers = d.timers
      /\ e.polls = d.polls /\ e.inflight = d.inflight /\ e.source = d.source
      /\ e.submitted = d.submitted /\ e.link = "read"
  BY <1>1 DEF Fields
<1>4. IsSeq(w) /\ Len(w) = 1 /\ w[1] = msg /\ w # <<>>
  <2>1. Len(down) = 0
    BY <1>1, EmptyIs
  <2>2. IsSeq(w) /\ Len(w) = Len(down) + 1 /\ w[Len(down) + 1] = msg
    BY <1>1, AppendIs
  <2> HIDE DEF w
  <2>3. IsSeq(w) /\ Len(w) = 1 /\ w[1] = msg
    BY <2>1, <2>2
  <2>4. Len(w) # 0
    BY <2>3
  <2>5. w # <<>>
    BY <2>4, NotEmptyIs
  <2> QED
    BY <2>3, <2>5
<1> HIDE DEF e, w
<1>5. Core(c, e, up, ops)
  <2>1. e.source \in Connections(c) /\ e.submitted \subseteq Connections(c)
    BY <1>3 DEF ClientInv, Core, Shape
  <2>2. \A source : Used(c, d, source) => Used(c, e, source)
    BY <1>3 DEF Used
  <2>3. \A source : Remembered(d, source) => Remembered(e, source)
    BY <1>3 DEF Remembered
  <2> QED
    BY <1>3, <2>1, <2>2, <2>3, LinkCore DEF ClientInv
<1>6. /\ IsSeq(msg.op) /\ Len(msg.op) = Len(ops) - d.version
      /\ \A i \in 1..Len(ops) - d.version : msg.op[i] = ops[d.version + i]
  <2> DEFINE q == SubSeq(ops, d.version + 1, Len(ops))
  <2>1. msg.op = q
    BY <1>1
  <2>2. /\ IsSeq(q) /\ Len(q) = Len(ops) - d.version
        /\ \A i \in 1..Len(ops) - d.version : q[i] = ops[d.version + i]
    BY <1>1, <1>2, PartIs
  <2> HIDE DEF q
  <2> QED
    BY <2>1, <2>2
<1>7. Missed(e, msg.op, ops) /\ e.version + Len(msg.op) = Len(ops)
  <2> DEFINE m == d.version
             n == Len(ops)
             k == Len(msg.op)
  <2>1. k = n - m
    BY <1>6, Zenon
  <2>2. n \in Nat /\ m \in 0..n
    BY <1>2, Zenon
  <2> HIDE DEF m, n, k
  <2>3. m + k = n /\ n <= n
    BY <2>1, <2>2
  <2>4. \A i \in 1..Len(msg.op) : msg.op[i] = ops[d.version + i]
    BY <1>6
  <2> QED
    BY <1>3, <1>6, <2>3, <2>4, Zenon DEF Missed, m, n, k
<1>8. Follows(w, 1, Len(ops), e.source, ops)
  BY <1>2, <1>4 DEF Follows
<1>9. Feed(e, w, ops)
  BY <1>3, <1>4, <1>7, <1>8 DEF Feed
<1> QED
  BY <1>4, <1>5, <1>9 DEF ClientInv, e, w

-----------------------------------------------------------------------------
(* The server takes an update *)

\* The first packet is gone.
LEMMA DropCore ==
  ASSUME NEW c, NEW d, NEW up, NEW ops, Core(c, d, up, ops), up # <<>>
  PROVE  Core(c, d, Tail(up), ops)
<1> DEFINE w == Tail(up)
<1>1. /\ IsSeq(w) /\ Len(up) \in Nat \ {0} /\ Len(w) = Len(up) - 1
      /\ \A i \in 1..Len(w) : w[i] = up[i + 1] /\ i + 1 \in 1..Len(up)
  BY TailIs DEF Core, Shape
<1> HIDE DEF w
<1>2. Shape(c, d, w, ops)
  BY <1>1 DEF Core, Shape
<1>3. Packets(c, d, w, ops)
  <2> SUFFICES ASSUME NEW i \in 1..Len(w)
               PROVE  /\ Used(c, d, w[i].source) /\ w[i].of \in Named(c, d.sent)
                      /\ w[i].v \in 0..Len(ops)
                      /\ \A k \in 1..Len(ops) : ops[k].of = w[i].of =>
                            k > w[i].v /\ ops[k].source \in w[i].dupIfSource
                      /\ \A j \in 1..i - 1 : w[j].of = w[i].of =>
                            w[j].source \in w[i].dupIfSource
    BY DEF Packets
  <2>1. /\ w[i] = up[i + 1] /\ i + 1 \in 1..Len(up)
        /\ \A j \in 1..i - 1 : w[j] = up[j + 1] /\ j + 1 \in 1..i + 1 - 1
    BY <1>1
  <2> QED
    BY <2>1 DEF Core, Packets
<1>4. SourcesKept(d, w, ops)
  BY <1>1 DEF Core, SourcesKept
<1> QED
  BY <1>2, <1>3, <1>4 DEF Core, w

\* An op of another client is in the log.
LEMMA OthersCore ==
  ASSUME NEW c, NEW d, NEW up, NEW ops, Core(c, d, up, ops),
         NEW entry, entry.source[1] # c, entry.of[1] # c
  PROVE  Core(c, d, up, Append(ops, entry))
<1> DEFINE w == Append(ops, entry)
<1>1. /\ IsSeq(w) /\ Len(ops) \in Nat /\ Len(w) = Len(ops) + 1
      /\ \A k \in 1..Len(ops) : w[k] = ops[k]
      /\ w[Len(ops) + 1] = entry
  BY AppendIs DEF Core, Shape
<1>2. \A k \in 1..Len(w) : k \in 1..Len(ops) \/ k = Len(ops) + 1
  BY <1>1
<1>3. d.source[1] = c /\ d.version \in 0..Len(ops)
  BY DEF Core, Shape, Connections
<1>4. \A n : \A of \in Named(c, n) : of # entry.of
  BY DEF Named
<1>5. Sent(d) # entry.of
  BY <1>3 DEF Sent
<1> HIDE DEF w
<1>6. Shape(c, d, up, w)
  BY <1>1 DEF Core, Shape
<1>7. Own(c, d, w)
  BY <1>1, <1>2 DEF Core, Own
<1>8. Packets(c, d, up, w)
  <2> SUFFICES ASSUME NEW i \in 1..Len(up)
               PROVE  /\ up[i].v \in 0..Len(w)
                      /\ \A k \in 1..Len(w) : w[k].of = up[i].of =>
                            k > up[i].v /\ w[k].source \in up[i].dupIfSource
    BY DEF Core, Packets
  <2>1. up[i].v \in 0..Len(ops) /\ up[i].of # entry.of
    BY <1>4 DEF Core, Packets
  <2>2. \A k \in 1..Len(ops) : ops[k].of = up[i].of =>
           k > up[i].v /\ ops[k].source \in up[i].dupIfSource
    BY DEF Core, Packets
  <2> QED
    BY <1>1, <1>2, <2>1, <2>2
<1>9. Timers(c, d, w)
  <2>1. ASSUME NEW u \in d.timers \cup d.polls
        PROVE  u.v \in 0..Len(w) /\ \A k \in 1..Len(w) : w[k].of = u.of => k > u.v
    <3>1. u.v \in 0..Len(ops) /\ \A k \in 1..Len(ops) : ops[k].of = u.of => k > u.v
      BY DEF Core, Timers
    <3> QED
      BY <1>1, <1>2, <3>1
  <2> QED
    BY <2>1 DEF Core, Timers
<1>10. SourcesKept(d, up, w)
  BY <1>1, <1>2, <1>5 DEF Core, SourcesKept
<1>11. Settled(c, d, w)
  <2>1. \A k \in 1..d.version : w[k] = ops[k]
    BY <1>1, <1>3
  <2>2. \A k \in d.version + 1..Len(w) :
           k = Len(ops) + 1 \/ (k \in d.version + 1..Len(ops) /\ w[k] = ops[k])
    BY <1>1, <1>3
  <2> QED
    BY <1>1, <2>1, <2>2 DEF Core, Settled
<1> QED
  BY <1>6, <1>7, <1>8, <1>9, <1>10, <1>11 DEF Core, w

\* The client's own update is in the log, which had no op of it. It is of the op in
\* flight: any other is in the log already.
LEMMA OwnCore ==
  ASSUME NEW c, NEW d, NEW up, NEW ops, Core(c, d, up, ops), up # <<>>,
         \A k \in up[1].v + 1..Len(ops) : ops[k].source \notin up[1].dupIfSource,
         NEW entry, entry.source = up[1].source, entry.of = up[1].of
  PROVE  /\ Core(c, d, Tail(up), Append(ops, entry))
         /\ entry.source \in Connections(c) /\ entry.of \in {c} \X Nat
         /\ \A k \in 1..Len(ops) : ops[k].of # entry.of
<1> DEFINE w == Append(ops, entry)
           t == Tail(up)
<1>1. /\ IsSeq(w) /\ Len(ops) \in Nat /\ Len(w) = Len(ops) + 1
      /\ \A k \in 1..Len(ops) : w[k] = ops[k]
      /\ w[Len(ops) + 1] = entry
  BY AppendIs DEF Core, Shape
<1>2. \A k \in 1..Len(w) : k \in 1..Len(ops) \/ k = Len(ops) + 1
  BY <1>1
<1>3. d.source[1] = c /\ d.version \in 0..Len(ops) /\ d.sent \in Nat
  BY DEF Core, Shape, Connections
<1>4. Core(c, d, t, ops)
  BY DropCore
<1>5. /\ Len(up) \in Nat \ {0} /\ 1 \in 1..Len(up) /\ Len(t) = Len(up) - 1
      /\ \A i \in 1..Len(t) : t[i] = up[i + 1] /\ i + 1 \in 1..Len(up) /\ 1 \in 1..i + 1 - 1
  BY TailIs DEF Core, Shape
<1> HIDE DEF w, t
<1>6. /\ Used(c, d, entry.source) /\ entry.of \in Named(c, d.sent) /\ up[1].v \in 0..Len(ops)
      /\ \A k \in 1..Len(ops) : ops[k].of = up[1].of =>
            k > up[1].v /\ ops[k].source \in up[1].dupIfSource
  BY <1>5 DEF Core, Packets
<1>7. \A k \in 1..Len(ops) : ops[k].of # entry.of
  BY <1>1, <1>6
<1>8. d.inflight # <<>> /\ entry.of = Sent(d)
  <2>1. PICK n \in 1..d.sent : entry.of = <<c, n>>
    BY <1>6 DEF Named
  <2>2. ~Finished(d, n)
    <3> SUFFICES ASSUME Finished(d, n) PROVE FALSE
      OBVIOUS
    <3>1. n \in Nat
      BY <1>3
    <3>2. PICK k \in 1..d.version : ops[k].of = <<c, n>>
      BY <3>1 DEF Core, Settled
    <3> QED
      BY <1>1, <1>3, <1>7, <2>1, <3>2
  <2>3. n = d.sent /\ d.inflight # <<>>
    BY <1>3, <2>2 DEF Finished
  <2> QED
    BY <1>3, <2>1, <2>3 DEF Sent
<1>9. Remembered(d, entry.source)
  BY <1>5, <1>8 DEF Core, SourcesKept
<1>10. Shape(c, d, t, w)
  BY <1>1, <1>4 DEF Core, Shape
<1>11. Own(c, d, w)
  BY <1>1, <1>2, <1>6 DEF Core, Own
<1>12. Packets(c, d, t, w)
  <2> SUFFICES ASSUME NEW i \in 1..Len(t)
               PROVE  /\ t[i].v \in 0..Len(w)
                      /\ \A k \in 1..Len(w) : w[k].of = t[i].of =>
                            k > t[i].v /\ w[k].source \in t[i].dupIfSource
    BY <1>4 DEF Core, Packets
  <2>1. /\ t[i].v \in 0..Len(ops)
        /\ \A k \in 1..Len(ops) : ops[k].of = t[i].of =>
              k > t[i].v /\ ops[k].source \in t[i].dupIfSource
    BY <1>4 DEF Core, Packets
  <2>2. entry.of = t[i].of => entry.source \in t[i].dupIfSource
    <3>1. t[i] = up[i + 1] /\ i + 1 \in 1..Len(up) /\ 1 \in 1..i + 1 - 1
      BY <1>5
    <3>2. \A j \in 1..i + 1 - 1 : up[j].of = up[i + 1].of => up[j].source \in up[i + 1].dupIfSource
      BY <3>1 DEF Core, Packets
    <3> QED
      BY <3>1, <3>2
  <2> QED
    BY <1>1, <1>2, <2>1, <2>2
<1>13. Timers(c, d, w)
  <2>1. ASSUME NEW u \in d.timers \cup d.polls
        PROVE  u.v \in 0..Len(w) /\ \A k \in 1..Len(w) : w[k].of = u.of => k > u.v
    <3>1. u.v \in 0..Len(ops) /\ \A k \in 1..Len(ops) : ops[k].of = u.of => k > u.v
      BY DEF Core, Timers
    <3> QED
      BY <1>1, <1>2, <3>1
  <2> QED
    BY <2>1 DEF Core, Timers
<1>14. SourcesKept(d, t, w)
  BY <1>1, <1>2, <1>4, <1>9 DEF Core, SourcesKept
<1>15. Settled(c, d, w)
  <2>1. \A k \in 1..d.version : w[k] = ops[k]
    BY <1>1, <1>3
  <2>2. \A k \in d.version + 1..Len(w) :
           k = Len(ops) + 1 \/ (k \in d.version + 1..Len(ops) /\ w[k] = ops[k])
    BY <1>1, <1>3
  <2> QED
    BY <1>1, <1>8, <2>1, <2>2 DEF Core, Settled
<1>16. Core(c, d, t, w)
  BY <1>10, <1>11, <1>12, <1>13, <1>14, <1>15 DEF Core
<1> QED
  BY <1>6, <1>7, <1>16 DEF Used, Connections, Named, w, t

\* An acknowledgement of what was published before is no news.
LEMMA AgainFollows ==
  ASSUME NEW down, IsSeq(down), NEW b \in Nat, NEW version, NEW source, NEW ops, IsSeq(ops),
         Follows(down, b, version, source, ops),
         NEW msg, msg.kind = "ack", msg.v \in 0..Len(ops) - 1
  PROVE  Follows(Append(down, msg), b, version, source, ops)
<1> DEFINE w == Append(down, msg)
           n == Len(down)
<1>1. /\ IsSeq(w) /\ n \in Nat /\ Len(w) = n + 1
      /\ \A i \in 1..n : w[i] = down[i]
      /\ w[n + 1] = msg
  BY AppendIs
<1>2. Len(ops) \in Nat /\ version \in 0..Len(ops)
  BY EmptyIs DEF Follows
<1> HIDE DEF w, n
<1>3. \A i \in b + 1..Len(w) : i \in b + 1..n \/ (i = n + 1 /\ w[i] = msg)
  BY <1>1
<1>4. ASSUME NEW k \in b + 1..n
      PROVE  w[k] = down[k] /\ \A j \in b + 1..k - 1 : w[j] = down[j]
  BY <1>1
<1>5. \A k \in b + 1..n : News(w, b, version, k) <=> News(down, b, version, k)
  BY <1>4 DEF News
<1>6. \A v \in version..Len(ops) - 1 : \E j \in b + 1..n : down[j].v = v
  BY DEF Follows, n
<1>7. b + 1 <= n + 1 => ~News(w, b, version, n + 1)
  <2> SUFFICES ASSUME News(w, b, version, n + 1) PROVE FALSE
    OBVIOUS
  <2>1. msg.v >= version /\ \A j \in b + 1..n : w[j].v < msg.v
    BY <1>1 DEF News
  <2>2. PICK j \in b + 1..n : down[j].v = msg.v
    BY <1>2, <1>6, <2>1
  <2> QED
    BY <1>2, <1>4, <2>1, <2>2
<1>8. ASSUME NEW k \in b + 1..n, News(down, b, version, k), NEW v \in version..down[k].v - 1
      PROVE  \E j \in b + 1..k - 1 : w[j].v = v
  <2>1. PICK j \in b + 1..k - 1 : down[j].v = v
    BY <1>8 DEF Follows, n
  <2> QED
    BY <1>4, <2>1
<1>9. ASSUME NEW v \in version..Len(ops) - 1 PROVE \E j \in b + 1..Len(w) : w[j].v = v
  <2>1. PICK j \in b + 1..n : down[j].v = v
    BY <1>6
  <2>2. w[j] = down[j] /\ j \in b + 1..Len(w)
    BY <1>1, <1>4, <2>1
  <2> QED
    BY <2>1, <2>2
<1>10. ASSUME NEW k \in b + 1..Len(w)
       PROVE  /\ w[k].kind \in {"ack", "op"} /\ w[k].v \in 0..Len(ops) - 1
              /\ w[k].kind = "op" =>
                   /\ News(w, b, version, k)
                   /\ w[k].source = ops[w[k].v + 1].source /\ w[k].source # source
              /\ News(w, b, version, k) =>
                   /\ w[k].kind = "ack" => ops[w[k].v + 1].source = source
                   /\ \A v \in version..w[k].v - 1 : \E j \in b + 1..k - 1 : w[j].v = v
  <2>1. CASE k \in b + 1..n
    <3>1. w[k] = down[k]
      BY <1>4, <2>1
    <3>2. /\ down[k].kind \in {"ack", "op"} /\ down[k].v \in 0..Len(ops) - 1
          /\ down[k].kind = "op" =>
               /\ News(down, b, version, k)
               /\ down[k].source = ops[down[k].v + 1].source /\ down[k].source # source
          /\ News(down, b, version, k) =>
               (down[k].kind = "ack" => ops[down[k].v + 1].source = source)
      BY <2>1 DEF Follows, n
    <3> QED
      BY <1>5, <1>8, <2>1, <3>1, <3>2
  <2>2. CASE k = n + 1 /\ w[k] = msg
    BY <1>1, <1>7, <2>2
  <2> QED
    BY <1>3, <2>1, <2>2
<1> QED
  BY <1>2, <1>9, <1>10 DEF Follows, w

\* The next version is published.
LEMMA PublishedFollows ==
  ASSUME NEW down, IsSeq(down), NEW b \in Nat, b <= Len(down),
         NEW version, NEW source, NEW ops, IsSeq(ops),
         Follows(down, b, version, source, ops), NEW entry,
         NEW msg, msg.v = Len(ops), msg.source = entry.source,
         msg.kind = IF entry.source = source THEN "ack" ELSE "op"
  PROVE  Follows(Append(down, msg), b, version, source, Append(ops, entry))
<1> DEFINE w == Append(down, msg)
           n == Len(down)
           log2 == Append(ops, entry)
<1>1. /\ IsSeq(w) /\ n \in Nat /\ Len(w) = n + 1
      /\ \A i \in 1..n : w[i] = down[i]
      /\ w[n + 1] = msg
  BY AppendIs
<1>2. /\ Len(ops) \in Nat /\ Len(log2) = Len(ops) + 1
      /\ \A i \in 1..Len(ops) : log2[i] = ops[i]
      /\ log2[Len(ops) + 1] = entry
  BY AppendIs
<1>3. version \in 0..Len(ops) /\ b <= n
  BY DEF Follows
<1> HIDE DEF w, n, log2
<1>4. \A i \in b + 1..Len(w) : i \in b + 1..n \/ (i = n + 1 /\ w[i] = msg)
  BY <1>1
<1>5. ASSUME NEW k \in b + 1..n
      PROVE  w[k] = down[k] /\ \A j \in b + 1..k - 1 : w[j] = down[j]
  BY <1>1
<1>6. \A k \in b + 1..n : News(w, b, version, k) <=> News(down, b, version, k)
  BY <1>5 DEF News
<1>7. \A v \in version..Len(ops) - 1 : \E j \in b + 1..n : down[j].v = v
  BY DEF Follows, n
<1>8. ASSUME NEW k \in b + 1..n, News(down, b, version, k), NEW v \in version..down[k].v - 1
      PROVE  \E j \in b + 1..k - 1 : w[j].v = v
  <2>1. PICK j \in b + 1..k - 1 : down[j].v = v
    BY <1>8 DEF Follows, n
  <2> QED
    BY <1>5, <2>1
<1>9. ASSUME NEW v \in version..Len(ops) - 1 PROVE \E j \in b + 1..n : w[j].v = v
  <2>1. PICK j \in b + 1..n : down[j].v = v
    BY <1>7
  <2> QED
    BY <1>5, <2>1
<1>10. ASSUME NEW v \in version..Len(log2) - 1 PROVE \E j \in b + 1..Len(w) : w[j].v = v
  <2>1. CASE v = Len(ops)
    <3>1. n + 1 \in b + 1..Len(w)
      BY <1>1, <1>3
    <3> QED
      BY <1>1, <2>1, <3>1
  <2>2. CASE v # Len(ops)
    <3>1. v \in version..Len(ops) - 1
      BY <1>2, <1>3, <2>2
    <3>2. PICK j \in b + 1..n : w[j].v = v
      BY <1>9, <3>1
    <3> QED
      BY <1>1, <3>2
  <2> QED
    BY <2>1, <2>2
<1>11. ASSUME NEW k \in b + 1..Len(w)
       PROVE  /\ w[k].kind \in {"ack", "op"} /\ w[k].v \in 0..Len(log2) - 1
              /\ w[k].kind = "op" =>
                   /\ News(w, b, version, k)
                   /\ w[k].source = log2[w[k].v + 1].source /\ w[k].source # source
              /\ News(w, b, version, k) =>
                   /\ w[k].kind = "ack" => log2[w[k].v + 1].source = source
                   /\ \A v \in version..w[k].v - 1 : \E j \in b + 1..k - 1 : w[j].v = v
  <2>1. CASE k \in b + 1..n
    <3>1. w[k] = down[k]
      BY <1>5, <2>1
    <3>2. /\ down[k].kind \in {"ack", "op"} /\ down[k].v \in 0..Len(ops) - 1
          /\ down[k].kind = "op" =>
               /\ News(down, b, version, k)
               /\ down[k].source = ops[down[k].v + 1].source /\ down[k].source # source
          /\ News(down, b, version, k) =>
               (down[k].kind = "ack" => ops[down[k].v + 1].source = source)
      BY <2>1 DEF Follows, n
    <3>3. log2[down[k].v + 1] = ops[down[k].v + 1] /\ down[k].v \in 0..Len(log2) - 1
      <4>1. down[k].v \in 0..Len(ops) - 1
        BY <3>2
      <4>2. down[k].v + 1 \in 1..Len(ops) /\ down[k].v \in 0..Len(log2) - 1
        BY <1>2, <4>1
      <4> QED
        BY <1>2, <4>2
    <3> QED
      BY <1>6, <1>8, <2>1, <3>1, <3>2, <3>3
  <2>2. CASE k = n + 1 /\ w[k] = msg
    <3>1. /\ msg.kind \in {"ack", "op"} /\ msg.v \in 0..Len(log2) - 1
          /\ log2[msg.v + 1] = entry
      BY <1>2
    <3>2. News(w, b, version, k)
      <4> SUFFICES ASSUME NEW j \in b + 1..n PROVE w[j].v < Len(ops)
        BY <1>1, <1>2, <1>3, <2>2 DEF News
      <4>1. down[j].v \in 0..Len(ops) - 1
        BY DEF Follows, n
      <4> QED
        BY <1>2, <1>5, <4>1
    <3>3. \A v \in version..w[k].v - 1 : \E j \in b + 1..k - 1 : w[j].v = v
      BY <1>1, <1>9, <2>2
    <3> QED
      BY <2>2, <3>1, <3>2, <3>3
  <2> QED
    BY <1>4, <2>1, <2>2
<1>12. version \in 0..Len(log2)
  BY <1>2, <1>3
<1> QED
  BY <1>10, <1>11, <1>12 DEF Follows, w, log2

LEMMA ToldStep ==
  ASSUME NEW c, NEW d, NEW up, NEW down, NEW ops, ClientInv(c, d, up, down, ops),
         d.link \in {"ok", "read"},
         NEW msg, msg.kind = "ack", msg.v \in 0..Len(ops) - 1
  PROVE  ClientInv(c, d, up, Append(down, msg), ops)
<1> DEFINE w == Append(down, msg)
<1>1. IsSeq(down) /\ IsSeq(ops) /\ Feed(d, down, ops)
  BY DEF ClientInv, Core, Shape
<1>2. /\ IsSeq(w) /\ Len(down) \in Nat /\ Len(w) = Len(down) + 1
      /\ \A i \in 1..Len(down) : w[i] = down[i]
  BY <1>1, AppendIs
<1>3. d.link = "ok" => Follows(w, 0, d.version, d.source, ops)
  <2>1. 0 \in Nat
    OBVIOUS
  <2> QED
    BY <1>1, <2>1, AgainFollows DEF Feed
<1>4. ASSUME d.link = "read"
      PROVE  /\ w # <<>> /\ w[1] = down[1]
             /\ Follows(w, 1, d.version + Len(w[1].op), d.source, ops)
  <2>1. /\ down # <<>> /\ Follows(down, 1, d.version + Len(down[1].op), d.source, ops)
    BY <1>1, <1>4 DEF Feed
  <2>2. 1 \in Nat /\ Len(w) # 0 /\ 1 \in 1..Len(down)
    BY <1>1, <1>2, <2>1, EmptyIs
  <2>3. w # <<>> /\ w[1] = down[1]
    BY <1>2, <2>2, NotEmptyIs
  <2>4. Follows(w, 1, d.version + Len(down[1].op), d.source, ops)
    BY <1>1, <2>1, <2>2, AgainFollows
  <2> QED
    BY <2>3, <2>4
<1> HIDE DEF w
<1>5. Feed(d, w, ops)
  BY <1>1, <1>3, <1>4 DEF Feed
<1> QED
  BY <1>2, <1>5 DEF ClientInv, w

\* A client hears of the op that has just been put into the log, or is not there.
LEMMA PublishedStep ==
  ASSUME NEW c, NEW d, NEW up, NEW down, NEW ops, ClientInv(c, d, up, down, ops),
         NEW entry, NEW rest, Core(c, d, rest, Append(ops, entry)), d.link # "room",
         NEW msg, msg.v = Len(ops), msg.source = entry.source,
         msg.kind = IF entry.source = d.source THEN "ack" ELSE "op"
  PROVE  ClientInv(c, d, rest, IF d.link = "down" THEN down ELSE Append(down, msg),
                   Append(ops, entry))
<1> DEFINE w == Append(down, msg)
           log2 == Append(ops, entry)
<1>1. IsSeq(down) /\ IsSeq(ops) /\ Feed(d, down, ops) /\ d.link \in {"ok", "read", "down"}
  BY DEF ClientInv, Core, Shape
<1>2. /\ IsSeq(w) /\ Len(down) \in Nat /\ Len(w) = Len(down) + 1
      /\ \A i \in 1..Len(down) : w[i] = down[i]
  BY <1>1, AppendIs
<1>3. d.link = "ok" => Follows(w, 0, d.version, d.source, log2)
  <2>1. 0 \in Nat /\ 0 <= Len(down)
    BY <1>2
  <2> QED
    BY <1>1, <2>1, PublishedFollows DEF Feed
<1>4. ASSUME d.link = "read"
      PROVE  /\ w # <<>> /\ w[1] = down[1]
             /\ Follows(w, 1, d.version + Len(w[1].op), d.source, log2)
             /\ Missed(d, down[1].op, log2)
  <2>1. /\ down # <<>> /\ Follows(down, 1, d.version + Len(down[1].op), d.source, ops)
        /\ Missed(d, down[1].op, ops)
    BY <1>1, <1>4 DEF Feed
  <2>2. 1 \in Nat /\ 1 <= Len(down) /\ Len(w) # 0 /\ 1 \in 1..Len(down)
    BY <1>1, <1>2, <2>1, EmptyIs
  <2>3. w # <<>> /\ w[1] = down[1]
    BY <1>2, <2>2, NotEmptyIs
  <2>4. Follows(w, 1, d.version + Len(down[1].op), d.source, log2)
    BY <1>1, <2>1, <2>2, PublishedFollows
  <2>5. Missed(d, down[1].op, log2)
    <3> DEFINE missed == down[1].op
               n == Len(missed)
    <3>1. /\ IsSeq(missed) /\ d.version + n <= Len(ops)
          /\ \A i \in 1..n : missed[i] = ops[d.version + i]
      BY <2>1 DEF Missed
    <3>2. n \in Nat /\ d.version \in 0..Len(ops)
      BY <3>1, EmptyIs DEF ClientInv, Core, Shape
    <3>3. /\ Len(ops) \in Nat /\ Len(log2) = Len(ops) + 1
          /\ \A k \in 1..Len(ops) : log2[k] = ops[k]
      BY <1>1, AppendIs
    <3> HIDE DEF n, missed, log2
    <3>4. d.version + n <= Len(log2)
      BY <3>1, <3>2, <3>3
    <3>5. \A i \in 1..n : d.version + i \in 1..Len(ops)
      BY <3>1, <3>2, <3>3
    <3>6. \A i \in 1..n : missed[i] = log2[d.version + i]
      BY <3>1, <3>3, <3>5
    <3> QED
      BY <3>1, <3>4, <3>6 DEF Missed, n, missed
  <2> QED
    BY <2>3, <2>4, <2>5
<1> HIDE DEF w, log2
<1>5. d.link # "down" => Feed(d, w, log2)
  BY <1>1, <1>3, <1>4 DEF Feed
<1>6. d.link = "down" => Feed(d, down, log2)
  BY <1>1 DEF Feed
<1> QED
  BY <1>1, <1>2, <1>5, <1>6 DEF ClientInv, w, log2

LEMMA LogGrows ==
  ASSUME NEW ops, LogInv(ops), NEW entry, NEW c \in Clients,
         entry.source \in Connections(c), entry.of \in {c} \X Nat,
         \A k \in 1..Len(ops) : ops[k].of # entry.of
  PROVE  LogInv(Append(ops, entry))
<1> DEFINE w == Append(ops, entry)
<1>1. /\ IsSeq(w) /\ Len(ops) \in Nat /\ Len(w) = Len(ops) + 1
      /\ \A k \in 1..Len(ops) : w[k] = ops[k]
      /\ w[Len(ops) + 1] = entry
  BY AppendIs DEF LogInv
<1>2. \A k \in 1..Len(w) : k \in 1..Len(ops) \/ k = Len(ops) + 1
  BY <1>1
<1>3. /\ entry.source \in Clients \X Nat /\ entry.of \in Clients \X Nat
      /\ entry.of[1] = entry.source[1]
  BY DEF Connections
<1> HIDE DEF w
<1>4. \A k \in 1..Len(w) :
        /\ w[k].source \in Clients \X Nat /\ w[k].of \in Clients \X Nat
        /\ w[k].of[1] = w[k].source[1]
  BY <1>1, <1>2, <1>3 DEF LogInv
<1>5. \A i, j \in 1..Len(w) : w[i].of = w[j].of => i = j
  BY <1>1, <1>2 DEF LogInv
<1> QED
  BY <1>1, <1>4, <1>5 DEF LogInv, w

-----------------------------------------------------------------------------
(* The steps *)

\* A step of one client: what its document, its packets and its messages become.
Becomes(c, d, up, down) ==
  /\ log' = log
  /\ DOMAIN client' = Clients /\ DOMAIN uplink' = Clients /\ DOMAIN downlink' = Clients
  /\ client'[c] = d /\ uplink'[c] = up /\ downlink'[c] = down
  /\ \A b \in Clients \ {c} :
        client'[b] = client[b] /\ uplink'[b] = uplink[b] /\ downlink'[b] = downlink[b]

LEMMA ClientStep ==
  ASSUME OnceInv, NEW c \in Clients, NEW d, NEW up, NEW down,
         Becomes(c, d, up, down), ClientInv(c, d, up, down, log)
  PROVE  OnceInv'
<1>1. \A b \in Clients : ClientInv(b, client'[b], uplink'[b], downlink'[b], log)
  BY DEF OnceInv, Becomes
<1> QED
  BY <1>1 DEF OnceInv, Becomes

LEMMA InitOnce ==
  ASSUME Init
  PROVE  OnceInv
<1>1. IsSeq(log) /\ Len(log) = 0
  BY EmptyIs DEF Init
<1>2. LogInv(log)
  BY <1>1 DEF LogInv
<1>3. ASSUME NEW c \in Clients PROVE ClientInv(c, Opened(c), <<>>, <<>>, log)
  <2> DEFINE d == Opened(c)
             none == <<>>
  <2>1. /\ DOMAIN d = Fields /\ d.version = 0 /\ d.sent = 0 /\ d.link = "ok"
        /\ d.source = <<c, 1>> /\ d.submitted = {} /\ d.inflight = <<>>
        /\ d.timers = {} /\ d.polls = {}
    BY DEF Opened, Fields
  <2>2. IsSeq(none) /\ Len(none) = 0
    BY EmptyIs
  <2> HIDE DEF d, none
  <2>3. Shape(c, d, none, log)
    BY <1>1, <2>1, <2>2 DEF Shape, Connections
  <2>4. Own(c, d, log) /\ Packets(c, d, none, log) /\ Timers(c, d, log) /\ SourcesKept(d, none, log)
    BY <1>1, <2>1, <2>2 DEF Own, Packets, Timers, SourcesKept
  <2>5. Settled(c, d, log)
    BY <1>1, <2>1 DEF Settled, Finished
  <2>6. Feed(d, none, log)
    BY <1>1, <2>1, <2>2 DEF Feed, Follows
  <2> QED
    BY <2>2, <2>3, <2>4, <2>5, <2>6 DEF ClientInv, Core, d, none
<1> QED
  BY <1>2, <1>3 DEF OnceInv, Init

\* The actions by which one client changes.
LEMMA EditOnce ==
  ASSUME OnceInv, NEW c \in Clients, Edit(c)
  PROVE  OnceInv'
<1>1. PICK op : client' = [client EXCEPT ![c] = Submitted(@, op)]
  BY DEF Edit
<1> DEFINE e == Submitted(client[c], op)
<1>2. Becomes(c, e, uplink[c], downlink[c])
  BY <1>1 DEF Becomes, OnceInv, Edit
<1>3. ClientInv(c, client[c], uplink[c], downlink[c], log)
  BY DEF OnceInv
<1>4. Alike(client[c], e)
  BY <1>3, SubmittedIs DEF ClientInv, Core, Shape
<1> HIDE DEF e
<1>5. ClientInv(c, e, uplink[c], downlink[c], log)
  BY <1>3, <1>4, AlikeStep
<1> QED
  BY <1>2, <1>5, ClientStep

LEMMA FlushOnce ==
  ASSUME OnceInv, NEW c \in Clients, Flush(c)
  PROVE  OnceInv'
<1> DEFINE e == Flushed(client[c])
           w == Append(uplink[c], FirstPacket(e))
<1>1. Becomes(c, e, w, downlink[c])
  BY DEF Becomes, OnceInv, Flush, Send
<1>2. ClientInv(c, client[c], uplink[c], downlink[c], log)
  BY DEF OnceInv
<1>3. ClientInv(c, e, w, downlink[c], log)
  BY <1>2, FlushStep DEF Flush
<1> HIDE DEF e, w
<1> QED
  BY <1>1, <1>3, ClientStep

LEMMA RetryOnce ==
  ASSUME OnceInv, NEW c \in Clients, NEW u \in client[c].timers, Retry(c, u)
  PROVE  OnceInv'
<1> DEFINE d == client[c]
           w == Append(uplink[c], Packet(d, u, {d.source} \cup d.submitted))
           e == [d EXCEPT !.timers = @ \ {u}, !.polls = @ \cup {u}]
<1>1. ClientInv(c, d, uplink[c], downlink[c], log)
  BY DEF OnceInv
<1>2. CASE d.link = "ok" /\ Resend(c, u) /\ UNCHANGED client
  <2>1. Becomes(c, d, w, downlink[c])
    BY <1>2 DEF Becomes, OnceInv, Retry, Resend, Send
  <2>2. ClientInv(c, d, w, downlink[c], log)
    BY <1>1, <1>2, ResendStep
  <2> HIDE DEF d, w
  <2> QED
    BY <2>1, <2>2, ClientStep
<1>3. CASE /\ client' = [client EXCEPT ![c].timers = @ \ {u}, ![c].polls = @ \cup {u}]
           /\ UNCHANGED uplink
  <2>1. client' = [client EXCEPT ![c] = e]
    BY <1>3
  <2>2. Becomes(c, e, uplink[c], downlink[c])
    BY <1>3, <2>1 DEF Becomes, OnceInv, Retry
  <2>3. DOMAIN d = Fields
    BY <1>1 DEF ClientInv, Core, Shape
  <2>4. e = [d EXCEPT !.timers = d.timers \ {u}, !.polls = d.polls \cup {u}]
    BY <2>3 DEF Fields
  <2> HIDE DEF d
  <2>5. ClientInv(c, e, uplink[c], downlink[c], log)
    BY <1>1, <2>4, TimersStep DEF d
  <2> HIDE DEF e
  <2> QED
    BY <2>2, <2>5, ClientStep
<1> QED
  BY <1>2, <1>3 DEF Retry

LEMMA PollOnce ==
  ASSUME "stale" \notin Faults, OnceInv, NEW c \in Clients, NEW u \in client[c].polls, Poll(c, u)
  PROVE  OnceInv'
<1> DEFINE d == client[c]
           up == uplink[c]
           down == downlink[c]
<1>1. ClientInv(c, d, up, down, log) /\ DOMAIN d = Fields /\ d.link = "ok"
  BY DEF OnceInv, ClientInv, Core, Shape, Poll
<1>2. CASE client[c].inflight = <<>>
  <2> DEFINE e == [d EXCEPT !.timers = d.timers, !.polls = d.polls \ {u}]
  <2>1. client' = [client EXCEPT ![c].polls = @ \ {u}] /\ UNCHANGED uplink
    BY <1>2 DEF Poll
  <2>2. [d EXCEPT !.polls = @ \ {u}] = e
    BY <1>1 DEF Fields
  <2>3. Becomes(c, e, up, down)
    BY <2>1, <2>2 DEF Becomes, OnceInv, Poll
  <2> HIDE DEF d, up, down
  <2>4. ClientInv(c, e, up, down, log)
    BY <1>1, TimersStep
  <2> HIDE DEF e
  <2> QED
    BY <2>3, <2>4, ClientStep
<1>3. CASE client[c].inflight # <<>>
  <2> DEFINE e == [d EXCEPT !.timers = d.timers \cup {u}, !.polls = d.polls \ {u}]
             w == Append(up, Packet(d, u, {d.source} \cup d.submitted))
  <2>1. /\ client' = [client EXCEPT ![c].polls = @ \ {u}, ![c].timers = @ \cup {u}]
        /\ Resend(c, u) /\ u.of = Sent(d)
    BY <1>3 DEF Poll
  <2>2. [d EXCEPT !.polls = @ \ {u}, !.timers = @ \cup {u}] = e
    BY <1>1 DEF Fields
  <2>3. client' = [client EXCEPT ![c] = e]
    BY <2>1, <2>2
  <2>4. Becomes(c, e, w, down)
    BY <2>1, <2>3 DEF Becomes, OnceInv, Poll, Resend, Send
  <2>5. /\ e.timers = d.timers \cup {u} /\ e.link = "ok" /\ e.source = d.source
        /\ e.submitted = d.submitted
    BY <1>1 DEF Fields
  <2>6. Packet(e, u, {e.source} \cup e.submitted) = Packet(d, u, {d.source} \cup d.submitted)
    BY <2>5 DEF Packet
  <2>7. d.inflight # <<>> /\ u \in d.polls
    BY <1>3
  <2> HIDE DEF d, up, down
  <2>8. ClientInv(c, e, up, down, log)
    BY <1>1, <2>1, <2>7, TimersStep
  <2> HIDE DEF e
  <2>9. ClientInv(c, e, Append(up, Packet(e, u, {e.source} \cup e.submitted)), down, log)
    BY <2>5, <2>8, ResendStep
  <2>10. ClientInv(c, e, w, down, log)
    BY <2>6, <2>9
  <2> HIDE DEF w
  <2> QED
    BY <2>4, <2>10, ClientStep
<1> QED
  BY <1>2, <1>3

LEMMA DeliverOnce ==
  ASSUME OnceInv, NEW c \in Clients, Deliver(c)
  PROVE  /\ OnceInv'
         /\ client[c].link = "ok" => Head(downlink[c]).v <= client[c].version
<1> DEFINE d == client[c]
           up == uplink[c]
           down == downlink[c]
           msg == down[1]
           e == Received(d, msg)
           w == Append(up, FirstPacket(Flushed(e)))
           send == msg.kind = "catchUp" /\ MayFlush(e)
<1>1. ClientInv(c, d, up, down, log) /\ LogInv(log) /\ down # <<>>
  BY DEF OnceInv, Deliver
<1>2. d.link \in {"ok", "read"} /\ IsSeq(down) /\ Head(down) = msg
  <2>1. d.link \in {"ok", "room", "read", "down"} /\ IsSeq(down) /\ Feed(d, down, log)
    BY <1>1 DEF ClientInv, Core, Shape
  <2>2. d.link \notin {"room", "down"}
    BY <1>1, <2>1 DEF Feed
  <2>3. Head(down) = msg
    BY <1>1, <2>1, TailIs
  <2> QED
    BY <2>1, <2>2, <2>3
<1>3. /\ ClientInv(c, e, up, Tail(down), log) /\ e.link = "ok"
      /\ d.link = "ok" => msg.kind # "catchUp" /\ msg.v <= d.version
  <2>1. CASE d.link = "ok"
    <3> HIDE DEF d, up, down
    <3> QED
      BY <1>1, <2>1, HeardStep
  <2>2. CASE d.link = "read"
    <3> HIDE DEF d, up, down
    <3> QED
      BY <1>1, <2>2, CatchUpStep
  <2> QED
    BY <1>2, <2>1, <2>2
<1>4. IF send THEN Becomes(c, Flushed(e), w, Tail(down)) ELSE Becomes(c, e, up, Tail(down))
  <2>1. downlink' = [downlink EXCEPT ![c] = Tail(@)] /\ log' = log
    BY DEF Deliver
  <2>2. IF send THEN client' = [client EXCEPT ![c] = Flushed(e)] /\ Send(c, FirstPacket(Flushed(e)))
        ELSE client' = [client EXCEPT ![c] = e] /\ UNCHANGED uplink
    BY <1>2 DEF Deliver
  <2> HIDE DEF e, send
  <2> QED
    BY <2>1, <2>2 DEF Becomes, OnceInv, Send
<1>5. CASE send
  <2>1. MayFlush(e)
    BY <1>5
  <2> HIDE DEF d, up, down, e
  <2>2. ClientInv(c, Flushed(e), w, Tail(down), log)
    BY <1>3, <2>1, FlushStep
  <2>3. Becomes(c, Flushed(e), w, Tail(down))
    BY <1>4, <1>5
  <2> HIDE DEF w, send
  <2>4. OnceInv'
    BY <2>2, <2>3, ClientStep
  <2> QED
    BY <1>2, <1>3, <2>4 DEF d, down
<1>6. CASE ~send
  <2>1. Becomes(c, e, up, Tail(down))
    BY <1>4, <1>6
  <2> HIDE DEF d, up, down, e, send
  <2>2. OnceInv'
    BY <1>3, <2>1, ClientStep
  <2> QED
    BY <1>2, <1>3, <2>2 DEF d, down
<1> QED
  BY <1>5, <1>6

LEMMA DisconnectOnce ==
  ASSUME OnceInv, NEW c \in Clients, Disconnect(c)
  PROVE  OnceInv'
<1> DEFINE e == Disconnected(client[c])
           none == <<>>
<1>1. PICK n \in 0..Len(uplink[c]) : uplink' = [uplink EXCEPT ![c] = SubSeq(@, 1, n)]
  BY DEF Disconnect
<1> DEFINE w == SubSeq(uplink[c], 1, n)
<1>2. Becomes(c, e, w, none)
  BY <1>1 DEF Becomes, OnceInv, Disconnect
<1>3. ClientInv(c, client[c], uplink[c], downlink[c], log)
  BY DEF OnceInv
<1>4. ClientInv(c, e, w, none, log)
  BY <1>3, DisconnectStep
<1> HIDE DEF e, w, none
<1> QED
  BY <1>2, <1>4, ClientStep

LEMMA RejoinOnce ==
  ASSUME OnceInv, NEW c \in Clients, Rejoin(c)
  PROVE  OnceInv'
<1> DEFINE d == client[c]
           e == [d EXCEPT !.link = "room", !.source[2] = @ + 1, !.from = d.version]
<1>1. ClientInv(c, d, uplink[c], downlink[c], log) /\ d.link = "down"
  BY DEF OnceInv, Rejoin
<1>2. client' = [client EXCEPT ![c].link = "room", ![c].source[2] = @ + 1,
                               ![c].from = client[c].version]
  BY DEF Rejoin
<1>3. client' = [client EXCEPT ![c] = e]
  BY <1>2
<1>4. Becomes(c, e, uplink[c], downlink[c])
  BY <1>3 DEF Becomes, OnceInv, Rejoin
<1> HIDE DEF d
<1>5. ClientInv(c, e, uplink[c], downlink[c], log)
  BY <1>1, RejoinStep
<1> HIDE DEF e
<1> QED
  BY <1>4, <1>5, ClientStep

LEMMA ReadOpsOnce ==
  ASSUME OnceInv, NEW c \in Clients, ReadOps(c)
  PROVE  OnceInv'
<1> DEFINE d == client[c]
           e == [d EXCEPT !.link = "read"]
           msg == [kind |-> "catchUp", v |-> 0, source |-> d.source,
                   op |-> SubSeq(log, d.from + 1, Len(log))]
           w == Append(downlink[c], msg)
<1>1. ClientInv(c, d, uplink[c], downlink[c], log) /\ d.link = "room"
  BY DEF OnceInv, ReadOps
<1>2. client' = [client EXCEPT ![c] = e]
  BY DEF ReadOps
<1>3. downlink' = [downlink EXCEPT ![c] = w] /\ UNCHANGED <<log, uplink>>
  BY DEF ReadOps
<1>4. msg.kind = "catchUp" /\ msg.op = SubSeq(log, d.from + 1, Len(log))
  OBVIOUS
<1> HIDE DEF msg
<1>5. ClientInv(c, e, uplink[c], w, log)
  BY <1>1, <1>4, ReadStep
<1> HIDE DEF e, w
<1>6. Becomes(c, e, uplink[c], w)
  BY <1>2, <1>3 DEF Becomes, OnceInv
<1> QED
  BY <1>5, <1>6, ClientStep

-----------------------------------------------------------------------------
(* The server's step *)

LEMMA DuplicateOnce ==
  ASSUME OnceInv, NEW c \in Clients, uplink[c] # <<>>, client[c].link # "room",
         NEW u, u.v \in 0..Len(log), Repeats(u) # {}, Duplicate(c, u),
         uplink' = [uplink EXCEPT ![c] = Tail(@)], UNCHANGED <<log, client>>
  PROVE  OnceInv'
<1> DEFINE d == client[c]
           up == Tail(uplink[c])
           down == downlink[c]
           first == CHOOSE i \in Repeats(u) : \A j \in Repeats(u) : i <= j
           msg == [kind |-> "ack", v |-> first - 1, op |-> <<>>, source |-> u.source]
           tell == InRoom(c) /\ u.source = client[c].source
<1>1. ClientInv(c, d, uplink[c], down, log) /\ LogInv(log) /\ Len(log) \in Nat
  BY EmptyIs DEF OnceInv, LogInv
<1>2. ClientInv(c, d, up, down, log)
  <2>1. Core(c, d, up, log)
    BY <1>1, DropCore DEF ClientInv
  <2> QED
    BY <1>1, <2>1 DEF ClientInv
<1>3. first \in Repeats(u) /\ first \in 1..Len(log)
  <2>1. Repeats(u) \in SUBSET Nat /\ \A i \in Repeats(u) : i \in 1..Len(log)
    BY <1>1 DEF Repeats
  <2>2. PICK n \in Repeats(u) : \A m \in Nat : m < n => m \notin Repeats(u)
    BY <2>1, LeastNumber
  <2>3. \A j \in Repeats(u) : n <= j
    BY <2>1, <2>2
  <2> QED
    BY <2>1, <2>3
<1>4. msg.kind = "ack" /\ msg.v \in 0..Len(log) - 1
  BY <1>1, <1>3
<1>5. downlink' = [downlink EXCEPT ![c] = IF tell THEN Append(@, msg) ELSE @]
  BY DEF Duplicate
<1> HIDE DEF msg, first
<1>6. CASE tell
  <2>1. d.link \in {"ok", "read"}
    BY <1>6 DEF InRoom
  <2>2. ClientInv(c, d, up, Append(down, msg), log)
    BY <1>2, <1>4, <2>1, ToldStep
  <2>3. Becomes(c, d, up, Append(down, msg))
    BY <1>5, <1>6 DEF Becomes, OnceInv
  <2> HIDE DEF d, up, down
  <2> QED
    BY <2>2, <2>3, ClientStep
<1>7. CASE ~tell
  <2>1. Becomes(c, d, up, down)
    BY <1>5, <1>7 DEF Becomes, OnceInv
  <2> HIDE DEF d, up, down
  <2> QED
    BY <1>2, <2>1, ClientStep
<1> QED
  BY <1>6, <1>7

\* The op is in the log, for its sender and for everybody else.
LEMMA AppliedStep ==
  ASSUME OnceInv, \A b \in Clients : client[b].link # "room",
         NEW c \in Clients, NEW up, uplink[c] = up, up # <<>>,
         NEW u, u = up[1], Repeats(u) = {}, NEW op, Published(u, op),
         log' = Append(log, [op |-> op, source |-> u.source, of |-> u.of]),
         uplink' = [uplink EXCEPT ![c] = Tail(@)], UNCHANGED client
  PROVE  OnceInv'
<1> DEFINE entry == [op |-> op, source |-> u.source, of |-> u.of]
           rest(b) == IF b = c THEN Tail(up) ELSE uplink[b]
           msg(b) == IF u.source = client[b].source
                     THEN [kind |-> "ack", v |-> Len(log), op |-> <<>>, source |-> u.source]
                     ELSE [kind |-> "op", v |-> Len(log), op |-> op, source |-> u.source]
<1>1. entry.source = u.source /\ entry.of = u.of
  OBVIOUS
<1>2. \A b \in Clients : uplink'[b] = rest(b) /\ client'[b] = client[b]
  BY DEF OnceInv
<1>3. \A b \in Clients :
        downlink'[b] = IF client[b].link = "down" THEN downlink[b] ELSE Append(downlink[b], msg(b))
  <2> SUFFICES ASSUME NEW b \in Clients
               PROVE  downlink'[b] = IF client[b].link = "down" THEN downlink[b]
                                     ELSE Append(downlink[b], msg(b))
    OBVIOUS
  <2>1. client[b].link \in {"ok", "read", "down"}
    BY DEF OnceInv, ClientInv, Core, Shape
  <2>2. InRoom(b) <=> client[b].link # "down"
    BY <2>1 DEF InRoom
  <2>3. downlink'[b] = IF ~InRoom(b) THEN downlink[b] ELSE Append(downlink[b], msg(b))
    BY DEF Published
  <2> QED
    BY <2>2, <2>3
<1>4. \A b : /\ msg(b).v = Len(log) /\ msg(b).source = entry.source
             /\ msg(b).kind = IF entry.source = client[b].source THEN "ack" ELSE "op"
  OBVIOUS
<1>5. DOMAIN client' = Clients /\ DOMAIN uplink' = Clients /\ DOMAIN downlink' = Clients
  BY DEF OnceInv, Published
<1>6. log' = Append(log, entry)
  OBVIOUS
<1> HIDE DEF entry, msg
<1>7. /\ Core(c, client[c], Tail(up), Append(log, entry))
      /\ entry.source \in Connections(c) /\ entry.of \in {c} \X Nat
      /\ \A k \in 1..Len(log) : log[k].of # entry.of
  <2>1. Core(c, client[c], up, log)
    BY DEF OnceInv, ClientInv
  <2>2. \A k \in up[1].v + 1..Len(log) : log[k].source \notin up[1].dupIfSource
    BY DEF Repeats
  <2> QED
    BY <1>1, <2>1, <2>2, OwnCore
<1>8. LogInv(log')
  BY <1>6, <1>7, LogGrows DEF OnceInv
<1>9. ASSUME NEW b \in Clients
      PROVE  ClientInv(b, client'[b], uplink'[b], downlink'[b], log')
  <2> DEFINE d == client[b]
             r == rest(b)
             m == msg(b)
  <2>1. ClientInv(b, d, uplink[b], downlink[b], log) /\ d.link # "room"
    BY DEF OnceInv
  <2>2. Core(b, d, r, Append(log, entry))
    <3>1. CASE b = c
      BY <1>7, <3>1
    <3>2. CASE b # c
      <4>1. entry.source[1] # b /\ entry.of[1] # b
        BY <1>7, <3>2 DEF Connections
      <4>2. Core(b, d, uplink[b], log)
        BY <2>1 DEF ClientInv
      <4> QED
        BY <3>2, <4>1, <4>2, OthersCore
    <3> QED
      BY <3>1, <3>2
  <2>3. /\ m.v = Len(log) /\ m.source = entry.source
        /\ m.kind = IF entry.source = d.source THEN "ack" ELSE "op"
    BY <1>4
  <2>4. /\ client'[b] = d /\ uplink'[b] = r
        /\ downlink'[b] = IF d.link = "down" THEN downlink[b] ELSE Append(downlink[b], m)
    BY <1>2, <1>3
  <2> HIDE DEF d, r, m
  <2>5. ClientInv(b, d, r, IF d.link = "down" THEN downlink[b] ELSE Append(downlink[b], m),
                  Append(log, entry))
    BY <2>1, <2>2, <2>3, PublishedStep
  <2> QED
    BY <1>6, <2>4, <2>5
<1> QED
  BY <1>5, <1>8, <1>9 DEF OnceInv

LEMMA ServeOnce ==
  ASSUME "overtake" \notin Faults, OnceInv, NEW c \in Clients, Serve(c)
  PROVE  /\ OnceInv'
         /\ Head(uplink[c]).v <= Len(log)
<1> DEFINE up == uplink[c]
           u == Head(up)
           op == FoldLeft(LAMBDA mine, o : Transform(mine, o.op, "left"), u.op, Since(u))
<1>1. /\ ClientInv(c, client[c], up, downlink[c], log) /\ up # <<>>
      /\ \A b \in Clients : client[b].link # "room"
      /\ uplink' = [uplink EXCEPT ![c] = Tail(@)] /\ UNCHANGED client
  BY DEF OnceInv, Serve
<1>2. u = up[1] /\ u.v \in 0..Len(log)
  <2>1. IsSeq(up) /\ Packets(c, client[c], up, log)
    BY <1>1 DEF ClientInv, Core, Shape
  <2>2. u = up[1] /\ 1 \in 1..Len(up)
    BY <1>1, <2>1, TailIs
  <2> QED
    BY <2>1, <2>2 DEF Packets
<1>3. u.v <= Len(log) /\ ~(u.v > Len(log))
  <2>1. Len(log) \in Nat
    BY EmptyIs DEF OnceInv, LogInv
  <2> QED
    BY <1>2, <2>1
<1> HIDE DEF op
<1>4. \/ UNCHANGED <<log, downlink>>
      \/ Repeats(u) # {} /\ Duplicate(c, u) /\ UNCHANGED log
      \/ /\ Repeats(u) = {} /\ Published(u, op)
         /\ log' = Append(log, [op |-> op, source |-> u.source, of |-> u.of])
  BY <1>3 DEF Serve, op
<1> HIDE DEF u
<1>5. CASE UNCHANGED <<log, downlink>>
  <2> DEFINE rest == Tail(up)
  <2>1. Core(c, client[c], rest, log)
    BY <1>1, DropCore DEF ClientInv
  <2>2. ClientInv(c, client[c], rest, downlink[c], log)
    BY <1>1, <2>1 DEF ClientInv
  <2>3. Becomes(c, client[c], rest, downlink[c])
    BY <1>1, <1>5 DEF Becomes, OnceInv
  <2> HIDE DEF rest
  <2> QED
    BY <1>3, <2>2, <2>3, ClientStep DEF u
<1>6. CASE Repeats(u) # {} /\ Duplicate(c, u) /\ UNCHANGED log
  BY <1>1, <1>2, <1>3, <1>6, DuplicateOnce DEF u
<1>7. CASE /\ Repeats(u) = {} /\ Published(u, op)
           /\ log' = Append(log, [op |-> op, source |-> u.source, of |-> u.of])
  BY <1>1, <1>2, <1>3, <1>7, AppliedStep DEF u
<1> QED
  BY <1>4, <1>5, <1>6, <1>7

-----------------------------------------------------------------------------
(* The theorems *)

LEMMA NextOnce ==
  ASSUME "stale" \notin Faults, "overtake" \notin Faults, OnceInv, [Next]_vars
  PROVE  OnceInv'
<1>1. CASE UNCHANGED vars
  BY <1>1 DEF vars, OnceInv
<1>2. CASE Next
  <2>1. PICK c \in Clients :
          \/ Edit(c) \/ Flush(c) \/ Serve(c) \/ Deliver(c)
          \/ Disconnect(c) \/ Rejoin(c) \/ ReadOps(c)
          \/ \E u \in client[c].timers : Retry(c, u)
          \/ \E u \in client[c].polls : Poll(c, u)
    BY <1>2 DEF Next
  <2>2. CASE Edit(c)
    BY <2>2, EditOnce
  <2>3. CASE Flush(c)
    BY <2>3, FlushOnce
  <2>4. CASE Serve(c)
    BY <2>4, ServeOnce
  <2>5. CASE Deliver(c)
    BY <2>5, DeliverOnce
  <2>6. CASE Disconnect(c)
    BY <2>6, DisconnectOnce
  <2>7. CASE Rejoin(c)
    BY <2>7, RejoinOnce
  <2>8. CASE ReadOps(c)
    BY <2>8, ReadOpsOnce
  <2>9. CASE \E u \in client[c].timers : Retry(c, u)
    BY <2>9, RetryOnce
  <2>10. CASE \E u \in client[c].polls : Poll(c, u)
    BY <2>10, PollOnce
  <2> QED
    BY <2>1, <2>2, <2>3, <2>4, <2>5, <2>6, <2>7, <2>8, <2>9, <2>10
<1> QED
  BY <1>1, <1>2

\* The inductive invariant: each packet of an op but its first names every connection
\* that the op was sent on before it; these are what the client remembers; and the
\* messages to a client are the versions from its own on, each of them once
\* (flush, retryOp, _onMessage, applyUpdate's dupIfSource).
THEOREM OnceInvariant ==
  ASSUME "stale" \notin Faults, "overtake" \notin Faults
  PROVE  Spec => []OnceInv
<1>1. Init => OnceInv
  BY InitOnce
<1>2. OnceInv /\ [Next]_vars => OnceInv'
  BY NextOnce
<1> QED
  BY <1>1, <1>2, PTL DEF Spec

\* No op is applied twice, however often it is sent and on whatever connections, by
\* any number of clients, unless a retry outlives its op or ops come between a
\* client's room and its document (inflightSubmittedIds, dupIfSource).
THEOREM AppliedOnceAlways ==
  ASSUME "stale" \notin Faults, "overtake" \notin Faults
  PROVE  Spec => []AppliedOnce
<1>1. OnceInv => AppliedOnce
  <2> SUFFICES ASSUME OnceInv PROVE AppliedOnce
    OBVIOUS
  <2>1. PICK S : log \in Seq(S)
    BY DEF OnceInv, LogInv, IsSeq
  <2>2. DOMAIN log = 1..Len(log)
    BY <2>1
  <2> QED
    BY <2>2 DEF AppliedOnce, OnceInv, LogInv
<1> QED
  BY <1>1, OnceInvariant, PTL

\* An op that a client no longer has in flight is in the document's history, in one
\* place, and the client's version is past it: what a user typed is neither given up
\* nor acknowledged before the server has it (_onMessage, catchUp).
NoneForgotten ==
  \A c \in Clients : \A n \in 1..client[c].sent :
    (n = client[c].sent => client[c].inflight = <<>>) =>
      \E k \in 1..client[c].version :
         \A i \in 1..Len(log) : log[i].of = <<c, n>> <=> i = k

THEOREM NoneForgottenAlways ==
  ASSUME "stale" \notin Faults, "overtake" \notin Faults
  PROVE  Spec => []NoneForgotten
<1>1. OnceInv => NoneForgotten
  <2> SUFFICES ASSUME OnceInv, NEW c \in Clients, NEW n \in 1..client[c].sent,
                      n = client[c].sent => client[c].inflight = <<>>
               PROVE  \E k \in 1..client[c].version :
                         \A i \in 1..Len(log) : log[i].of = <<c, n>> <=> i = k
    BY DEF NoneForgotten
  <2>1. Core(c, client[c], uplink[c], log)
    BY DEF OnceInv, ClientInv
  <2>2. client[c].sent \in Nat /\ client[c].version \in 0..Len(log) /\ Len(log) \in Nat
    BY <2>1, EmptyIs DEF Core, Shape
  <2>3. Finished(client[c], n) /\ n \in Nat
    BY <2>2 DEF Finished
  <2>4. PICK k \in 1..client[c].version : log[k].of = <<c, n>>
    BY <2>1, <2>3 DEF Core, Settled
  <2>5. k \in 1..Len(log)
    BY <2>2
  <2> QED
    BY <2>4, <2>5 DEF OnceInv, LogInv
<1> QED
  BY <1>1, OnceInvariant, PTL

\* Versions fit: no client is ahead of the document, no update is of a version that is
\* not there yet, and no message is ahead of the browser that takes it, nor does one
\* that was missed make the next too new ("Op at future version", the versions
\* _onMessage expects). What is left of NeverRefused is the text.
VersionsFit ==
  \A c \in Clients :
    /\ client[c].version <= Len(log)
    /\ \A i \in 1..Len(uplink[c]) : uplink[c][i].v <= Len(log)
    /\ client[c].link = "ok" /\ downlink[c] # <<>> => Head(downlink[c]).v <= client[c].version

THEOREM VersionsFitAlways ==
  ASSUME "stale" \notin Faults, "overtake" \notin Faults
  PROVE  Spec => []VersionsFit
<1>1. OnceInv => VersionsFit
  <2> SUFFICES ASSUME OnceInv, NEW c \in Clients
               PROVE  /\ client[c].version <= Len(log)
                      /\ \A i \in 1..Len(uplink[c]) : uplink[c][i].v <= Len(log)
                      /\ client[c].link = "ok" /\ downlink[c] # <<>> =>
                            Head(downlink[c]).v <= client[c].version
    BY DEF VersionsFit
  <2> DEFINE d == client[c]
             down == downlink[c]
  <2>1. /\ Core(c, d, uplink[c], log) /\ IsSeq(down) /\ IsSeq(log)
        /\ d.link = "ok" => Follows(down, 0, d.version, d.source, log)
    BY DEF OnceInv, ClientInv, Feed, LogInv
  <2>2. d.version \in 0..Len(log) /\ Len(log) \in Nat
    BY <2>1, EmptyIs DEF Core, Shape
  <2>3. \A i \in 1..Len(uplink[c]) : uplink[c][i].v \in 0..Len(log)
    BY <2>1 DEF Core, Packets
  <2> HIDE DEF d, down
  <2>4. d.link = "ok" /\ down # <<>> => down[1].v <= d.version /\ Head(down) = down[1]
    BY <2>1, FollowsNext, TailIs
  <2> QED
    BY <2>2, <2>3, <2>4 DEF d, down
<1> QED
  BY <1>1, OnceInvariant, PTL


-----------------------------------------------------------------------------
(* One component of an op over one of another *)

AnyText == Seq(Nat)

\* text holds s after its first p characters.
At(text, s, p) == p + Len(s) <= Len(text) /\ \A k \in 1..Len(s) : text[p + k] = s[k]

\* r is text with s after its first p characters, or without the n that are there.
Inserted(text, s, p, r) ==
  /\ r \in AnyText /\ Len(r) = Len(text) + Len(s)
  /\ \A k \in 1..Len(r) : r[k] = IF k <= p THEN text[k]
                                ELSE IF k <= p + Len(s) THEN s[k - p] ELSE text[k - Len(s)]

Deleted(text, n, p, r) ==
  /\ r \in AnyText /\ Len(r) = Len(text) - n
  /\ \A k \in 1..Len(r) : r[k] = IF k <= p THEN text[k] ELSE text[k + n]

LEMMA SameText ==
  ASSUME NEW s \in AnyText, NEW r \in AnyText, Len(s) = Len(r), \A k \in 1..Len(s) : s[k] = r[k]
  PROVE  s = r
BY DEF AnyText

LEMMA EmptyText ==
  ASSUME NEW s \in AnyText
  PROVE  Len(s) \in Nat /\ (Len(s) = 0 <=> s = <<>>) /\ <<>> \in AnyText
<1>1. <<>> \in AnyText /\ Len(<<>>) = 0
  BY DEF AnyText
<1>2. Len(s) = 0 => s = <<>>
  BY <1>1, SameText DEF AnyText
<1> QED
  BY <1>1, <1>2 DEF AnyText

LEMMA SliceIs ==
  ASSUME NEW s \in AnyText, NEW a \in Nat, NEW b \in Nat, a <= b, b <= Len(s)
  PROVE  /\ Slice(s, a, b) \in AnyText
         /\ Len(Slice(s, a, b)) = b - a
         /\ \A k \in 1..b - a : Slice(s, a, b)[k] = s[a + k]
<1>1. Lesser(b, Len(s)) = b /\ Len(s) \in Nat
  BY DEF Lesser, AnyText
<1> QED
  BY <1>1 DEF Slice, AnyText

LEMMA SliceBeyond ==
  ASSUME NEW s \in AnyText, NEW a \in Nat, NEW b \in Nat, a >= Len(s)
  PROVE  Len(Slice(s, a, b)) = 0
<1>1. Lesser(b, Len(s)) \in Int /\ Lesser(b, Len(s)) <= Len(s) /\ Len(s) \in Nat
  BY DEF Lesser, AnyText
<1> DEFINE m == Lesser(b, Len(s))
<1> HIDE DEF m
<1> QED
  BY <1>1 DEF Slice, m, AnyText

LEMMA FromIs ==
  ASSUME NEW s \in AnyText, NEW a \in 0..Len(s)
  PROVE  /\ From(s, a) \in AnyText
         /\ Len(From(s, a)) = Len(s) - a
         /\ \A k \in 1..Len(s) - a : From(s, a)[k] = s[a + k]
BY DEF From, AnyText

LEMMA JoinedIs ==
  ASSUME NEW s \in AnyText, NEW r \in AnyText
  PROVE  /\ s \o r \in AnyText /\ Len(s \o r) = Len(s) + Len(r)
         /\ \A k \in 1..Len(s) + Len(r) :
              (s \o r)[k] = IF k <= Len(s) THEN s[k] ELSE r[k - Len(s)]
BY DEF AnyText

LEMMA InsertIs ==
  ASSUME Failed \notin AnyText, NEW text \in AnyText, NEW s \in AnyText, NEW p \in 0..Len(text)
  PROVE  Inserted(text, s, p, ApplyComponent(text, Insert(s, p)))
<1> DEFINE a == Slice(text, 0, p)
           b == From(text, p)
           r == a \o s \o b
<1>1. ApplyComponent(text, Insert(s, p)) = r
  BY DEF ApplyComponent, Insert, StrInject
<1>2. p \in Nat /\ Len(text) \in Nat /\ Len(s) \in Nat /\ 0 \in Nat /\ 0 <= p /\ p <= Len(text)
  BY DEF AnyText
<1>3. a \in AnyText /\ Len(a) = p /\ \A k \in 1..p : a[k] = text[k]
  <2>1. /\ a \in AnyText /\ Len(a) = p - 0
        /\ \A k \in 1..p - 0 : a[k] = text[0 + k]
    BY <1>2, SliceIs, Zenon
  <2> HIDE DEF a
  <2> QED
    BY <1>2, <2>1
<1>4. b \in AnyText /\ Len(b) = Len(text) - p /\ \A k \in 1..Len(text) - p : b[k] = text[p + k]
  BY FromIs
<1> HIDE DEF a, b
<1>5. /\ a \o s \in AnyText /\ Len(a \o s) = p + Len(s)
      /\ \A k \in 1..p + Len(s) : (a \o s)[k] = IF k <= p THEN a[k] ELSE s[k - p]
  BY <1>3, JoinedIs
<1> DEFINE as == a \o s
<1> HIDE DEF as
<1>6. /\ r \in AnyText /\ Len(r) = p + Len(s) + (Len(text) - p)
      /\ \A k \in 1..p + Len(s) + (Len(text) - p) :
            r[k] = IF k <= p + Len(s) THEN (a \o s)[k] ELSE b[k - (p + Len(s))]
  <2>1. as \in AnyText /\ Len(as) = p + Len(s)
    BY <1>5 DEF as
  <2>2. /\ as \o b \in AnyText /\ Len(as \o b) = Len(as) + Len(b)
        /\ \A k \in 1..Len(as) + Len(b) :
              (as \o b)[k] = IF k <= Len(as) THEN as[k] ELSE b[k - Len(as)]
    BY <1>4, <2>1, JoinedIs
  <2> QED
    BY <1>4, <2>1, <2>2 DEF as
<1> HIDE DEF r
<1>7. Inserted(text, s, p, r)
  <2>1. r \in AnyText /\ Len(r) = Len(text) + Len(s)
    BY <1>2, <1>6
  <2>2. ASSUME NEW k \in 1..Len(r)
        PROVE  r[k] = IF k <= p THEN text[k]
                      ELSE IF k <= p + Len(s) THEN s[k - p] ELSE text[k - Len(s)]
    <3>1. /\ k \in 1..p + Len(s) + (Len(text) - p)
          /\ r[k] = IF k <= p + Len(s) THEN (a \o s)[k] ELSE b[k - (p + Len(s))]
      BY <1>2, <1>6, <2>1
    <3>2. CASE k <= p + Len(s)
      BY <1>2, <1>3, <1>5, <3>1, <3>2
    <3>3. CASE k > p + Len(s)
      <4>1. /\ k - (p + Len(s)) \in 1..Len(text) - p /\ p + (k - (p + Len(s))) = k - Len(s)
            /\ ~ k <= p /\ ~ k <= p + Len(s)
        BY <1>2, <3>1, <3>3
      <4> QED
        BY <1>4, <3>1, <4>1
    <3> QED
      BY <1>2, <3>2, <3>3
  <2> QED
    BY <2>1, <2>2 DEF Inserted
<1> QED
  BY <1>1, <1>7

LEMMA DeleteIs ==
  ASSUME Failed \notin AnyText, NEW text \in AnyText, NEW s \in AnyText, s # <<>>, NEW p \in Nat
  PROVE  LET r == ApplyComponent(text, Delete(s, p))
         IN (r # Failed <=> At(text, s, p)) /\ (r # Failed => Deleted(text, Len(s), p, r))
<1> DEFINE n == Len(s)
           r == ApplyComponent(text, Delete(s, p))
           there == Slice(text, p, p + n)
           a == Slice(text, 0, p)
           b == From(text, p + n)
<1>1. r = IF there = s THEN a \o b ELSE Failed
  BY DEF ApplyComponent, Delete, End
<1>2. n \in Nat \ {0} /\ Len(text) \in Nat
  BY EmptyText
<1>3. CASE p + n > Len(text)
  <2>1. Len(there) < n
    <3>1. CASE p >= Len(text)
      BY <1>2, <3>1, SliceBeyond
    <3>2. CASE p < Len(text)
      <4>1. p \in 0..Len(text) /\ p + n \in Nat /\ p <= p + n
            /\ Lesser(p + n, Len(text)) = Len(text)
        BY <1>2, <1>3, <3>2 DEF Lesser
      <4>2. there = Slice(text, p, Len(text)) /\ p <= Len(text)
              /\ Len(text) \in Nat /\ Len(text) <= Len(text)
        BY <1>2, <3>2, <4>1 DEF Slice, Lesser
      <4>3. Len(there) = Len(text) - p
        BY <1>2, <4>2, SliceIs, Zenon
      <4> QED
        BY <1>2, <1>3, <3>2, <4>3
    <3> QED
      BY <1>2, <3>1, <3>2
  <2>2. there # s
    BY <1>2, <2>1
  <2>3. ~ At(text, s, p)
    BY <1>2, <1>3 DEF At
  <2> QED
    BY <1>1, <2>2, <2>3
<1>4. CASE p + n <= Len(text)
  <2>1. /\ p + n \in 0..Len(text) /\ p + n \in Nat /\ p <= p + n /\ p <= Len(text)
        /\ 0 \in Nat /\ 0 <= p
    BY <1>2, <1>4
  <2>2. there \in AnyText /\ Len(there) = n /\ \A k \in 1..n : there[k] = text[p + k]
    <3>1. there \in AnyText /\ Len(there) = (p + n) - p
          /\ \A k \in 1..(p + n) - p : there[k] = text[p + k]
      BY <1>2, <1>4, <2>1, SliceIs, Zenon
    <3> HIDE DEF there
    <3>2. (p + n) - p = n
      BY <1>2
    <3> QED
      BY <3>1, <3>2
  <2>3. a \in AnyText /\ Len(a) = p /\ \A k \in 1..p : a[k] = text[k]
    <3>1. /\ a \in AnyText /\ Len(a) = p - 0
          /\ \A k \in 1..p - 0 : a[k] = text[0 + k]
      BY <2>1, SliceIs, Zenon
    <3> HIDE DEF a
    <3> QED
      BY <2>1, <3>1
  <2>4. /\ b \in AnyText /\ Len(b) = Len(text) - (p + n)
        /\ \A k \in 1..Len(text) - (p + n) : b[k] = text[p + n + k]
    BY <2>1, FromIs
  <2> HIDE DEF there, a, b
  <2>5. /\ a \o b \in AnyText /\ Len(a \o b) = p + (Len(text) - (p + n))
        /\ \A k \in 1..p + (Len(text) - (p + n)) :
              (a \o b)[k] = IF k <= p THEN a[k] ELSE b[k - p]
    <3>1. /\ a \o b \in AnyText /\ Len(a \o b) = Len(a) + Len(b)
          /\ \A k \in 1..Len(a) + Len(b) :
                (a \o b)[k] = IF k <= Len(a) THEN a[k] ELSE b[k - Len(a)]
      BY <2>3, <2>4, JoinedIs, Zenon
    <3> QED
      BY <2>3, <2>4, <3>1, Zenon
  <2>6. Deleted(text, n, p, a \o b)
    <3> DEFINE ab == a \o b
    <3> HIDE DEF ab
    <3>1. Deleted(text, n, p, ab)
      BY <1>2, <1>4, <2>3, <2>4, <2>5 DEF ab, Deleted
    <3> QED
      BY <3>1 DEF ab
  <2>7. there = s <=> At(text, s, p)
    <3>1. there = s => At(text, s, p)
      BY <1>4, <2>2 DEF At
    <3>2. At(text, s, p) => there = s
      BY <2>2, SameText DEF At
    <3> QED
      BY <3>1, <3>2
  <2>8. a \o b # Failed
    BY <2>5
  <2> QED
    BY <1>1, <2>6, <2>7, <2>8
<1> QED
  BY <1>2, <1>3, <1>4

\* The folds of sequences of at most two are written out.
LEMMA MaxOfTwo ==
  Max({1}) = 1 /\ Max({2}) = 2 /\ Max({1, 2}) = 2
<1>1. \A s \in SUBSET (1..2) : s # {} => Max(s) \in s /\ \A y \in s : y <= Max(s)
  BY Greatest
<1>2. {1} \in SUBSET (1..2) /\ {2} \in SUBSET (1..2) /\ {1, 2} \in SUBSET (1..2)
  OBVIOUS
<1> QED
  BY <1>1, <1>2

LEMMA SubsetsOfTwo ==
  ASSUME NEW q, Len(q) \in 0..2, DOMAIN q = 1..Len(q)
  PROVE  /\ \A s \in SUBSET DOMAIN q : s \in {{}, {1}, {2}, {1, 2}}
         /\ Len(q) = 0 => DOMAIN q = {}
         /\ Len(q) = 1 => DOMAIN q = {1}
         /\ Len(q) = 2 => DOMAIN q = {1, 2}
<1>1. DOMAIN q \subseteq {1, 2}
  OBVIOUS
<1>2. \A s \in SUBSET {1, 2} : s \in {{}, {1}, {2}, {1, 2}}
  OBVIOUS
<1> QED
  BY <1>1, <1>2

LEMMA ApplyIs ==
  ASSUME NEW text, NEW q, Len(q) \in 0..2, DOMAIN q = 1..Len(q)
  PROVE  /\ Len(q) = 0 => Apply(text, q) = text
         /\ Len(q) = 1 => Apply(text, q) = ApplyComponent(text, q[1])
         /\ Len(q) = 2 => Apply(text, q) = ApplyComponent(ApplyComponent(text, q[1]), q[2])
<1> DEFINE Folds(h) == h = [s \in SUBSET DOMAIN q |->
              IF s = {} THEN text ELSE ApplyComponent(h[s \ {Max(s)}], q[Max(s)])]
           j == CHOOSE h : Folds(h)
           i == [s \in SUBSET DOMAIN q |->
                  IF s = {} THEN text
                  ELSE IF s = {1} THEN ApplyComponent(text, q[1])
                  ELSE IF s = {2} THEN ApplyComponent(text, q[2])
                  ELSE ApplyComponent(ApplyComponent(text, q[1]), q[2])]
<1>1. Apply(text, q) = j[DOMAIN q]
  BY DEF Apply, FoldLeft, MapThenFoldSet
<1>2. Folds(i)
  <2>1. ASSUME NEW s \in SUBSET DOMAIN q
        PROVE  i[s] = IF s = {} THEN text ELSE ApplyComponent(i[s \ {Max(s)}], q[Max(s)])
    <3>0. s \in {{}, {1}, {2}, {1, 2}} /\ {} \in SUBSET DOMAIN q
      BY SubsetsOfTwo
    <3>1. CASE s = {}
      BY <3>1
    <3>2. CASE s = {1}
      <4>1. Max(s) = 1 /\ s \ {1} = {}
        BY <3>2, MaxOfTwo
      <4>2. i[s] = ApplyComponent(text, q[1]) /\ i[{}] = text
        BY <3>0, <3>2
      <4> HIDE DEF i
      <4> QED
        BY <3>2, <4>1, <4>2
    <3>3. CASE s = {2}
      <4>1. Max(s) = 2 /\ s \ {2} = {}
        BY <3>3, MaxOfTwo
      <4>2. i[s] = ApplyComponent(text, q[2]) /\ i[{}] = text
        BY <3>0, <3>3
      <4> HIDE DEF i
      <4> QED
        BY <3>3, <4>1, <4>2
    <3>4. CASE s = {1, 2}
      <4>1. Max(s) = 2 /\ s \ {2} = {1} /\ {1} \in SUBSET DOMAIN q
        BY <3>4, MaxOfTwo
      <4>2. /\ i[s] = ApplyComponent(ApplyComponent(text, q[1]), q[2])
            /\ i[{1}] = ApplyComponent(text, q[1])
        BY <3>4, <4>1
      <4> HIDE DEF i
      <4> QED
        BY <3>4, <4>1, <4>2
    <3> QED
      BY <3>0, <3>1, <3>2, <3>3, <3>4
  <2> QED
    BY <2>1
<1>3. Folds(j)
  <2> HIDE DEF Folds
  <2> QED
    BY <1>2
<1>4. \A s \in SUBSET DOMAIN q :
        j[s] = IF s = {} THEN text ELSE ApplyComponent(j[s \ {Max(s)}], q[Max(s)])
  BY <1>3
<1> HIDE DEF j, Folds
<1>5. j[{}] = text
  BY <1>4
<1>6. Len(q) = 1 => j[DOMAIN q] = ApplyComponent(text, q[1])
  <2> SUFFICES ASSUME Len(q) = 1 PROVE j[DOMAIN q] = ApplyComponent(text, q[1])
    OBVIOUS
  <2>1. DOMAIN q = {1} /\ Max({1}) = 1 /\ {1} \ {1} = {} /\ {1} # {}
    BY SubsetsOfTwo, MaxOfTwo
  <2> QED
    BY <1>4, <1>5, <2>1
<1>7. Len(q) = 2 => j[DOMAIN q] = ApplyComponent(ApplyComponent(text, q[1]), q[2])
  <2> SUFFICES ASSUME Len(q) = 2
               PROVE  j[DOMAIN q] = ApplyComponent(ApplyComponent(text, q[1]), q[2])
    OBVIOUS
  <2>1. /\ DOMAIN q = {1, 2} /\ Max({1}) = 1 /\ {1} \ {1} = {} /\ {1} # {}
        /\ Max({1, 2}) = 2 /\ {1, 2} \ {2} = {1} /\ {1, 2} # {}
    BY SubsetsOfTwo, MaxOfTwo
  <2>2. j[{1}] = ApplyComponent(text, q[1])
    BY <1>4, <1>5, <2>1
  <2> QED
    BY <1>4, <2>1, <2>2
<1> QED
  BY <1>1, <1>5, <1>6, <1>7, SubsetsOfTwo
LEMMA ComposeIs ==
  ASSUME NEW op, NEW q, Len(q) \in 0..2, DOMAIN q = 1..Len(q)
  PROVE  /\ Len(q) = 0 => Compose(op, q) = op
         /\ Len(q) = 1 => Compose(op, q) = AppendTo(op, q[1])
         /\ Len(q) = 2 => Compose(op, q) = AppendTo(AppendTo(op, q[1]), q[2])
<1> DEFINE Folds(h) == h = [s \in SUBSET DOMAIN q |->
              IF s = {} THEN op ELSE AppendTo(h[s \ {Max(s)}], q[Max(s)])]
           j == CHOOSE h : Folds(h)
           i == [s \in SUBSET DOMAIN q |->
                  IF s = {} THEN op
                  ELSE IF s = {1} THEN AppendTo(op, q[1])
                  ELSE IF s = {2} THEN AppendTo(op, q[2])
                  ELSE AppendTo(AppendTo(op, q[1]), q[2])]
<1>1. Compose(op, q) = j[DOMAIN q]
  BY DEF Compose, FoldLeft, MapThenFoldSet
<1>2. Folds(i)
  <2>1. ASSUME NEW s \in SUBSET DOMAIN q
        PROVE  i[s] = IF s = {} THEN op ELSE AppendTo(i[s \ {Max(s)}], q[Max(s)])
    <3>0. s \in {{}, {1}, {2}, {1, 2}} /\ {} \in SUBSET DOMAIN q
      BY SubsetsOfTwo
    <3>1. CASE s = {}
      BY <3>1
    <3>2. CASE s = {1}
      <4>1. Max(s) = 1 /\ s \ {1} = {}
        BY <3>2, MaxOfTwo
      <4>2. i[s] = AppendTo(op, q[1]) /\ i[{}] = op
        BY <3>0, <3>2
      <4> HIDE DEF i
      <4> QED
        BY <3>2, <4>1, <4>2
    <3>3. CASE s = {2}
      <4>1. Max(s) = 2 /\ s \ {2} = {}
        BY <3>3, MaxOfTwo
      <4>2. i[s] = AppendTo(op, q[2]) /\ i[{}] = op
        BY <3>0, <3>3
      <4> HIDE DEF i
      <4> QED
        BY <3>3, <4>1, <4>2
    <3>4. CASE s = {1, 2}
      <4>1. Max(s) = 2 /\ s \ {2} = {1} /\ {1} \in SUBSET DOMAIN q
        BY <3>4, MaxOfTwo
      <4>2. /\ i[s] = AppendTo(AppendTo(op, q[1]), q[2])
            /\ i[{1}] = AppendTo(op, q[1])
        BY <3>4, <4>1
      <4> HIDE DEF i
      <4> QED
        BY <3>4, <4>1, <4>2
    <3> QED
      BY <3>0, <3>1, <3>2, <3>3, <3>4
  <2> QED
    BY <2>1
<1>3. Folds(j)
  <2> HIDE DEF Folds
  <2> QED
    BY <1>2
<1>4. \A s \in SUBSET DOMAIN q :
        j[s] = IF s = {} THEN op ELSE AppendTo(j[s \ {Max(s)}], q[Max(s)])
  BY <1>3
<1> HIDE DEF j, Folds
<1>5. j[{}] = op
  BY <1>4
<1>6. Len(q) = 1 => j[DOMAIN q] = AppendTo(op, q[1])
  <2> SUFFICES ASSUME Len(q) = 1 PROVE j[DOMAIN q] = AppendTo(op, q[1])
    OBVIOUS
  <2>1. DOMAIN q = {1} /\ Max({1}) = 1 /\ {1} \ {1} = {} /\ {1} # {}
    BY SubsetsOfTwo, MaxOfTwo
  <2> QED
    BY <1>4, <1>5, <2>1
<1>7. Len(q) = 2 => j[DOMAIN q] = AppendTo(AppendTo(op, q[1]), q[2])
  <2> SUFFICES ASSUME Len(q) = 2
               PROVE  j[DOMAIN q] = AppendTo(AppendTo(op, q[1]), q[2])
    OBVIOUS
  <2>1. /\ DOMAIN q = {1, 2} /\ Max({1}) = 1 /\ {1} \ {1} = {} /\ {1} # {}
        /\ Max({1, 2}) = 2 /\ {1, 2} \ {2} = {1} /\ {1, 2} # {}
    BY SubsetsOfTwo, MaxOfTwo
  <2>2. j[{1}] = AppendTo(op, q[1])
    BY <1>4, <1>5, <2>1
  <2> QED
    BY <1>4, <2>1, <2>2
<1> QED
  BY <1>1, <1>5, <1>6, <1>7, SubsetsOfTwo
\* What a component becomes.
LEMMA AppendToNothing ==
  ASSUME NEW c, c.kind = "clash" \/ c.s # <<>>
  PROVE  AppendTo(<<>>, c) = <<c>>
BY DEF AppendTo

LEMMA InsertOver ==
  ASSUME NEW s, s # <<>>, NEW p, NEW other, other.kind \in {"i", "d"}, NEW side
  PROVE  TransformComponent(<<>>, Insert(s, p), other, side)
           = <<Insert(s, TransformPosition(p, other, side = "right"))>>
<1> DEFINE r == Insert(s, TransformPosition(p, other, side = "right"))
<1>1. /\ Insert(s, p).kind = "i" /\ Insert(s, p).s = s /\ Insert(s, p).p = p
      /\ r.s = s
  BY DEF Insert
<1>2. AppendTo(<<>>, r) = <<r>>
  BY <1>1, AppendToNothing
<1> HIDE DEF r
<1>3. TransformComponent(<<>>, Insert(s, p), other, side) = AppendTo(<<>>, r)
  BY <1>1 DEF TransformComponent, r
<1> QED
  BY <1>2, <1>3 DEF r

LEMMA ApplyOne ==
  ASSUME NEW text, NEW c
  PROVE  Apply(text, <<c>>) = ApplyComponent(text, c) /\ Apply(text, <<>>) = text
<1>1. Len(<<c>>) = 1 /\ DOMAIN <<c>> = 1..1 /\ <<c>>[1] = c
  OBVIOUS
<1>2. Len(<<>>) = 0 /\ DOMAIN <<>> = 1..0
  OBVIOUS
<1> DEFINE q == <<c>>
<1> HIDE DEF q
<1>3. Len(q) = 1 => Apply(text, q) = ApplyComponent(text, q[1])
  <2>1. Len(q) \in 0..2 /\ DOMAIN q = 1..Len(q)
    BY <1>1 DEF q
  <2> QED
    BY <2>1, ApplyIs
<1> QED
  BY <1>1, <1>2, <1>3, ApplyIs DEF q

LEMMA ApplyTwo ==
  ASSUME NEW text, NEW c, NEW d
  PROVE  Apply(text, <<c, d>>) = ApplyComponent(ApplyComponent(text, c), d)
<1> DEFINE q == <<c, d>>
<1>1. Len(q) = 2 /\ Len(q) \in 0..2 /\ DOMAIN q = 1..Len(q) /\ q[1] = c /\ q[2] = d
  OBVIOUS
<1> HIDE DEF q
<1>2. Apply(text, q) = ApplyComponent(ApplyComponent(text, c), d)
  BY <1>1, ApplyIs
<1> QED
  BY <1>2 DEF q

LEMMA ComposeTwo ==
  ASSUME NEW op, NEW c, NEW d
  PROVE  Compose(op, <<c, d>>) = AppendTo(AppendTo(op, c), d)
<1> DEFINE q == <<c, d>>
<1>1. Len(q) = 2 /\ Len(q) \in 0..2 /\ DOMAIN q = 1..Len(q) /\ q[1] = c /\ q[2] = d
  OBVIOUS
<1> HIDE DEF q
<1>2. Compose(op, q) = AppendTo(AppendTo(op, c), d)
  BY <1>1, ComposeIs
<1> QED
  BY <1>2 DEF q


LEMMA LenIs ==
  ASSUME NEW s \in AnyText
  PROVE  Len(s) \in Nat /\ (s # <<>> => Len(s) \in Nat \ {0})
BY EmptyText

\* Either component and then the other over it gives the same text.
Converge(text, c, d, side, otherSide) ==
  LET x == Apply(Apply(text, <<c>>), TransformComponent(<<>>, d, c, side))
  IN x \in AnyText /\ x = Apply(Apply(text, <<d>>), TransformComponent(<<>>, c, d, otherSide))

\* Two inserts: the one before moves the one after.
LEMMA InsertedTwice ==
  ASSUME NEW text \in AnyText, NEW s \in AnyText, NEW r \in AnyText,
         NEW p \in Nat, NEW q \in Nat, p <= q, q <= Len(text), NEW a, NEW b, NEW x, NEW y,
         Inserted(text, s, p, a), Inserted(a, r, q + Len(s), x),
         Inserted(text, r, q, b), Inserted(b, s, p, y)
  PROVE  x = y
<1> DEFINE n == Len(s)
           m == Len(r)
<1>1. n \in Nat /\ m \in Nat /\ Len(text) \in Nat
  BY LenIs
<1>2. /\ a \in AnyText /\ b \in AnyText /\ x \in AnyText /\ y \in AnyText
      /\ Len(a) = Len(text) + n /\ Len(b) = Len(text) + m
      /\ Len(x) = Len(text) + n + m /\ Len(y) = Len(text) + n + m
  BY <1>1 DEF Inserted
<1>3. ASSUME NEW k \in 1..Len(text) + n + m PROVE x[k] = y[k]
  <2>1. /\ x[k] = IF k <= q + n THEN a[k] ELSE IF k <= (q + n) + m THEN r[k - (q + n)] ELSE a[k - m]
        /\ y[k] = IF k <= p THEN b[k] ELSE IF k <= p + n THEN s[k - p] ELSE b[k - n]
    BY <1>2 DEF Inserted
  <2>2. ASSUME NEW i \in 1..Len(text) + n
        PROVE  a[i] = IF i <= p THEN text[i] ELSE IF i <= p + n THEN s[i - p] ELSE text[i - n]
    BY <1>2 DEF Inserted
  <2>3. ASSUME NEW i \in 1..Len(text) + m
        PROVE  b[i] = IF i <= q THEN text[i] ELSE IF i <= q + m THEN r[i - q] ELSE text[i - m]
    BY <1>2 DEF Inserted
  <2> HIDE DEF n, m
  <2>4. CASE k <= p
    BY <1>1, <2>1, <2>2, <2>3, <2>4
  <2>5. CASE k > p /\ k <= p + n
    BY <1>1, <2>1, <2>2, <2>5
  <2>6. CASE k > p + n /\ k <= q + n
    BY <1>1, <2>1, <2>2, <2>3, <2>6
  <2>7. CASE k > q + n /\ k <= q + n + m
    <3>1. x[k] = r[k - (q + n)]
      BY <1>1, <2>1, <2>7
    <3>2. y[k] = b[k - n]
      BY <1>1, <2>1, <2>7
    <3>3. k - n \in 1..Len(text) + m /\ k - n > q /\ k - n <= q + m /\ (k - n) - q = k - (q + n)
      BY <1>1, <2>7
    <3> QED
      BY <2>3, <3>1, <3>2, <3>3
  <2>8. CASE k > q + n + m
    <3>1. x[k] = a[k - m] /\ y[k] = b[k - n]
      BY <1>1, <2>1, <2>8
    <3>2. /\ k - n \in 1..Len(text) + m /\ k - n > q + m /\ k - n > q
          /\ k - m \in 1..Len(text) + n /\ k - m > p + n /\ k - m > p
          /\ (k - n) - m = (k - m) - n
      BY <1>1, <2>8
    <3>3. ~ k - n <= q /\ ~ k - n <= q + m /\ ~ k - m <= p /\ ~ k - m <= p + n
      BY <1>1, <3>2
    <3>4. b[k - n] = text[(k - n) - m]
      BY <2>3, <3>2, <3>3
    <3>5. a[k - m] = text[(k - m) - n]
      BY <2>2, <3>2, <3>3
    <3> QED
      BY <3>1, <3>2, <3>4, <3>5
  <2> QED
    BY <1>1, <2>4, <2>5, <2>6, <2>7, <2>8
<1> QED
  BY <1>2, <1>3, SameText

LEMMA InsertsConverge ==
  ASSUME Failed \notin AnyText, NEW text \in AnyText,
         NEW s \in AnyText, s # <<>>, NEW p \in 0..Len(text),
         NEW r \in AnyText, r # <<>>, NEW q \in 0..Len(text)
  PROVE  Converge(text, Insert(s, p), Insert(r, q), "right", "left")
<1> DEFINE c == Insert(s, p)
           d == Insert(r, q)
           p2 == IF q < p THEN p + Len(r) ELSE p
           q2 == IF p <= q THEN q + Len(s) ELSE q
           a == ApplyComponent(text, c)
           b == ApplyComponent(text, d)
           x == ApplyComponent(a, Insert(r, q2))
           y == ApplyComponent(b, Insert(s, p2))
<1>1. /\ Len(s) \in Nat /\ Len(r) \in Nat /\ Len(text) \in Nat
      /\ p \in Nat /\ q \in Nat /\ p <= Len(text) /\ q <= Len(text)
  BY LenIs
<1>2. Inserted(text, s, p, a) /\ Inserted(text, r, q, b)
  BY InsertIs
<1>3. /\ TransformComponent(<<>>, d, c, "right") = <<Insert(r, q2)>>
      /\ TransformComponent(<<>>, c, d, "left") = <<Insert(s, p2)>>
  <2>1. /\ c.kind = "i" /\ c.p = p /\ c.s = s /\ d.kind = "i" /\ d.p = q /\ d.s = r
    BY DEF Insert
  <2>2. /\ TransformComponent(<<>>, d, c, "right")
             = <<Insert(r, TransformPosition(q, c, "right" = "right"))>>
        /\ TransformComponent(<<>>, c, d, "left")
             = <<Insert(s, TransformPosition(p, d, "left" = "right"))>>
    <3> HIDE DEF c, d
    <3>1. /\ TransformComponent(<<>>, Insert(r, q), c, "right")
               = <<Insert(r, TransformPosition(q, c, "right" = "right"))>>
          /\ TransformComponent(<<>>, Insert(s, p), d, "left")
               = <<Insert(s, TransformPosition(p, d, "left" = "right"))>>
      BY <2>1, InsertOver
    <3> QED
      BY <3>1 DEF c, d
  <2> HIDE DEF c, d
  <2>3. TransformPosition(q, c, "right" = "right") = q2
    BY <1>1, <2>1 DEF TransformPosition
  <2>4. TransformPosition(p, d, "left" = "right") = p2
    BY <1>1, <2>1 DEF TransformPosition
  <2> QED
    BY <2>2, <2>3, <2>4
<1>4. /\ Apply(text, <<c>>) = a /\ Apply(text, <<d>>) = b
      /\ Apply(a, <<Insert(r, q2)>>) = x /\ Apply(b, <<Insert(s, p2)>>) = y
  BY ApplyOne
<1> HIDE DEF c, d, a, b
<1>5. /\ a \in AnyText /\ b \in AnyText
      /\ Len(a) = Len(text) + Len(s) /\ Len(b) = Len(text) + Len(r)
  BY <1>2 DEF Inserted
<1>6. q2 \in 0..Len(a) /\ p2 \in 0..Len(b)
  BY <1>1, <1>5
<1> HIDE DEF p2, q2
<1>7. Inserted(a, r, q2, x) /\ Inserted(b, s, p2, y)
  BY <1>5, <1>6, InsertIs
<1> HIDE DEF x, y
<1>8. x = y
  <2>1. CASE p <= q
    <3>1. q2 = q + Len(s) /\ p2 = p
      BY <1>1, <2>1 DEF p2, q2
    <3> QED
      BY <1>1, <1>2, <1>7, <2>1, <3>1, InsertedTwice
  <2>2. CASE q < p
    <3>1. q2 = q /\ p2 = p + Len(r) /\ q <= p
      BY <1>1, <2>2 DEF p2, q2
    <3> QED
      BY <1>1, <1>2, <1>7, <3>1, InsertedTwice
  <2> QED
    BY <1>1, <2>1, <2>2
<1>9. x \in AnyText
  BY <1>7 DEF Inserted
<1> QED
  BY <1>3, <1>4, <1>8, <1>9 DEF c, d, Converge

\* A delete at or after an insert, at or before it, or around it.
LEMMA DeletedAfterInsert ==
  ASSUME NEW text \in AnyText, NEW s \in AnyText, NEW r \in AnyText,
         NEW p \in Nat, NEW q \in Nat, p <= q, At(text, r, q), NEW a, Inserted(text, s, p, a)
  PROVE  /\ At(a, r, q + Len(s))
         /\ \A b, x, y : /\ Deleted(text, Len(r), q, b) /\ Deleted(a, Len(r), q + Len(s), x)
                         /\ Inserted(b, s, p, y)
                         => x = y
<1> DEFINE n == Len(s)
           m == Len(r)
<1>1. n \in Nat /\ m \in Nat /\ Len(text) \in Nat
  BY LenIs
<1>2. /\ a \in AnyText /\ Len(a) = Len(text) + n /\ q + m <= Len(text)
  BY <1>1 DEF Inserted, At
<1>3. ASSUME NEW i \in 1..Len(text) + n
      PROVE  a[i] = IF i <= p THEN text[i] ELSE IF i <= p + n THEN s[i - p] ELSE text[i - n]
  BY <1>2 DEF Inserted
<1>4. At(a, r, q + n)
  <2> HIDE DEF n, m
  <2>1. ASSUME NEW k \in 1..m PROVE a[(q + n) + k] = r[k]
    <3>1. /\ (q + n) + k \in 1..Len(text) + n /\ ((q + n) + k) - n = q + k
          /\ ~ (q + n) + k <= p /\ ~ (q + n) + k <= p + n
      BY <1>1, <1>2
    <3>2. text[q + k] = r[k]
      BY DEF At, m
    <3> QED
      BY <1>3, <3>1, <3>2
  <2>2. (q + n) + m <= Len(a)
    BY <1>1, <1>2
  <2> QED
    BY <2>1, <2>2 DEF At, m
<1>5. ASSUME NEW b, NEW x, NEW y, Deleted(text, m, q, b), Deleted(a, m, q + n, x),
             Inserted(b, s, p, y)
      PROVE  x = y
  <2>1. /\ b \in AnyText /\ x \in AnyText /\ y \in AnyText
        /\ Len(b) = Len(text) - m /\ Len(x) = Len(text) + n - m /\ Len(y) = Len(text) + n - m
    BY <1>1, <1>2, <1>5 DEF Inserted, Deleted
  <2>2. ASSUME NEW k \in 1..Len(text) + n - m PROVE x[k] = y[k]
    <3>1. /\ x[k] = IF k <= q + n THEN a[k] ELSE a[k + m]
          /\ y[k] = IF k <= p THEN b[k] ELSE IF k <= p + n THEN s[k - p] ELSE b[k - n]
      BY <1>5, <2>1 DEF Inserted, Deleted
    <3>2. ASSUME NEW i \in 1..Len(text) - m
          PROVE  b[i] = IF i <= q THEN text[i] ELSE text[i + m]
      BY <1>5, <2>1 DEF Deleted
    <3> HIDE DEF n, m
    <3>3. CASE k <= p + n
      BY <1>1, <1>2, <1>3, <3>1, <3>2, <3>3
    <3>4. CASE k > p + n /\ k <= q + n
      <4>1. /\ x[k] = a[k] /\ y[k] = b[k - n] /\ k \in 1..Len(text) + n
            /\ ~ k <= p /\ ~ k <= p + n /\ k - n \in 1..Len(text) - m /\ k - n <= q
        BY <1>1, <1>2, <3>1, <3>4
      <4>2. a[k] = text[k - n]
        BY <1>3, <4>1
      <4>3. b[k - n] = text[k - n]
        BY <3>2, <4>1
      <4> QED
        BY <4>1, <4>2, <4>3
    <3>5. CASE k > q + n
      <4>1. x[k] = a[k + m] /\ y[k] = b[k - n]
        BY <1>1, <3>1, <3>5
      <4>2. /\ k + m \in 1..Len(text) + n /\ ~ k + m <= p /\ ~ k + m <= p + n
            /\ k - n \in 1..Len(text) - m /\ ~ k - n <= q /\ (k - n) + m = (k + m) - n
        BY <1>1, <1>2, <3>5
      <4>3. a[k + m] = text[(k + m) - n]
        BY <1>3, <4>2
      <4>4. b[k - n] = text[(k - n) + m]
        BY <3>2, <4>2
      <4> QED
        BY <4>1, <4>2, <4>3, <4>4
    <3> QED
      BY <1>1, <3>3, <3>4, <3>5
  <2> QED
    BY <2>1, <2>2, SameText
<1> QED
  BY <1>4, <1>5

LEMMA DeletedBeforeInsert ==
  ASSUME NEW text \in AnyText, NEW s \in AnyText, NEW r \in AnyText,
         NEW p \in Nat, NEW q \in Nat, q + Len(r) <= p, p <= Len(text), At(text, r, q),
         NEW a, Inserted(text, s, p, a)
  PROVE  /\ At(a, r, q)
         /\ \A b, x, y : /\ Deleted(text, Len(r), q, b) /\ Deleted(a, Len(r), q, x)
                         /\ Inserted(b, s, p - Len(r), y)
                         => x = y
<1> DEFINE n == Len(s)
           m == Len(r)
<1>1. n \in Nat /\ m \in Nat /\ Len(text) \in Nat
  BY LenIs
<1>2. /\ a \in AnyText /\ Len(a) = Len(text) + n /\ q + m <= Len(text)
  BY <1>1 DEF Inserted, At
<1>3. ASSUME NEW i \in 1..Len(text) + n
      PROVE  a[i] = IF i <= p THEN text[i] ELSE IF i <= p + n THEN s[i - p] ELSE text[i - n]
  BY <1>2 DEF Inserted
<1>4. At(a, r, q)
  <2> HIDE DEF n, m
  <2>1. ASSUME NEW k \in 1..m PROVE a[q + k] = r[k]
    <3>1. q + k \in 1..Len(text) + n /\ q + k <= p
      BY <1>1, <1>2 DEF m
    <3>2. text[q + k] = r[k]
      BY DEF At, m
    <3> QED
      BY <1>3, <3>1, <3>2
  <2>2. q + m <= Len(a)
    BY <1>1, <1>2
  <2> QED
    BY <2>1, <2>2 DEF At, m
<1>5. ASSUME NEW b, NEW x, NEW y, Deleted(text, m, q, b), Deleted(a, m, q, x),
             Inserted(b, s, p - m, y)
      PROVE  x = y
  <2>1. /\ b \in AnyText /\ x \in AnyText /\ y \in AnyText
        /\ Len(b) = Len(text) - m /\ Len(x) = Len(text) + n - m /\ Len(y) = Len(text) + n - m
    BY <1>1, <1>2, <1>5 DEF Inserted, Deleted
  <2>2. ASSUME NEW k \in 1..Len(text) + n - m PROVE x[k] = y[k]
    <3>1. /\ x[k] = IF k <= q THEN a[k] ELSE a[k + m]
          /\ y[k] = IF k <= p - m THEN b[k]
                    ELSE IF k <= (p - m) + n THEN s[k - (p - m)] ELSE b[k - n]
      BY <1>5, <2>1 DEF Inserted, Deleted
    <3>2. ASSUME NEW i \in 1..Len(text) - m
          PROVE  b[i] = IF i <= q THEN text[i] ELSE text[i + m]
      BY <1>5, <2>1 DEF Deleted
    <3>3. q + m <= p
      OBVIOUS
    <3> HIDE DEF n, m
    <3>4. CASE k <= q
      BY <1>1, <1>2, <1>3, <3>1, <3>2, <3>3, <3>4
    <3>5. CASE k > q /\ k <= p - m
      BY <1>1, <1>2, <1>3, <3>1, <3>2, <3>3, <3>5
    <3>6. CASE k > p - m /\ k <= (p - m) + n
      <4>1. x[k] = a[k + m] /\ y[k] = s[k - (p - m)]
        BY <1>1, <3>1, <3>3, <3>6
      <4>2. /\ k + m \in 1..Len(text) + n /\ ~ k + m <= p /\ k + m <= p + n
            /\ (k + m) - p = k - (p - m)
        BY <1>1, <1>2, <3>6
      <4>3. a[k + m] = s[(k + m) - p]
        BY <1>3, <4>2
      <4> QED
        BY <4>1, <4>2, <4>3
    <3>7. CASE k > (p - m) + n
      <4>1. x[k] = a[k + m] /\ y[k] = b[k - n]
        BY <1>1, <3>1, <3>3, <3>7
      <4>2. /\ k + m \in 1..Len(text) + n /\ ~ k + m <= p /\ ~ k + m <= p + n
            /\ k - n \in 1..Len(text) - m /\ ~ k - n <= q /\ (k - n) + m = (k + m) - n
        BY <1>1, <1>2, <3>3, <3>7
      <4>3. a[k + m] = text[(k + m) - n]
        BY <1>3, <4>2
      <4>4. b[k - n] = text[(k - n) + m]
        BY <3>2, <4>2
      <4> QED
        BY <4>1, <4>2, <4>3, <4>4
    <3> QED
      BY <1>1, <3>3, <3>4, <3>5, <3>6, <3>7
  <2> QED
    BY <2>1, <2>2, SameText
<1> QED
  BY <1>4, <1>5

\* Around it: what is before the inserted text is deleted, then what is after it.
LEMMA DeletedAroundInsert ==
  ASSUME NEW text \in AnyText, NEW s \in AnyText, NEW r \in AnyText,
         NEW p \in Nat, NEW q \in Nat, q < p, p < q + Len(r), At(text, r, q),
         NEW a, Inserted(text, s, p, a),
         NEW r1 \in AnyText, Len(r1) = p - q, \A k \in 1..p - q : r1[k] = r[k],
         NEW r2 \in AnyText, Len(r2) = Len(r) - (p - q),
         \A k \in 1..Len(r) - (p - q) : r2[k] = r[(p - q) + k]
  PROVE  /\ At(a, r1, q)
         /\ \A a2 : Deleted(a, p - q, q, a2) =>
              /\ At(a2, r2, q + Len(s))
              /\ \A b, x, y : /\ Deleted(text, Len(r), q, b)
                              /\ Deleted(a2, Len(r) - (p - q), q + Len(s), x)
                              /\ Inserted(b, s, q, y)
                              => x = y
<1> DEFINE n == Len(s)
           m == Len(r)
<1>1. n \in Nat /\ m \in Nat /\ Len(text) \in Nat
  BY LenIs
<1>2. /\ a \in AnyText /\ Len(a) = Len(text) + n /\ q + m <= Len(text)
      /\ p < q + m
  BY <1>1 DEF Inserted, At
<1>3. ASSUME NEW i \in 1..Len(text) + n
      PROVE  a[i] = IF i <= p THEN text[i] ELSE IF i <= p + n THEN s[i - p] ELSE text[i - n]
  BY <1>2 DEF Inserted
<1>4. \A k \in 1..m : text[q + k] = r[k]
  BY DEF At
<1> HIDE DEF n, m
<1>5. At(a, r1, q)
  <2>1. ASSUME NEW k \in 1..p - q PROVE a[q + k] = r1[k]
    <3>1. q + k \in 1..Len(text) + n /\ q + k <= p /\ k \in 1..m
      BY <1>1, <1>2
    <3> QED
      BY <1>3, <1>4, <3>1
  <2>2. q + (p - q) <= Len(a)
    BY <1>1, <1>2
  <2> QED
    BY <2>1, <2>2 DEF At
<1>6. ASSUME NEW a2, Deleted(a, p - q, q, a2)
      PROVE  /\ At(a2, r2, q + n)
             /\ \A b, x, y : /\ Deleted(text, m, q, b) /\ Deleted(a2, m - (p - q), q + n, x)
                             /\ Inserted(b, s, q, y)
                             => x = y
  <2>1. a2 \in AnyText /\ Len(a2) = Len(text) + n - (p - q)
    BY <1>1, <1>2, <1>6 DEF Deleted
  <2>2. ASSUME NEW i \in 1..Len(text) + n - (p - q)
        PROVE  a2[i] = IF i <= q THEN a[i] ELSE a[i + (p - q)]
    BY <1>6, <2>1 DEF Deleted
  <2>3. At(a2, r2, q + n)
    <3>1. ASSUME NEW k \in 1..m - (p - q) PROVE a2[(q + n) + k] = r2[k]
      <4>1. /\ (q + n) + k \in 1..Len(text) + n - (p - q) /\ ~ (q + n) + k <= q
            /\ ((q + n) + k) + (p - q) = (p + n) + k
            /\ (p + n) + k \in 1..Len(text) + n /\ ~ (p + n) + k <= p /\ ~ (p + n) + k <= p + n
            /\ ((p + n) + k) - n = q + ((p - q) + k) /\ (p - q) + k \in 1..m
        BY <1>1, <1>2
      <4>2. a2[(q + n) + k] = a[(p + n) + k]
        BY <2>2, <4>1
      <4>3. a[(p + n) + k] = text[q + ((p - q) + k)]
        BY <1>3, <4>1
      <4>4. r2[k] = r[(p - q) + k]
        BY DEF m
      <4> QED
        BY <1>4, <4>1, <4>2, <4>3, <4>4
    <3>2. (q + n) + (m - (p - q)) <= Len(a2)
      BY <1>1, <1>2, <2>1
    <3> QED
      BY <3>1, <3>2 DEF At, m
  <2>4. ASSUME NEW b, NEW x, NEW y, Deleted(text, m, q, b), Deleted(a2, m - (p - q), q + n, x),
               Inserted(b, s, q, y)
        PROVE  x = y
    <3>1. /\ b \in AnyText /\ x \in AnyText /\ y \in AnyText
          /\ Len(b) = Len(text) - m /\ Len(x) = Len(text) + n - m
          /\ Len(y) = Len(text) + n - m
      BY <1>1, <1>2, <2>1, <2>4 DEF Inserted, Deleted, n
    <3>2. ASSUME NEW k \in 1..Len(text) + n - m PROVE x[k] = y[k]
      <4>1. /\ x[k] = IF k <= q + n THEN a2[k] ELSE a2[k + (m - (p - q))]
            /\ y[k] = IF k <= q THEN b[k] ELSE IF k <= q + n THEN s[k - q] ELSE b[k - n]
        BY <2>4, <3>1 DEF Inserted, Deleted, n
      <4>2. ASSUME NEW i \in 1..Len(text) - m
            PROVE  b[i] = IF i <= q THEN text[i] ELSE text[i + m]
        BY <2>4, <3>1 DEF Deleted
      <4>3. CASE k <= q
        <5>1. /\ x[k] = a2[k] /\ y[k] = b[k] /\ k \in 1..Len(text) + n - (p - q)
              /\ k \in 1..Len(text) + n /\ k <= p /\ k \in 1..Len(text) - m
          BY <1>1, <1>2, <4>1, <4>3
        <5>2. a2[k] = a[k] /\ a[k] = text[k]
          BY <1>3, <2>2, <4>3, <5>1
        <5>3. b[k] = text[k]
          BY <4>2, <4>3, <5>1
        <5> QED
          BY <5>1, <5>2, <5>3
      <4>4. CASE k > q /\ k <= q + n
        <5>1. x[k] = a2[k] /\ y[k] = s[k - q]
          BY <1>1, <4>1, <4>4
        <5>2. /\ k \in 1..Len(text) + n - (p - q) /\ ~ k <= q
              /\ k + (p - q) \in 1..Len(text) + n /\ ~ k + (p - q) <= p /\ k + (p - q) <= p + n
              /\ (k + (p - q)) - p = k - q
          BY <1>1, <1>2, <4>4
        <5>3. a2[k] = a[k + (p - q)]
          BY <2>2, <5>2
        <5>4. a[k + (p - q)] = s[(k + (p - q)) - p]
          BY <1>3, <5>2
        <5> QED
          BY <5>1, <5>2, <5>3, <5>4
      <4>5. CASE k > q + n
        <5> DEFINE i == k + (m - (p - q))
        <5>1. x[k] = a2[i] /\ y[k] = b[k - n]
          BY <1>1, <4>1, <4>5
        <5>2. /\ i \in 1..Len(text) + n - (p - q) /\ ~ i <= q /\ i + (p - q) = k + m
              /\ k + m \in 1..Len(text) + n /\ ~ k + m <= p /\ ~ k + m <= p + n
              /\ k - n \in 1..Len(text) - m /\ ~ k - n <= q /\ (k - n) + m = (k + m) - n
          BY <1>1, <1>2, <4>5
        <5> HIDE DEF i
        <5>3. a2[i] = a[k + m]
          BY <2>2, <5>2
        <5>4. a[k + m] = text[(k + m) - n]
          BY <1>3, <5>2
        <5>5. b[k - n] = text[(k - n) + m]
          BY <4>2, <5>2
        <5> QED
          BY <5>1, <5>2, <5>3, <5>4, <5>5
      <4> QED
        BY <1>1, <4>3, <4>4, <4>5
    <3> QED
      BY <3>1, <3>2, SameText
  <2> QED
    BY <2>3, <2>4
<1> QED
  BY <1>5, <1>6 DEF n, m

LEMMA DeleteFields ==
  ASSUME NEW s, NEW p
  PROVE  /\ Delete(s, p).kind = "d" /\ Delete(s, p).s = s /\ Delete(s, p).p = p
         /\ Insert(s, p).kind = "i" /\ Insert(s, p).s = s /\ Insert(s, p).p = p
BY DEF Delete, Insert

LEMMA AppendToOne ==
  ASSUME NEW c, NEW d
  PROVE  Append(<<c>>, d) = <<c, d>>
<1> DEFINE S == {c, d}
           x == Append(<<c>>, d)
           y == <<c, d>>
<1>1. <<c>> \in Seq(S) /\ Len(<<c>>) = 1 /\ <<c>>[1] = c /\ d \in S
  OBVIOUS
<1>2. y \in Seq(S) /\ Len(y) = 2 /\ y[1] = c /\ y[2] = d
  OBVIOUS
<1> DEFINE one == <<c>>
<1> HIDE DEF one, S
<1>3. Append(one, d) \in Seq(S) /\ Len(Append(one, d)) = 2
      /\ Append(one, d)[1] = c /\ Append(one, d)[2] = d
  BY <1>1 DEF one
<1> HIDE DEF y
<1>4. Append(one, d) = y
  BY <1>2, <1>3
<1> QED
  BY <1>4 DEF one, y

\* A delete over an insert is a delete, or two that stay apart.
PartsOf(over, s, p, r, q) ==
  LET r1 == Slice(r, 0, p - q)
      r2 == From(r, p - q)
  IN /\ p <= q => over = <<Delete(r, q + Len(s))>>
     /\ q + Len(r) <= p => over = <<Delete(r, q)>>
     /\ q < p /\ p < q + Len(r) =>
          /\ over = <<Delete(r1, q), Delete(r2, q + Len(s))>>
          /\ r1 \in AnyText /\ r1 # <<>> /\ Len(r1) = p - q
          /\ \A k \in 1..p - q : r1[k] = r[k]
          /\ r2 \in AnyText /\ r2 # <<>> /\ Len(r2) = Len(r) - (p - q)
          /\ \A k \in 1..Len(r) - (p - q) : r2[k] = r[(p - q) + k]

LEMMA DeleteOverInsertIs ==
  ASSUME NEW s \in AnyText, s # <<>>, NEW p \in Nat, NEW r \in AnyText, r # <<>>, NEW q \in Nat,
         NEW side
  PROVE  PartsOf(TransformComponent(<<>>, Delete(r, q), Insert(s, p), side), s, p, r, q)
<1> DEFINE n == Len(s)
           m == Len(r)
           c == Insert(s, p)
           d == Delete(r, q)
           over == TransformComponent(<<>>, d, c, side)
           before == Slice(r, 0, IF q < p THEN p - q ELSE 0)
           first == Delete(before, q)
           second == Delete(From(r, Len(before)), q + n)
<1>1. n \in Nat \ {0} /\ m \in Nat \ {0}
  BY LenIs
<1>2. over = AppendTo(AppendTo(<<>>, first), second)
  <2>1. over = Compose(<<>>, DeleteOverInsert(d, c))
    <3>1. d.kind = "d" /\ c.kind = "i"
      BY DeleteFields
    <3> HIDE DEF c, d
    <3> QED
      BY <3>1 DEF TransformComponent
  <2>2. DeleteOverInsert(d, c) = <<first, second>>
    BY DeleteFields DEF DeleteOverInsert
  <2> HIDE DEF first, second, over
  <2> QED
    BY <2>1, <2>2, ComposeTwo
<1> SUFFICES PartsOf(over, s, p, r, q)
  OBVIOUS
<1> HIDE DEF over, c, d
<1>3. CASE p <= q
  <2>1. before \in AnyText /\ Len(before) = 0 /\ before = <<>>
    <3>1. before = Slice(r, 0, 0) /\ 0 \in Nat /\ 0 <= 0 /\ 0 <= Len(r) /\ 0 - 0 = 0
      BY <1>1, <1>3
    <3>2. Slice(r, 0, 0) \in AnyText /\ Len(Slice(r, 0, 0)) = 0
      BY <3>1, SliceIs
    <3> HIDE DEF before
    <3> QED
      BY <3>1, <3>2, EmptyText
  <2>2. From(r, 0) = r
    <3> DEFINE f == From(r, 0)
    <3>1. 0 \in 0..Len(r)
      BY <1>1
    <3>2. f \in AnyText /\ Len(f) = m - 0 /\ \A k \in 1..m - 0 : f[k] = r[0 + k]
      BY <3>1, FromIs, Zenon
    <3> HIDE DEF f
    <3>3. f = r
      BY <1>1, <3>2, SameText
    <3> QED
      BY <3>3 DEF f
  <2>3. first.s = <<>> /\ first.kind = "d" /\ second = Delete(r, q + n)
    BY <2>1, <2>2, DeleteFields
  <2> HIDE DEF first, second, before
  <2>4. AppendTo(<<>>, first) = <<>>
    BY <2>3 DEF AppendTo
  <2>5. AppendTo(<<>>, second) = <<second>>
    BY <2>3, DeleteFields, AppendToNothing
  <2>6. over = <<Delete(r, q + n)>>
    BY <1>2, <2>3, <2>4, <2>5
  <2> QED
    BY <1>1, <1>3, <2>6 DEF PartsOf
<1>4. CASE q + m <= p
  <2>1. before = r
    <3>1. /\ before = Slice(r, 0, m) /\ 0 \in Nat /\ m \in Nat /\ 0 <= m /\ m <= m /\ m - 0 = m
      <4>1. Lesser(p - q, m) = m /\ Lesser(m, m) = m /\ q < p
        BY <1>1, <1>4 DEF Lesser
      <4> QED
        BY <1>1, <4>1 DEF Slice
    <3>2. /\ Slice(r, 0, m) \in AnyText /\ Len(Slice(r, 0, m)) = m - 0
          /\ \A k \in 1..m - 0 : Slice(r, 0, m)[k] = r[0 + k]
      BY <3>1, SliceIs, Zenon
    <3> HIDE DEF before
    <3>3. before \in AnyText /\ Len(before) = m /\ \A k \in 1..m : before[k] = r[k]
      BY <1>1, <3>1, <3>2
    <3> QED
      BY <3>3, SameText
  <2>2. From(r, m) = <<>>
    <3>1. m \in 0..Len(r)
      BY <1>1
    <3>2. From(r, m) \in AnyText /\ Len(From(r, m)) = m - m
      BY <3>1, FromIs, Zenon
    <3> QED
      BY <1>1, <3>2, EmptyText
  <2>3. first = Delete(r, q) /\ second.s = <<>> /\ second.kind = "d"
    BY <2>1, <2>2, DeleteFields
  <2> HIDE DEF first, second, before
  <2>4. AppendTo(<<>>, first) = <<first>>
    BY <2>3, DeleteFields, AppendToNothing
  <2>5. AppendTo(<<first>>, second) = <<first>>
    BY <2>3 DEF AppendTo
  <2>6. over = <<Delete(r, q)>>
    BY <1>2, <2>3, <2>4, <2>5
  <2> QED
    BY <1>1, <1>4, <2>6 DEF PartsOf
<1>5. CASE q < p /\ p < q + m
  <2> DEFINE r1 == Slice(r, 0, p - q)
             r2 == From(r, p - q)
  <2>1. /\ p - q \in Nat \ {0} /\ p - q \in Nat /\ 0 \in Nat /\ 0 <= p - q /\ p - q <= m
        /\ m - (p - q) \in Nat \ {0} /\ (p - q) - 0 = p - q /\ p - q \in 0..m
    BY <1>1, <1>5
  <2>2. /\ r1 \in AnyText /\ Len(r1) = p - q /\ \A k \in 1..p - q : r1[k] = r[k]
    <3>1. /\ r1 \in AnyText /\ Len(r1) = (p - q) - 0
          /\ \A k \in 1..(p - q) - 0 : r1[k] = r[0 + k]
      BY <2>1, SliceIs, Zenon
    <3> HIDE DEF r1
    <3> QED
      BY <2>1, <3>1
  <2>3. /\ r2 \in AnyText /\ Len(r2) = m - (p - q)
        /\ \A k \in 1..m - (p - q) : r2[k] = r[(p - q) + k]
    BY <2>1, FromIs, Zenon
  <2>4. first = Delete(r1, q) /\ second = Delete(r2, q + n)
    <3>1. before = r1
      BY <1>5
    <3> QED
      BY <2>2, <3>1
  <2> HIDE DEF first, second, r1, r2
  <2>5. r1 # <<>> /\ r2 # <<>>
    BY <2>1, <2>2, <2>3, EmptyText
  <2>6. AppendTo(<<>>, first) = <<first>>
    BY <2>4, <2>5, DeleteFields, AppendToNothing
  <2>7. AppendTo(<<first>>, second) = <<first, second>>
    <3>1. /\ first.kind = "d" /\ first.p = q /\ second.kind = "d" /\ second.p = q + n
          /\ second.s # <<>> /\ ~ q + n <= q
      BY <1>1, <2>4, <2>5, DeleteFields
    <3>2. Len(<<first>>) = 1 /\ <<first>>[1] = first
      OBVIOUS
    <3>3. <<first>> # <<>>
      OBVIOUS
    <3>4. Append(<<first>>, second) = <<first, second>>
      BY AppendToOne
    <3> QED
      BY <3>1, <3>2, <3>3, <3>4 DEF AppendTo
  <2>8. over = <<Delete(r1, q), Delete(r2, q + n)>>
    BY <1>2, <2>4, <2>6, <2>7
  <2> QED
    BY <1>1, <1>5, <2>2, <2>3, <2>5, <2>8 DEF PartsOf, r1, r2
<1> QED
  BY <1>1, <1>3, <1>4, <1>5

LEMMA InsertAndDeleteConverge ==
  ASSUME Failed \notin AnyText, NEW text \in AnyText,
         NEW s \in AnyText, s # <<>>, NEW p \in 0..Len(text),
         NEW r \in AnyText, r # <<>>, NEW q \in Nat, At(text, r, q),
         NEW side, NEW otherSide
  PROVE  Converge(text, Insert(s, p), Delete(r, q), side, otherSide)
<1> DEFINE n == Len(s)
           m == Len(r)
           c == Insert(s, p)
           d == Delete(r, q)
           p2 == IF p <= q THEN p ELSE IF p <= q + m THEN q ELSE p - m
           a == ApplyComponent(text, c)
           b == ApplyComponent(text, d)
           over == TransformComponent(<<>>, d, c, side)
           x == Apply(a, over)
           y == ApplyComponent(b, Insert(s, p2))
           r1 == Slice(r, 0, p - q)
           r2 == From(r, p - q)
<1>1. /\ n \in Nat \ {0} /\ m \in Nat \ {0} /\ Len(text) \in Nat /\ p \in Nat /\ p <= Len(text)
      /\ q + m <= Len(text)
  BY LenIs DEF At
<1>2. Inserted(text, s, p, a)
  BY InsertIs
<1>3. Deleted(text, m, q, b)
  BY DeleteIs
<1>4. /\ a \in AnyText /\ Len(a) = Len(text) + n /\ b \in AnyText /\ Len(b) = Len(text) - m
  BY <1>2, <1>3 DEF Inserted, Deleted
<1>5. TransformComponent(<<>>, c, d, otherSide) = <<Insert(s, p2)>>
  <2>1. d.kind = "d" /\ d.p = q /\ d.s = r
    BY DeleteFields
  <2> HIDE DEF d
  <2>2. TransformComponent(<<>>, Insert(s, p), d, otherSide)
          = <<Insert(s, TransformPosition(p, d, otherSide = "right"))>>
    BY <2>1, InsertOver
  <2>3. TransformPosition(p, d, otherSide = "right") = p2
    BY <1>1, <2>1 DEF TransformPosition, End
  <2> QED
    BY <2>2, <2>3
<1>6. /\ p <= q => over = <<Delete(r, q + n)>>
      /\ q + m <= p => over = <<Delete(r, q)>>
      /\ q < p /\ p < q + m =>
           /\ over = <<Delete(r1, q), Delete(r2, q + n)>>
           /\ r1 \in AnyText /\ r1 # <<>> /\ Len(r1) = p - q
           /\ \A k \in 1..p - q : r1[k] = r[k]
           /\ r2 \in AnyText /\ r2 # <<>> /\ Len(r2) = m - (p - q)
           /\ \A k \in 1..m - (p - q) : r2[k] = r[(p - q) + k]
  <2>1. PartsOf(over, s, p, r, q)
    BY <1>1, DeleteOverInsertIs
  <2> HIDE DEF over
  <2> QED
    BY <2>1 DEF PartsOf
<1>7. Apply(text, <<c>>) = a /\ Apply(text, <<d>>) = b /\ Apply(b, <<Insert(s, p2)>>) = y
  BY ApplyOne
<1> HIDE DEF a, b, over, r1, r2, c, d
<1>8. p2 \in 0..Len(b)
  BY <1>1, <1>4
<1>9. Inserted(b, s, p2, y)
  BY <1>4, <1>8, InsertIs
<1> HIDE DEF y, p2
<1>10. x = y
  <2>1. CASE p <= q
    <3>1. p2 = p
      BY <2>1 DEF p2
    <3>2. At(a, r, q + n)
      BY <1>1, <1>2, <2>1, DeletedAfterInsert
    <3>3. x = ApplyComponent(a, Delete(r, q + n))
      BY <1>6, <2>1, ApplyOne
    <3>4. Deleted(a, m, q + n, x)
      BY <1>1, <1>4, <3>2, <3>3, DeleteIs
    <3> HIDE DEF x
    <3> QED
      BY <1>1, <1>2, <1>3, <1>9, <2>1, <3>1, <3>4, DeletedAfterInsert
  <2>2. CASE q + m <= p
    <3>1. p2 = p - m
      BY <1>1, <2>2 DEF p2
    <3>2. At(a, r, q)
      BY <1>1, <1>2, <2>2, DeletedBeforeInsert
    <3>3. x = ApplyComponent(a, Delete(r, q))
      BY <1>6, <2>2, ApplyOne
    <3>4. Deleted(a, m, q, x)
      BY <1>1, <1>4, <3>2, <3>3, DeleteIs
    <3> HIDE DEF x
    <3> QED
      BY <1>1, <1>2, <1>3, <1>9, <2>2, <3>1, <3>4, DeletedBeforeInsert
  <2>3. CASE q < p /\ p < q + m
    <3> DEFINE a2 == ApplyComponent(a, Delete(r1, q))
    <3>1. p2 = q
      BY <1>1, <2>3 DEF p2
    <3>2. /\ At(a, r1, q)
          /\ \A a3 : Deleted(a, p - q, q, a3) =>
               /\ At(a3, r2, q + n)
               /\ \A b3, x3, y3 : /\ Deleted(text, m, q, b3)
                                  /\ Deleted(a3, m - (p - q), q + n, x3)
                                  /\ Inserted(b3, s, q, y3)
                                  => x3 = y3
      BY <1>1, <1>2, <1>6, <2>3, DeletedAroundInsert
    <3>3. Deleted(a, p - q, q, a2)
      BY <1>4, <1>6, <2>3, <3>2, DeleteIs
    <3>4. x = ApplyComponent(a2, Delete(r2, q + n))
      BY <1>6, <2>3, ApplyTwo
    <3> HIDE DEF a2
    <3>5. a2 \in AnyText /\ At(a2, r2, q + n)
      BY <3>2, <3>3 DEF Deleted
    <3>6. Deleted(a2, m - (p - q), q + n, x)
      <4>1. q + n \in Nat
        BY <1>1
      <4> QED
        BY <1>6, <2>3, <3>4, <3>5, <4>1, DeleteIs
    <3> HIDE DEF x
    <3> QED
      BY <1>3, <1>9, <3>1, <3>2, <3>3, <3>6
  <2> QED
    BY <1>1, <2>1, <2>2, <2>3
<1>11. y \in AnyText
  BY <1>9 DEF Inserted
<1> QED
  BY <1>5, <1>7, <1>10, <1>11 DEF over, x, c, d, Converge

\* Two deletes apart: the one before moves the one after.
LEMMA DeletedTwice ==
  ASSUME NEW text \in AnyText, NEW s \in AnyText, NEW r \in AnyText,
         NEW p \in Nat, NEW q \in Nat, p + Len(s) <= q, At(text, s, p), At(text, r, q),
         NEW a, Deleted(text, Len(s), p, a), NEW b, Deleted(text, Len(r), q, b)
  PROVE  /\ At(a, r, q - Len(s)) /\ At(b, s, p)
         /\ \A x, y : Deleted(a, Len(r), q - Len(s), x) /\ Deleted(b, Len(s), p, y) => x = y
<1> DEFINE n == Len(s)
           m == Len(r)
<1>1. n \in Nat /\ m \in Nat /\ Len(text) \in Nat
  BY LenIs
<1>2. /\ a \in AnyText /\ Len(a) = Len(text) - n /\ b \in AnyText /\ Len(b) = Len(text) - m
      /\ q + m <= Len(text) /\ p + n <= q
  BY DEF Deleted, At
<1>3. /\ \A k \in 1..n : text[p + k] = s[k]
      /\ \A k \in 1..m : text[q + k] = r[k]
  BY DEF At
<1>4. ASSUME NEW i \in 1..Len(text) - n PROVE a[i] = IF i <= p THEN text[i] ELSE text[i + n]
  BY <1>2 DEF Deleted
<1>5. ASSUME NEW i \in 1..Len(text) - m PROVE b[i] = IF i <= q THEN text[i] ELSE text[i + m]
  BY <1>2 DEF Deleted
<1> HIDE DEF n, m
<1>6. At(a, r, q - n)
  <2>1. ASSUME NEW k \in 1..m PROVE a[(q - n) + k] = r[k]
    <3>1. /\ (q - n) + k \in 1..Len(text) - n /\ ~ (q - n) + k <= p
          /\ ((q - n) + k) + n = q + k
      BY <1>1, <1>2
    <3> QED
      BY <1>3, <1>4, <3>1
  <2>2. (q - n) + m <= Len(a)
    BY <1>1, <1>2
  <2> QED
    BY <2>1, <2>2 DEF At, m
<1>7. At(b, s, p)
  <2>1. ASSUME NEW k \in 1..n PROVE b[p + k] = s[k]
    <3>1. p + k \in 1..Len(text) - m /\ p + k <= q
      BY <1>1, <1>2
    <3> QED
      BY <1>3, <1>5, <3>1
  <2>2. p + n <= Len(b)
    BY <1>1, <1>2
  <2> QED
    BY <2>1, <2>2 DEF At, n
<1>8. ASSUME NEW x, NEW y, Deleted(a, m, q - n, x), Deleted(b, n, p, y)
      PROVE  x = y
  <2>1. /\ x \in AnyText /\ Len(x) = Len(text) - n - m
        /\ y \in AnyText /\ Len(y) = Len(text) - n - m
    BY <1>1, <1>2, <1>8 DEF Deleted
  <2>2. ASSUME NEW k \in 1..Len(text) - n - m PROVE x[k] = y[k]
    <3>1. /\ x[k] = IF k <= q - n THEN a[k] ELSE a[k + m]
          /\ y[k] = IF k <= p THEN b[k] ELSE b[k + n]
      BY <1>8, <2>1 DEF Deleted
    <3>2. CASE k <= p
      <4>1. /\ k <= q - n /\ k <= q /\ k \in 1..Len(text) - n /\ k \in 1..Len(text) - m
        BY <1>1, <1>2, <3>2
      <4> QED
        BY <1>4, <1>5, <3>1, <3>2, <4>1
    <3>3. CASE ~ k <= p /\ k <= q - n
      <4>1. /\ k + n <= q /\ k \in 1..Len(text) - n /\ k + n \in 1..Len(text) - m
        BY <1>1, <1>2, <3>3
      <4> QED
        BY <1>4, <1>5, <3>1, <3>3, <4>1
    <3>4. CASE ~ k <= q - n
      <4>1. /\ ~ k + n <= q /\ ~ k <= p /\ ~ k + m <= p
            /\ k + m \in 1..Len(text) - n /\ k + n \in 1..Len(text) - m
            /\ (k + m) + n = (k + n) + m
        BY <1>1, <1>2, <3>4
      <4>2. a[k + m] = text[(k + m) + n]
        BY <1>4, <4>1
      <4>3. b[k + n] = text[(k + n) + m]
        BY <1>5, <4>1
      <4> QED
        BY <3>1, <3>4, <4>1, <4>2, <4>3
    <3> QED
      BY <3>2, <3>3, <3>4
  <2> QED
    BY <2>1, <2>2, SameText
<1> QED
  BY <1>6, <1>7, <1>8 DEF n, m

LEMMA DeleteOver ==
  ASSUME NEW s, NEW p, NEW r, NEW q, NEW side
  PROVE  TransformComponent(<<>>, Delete(r, q), Delete(s, p), side)
           = AppendTo(<<>>, DeleteOverDelete(Delete(r, q), Delete(s, p)))
<1> DEFINE c == Delete(s, p)
           d == Delete(r, q)
<1>1. c.kind = "d" /\ d.kind = "d"
  BY DeleteFields
<1> HIDE DEF c, d
<1>2. TransformComponent(<<>>, d, c, side) = AppendTo(<<>>, DeleteOverDelete(d, c))
  BY <1>1 DEF TransformComponent
<1> QED
  BY <1>2 DEF c, d

LEMMA DeletesApartConverge ==
  ASSUME Failed \notin AnyText, NEW text \in AnyText,
         NEW s \in AnyText, s # <<>>, NEW p \in Nat, At(text, s, p),
         NEW r \in AnyText, r # <<>>, NEW q \in Nat, At(text, r, q), p + Len(s) <= q,
         NEW side, NEW otherSide
  PROVE  Converge(text, Delete(s, p), Delete(r, q), side, otherSide)
<1> DEFINE n == Len(s)
           m == Len(r)
           c == Delete(s, p)
           d == Delete(r, q)
           d2 == Delete(r, q - n)
           a == ApplyComponent(text, c)
           b == ApplyComponent(text, d)
           x == ApplyComponent(a, d2)
           y == ApplyComponent(b, c)
<1>1. n \in Nat \ {0} /\ m \in Nat \ {0} /\ Len(text) \in Nat /\ q - n \in Nat
  BY LenIs
<1>2. Deleted(text, n, p, a) /\ Deleted(text, m, q, b)
  BY DeleteIs
<1>3. /\ c.kind = "d" /\ c.s = s /\ c.p = p /\ End(c) = p + n
      /\ d.kind = "d" /\ d.s = r /\ d.p = q /\ End(d) = q + m
      /\ d2.s = r
  BY DeleteFields DEF End
<1>4. /\ TransformComponent(<<>>, d, c, side) = AppendTo(<<>>, DeleteOverDelete(d, c))
      /\ TransformComponent(<<>>, c, d, otherSide) = AppendTo(<<>>, DeleteOverDelete(c, d))
  BY DeleteOver
<1> HIDE DEF c, d
<1>5. DeleteOverDelete(d, c) = d2
  BY <1>1, <1>3 DEF DeleteOverDelete
<1>6. DeleteOverDelete(c, d) = c
  BY <1>1, <1>3 DEF DeleteOverDelete
<1>7. AppendTo(<<>>, d2) = <<d2>> /\ AppendTo(<<>>, c) = <<c>>
  BY <1>3, AppendToNothing
<1>8. /\ Apply(text, <<c>>) = a /\ Apply(text, <<d>>) = b
      /\ Apply(a, <<d2>>) = x /\ Apply(b, <<c>>) = y
  BY ApplyOne
<1> HIDE DEF a, b
<1>9. a \in AnyText /\ b \in AnyText /\ At(a, r, q - n) /\ At(b, s, p)
  <2>1. At(a, r, q - n) /\ At(b, s, p)
    BY <1>2, DeletedTwice
  <2> QED
    BY <1>2, <2>1 DEF Deleted
<1>10. Deleted(a, m, q - n, x)
  BY <1>1, <1>9, DeleteIs
<1>11. Deleted(b, n, p, y)
  BY <1>9, DeleteIs DEF c
<1> HIDE DEF x, y, d2
<1>12. x = y
  BY <1>2, <1>10, <1>11, DeletedTwice
<1>13. x \in AnyText
  BY <1>10 DEF Deleted
<1> QED
  BY <1>4, <1>5, <1>6, <1>7, <1>8, <1>12, <1>13 DEF c, d, Converge

\* Two deletes that overlap: what is left to delete, f characters of it before p and g
\* after the other one's end, is what is on either side.
RestOf(rest, f, g, u, n, p, r, q) ==
  /\ q < p + n /\ p < q + Len(r)
  /\ f \in Nat /\ f = IF q < p THEN p - q ELSE 0
  /\ g \in Nat /\ g = IF p + n < q + Len(r) THEN (q + Len(r)) - (p + n) ELSE 0
  /\ u \in Nat /\ u = IF q < p THEN q ELSE p
  /\ rest \in AnyText /\ Len(rest) = f + g
  /\ \A k \in 1..f : rest[k] = r[k]
  /\ \A k \in 1..g : rest[f + k] = r[((p + n) - q) + k]

LEMMA DeletedRest ==
  ASSUME NEW text \in AnyText, NEW n \in Nat, NEW p \in Nat, NEW r \in AnyText, NEW q \in Nat,
         At(text, r, q), p + n <= Len(text),
         NEW rest, NEW f, NEW g, NEW u, RestOf(rest, f, g, u, n, p, r, q),
         NEW a, Deleted(text, n, p, a)
  PROVE  /\ At(a, rest, u)
         /\ \A x : Deleted(a, f + g, u, x) => Deleted(text, n + f + g, u, x)
         /\ f + g = 0 => Deleted(text, n + f + g, u, a)
<1> DEFINE m == Len(r)
<1>1. /\ m \in Nat /\ Len(text) \in Nat /\ f \in Nat /\ g \in Nat /\ u \in Nat
      /\ u + f = p /\ u <= p /\ p + g + n <= Len(text) /\ (f = 0 \/ u = q)
      /\ rest \in AnyText /\ Len(rest) = f + g
      /\ q < p + n /\ (g = 0 \/ (p + n) + g = q + m)
  <2>1. m \in Nat /\ Len(text) \in Nat
    BY LenIs
  <2>2. /\ f \in Nat /\ f = IF q < p THEN p - q ELSE 0
        /\ g \in Nat /\ g = IF p + n < q + m THEN (q + m) - (p + n) ELSE 0
        /\ u \in Nat /\ u = IF q < p THEN q ELSE p
        /\ rest \in AnyText /\ Len(rest) = f + g /\ q < p + n
    BY DEF RestOf
  <2>3. q + m <= Len(text) /\ p + n <= Len(text)
    BY DEF At
  <2> HIDE DEF m
  <2>4. u + f = p /\ u <= p /\ (f = 0 \/ u = q)
    BY <2>2
  <2>5. p + g + n <= Len(text)
    BY <2>1, <2>2, <2>3
  <2>6. g = 0 \/ (p + n) + g = q + m
    BY <2>1, <2>2
  <2> QED
    BY <2>1, <2>2, <2>4, <2>5, <2>6
<1>2. /\ a \in AnyText /\ Len(a) = Len(text) - n /\ q + m <= Len(text)
  BY DEF Deleted, At
<1>5. /\ \A k \in 1..f : rest[k] = r[k] /\ k \in 1..m
      /\ \A k \in 1..g : rest[f + k] = r[((p + n) - q) + k]
  <2>1. /\ \A k \in 1..f : rest[k] = r[k]
        /\ \A k \in 1..g : rest[f + k] = r[((p + n) - q) + k]
    BY DEF RestOf
  <2>2. f = (IF q < p THEN p - q ELSE 0) /\ p < q + m
    BY DEF RestOf
  <2> HIDE DEF m
  <2>3. f <= m
    BY <1>1, <2>2
  <2>4. \A k \in 1..f : k \in 1..m
    BY <1>1, <2>3
  <2> QED
    BY <2>1, <2>4
<1>3. \A k \in 1..m : text[q + k] = r[k]
  BY DEF At
<1>4. ASSUME NEW i \in 1..Len(text) - n PROVE a[i] = IF i <= p THEN text[i] ELSE text[i + n]
  BY <1>2 DEF Deleted
<1>6. At(a, rest, u)
  <2>1. ASSUME NEW k \in 1..f PROVE a[u + k] = rest[k]
    <3>1. u = q /\ q + k <= p /\ q + k \in 1..Len(text) - n
      BY <1>1, <1>2
    <3>2. a[q + k] = text[q + k]
      BY <1>4, <3>1
    <3>3. k \in 1..m /\ rest[k] = r[k]
      BY <1>5
    <3> QED
      BY <1>3, <3>1, <3>2, <3>3
  <2>2. ASSUME NEW k \in 1..g PROVE a[u + (f + k)] = rest[f + k]
    <3> DEFINE i == ((p + n) - q) + k
    <3>0. k \in Nat /\ 1 <= k /\ k <= g /\ g # 0
      BY <1>1
    <3>1. /\ u + (f + k) = p + k /\ p + k \in 1..Len(text) - n /\ ~ p + k <= p
          /\ i \in 1..m /\ q + i = (p + k) + n
      BY <1>1, <3>0
    <3> HIDE DEF i
    <3>2. a[p + k] = text[(p + k) + n]
      BY <1>4, <3>1
    <3>3. text[q + i] = r[i]
      BY <1>3, <3>1
    <3>4. rest[f + k] = r[i]
      BY <1>5 DEF i
    <3> QED
      BY <3>1, <3>2, <3>3, <3>4
  <2>3. ASSUME NEW k \in 1..f + g PROVE a[u + k] = rest[k]
    <3>1. CASE k <= f
      <4>1. k \in 1..f
        BY <1>1, <3>1
      <4> QED
        BY <2>1, <4>1
    <3>2. CASE ~ k <= f
      <4>1. k - f \in 1..g /\ f + (k - f) = k
        BY <1>1, <3>2
      <4> QED
        BY <2>2, <4>1
    <3> QED
      BY <3>1, <3>2
  <2>4. u + (f + g) <= Len(a)
    <3>1. u + (f + g) = p + g
      BY <1>1
    <3> QED
      BY <1>1, <1>2, <3>1
  <2> QED
    BY <1>1, <2>3, <2>4 DEF At
<1>7. ASSUME NEW x, Deleted(a, f + g, u, x) PROVE Deleted(text, n + f + g, u, x)
  <2>1. x \in AnyText /\ Len(x) = Len(text) - (n + f + g)
    BY <1>1, <1>2, <1>7 DEF Deleted
  <2>2. ASSUME NEW k \in 1..Len(text) - (n + f + g)
        PROVE  x[k] = IF k <= u THEN text[k] ELSE text[k + (n + f + g)]
    <3>1. x[k] = IF k <= u THEN a[k] ELSE a[k + (f + g)]
      BY <1>7, <2>1 DEF Deleted
    <3>2. CASE k <= u
      <4>1. k <= p /\ k \in 1..Len(text) - n
        BY <1>1, <3>2
      <4> QED
        BY <1>4, <3>1, <3>2, <4>1
    <3>3. CASE ~ k <= u
      <4>1. /\ k + (f + g) \in 1..Len(text) - n /\ ~ k + (f + g) <= p
            /\ (k + (f + g)) + n = k + (n + f + g)
        BY <1>1, <3>3
      <4>2. a[k + (f + g)] = text[(k + (f + g)) + n]
        BY <1>4, <4>1
      <4> QED
        BY <3>1, <3>3, <4>1, <4>2
    <3> QED
      BY <3>2, <3>3
  <2> QED
    BY <2>1, <2>2 DEF Deleted
<1>8. f + g = 0 => Deleted(text, n + f + g, u, a)
  <2> SUFFICES ASSUME f + g = 0 PROVE Deleted(text, n + f + g, u, a)
    OBVIOUS
  <2>1. n + f + g = n /\ u = p
    BY <1>1
  <2> QED
    BY <2>1
<1> QED
  BY <1>6, <1>7, <1>8

\* They delete the same text where they overlap, because it is there.
LEMMA SameWhereBoth ==
  ASSUME NEW text \in AnyText, NEW s \in AnyText, NEW p \in Nat, At(text, s, p),
         NEW r \in AnyText, NEW q \in Nat, At(text, r, q),
         NEW i \in Nat, NEW j \in Nat, i <= j, q <= i, p <= i, j <= p + Len(s), j <= q + Len(r)
  PROVE  Slice(r, i - q, j - q) = Slice(s, i - p, j - p)
<1> DEFINE x == Slice(r, i - q, j - q)
           y == Slice(s, i - p, j - p)
<1>1. Len(s) \in Nat /\ Len(r) \in Nat
  BY LenIs
<1>2. /\ i - q \in Nat /\ j - q \in Nat /\ i - q <= j - q /\ j - q <= Len(r)
      /\ i - p \in Nat /\ j - p \in Nat /\ i - p <= j - p /\ j - p <= Len(s)
      /\ (j - q) - (i - q) = j - i /\ (j - p) - (i - p) = j - i
  BY <1>1
<1>3. /\ x \in AnyText /\ Len(x) = (j - q) - (i - q)
      /\ \A k \in 1..(j - q) - (i - q) : x[k] = r[(i - q) + k]
  BY <1>2, SliceIs, Zenon
<1>4. /\ y \in AnyText /\ Len(y) = (j - p) - (i - p)
      /\ \A k \in 1..(j - p) - (i - p) : y[k] = s[(i - p) + k]
  BY <1>2, SliceIs, Zenon
<1> HIDE DEF x, y
<1>5. ASSUME NEW k \in 1..j - i PROVE r[(i - q) + k] = s[(i - p) + k]
  <2> DEFINE e == (i - q) + k
             h == (i - p) + k
  <2>1. e \in 1..Len(r) /\ h \in 1..Len(s) /\ q + e = p + h
    BY <1>1
  <2> HIDE DEF e, h
  <2>2. text[q + e] = r[e] /\ text[p + h] = s[h]
    BY <2>1 DEF At
  <2>3. r[e] = s[h]
    BY <2>1, <2>2
  <2> QED
    BY <2>3 DEF e, h
<1>6. Len(x) = j - i /\ Len(y) = j - i /\ \A k \in 1..j - i : x[k] = y[k]
  BY <1>2, <1>3, <1>4, <1>5
<1>7. x = y
  BY <1>3, <1>4, <1>6, SameText
<1> QED
  BY <1>7 DEF x, y

LEMMA OverlapIs ==
  ASSUME NEW text \in AnyText, NEW s \in AnyText, NEW p \in Nat, At(text, s, p),
         NEW r \in AnyText, NEW q \in Nat, At(text, r, q), q < p + Len(s), p < q + Len(r)
  PROVE  \E rest, f, g, u : /\ RestOf(rest, f, g, u, Len(s), p, r, q)
                            /\ DeleteOverDelete(Delete(r, q), Delete(s, p)) = Delete(rest, u)
<1> DEFINE n == Len(s)
           m == Len(r)
           c == Delete(s, p)
           d == Delete(r, q)
           front == IF q < p THEN Slice(r, 0, p - q) ELSE <<>>
           back == IF q + m > p + n THEN From(r, (p + n) - q) ELSE <<>>
           rest == front \o back
           f == IF q < p THEN p - q ELSE 0
           g == IF p + n < q + m THEN (q + m) - (p + n) ELSE 0
           u == IF q < p THEN q ELSE p
<1>1. n \in Nat /\ m \in Nat /\ f \in Nat /\ g \in Nat /\ u \in Nat
  BY LenIs
<1>2. front \in AnyText /\ Len(front) = f /\ \A k \in 1..f : front[k] = r[k]
  <2>1. CASE q < p
    <3>1. /\ p - q \in Nat /\ 0 \in Nat /\ 0 <= p - q /\ p - q <= Len(r) /\ (p - q) - 0 = p - q
      BY <1>1, <2>1
    <3>2. /\ Slice(r, 0, p - q) \in AnyText /\ Len(Slice(r, 0, p - q)) = (p - q) - 0
          /\ \A k \in 1..(p - q) - 0 : Slice(r, 0, p - q)[k] = r[0 + k]
      BY <3>1, SliceIs, Zenon
    <3>3. front = Slice(r, 0, p - q) /\ f = p - q
      BY <2>1
    <3> HIDE DEF front, f
    <3> QED
      BY <3>1, <3>2, <3>3
  <2>2. CASE ~ q < p
    BY <1>1, <2>2, EmptyText
  <2> QED
    BY <2>1, <2>2
<1>3. /\ back \in AnyText /\ Len(back) = g
      /\ \A k \in 1..g : back[k] = r[((p + n) - q) + k]
  <2>1. CASE p + n < q + m
    <3>1. (p + n) - q \in 0..Len(r) /\ m - ((p + n) - q) = g
      BY <1>1, <2>1
    <3>2. /\ From(r, (p + n) - q) \in AnyText /\ Len(From(r, (p + n) - q)) = m - ((p + n) - q)
          /\ \A k \in 1..m - ((p + n) - q) : From(r, (p + n) - q)[k] = r[((p + n) - q) + k]
      BY <3>1, FromIs, Zenon
    <3>3. back = From(r, (p + n) - q)
      BY <1>1, <2>1
    <3> HIDE DEF back, g
    <3> QED
      BY <3>1, <3>2, <3>3
  <2>2. CASE ~ p + n < q + m
    <3>1. back = <<>> /\ g = 0
      BY <1>1, <2>2
    <3> QED
      BY <3>1, EmptyText
  <2> QED
    BY <2>1, <2>2
<1>4. RestOf(rest, f, g, u, n, p, r, q)
  <2> HIDE DEF front, back
  <2>1. /\ front \o back \in AnyText /\ Len(front \o back) = Len(front) + Len(back)
        /\ \A k \in 1..Len(front) + Len(back) :
              (front \o back)[k] = IF k <= Len(front) THEN front[k] ELSE back[k - Len(front)]
    BY <1>2, <1>3, JoinedIs, Zenon
  <2> HIDE DEF rest, f, g, u
  <2>2. /\ rest \in AnyText /\ Len(rest) = f + g
        /\ \A k \in 1..f + g : rest[k] = IF k <= f THEN front[k] ELSE back[k - f]
    BY <1>2, <1>3, <2>1, Zenon DEF rest
  <2>3. ASSUME NEW k \in 1..f PROVE rest[k] = r[k]
    <3>1. k \in 1..f + g /\ k <= f
      BY <1>1
    <3> QED
      BY <1>2, <2>2, <3>1
  <2>4. ASSUME NEW k \in 1..g PROVE rest[f + k] = r[((p + n) - q) + k]
    <3>1. f + k \in 1..f + g /\ ~ f + k <= f /\ (f + k) - f = k
      BY <1>1
    <3>2. rest[f + k] = back[k]
      BY <2>2, <3>1
    <3> QED
      BY <1>3, <3>2
  <2> QED
    BY <1>1, <2>2, <2>3, <2>4 DEF RestOf, f, g, u
<1>5. DeleteOverDelete(d, c) = Delete(rest, u)
  <2> DEFINE start == Greater(q, p)
             end == Lesser(q + m, p + n)
  <2>1. /\ start \in Nat /\ end \in Nat /\ start <= end /\ q <= start /\ p <= start
        /\ end <= p + n /\ end <= q + m
    BY <1>1 DEF Greater, Lesser
  <2> HIDE DEF start, end
  <2>2. Slice(r, start - q, end - q) = Slice(s, start - p, end - p)
    BY <2>1, SameWhereBoth
  <2>3. /\ c.kind = "d" /\ c.s = s /\ c.p = p /\ End(c) = p + n
        /\ d.kind = "d" /\ d.s = r /\ d.p = q /\ End(d) = q + m
    BY DeleteFields DEF End
  <2> HIDE DEF c, d
  <2>4. TransformPosition(q, c, FALSE) = u
    BY <1>1, <2>3 DEF TransformPosition
  <2> HIDE DEF rest, u
  <2>5. ~ d.p >= End(c) /\ ~ End(d) <= c.p
    BY <1>1, <2>3
  <2>6. /\ start = Greater(d.p, c.p) /\ end = Lesser(End(d), End(c))
        /\ rest = (IF d.p < c.p THEN Slice(d.s, 0, c.p - d.p) ELSE <<>>)
               \o (IF End(d) > End(c) THEN From(d.s, End(c) - d.p) ELSE <<>>)
    BY <2>3 DEF start, end, rest
  <2>7. /\ Slice(d.s, Greater(d.p, c.p) - d.p, Lesser(End(d), End(c)) - d.p)
             = Slice(c.s, Greater(d.p, c.p) - c.p, Lesser(End(d), End(c)) - c.p)
        /\ TransformPosition(d.p, c, FALSE) = u
    BY <2>2, <2>3, <2>4, <2>6
  <2> QED
    BY <2>5, <2>6, <2>7, Zenon DEF DeleteOverDelete
<1> HIDE DEF rest, f, g, u
<1> QED
  BY <1>4, <1>5

\* What is gone then is all that either deletes, from either side.
LEMMA OverlapDeleted ==
  ASSUME Failed \notin AnyText, NEW text \in AnyText,
         NEW s \in AnyText, s # <<>>, NEW p \in Nat, At(text, s, p),
         NEW r \in AnyText, r # <<>>, NEW q \in Nat, At(text, r, q),
         q < p + Len(s), p < q + Len(r), NEW side
  PROVE  LET first == Lesser(p, q)
             last == Greater(p + Len(s), q + Len(r))
             over == TransformComponent(<<>>, Delete(r, q), Delete(s, p), side)
         IN Deleted(text, last - first, first, Apply(Apply(text, <<Delete(s, p)>>), over))
<1> DEFINE n == Len(s)
           m == Len(r)
           first == Lesser(p, q)
           last == Greater(p + n, q + m)
           over == TransformComponent(<<>>, Delete(r, q), Delete(s, p), side)
           a == ApplyComponent(text, Delete(s, p))
           x == Apply(a, over)
<1>1. n \in Nat \ {0} /\ m \in Nat \ {0} /\ Len(text) \in Nat /\ p + n <= Len(text)
  BY LenIs DEF At
<1>2. PICK rest, f, g, u : /\ RestOf(rest, f, g, u, n, p, r, q)
                           /\ DeleteOverDelete(Delete(r, q), Delete(s, p)) = Delete(rest, u)
  BY OverlapIs
<1>3. over = AppendTo(<<>>, Delete(rest, u))
  BY <1>2, DeleteOver
<1>4. Deleted(text, n, p, a)
  BY DeleteIs
<1>5. Apply(text, <<Delete(s, p)>>) = a
  BY ApplyOne
<1> HIDE DEF a, over
<1>6. /\ At(a, rest, u)
      /\ \A z : Deleted(a, f + g, u, z) => Deleted(text, n + f + g, u, z)
      /\ f + g = 0 => Deleted(text, n + f + g, u, a)
  BY <1>1, <1>2, <1>4, DeletedRest
<1>7. /\ rest \in AnyText /\ Len(rest) = f + g /\ f \in Nat /\ g \in Nat /\ u \in Nat
      /\ u = first /\ n + f + g = last - first
  <2>1. /\ f \in Nat /\ f = IF q < p THEN p - q ELSE 0
        /\ g \in Nat /\ g = IF p + n < q + m THEN (q + m) - (p + n) ELSE 0
        /\ u \in Nat /\ u = IF q < p THEN q ELSE p
        /\ rest \in AnyText /\ Len(rest) = f + g
    BY <1>2 DEF RestOf
  <2>2. u = first
    BY <2>1 DEF Lesser
  <2> HIDE DEF n, m
  <2>3. last = (p + n) + g
    <3>1. CASE p + n < q + m
      <4>1. g = (q + m) - (p + n) /\ last = q + m
        BY <2>1, <3>1 DEF Greater
      <4> HIDE DEF last
      <4> QED
        BY <1>1, <2>1, <4>1
    <3>2. CASE ~ p + n < q + m
      <4>1. g = 0 /\ last = p + n
        BY <2>1, <3>2 DEF Greater
      <4> HIDE DEF last
      <4> QED
        BY <1>1, <4>1
    <3> QED
      BY <3>1, <3>2
  <2>4. p = u + f
    BY <2>1
  <2> HIDE DEF first, last
  <2>5. n + f + g = last - first
    BY <1>1, <2>1, <2>2, <2>3, <2>4
  <2> QED
    BY <2>1, <2>2, <2>5
<1>8. Deleted(text, n + f + g, u, x)
  <2>1. CASE rest = <<>>
    <3>1. over = <<>>
      BY <1>3, <2>1, DeleteFields DEF AppendTo
    <3>2. x = a
      BY <3>1, ApplyOne
    <3>3. f + g = 0
      BY <1>7, <2>1
    <3> HIDE DEF x
    <3> QED
      BY <1>6, <3>2, <3>3
  <2>2. CASE rest # <<>>
    <3>1. over = <<Delete(rest, u)>>
      BY <1>3, <2>2, DeleteFields, AppendToNothing
    <3>2. x = ApplyComponent(a, Delete(rest, u))
      BY <3>1, ApplyOne
    <3>3. a \in AnyText
      BY <1>4 DEF Deleted
    <3>4. Deleted(a, f + g, u, x)
      BY <1>6, <1>7, <2>2, <3>2, <3>3, DeleteIs
    <3> HIDE DEF x
    <3> QED
      BY <1>6, <3>4
  <2> QED
    BY <2>1, <2>2
<1> HIDE DEF x, first, last
<1>9. Deleted(text, last - first, first, x)
  BY <1>7, <1>8
<1> QED
  BY <1>5, <1>9 DEF x, over, first, last

LEMMA OverlapConverges ==
  ASSUME Failed \notin AnyText, NEW text \in AnyText,
         NEW s \in AnyText, s # <<>>, NEW p \in Nat, At(text, s, p),
         NEW r \in AnyText, r # <<>>, NEW q \in Nat, At(text, r, q),
         q < p + Len(s), p < q + Len(r), NEW side, NEW otherSide
  PROVE  Converge(text, Delete(s, p), Delete(r, q), side, otherSide)
<1> DEFINE first == Lesser(p, q)
           last == Greater(p + Len(s), q + Len(r))
           x == Apply(Apply(text, <<Delete(s, p)>>),
                      TransformComponent(<<>>, Delete(r, q), Delete(s, p), side))
           y == Apply(Apply(text, <<Delete(r, q)>>),
                      TransformComponent(<<>>, Delete(s, p), Delete(r, q), otherSide))
<1>1. Deleted(text, last - first, first, x)
  BY OverlapDeleted
<1>2. Deleted(text, last - first, first, y)
  <2>1. Lesser(q, p) = first /\ Greater(q + Len(r), p + Len(s)) = last
    BY LenIs DEF Lesser, Greater
  <2>2. Deleted(text, Greater(q + Len(r), p + Len(s)) - Lesser(q, p), Lesser(q, p), y)
    BY OverlapDeleted
  <2> HIDE DEF first, last, y
  <2> QED
    BY <2>1, <2>2
<1> HIDE DEF first, last, x, y
<1>3. x = y /\ x \in AnyText
  <2>1. /\ x \in AnyText /\ y \in AnyText /\ Len(x) = Len(y)
        /\ \A k \in 1..Len(x) : x[k] = y[k]
    BY <1>1, <1>2 DEF Deleted
  <2> QED
    BY <2>1, SameText
<1> QED
  BY <1>3 DEF x, y, Converge

LEMMA EitherWay ==
  ASSUME NEW text, NEW c, NEW d, NEW side, NEW otherSide, Converge(text, c, d, side, otherSide)
  PROVE  Converge(text, d, c, otherSide, side)
BY DEF Converge

\* Two single components of concurrent ops, each applicable to the text: applying
\* either and then the other over it gives the same text, and throws nothing. It is
\* what transformX's loops rest on (ShareJS types/text.js, transformComponent), for
\* texts and components of any length. An insert is at or before the end of the text,
\* and no component is of the empty text: append drops those.
Component == [kind : {"i", "d"}, s : AnyText \ {<<>>}, p : Nat]

Fits(text, c) == IF c.kind = "i" THEN c.p <= Len(text) ELSE ApplyComponent(text, c) # Failed

THEOREM ComponentsConverge ==
  ASSUME Failed \notin Seq(Nat), NEW text \in Seq(Nat),
         NEW c \in Component, Fits(text, c), NEW d \in Component, Fits(text, d)
  PROVE  /\ Apply(Apply(text, <<c>>), TransformComponent(<<>>, d, c, "right"))
               = Apply(Apply(text, <<d>>), TransformComponent(<<>>, c, d, "left"))
         /\ Apply(Apply(text, <<c>>), TransformComponent(<<>>, d, c, "right")) # Failed
<1>1. Failed \notin AnyText /\ text \in AnyText
  BY DEF AnyText
<1>2. /\ c.s \in AnyText /\ c.s # <<>> /\ c.p \in Nat /\ c.kind \in {"i", "d"}
      /\ d.s \in AnyText /\ d.s # <<>> /\ d.p \in Nat /\ d.kind \in {"i", "d"}
  BY DEF Component
<1>3. /\ c.kind = "i" => c = Insert(c.s, c.p)
      /\ c.kind = "d" => c = Delete(c.s, c.p)
      /\ d.kind = "i" => d = Insert(d.s, d.p)
      /\ d.kind = "d" => d = Delete(d.s, d.p)
  BY DEF Component, Insert, Delete
<1>4. /\ c.kind = "i" => c.p \in 0..Len(text)
      /\ d.kind = "i" => d.p \in 0..Len(text)
  BY <1>1, <1>2, LenIs DEF Fits
<1>5. c.kind = "d" => At(text, c.s, c.p)
  BY <1>1, <1>2, <1>3, DeleteIs DEF Fits
<1>6. d.kind = "d" => At(text, d.s, d.p)
  BY <1>1, <1>2, <1>3, DeleteIs DEF Fits
<1>7. Converge(text, c, d, "right", "left")
  <2>1. CASE c.kind = "i" /\ d.kind = "i"
    <3>1. c = Insert(c.s, c.p) /\ d = Insert(d.s, d.p)
      BY <1>3, <2>1
    <3>2. Converge(text, Insert(c.s, c.p), Insert(d.s, d.p), "right", "left")
      BY <1>1, <1>2, <1>4, <2>1, InsertsConverge
    <3> QED
      BY <3>1, <3>2
  <2>2. CASE c.kind = "i" /\ d.kind = "d"
    <3>1. c = Insert(c.s, c.p) /\ d = Delete(d.s, d.p)
      BY <1>3, <2>2
    <3>2. Converge(text, Insert(c.s, c.p), Delete(d.s, d.p), "right", "left")
      BY <1>1, <1>2, <1>4, <1>6, <2>2, InsertAndDeleteConverge
    <3> QED
      BY <3>1, <3>2
  <2>3. CASE c.kind = "d" /\ d.kind = "i"
    <3>1. c = Delete(c.s, c.p) /\ d = Insert(d.s, d.p)
      BY <1>3, <2>3
    <3>2. Converge(text, Insert(d.s, d.p), Delete(c.s, c.p), "left", "right")
      BY <1>1, <1>2, <1>4, <1>5, <2>3, InsertAndDeleteConverge
    <3> QED
      BY <3>1, <3>2, EitherWay
  <2>4. CASE c.kind = "d" /\ d.kind = "d"
    <3>1. c = Delete(c.s, c.p) /\ d = Delete(d.s, d.p)
      BY <1>3, <2>4
    <3>2. At(text, c.s, c.p) /\ At(text, d.s, d.p)
      BY <1>5, <1>6, <2>4
    <3>3. CASE c.p + Len(c.s) <= d.p
      <4>1. Converge(text, Delete(c.s, c.p), Delete(d.s, d.p), "right", "left")
        BY <1>1, <1>2, <3>2, <3>3, DeletesApartConverge
      <4> QED
        BY <3>1, <4>1
    <3>4. CASE d.p + Len(d.s) <= c.p
      <4>1. Converge(text, Delete(d.s, d.p), Delete(c.s, c.p), "left", "right")
        BY <1>1, <1>2, <3>2, <3>4, DeletesApartConverge
      <4> QED
        BY <3>1, <4>1, EitherWay
    <3>5. CASE d.p < c.p + Len(c.s) /\ c.p < d.p + Len(d.s)
      <4>1. Converge(text, Delete(c.s, c.p), Delete(d.s, d.p), "right", "left")
        BY <1>1, <1>2, <3>2, <3>5, OverlapConverges
      <4> QED
        BY <3>1, <4>1
    <3> QED
      BY <1>2, <3>3, <3>4, <3>5, LenIs
  <2> QED
    BY <1>2, <2>1, <2>2, <2>3, <2>4
<1> QED
  BY <1>1, <1>7 DEF Converge

-----------------------------------------------------------------------------
(* Components that append joins *)

\* s at p and then r at q within it, or one insert of j, which has r in s.
TwoInserts(text, s, p, r, q, a, x, j, y) ==
  /\ text \in AnyText /\ s \in AnyText /\ r \in AnyText /\ p \in Nat /\ q \in Nat
  /\ p <= Len(text) /\ p <= q /\ q <= p + Len(s)
  /\ Inserted(text, s, p, a) /\ Inserted(a, r, q, x)
  /\ Inserted(s, r, q - p, j) /\ Inserted(text, j, p, y)

LEMMA InsertJoins ==
  ASSUME NEW text, NEW s, NEW p, NEW r, NEW q, NEW a, NEW x, NEW j, NEW y,
         TwoInserts(text, s, p, r, q, a, x, j, y)
  PROVE  x = y
<1>1. /\ text \in AnyText /\ s \in AnyText /\ r \in AnyText /\ p \in Nat /\ q \in Nat
      /\ p <= Len(text) /\ p <= q /\ q <= p + Len(s)
      /\ Inserted(text, s, p, a) /\ Inserted(a, r, q, x)
      /\ Inserted(s, r, q - p, j) /\ Inserted(text, j, p, y)
  BY DEF TwoInserts
<1> DEFINE n == Len(s)
           m == Len(r)
<1>2. n \in Nat /\ m \in Nat /\ Len(text) \in Nat /\ p \in Nat /\ q \in Nat /\ p <= Len(text)
      /\ p <= q /\ q <= p + n
  BY <1>1, LenIs
<1>3. /\ a \in AnyText /\ Len(a) = Len(text) + n
      /\ j \in AnyText /\ Len(j) = n + m
  BY <1>1 DEF Inserted
<1>4. /\ x \in AnyText /\ Len(x) = Len(text) + n + m
      /\ y \in AnyText /\ Len(y) = Len(text) + n + m
  BY <1>1, <1>2, <1>3 DEF Inserted
<1>5. ASSUME NEW k \in 1..Len(text) + n + m PROVE x[k] = y[k]
  <2>1. /\ x[k] = IF k <= q THEN a[k] ELSE IF k <= q + m THEN r[k - q] ELSE a[k - m]
        /\ y[k] = IF k <= p THEN text[k]
                  ELSE IF k <= p + (n + m) THEN j[k - p] ELSE text[k - (n + m)]
    BY <1>1, <1>3, <1>4 DEF Inserted
  <2>2. ASSUME NEW i \in 1..Len(text) + n
        PROVE  a[i] = IF i <= p THEN text[i] ELSE IF i <= p + n THEN s[i - p] ELSE text[i - n]
    BY <1>1, <1>3 DEF Inserted
  <2>3. ASSUME NEW i \in 1..n + m
        PROVE  j[i] = IF i <= q - p THEN s[i]
                      ELSE IF i <= (q - p) + m THEN r[i - (q - p)] ELSE s[i - m]
    BY <1>1, <1>3 DEF Inserted
  <2> HIDE DEF n, m
  <2>4. CASE k <= p
    <3>1. k <= q /\ k \in 1..Len(text) + n
      BY <1>2, <2>4
    <3> QED
      BY <2>1, <2>2, <2>4, <3>1
  <2>5. CASE ~ k <= p /\ k <= q
    <3>1. /\ k \in 1..Len(text) + n /\ k <= p + n /\ k <= p + (n + m)
          /\ k - p \in 1..n + m /\ k - p <= q - p
      BY <1>2, <2>5
    <3> QED
      BY <2>1, <2>2, <2>3, <2>5, <3>1
  <2>6. CASE ~ k <= q /\ k <= q + m
    <3>1. /\ ~ k <= p /\ k <= p + (n + m) /\ k - p \in 1..n + m
          /\ ~ k - p <= q - p /\ k - p <= (q - p) + m /\ (k - p) - (q - p) = k - q
      BY <1>2, <2>6
    <3>2. j[k - p] = r[(k - p) - (q - p)]
      BY <2>3, <3>1
    <3> QED
      BY <2>1, <2>6, <3>1, <3>2
  <2>7. CASE ~ k <= q + m /\ k <= p + (n + m)
    <3>1. /\ ~ k <= q /\ ~ k <= p /\ k - m \in 1..Len(text) + n
          /\ ~ k - m <= p /\ k - m <= p + n /\ k - p \in 1..n + m
          /\ ~ k - p <= q - p /\ ~ k - p <= (q - p) + m /\ (k - p) - m = (k - m) - p
      BY <1>2, <2>7
    <3>2. a[k - m] = s[(k - m) - p]
      BY <2>2, <3>1
    <3>3. j[k - p] = s[(k - p) - m]
      BY <2>3, <3>1
    <3> QED
      BY <2>1, <2>7, <3>1, <3>2, <3>3
  <2>8. CASE ~ k <= p + (n + m)
    <3>1. /\ ~ k <= q /\ ~ k <= q + m /\ ~ k <= p /\ k - m \in 1..Len(text) + n
          /\ ~ k - m <= p /\ ~ k - m <= p + n /\ (k - m) - n = k - (n + m)
      BY <1>2, <2>8
    <3>2. a[k - m] = text[(k - m) - n]
      BY <2>2, <3>1
    <3> QED
      BY <2>1, <2>8, <3>1, <3>2
  <2> QED
    BY <1>2, <2>4, <2>5, <2>6, <2>7, <2>8
<1> QED
  BY <1>4, <1>5, SameText

LEMMA DeleteJoins ==
  ASSUME NEW text \in AnyText, NEW s \in AnyText, NEW p \in Nat,
         NEW r \in AnyText, NEW q \in Nat, q <= p, p <= q + Len(r),
         NEW j, Inserted(r, s, p - q, j)
  PROVE  /\ At(text, j, q) => At(text, s, p)
         /\ \A a : At(text, s, p) /\ Deleted(text, Len(s), p, a) =>
              /\ At(a, r, q) <=> At(text, j, q)
              /\ \A x, y : /\ Deleted(a, Len(r), q, x)
                           /\ Deleted(text, Len(r) + Len(s), q, y)
                           => x = y
<1> DEFINE n == Len(s)
           m == Len(r)
<1>1. n \in Nat /\ m \in Nat /\ Len(text) \in Nat /\ p <= q + m
  BY LenIs
<1>2. j \in AnyText /\ Len(j) = m + n
  BY DEF Inserted
<1>3. ASSUME NEW i \in 1..m + n
      PROVE  j[i] = IF i <= p - q THEN r[i]
                    ELSE IF i <= (p - q) + n THEN s[i - (p - q)] ELSE r[i - n]
  BY <1>2 DEF Inserted
<1> HIDE DEF n, m
<1>4. ASSUME At(text, j, q) PROVE At(text, s, p)
  <2>1. /\ q + (m + n) <= Len(text)
        /\ \A k \in 1..m + n : text[q + k] = j[k]
    BY <1>2, <1>4 DEF At
  <2>2. ASSUME NEW k \in 1..n PROVE text[p + k] = s[k]
    <3> DEFINE i == (p - q) + k
    <3>1. /\ i \in 1..m + n /\ q + i = p + k /\ ~ i <= p - q /\ i <= (p - q) + n
          /\ i - (p - q) = k
      BY <1>1
    <3> HIDE DEF i
    <3>2. j[i] = s[i - (p - q)]
      BY <1>3, <3>1
    <3>3. text[q + i] = j[i]
      BY <2>1, <3>1
    <3> QED
      BY <3>1, <3>2, <3>3
  <2>3. p + n <= Len(text)
    BY <1>1, <2>1
  <2> QED
    BY <2>2, <2>3 DEF At, n
<1>5. ASSUME NEW a, At(text, s, p), Deleted(text, n, p, a)
      PROVE  /\ At(a, r, q) <=> At(text, j, q)
             /\ \A x, y : Deleted(a, m, q, x) /\ Deleted(text, m + n, q, y) => x = y
  <2>1. /\ a \in AnyText /\ Len(a) = Len(text) - n /\ p + n <= Len(text)
        /\ \A k \in 1..n : text[p + k] = s[k]
    BY <1>5 DEF Deleted, At, n
  <2>2. ASSUME NEW i \in 1..Len(text) - n PROVE a[i] = IF i <= p THEN text[i] ELSE text[i + n]
    BY <1>5, <2>1 DEF Deleted
  <2>3. ASSUME At(a, r, q) PROVE At(text, j, q)
    <3>1. q + m <= Len(text) - n /\ \A k \in 1..m : a[q + k] = r[k]
      BY <2>1, <2>3 DEF At, m
    <3>2. ASSUME NEW k \in 1..m + n PROVE text[q + k] = j[k]
      <4>1. CASE k <= p - q
        <5>1. k \in 1..m /\ q + k \in 1..Len(text) - n /\ q + k <= p
          BY <1>1, <3>1, <4>1
        <5>2. a[q + k] = text[q + k]
          BY <2>2, <5>1
        <5> QED
          BY <1>3, <3>1, <4>1, <5>1, <5>2
      <4>2. CASE ~ k <= p - q /\ k <= (p - q) + n
        <5> DEFINE i == k - (p - q)
        <5>1. i \in 1..n /\ p + i = q + k
          BY <1>1, <4>2
        <5>2. j[k] = s[i]
          BY <1>3, <4>2
        <5> HIDE DEF i
        <5> QED
          BY <2>1, <5>1, <5>2
      <4>3. CASE ~ k <= (p - q) + n
        <5> DEFINE i == k - n
        <5>1. /\ i \in 1..m /\ q + i \in 1..Len(text) - n /\ ~ q + i <= p /\ (q + i) + n = q + k
              /\ ~ k <= p - q
          BY <1>1, <3>1, <4>3
        <5>2. j[k] = r[i]
          BY <1>3, <4>3, <5>1
        <5> HIDE DEF i
        <5>3. a[q + i] = text[(q + i) + n]
          BY <2>2, <5>1
        <5> QED
          BY <3>1, <5>1, <5>2, <5>3
      <4> QED
        BY <4>1, <4>2, <4>3
    <3>3. q + (m + n) <= Len(text)
      BY <1>1, <3>1
    <3> QED
      BY <1>2, <3>2, <3>3 DEF At
  <2>4. ASSUME At(text, j, q) PROVE At(a, r, q)
    <3>1. /\ q + (m + n) <= Len(text)
          /\ \A k \in 1..m + n : text[q + k] = j[k]
      BY <1>2, <2>4 DEF At
    <3>2. ASSUME NEW k \in 1..m PROVE a[q + k] = r[k]
      <4>1. q + k \in 1..Len(text) - n /\ k \in 1..m + n
        BY <1>1, <3>1
      <4>2. CASE k <= p - q
        <5>1. q + k <= p
          BY <1>1, <4>2
        <5>2. a[q + k] = text[q + k]
          BY <2>2, <4>1, <5>1
        <5> QED
          BY <1>3, <3>1, <4>1, <4>2, <5>2
      <4>3. CASE ~ k <= p - q
        <5> DEFINE i == k + n
        <5>1. /\ i \in 1..m + n /\ ~ i <= p - q /\ ~ i <= (p - q) + n /\ i - n = k
              /\ (q + k) + n = q + i /\ ~ q + k <= p
          BY <1>1, <4>3
        <5> HIDE DEF i
        <5>2. a[q + k] = text[(q + k) + n]
          BY <2>2, <4>1, <5>1
        <5>3. j[i] = r[i - n] /\ text[q + i] = j[i]
          BY <1>3, <3>1, <5>1
        <5> QED
          BY <5>1, <5>2, <5>3
      <4> QED
        BY <4>2, <4>3
    <3>3. q + m <= Len(a)
      BY <1>1, <2>1, <3>1
    <3> QED
      BY <3>2, <3>3 DEF At, m
  <2>5. ASSUME NEW x, NEW y, Deleted(a, m, q, x), Deleted(text, m + n, q, y)
        PROVE  x = y
    <3>1. /\ x \in AnyText /\ y \in AnyText
          /\ Len(x) = Len(text) - (m + n) /\ Len(y) = Len(text) - (m + n)
      BY <1>1, <2>1, <2>5 DEF Deleted
    <3>2. ASSUME NEW k \in 1..Len(text) - (m + n) PROVE x[k] = y[k]
      <4>1. /\ x[k] = IF k <= q THEN a[k] ELSE a[k + m]
            /\ y[k] = IF k <= q THEN text[k] ELSE text[k + (m + n)]
        BY <2>5, <3>1 DEF Deleted
      <4>2. CASE k <= q
        <5>1. k <= p /\ k \in 1..Len(text) - n
          BY <1>1, <4>2
        <5> QED
          BY <2>2, <4>1, <4>2, <5>1
      <4>3. CASE ~ k <= q
        <5>1. k + m \in 1..Len(text) - n /\ ~ k + m <= p /\ (k + m) + n = k + (m + n)
          BY <1>1, <4>3
        <5>2. a[k + m] = text[(k + m) + n]
          BY <2>2, <5>1
        <5> QED
          BY <4>1, <4>3, <5>1, <5>2
      <4> QED
        BY <4>2, <4>3
    <3> QED
      BY <3>1, <3>2, SameText
  <2> QED
    BY <2>3, <2>4, <2>5
<1> QED
  BY <1>4, <1>5 DEF n, m

\* append joins a component to the one before it only if one does what the two do, in
\* order, and throws where they throw (ShareJS types/text.js, append). Ops that wait for
\* an acknowledgement are composed by it.
THEOREM AppendJoins ==
  ASSUME Failed \notin Seq(Nat), NEW text \in Seq(Nat),
         NEW last \in Component, last.kind = "i" => last.p <= Len(text), NEW c \in Component
  PROVE  Apply(text, AppendTo(<<last>>, c)) = ApplyComponent(ApplyComponent(text, last), c)
<1> DEFINE s == last.s
           p == last.p
           r == c.s
           q == c.p
           a == ApplyComponent(text, last)
           inside == last.kind = "i" /\ c.kind = "i" /\ p <= q /\ q <= End(last)
           around == last.kind = "d" /\ c.kind = "d" /\ q <= p /\ p <= End(c)
<1>1. Failed \notin AnyText /\ text \in AnyText
  BY DEF AnyText
<1>2. /\ s \in AnyText /\ s # <<>> /\ p \in Nat /\ last.kind \in {"i", "d"}
      /\ r \in AnyText /\ r # <<>> /\ q \in Nat /\ c.kind \in {"i", "d"}
      /\ Len(s) \in Nat /\ Len(r) \in Nat
      /\ End(last) = p + Len(s) /\ End(c) = q + Len(r)
  BY LenIs DEF Component, End
<1>3. /\ last.kind = "i" => last = Insert(s, p)
      /\ last.kind = "d" => last = Delete(s, p)
      /\ c.kind = "i" => c = Insert(r, q)
      /\ c.kind = "d" => c = Delete(r, q)
  BY DEF Component, Insert, Delete
<1>4. Len(<<last>>) = 1 /\ <<last>>[1] = last
  OBVIOUS
<1>5. <<last>> # <<>>
  OBVIOUS
<1>6. CASE inside
  <2> DEFINE j == StrInject(s, q - p, r)
             x == ApplyComponent(a, c)
             y == ApplyComponent(text, Insert(j, p))
  <2>1. AppendTo(<<last>>, c) = <<Insert(j, p)>>
    <3>1. [last EXCEPT !.s = j] = Insert(j, p)
      BY <1>3, <1>6 DEF Insert
    <3>2. AppendTo(<<last>>, c) = [<<last>> EXCEPT ![1].s = j]
      <4>1. /\ ~ (c.kind # "clash" /\ c.s = <<>>)
            /\ last.kind = "i" /\ c.kind = "i" /\ last.p <= c.p /\ c.p <= End(last)
        BY <1>2, <1>6
      <4>2. AppendTo(<<last>>, c) = [<<last>> EXCEPT ![1].s = StrInject(@, c.p - last.p, c.s)]
        BY <1>4, <1>5, <4>1 DEF AppendTo
      <4> QED
        BY <1>4, <4>2
    <3> QED
      BY <3>1, <3>2
  <2>2. Apply(text, AppendTo(<<last>>, c)) = y
    BY <2>1, ApplyOne
  <2>3. last = Insert(s, p) /\ c = Insert(r, q) /\ p \in 0..Len(text) /\ p <= Len(text)
    BY <1>1, <1>2, <1>3, <1>6, LenIs
  <2>4. Inserted(text, s, p, a)
    BY <1>1, <1>2, <2>3, InsertIs
  <2>5. a \in AnyText /\ Len(a) = Len(text) + Len(s)
    BY <2>4 DEF Inserted
  <2>6. q \in 0..Len(a) /\ p <= q /\ q <= p + Len(s) /\ q - p \in 0..Len(s)
    BY <1>1, <1>2, <1>6, <2>3, <2>5, LenIs
  <2> HIDE DEF a
  <2>7. Inserted(a, r, q, x)
    BY <1>1, <1>2, <2>3, <2>5, <2>6, InsertIs
  <2>8. Inserted(s, r, q - p, j)
    <3>1. s # Failed
      BY <1>1, <1>2
    <3>2. ApplyComponent(s, Insert(r, q - p)) = j
      BY <3>1, DeleteFields DEF ApplyComponent
    <3>3. Inserted(s, r, q - p, ApplyComponent(s, Insert(r, q - p)))
      BY <1>1, <1>2, <2>6, InsertIs
    <3> QED
      BY <3>2, <3>3
  <2> HIDE DEF j
  <2>9. Inserted(text, j, p, y)
    <3>1. j \in AnyText
      BY <2>8 DEF Inserted
    <3> QED
      BY <1>1, <2>3, <3>1, InsertIs
  <2> HIDE DEF x, y
  <2>10. TwoInserts(text, s, p, r, q, a, x, j, y)
    BY <1>1, <1>2, <2>3, <2>4, <2>6, <2>7, <2>8, <2>9 DEF TwoInserts
  <2>11. x = y
    BY <2>10, InsertJoins
  <2> QED
    BY <2>2, <2>11 DEF x, a
<1>7. CASE around
  <2> DEFINE j == StrInject(r, p - q, s)
             x == ApplyComponent(a, c)
             y == ApplyComponent(text, Delete(j, q))
  <2>1. AppendTo(<<last>>, c) = <<Delete(j, q)>>
    <3>1. /\ ~ (c.kind # "clash" /\ c.s = <<>>)
          /\ last.kind = "d" /\ c.kind = "d" /\ c.p <= last.p /\ last.p <= End(c)
          /\ last.kind # "i"
      BY <1>2, <1>7
    <3>2. AppendTo(<<last>>, c) = [<<last>> EXCEPT ![1] = Delete(j, q)]
      BY <1>4, <1>5, <3>1 DEF AppendTo
    <3> QED
      BY <3>2
  <2>2. Apply(text, AppendTo(<<last>>, c)) = y
    BY <2>1, ApplyOne
  <2>3. last = Delete(s, p) /\ c = Delete(r, q) /\ q <= p /\ p <= q + Len(r) /\ p - q \in 0..Len(r)
    BY <1>2, <1>3, <1>7
  <2>4. Inserted(r, s, p - q, j)
    <3>1. r # Failed
      BY <1>1, <1>2
    <3>2. ApplyComponent(r, Insert(s, p - q)) = j
      BY <3>1, DeleteFields DEF ApplyComponent
    <3>3. Inserted(r, s, p - q, ApplyComponent(r, Insert(s, p - q)))
      BY <1>1, <1>2, <2>3, InsertIs
    <3> QED
      BY <3>2, <3>3
  <2> HIDE DEF j
  <2>5. j \in AnyText /\ Len(j) = Len(r) + Len(s) /\ j # <<>>
    <3>1. j \in AnyText /\ Len(j) = Len(r) + Len(s)
      BY <2>4 DEF Inserted
    <3>2. Len(s) # 0
      BY <1>2, EmptyText
    <3> HIDE DEF s, r
    <3>3. Len(j) # 0
      BY <1>2, <3>1, <3>2
    <3>4. j # <<>>
      BY <3>1, <3>3, EmptyText
    <3> QED
      BY <3>1, <3>4
  <2>6. /\ y # Failed <=> At(text, j, q)
        /\ y # Failed => Deleted(text, Len(r) + Len(s), q, y)
    BY <1>1, <1>2, <2>5, DeleteIs
  <2>7. /\ a # Failed <=> At(text, s, p)
        /\ a # Failed => Deleted(text, Len(s), p, a)
    BY <1>1, <1>2, <2>3, DeleteIs
  <2> HIDE DEF a
  <2>8. /\ At(text, j, q) => At(text, s, p)
        /\ \A b : At(text, s, p) /\ Deleted(text, Len(s), p, b) =>
              /\ At(b, r, q) <=> At(text, j, q)
              /\ \A z, w : /\ Deleted(b, Len(r), q, z)
                           /\ Deleted(text, Len(r) + Len(s), q, w)
                           => z = w
    BY <1>1, <1>2, <2>3, <2>4, DeleteJoins
  <2> HIDE DEF y
  <2>9. x = y
    <3>1. CASE a = Failed
      <4>1. x = Failed
        BY <3>1 DEF ApplyComponent
      <4> HIDE DEF x
      <4> QED
        BY <2>6, <2>7, <2>8, <3>1, <4>1
    <3>2. CASE a # Failed
      <4>1. a \in AnyText
        BY <2>7, <3>2 DEF Deleted
      <4>2. /\ x # Failed <=> At(a, r, q)
            /\ x # Failed => Deleted(a, Len(r), q, x)
        BY <1>1, <1>2, <2>3, <4>1, DeleteIs
      <4> HIDE DEF x
      <4>3. x # Failed <=> y # Failed
        BY <2>6, <2>7, <2>8, <3>2, <4>2
      <4>4. x # Failed => x = y
        BY <2>6, <2>7, <2>8, <3>2, <4>2, <4>3
      <4> QED
        BY <4>3, <4>4
    <3> QED
      BY <3>1, <3>2
  <2> QED
    BY <2>2, <2>9 DEF x, a
<1>8. CASE ~ inside /\ ~ around
  <2>1. ~ (c.kind # "clash" /\ c.s = <<>>)
    BY <1>2
  <2>2. AppendTo(<<last>>, c) = Append(<<last>>, c)
    BY <1>4, <1>5, <1>8, <2>1 DEF AppendTo
  <2>3. AppendTo(<<last>>, c) = <<last, c>>
    BY <2>2, AppendToOne
  <2> QED
    BY <2>3, ApplyTwo
<1> QED
  BY <1>6, <1>7, <1>8
=============================================================================
