------------------------ MODULE ProjectHistory_proofs ------------------------
(***************************************************************************)
(* Proofs about ProjectHistory, for any workers, ops, resyncs and faults.  *)
(*   RecordedOnce  history-v1 records every op once and in order; the lock *)
(*                 is not needed for it, end_version and the versions that *)
(*                 are seen suffice                                        *)
(*   ContentsTyped every variable has its type                             *)
(*   ResyncsCome   updates are only ignored for a resync that comes        *)
(*   OpsKept       no op of the document is lost while no hard resync is   *)
(*                 cut short, but those a batch sent again takes back      *)
(* The last two need the lock. The folds of a batch are taken through the  *)
(* states they go through, which the first of the folds' lemmas provide.   *)
(***************************************************************************)
EXTENDS ProjectHistory, WellFoundedInduction, TLAPS

\* A request whose end version is still the history's has only unseen ops.
Valid(r) ==
  /\ r.ops \subseteq 1..MaxOps
  /\ r.base \in Nat /\ r.base <= Len(log)
  /\ r.base = Len(log) => \A v \in r.ops : ~Seen(v)

LogShape ==
  /\ \E S : log \in Seq(S)
  /\ \A i \in DOMAIN log : log[i].ops \subseteq 1..MaxOps

\* The request of a worker that is about to send, or waits for the answer.
Sending(x) == w[x].at \in {"send", "sent"}

Carries(x) ==
  /\ {"at", "error", "request"} \subseteq DOMAIN w[x]
  /\ Sending(x) => Valid(w[x].request)

OrderInv ==
  /\ LogShape /\ OpsInOrder
  /\ DOMAIN w = Workers
  /\ \A x \in Workers : Carries(x)
  /\ late # None => Valid(late)

\* A step that sends nothing new and records nothing.
Keeps ==
  /\ log' = log
  /\ \/ late' \in {late, None}
     \/ \E x \in Workers : Sending(x) /\ late' = w[x].request
  /\ DOMAIN w' = Workers
  /\ \A y \in Workers :
       /\ {"at", "error", "request"} \subseteq DOMAIN w'[y]
       /\ Sending(y)' => Sending(y) /\ w'[y].request = w[y].request

LEMMA InitOrder == Init => OrderInv
<1> SUFFICES ASSUME Init PROVE OrderInv
  OBVIOUS
<1>1. log = <<>> /\ late = None /\ w = [x \in Workers |-> Idle]
  BY DEF Init
<1>2. LogShape
  <2>1. log \in Seq({})
    BY <1>1
  <2>2. DOMAIN log = {}
    BY <1>1
  <2> QED
    BY <2>1, <2>2 DEF LogShape
<1>3. OpsInOrder
  BY <1>1 DEF OpsInOrder
<1>4. \A x \in Workers : Carries(x)
  BY <1>1 DEF Carries, Sending, Idle
<1> QED
  BY <1>1, <1>2, <1>3, <1>4 DEF OrderInv

LEMMA KeepsOrder ==
  ASSUME OrderInv, Keeps
  PROVE  OrderInv'
<1>1. log' = log
  BY DEF Keeps
<1>2. LogShape' /\ OpsInOrder'
  BY <1>1 DEF OrderInv, LogShape, OpsInOrder
<1>3. ASSUME NEW r, Valid(r) PROVE Valid(r)'
  BY <1>1, <1>3 DEF Valid, Seen
<1>4. \A x \in Workers : Carries(x)'
  <2> SUFFICES ASSUME NEW x \in Workers PROVE Carries(x)'
    OBVIOUS
  <2>1. {"at", "error", "request"} \subseteq DOMAIN w'[x]
    BY DEF Keeps
  <2>2. ASSUME Sending(x)' PROVE Valid(w[x].request)' /\ w'[x].request = w[x].request
    <3>1. Valid(w[x].request) /\ w'[x].request = w[x].request
      BY <2>2 DEF OrderInv, Keeps, Carries
    <3> QED
      BY <1>1, <3>1 DEF Valid, Seen
  <2> QED
    BY <2>1, <2>2 DEF Carries, Valid
<1>5. (late # None => Valid(late))'
  <2>1. late' # None => Valid(late')
    BY DEF OrderInv, Keeps, Carries
  <2> QED
    BY <1>1, <2>1 DEF Valid, Seen
<1> QED
  BY <1>2, <1>4, <1>5 DEF OrderInv, Keeps

\* A valid request that is accepted keeps the history in order, and every other
\* request is then too late.
LEMMA RecordOrder ==
  ASSUME OrderInv, NEW r, Valid(r),
         log' = Append(log, Entry(r)), r.base = Len(log)
  PROVE  /\ LogShape' /\ OpsInOrder'
         /\ Len(log') = Len(log) + 1 /\ Len(log) \in Nat
<1> PICK S : log \in Seq(S)
  BY DEF OrderInv, LogShape
<1> DEFINE T == S \cup {Entry(r)}
<1>1. log \in Seq(T) /\ Entry(r) \in T
  OBVIOUS
<1> HIDE DEF T
<1>2. /\ log' \in Seq(T) /\ Len(log') = Len(log) + 1 /\ Len(log) \in Nat
      /\ DOMAIN log = 1..Len(log) /\ DOMAIN log' = 1..Len(log) + 1
      /\ log'[Len(log) + 1] = Entry(r)
      /\ \A i \in DOMAIN log : log'[i] = log[i]
  BY <1>1
<1>3. Entry(r).ops = r.ops /\ r.ops \subseteq 1..MaxOps
  BY DEF Entry, Valid
<1>4. LogShape'
  BY <1>2, <1>3 DEF OrderInv, LogShape
<1>5. \A i \in DOMAIN log : \A a, b : a \in log[i].ops /\ b \in r.ops => a < b
  <2> SUFFICES ASSUME NEW i \in DOMAIN log, NEW a \in log[i].ops, NEW b \in r.ops
               PROVE  a < b
    OBVIOUS
  <2>1. a \in Int /\ b \in Int
    BY <1>3, BoundsAssumption DEF OrderInv, LogShape
  <2>2. ~(b <= a)
    BY DEF Valid, Seen
  <2> QED
    BY <2>1, <2>2
<1>6. OpsInOrder'
  <2> SUFFICES ASSUME NEW i \in DOMAIN log', NEW j \in DOMAIN log', i < j,
                      NEW a \in log'[i].ops, NEW b \in log'[j].ops
               PROVE  a < b
    BY DEF OpsInOrder
  <2>1. i \in DOMAIN log
    BY <1>2
  <2>2. CASE j \in DOMAIN log
    BY <1>2, <2>1, <2>2 DEF OrderInv, OpsInOrder
  <2>3. CASE j = Len(log) + 1
    BY <1>2, <1>3, <1>5, <2>1, <2>3
  <2> QED
    BY <1>2, <2>2, <2>3
<1> QED
  BY <1>2, <1>4, <1>6

LEMMA LongerValid ==
  ASSUME NEW r, Valid(r), Len(log) \in Nat, Len(log') = Len(log) + 1
  PROVE  r.ops \subseteq 1..MaxOps /\ r.base \in Nat /\ r.base < Len(log')
BY DEF Valid

LEMMA FetchOrder == ASSUME OrderInv, NEW x \in Workers, Fetch(x) PROVE OrderInv'
<1>1. log' = log /\ late' = late
  BY DEF Fetch
<1>2. CASE ~InOrder(w[x].updates)
  <2>1. Fail(x, "hard")
    BY <1>2 DEF Fetch
  <2>2. Keeps
    BY <1>1, <2>1 DEF Fail, Keeps, Idle, OrderInv, Carries, Sending
  <2> QED
    BY <2>2, KeepsOrder
<1>3. CASE InOrder(w[x].updates)
  <2> DEFINE r == Request(w[x].updates)
  <2>1. w' = [w EXCEPT ![x].at = "send", ![x].updates = <<>>, ![x].request = r]
    BY <1>3 DEF Fetch
  <2>2. r.base = Len(log) /\ r.ops = Fresh(w[x].updates)
    BY DEF Request
  <2>3. Valid(r)
    <3>1. Len(log) \in Nat
      BY DEF OrderInv, LogShape
    <3> QED
      BY <2>2, <3>1 DEF Fresh, Valid
  <2> HIDE DEF r
  <2>4. DOMAIN w' = Workers /\ w'[x].request = r /\ {"at", "error", "request"} \subseteq DOMAIN w'[x]
    BY <2>1 DEF OrderInv, Carries
  <2>5. \A y \in Workers \ {x} : w'[y] = w[y]
    BY <2>1 DEF OrderInv
  <2>6. Carries(x)'
    BY <1>1, <2>3, <2>4 DEF Carries, Valid, Seen
  <2>7. \A y \in Workers \ {x} : Carries(y)'
    BY <1>1, <2>5 DEF Carries, Sending, Valid, Seen, OrderInv
  <2>8. LogShape' /\ OpsInOrder' /\ (late # None => Valid(late))'
    BY <1>1 DEF OrderInv, LogShape, OpsInOrder, Valid, Seen
  <2> QED
    BY <2>4, <2>6, <2>7, <2>8 DEF OrderInv
<1> QED
  BY <1>2, <1>3

LEMMA RecordedOrder == ASSUME OrderInv, NEW x \in Workers, Record(x) PROVE OrderInv'
<1> DEFINE r == w[x].request
<1>1. late' = late /\ w[x].at = "sent"
  BY DEF Record
<1>2. CASE ~Accepts(r)
  <2>1. Fail(x, "hard") /\ log' = log
    BY <1>2 DEF Record
  <2>2. Keeps
    BY <1>1, <2>1 DEF Fail, Keeps, Idle, OrderInv, Carries, Sending
  <2> QED
    BY <2>2, KeepsOrder
<1>3. CASE Accepts(r)
  <2>1. log' = Append(log, Entry(r)) /\ w' = [w EXCEPT ![x].at = "set"]
    BY <1>3 DEF Record, Goto
  <2>2. Valid(r) /\ r.base = Len(log)
    BY <1>1, <1>3 DEF OrderInv, Carries, Sending, Accepts
  <2> HIDE DEF r
  <2>3. /\ LogShape' /\ OpsInOrder'
        /\ Len(log') = Len(log) + 1 /\ Len(log) \in Nat
    BY <2>1, <2>2, RecordOrder
  <2>4. /\ DOMAIN w' = Workers
        /\ \A y \in Workers :
             /\ {"at", "error", "request"} \subseteq DOMAIN w'[y]
             /\ w'[y].request = w[y].request
             /\ Sending(y)' => Sending(y)
    BY <2>1 DEF OrderInv, Carries, Sending
  <2>5. \A y \in Workers : Carries(y)'
    BY <2>3, <2>4, LongerValid DEF OrderInv, Carries, Valid
  <2>6. (late # None => Valid(late))'
    BY <1>1, <2>3, LongerValid DEF OrderInv, Valid
  <2> QED
    BY <2>3, <2>4, <2>5, <2>6 DEF OrderInv
<1> QED
  BY <1>2, <1>3

LEMMA LateOrder == ASSUME OrderInv, RecordLate PROVE OrderInv'
<1>1. w' = w /\ late' = None /\ late # None
  BY DEF RecordLate
<1>2. CASE ~Accepts(late)
  <2>1. Keeps
    BY <1>1, <1>2 DEF RecordLate, Keeps, OrderInv, Carries, Sending
  <2> QED
    BY <2>1, KeepsOrder
<1>3. CASE Accepts(late)
  <2>1. log' = Append(log, Entry(late)) /\ late.base = Len(log) /\ Valid(late)
    BY <1>1, <1>3 DEF RecordLate, Accepts, OrderInv
  <2>2. /\ LogShape' /\ OpsInOrder'
        /\ Len(log') = Len(log) + 1 /\ Len(log) \in Nat
    BY <2>1, RecordOrder
  <2>3. \A y \in Workers : Carries(y)'
    BY <1>1, <2>2, LongerValid DEF OrderInv, Carries, Sending, Valid
  <2> QED
    BY <1>1, <2>2, <2>3 DEF OrderInv
<1> QED
  BY <1>2, <1>3

\* A worker goes on with the request it has, or starts anew.
LEMMA GotoKeeps ==
  ASSUME OrderInv, NEW x \in Workers, NEW pc, w' = [w EXCEPT ![x].at = pc],
         log' = log, late' = late, pc \in {"send", "sent"} => Sending(x)
  PROVE  Keeps
BY DEF Keeps, OrderInv, Carries, Sending

LEMMA RestartKeeps ==
  ASSUME OrderInv, NEW x \in Workers, NEW r, w' = [w EXCEPT ![x] = r],
         log' = log, late' = late,
         {"at", "error", "request"} \subseteq DOMAIN r, r.at \notin {"send", "sent"}
  PROVE  Keeps
BY DEF Keeps, OrderInv, Carries, Sending

LEMMA FailKeeps ==
  ASSUME OrderInv, NEW x \in Workers, NEW e, Fail(x, e), log' = log, late' = late
  PROVE  Keeps
BY RestartKeeps DEF Fail, Idle

\* The other steps of a worker.
LEMMA WorkerKeeps ==
  ASSUME OrderInv, NEW x \in Workers,
         \/ StartFlush(x) \/ GetLock(x) \/ LockTimeout(x) \/ Read(x) \/ Filter(x)
         \/ Send(x) \/ SetState(x) \/ Delete(x) \/ Release(x) \/ Report(x)
         \/ \E hard \in BOOLEAN : StartResync(x, hard)
         \/ ClearState(x) \/ DestroyQueue(x) \/ RequestResync(x) \/ SetStarted(x)
         \/ Crash(x) \/ SendTimeout(x) \/ WebFails(x)
  PROVE  Keeps
<1> USE DEF Keeps, OrderInv, Carries, Sending
<1>1. CASE StartFlush(x)
  BY <1>1 DEF StartFlush, Goto
<1>2. CASE GetLock(x)
  <2> DEFINE pc == CASE w[x].at = "lock" -> "read" [] w[x].hard -> "clear" [] OTHER -> "request"
  <2>1. w' = [w EXCEPT ![x].at = pc] /\ log' = log /\ late' = late
    BY <1>2 DEF GetLock, Goto
  <2>2. pc \notin {"send", "sent"}
    OBVIOUS
  <2> HIDE DEF pc
  <2> QED
    BY <2>1, <2>2, GotoKeeps
<1>3. CASE LockTimeout(x)
  BY <1>3 DEF LockTimeout
<1>4. CASE Read(x)
  <2>1. log' = log /\ late' = late
    BY <1>4 DEF Read
  <2>2. CASE Goto(x, "release")
    BY <2>1, <2>2, GotoKeeps DEF Goto
  <2>3. ASSUME NEW n \in 1..Len(queue),
               w' = [w EXCEPT ![x].at = "filter",
                              ![x].batch = SubSeq(queue, 1, n),
                              ![x].more = n < Len(queue)]
        PROVE  Keeps
    <3> DEFINE b == SubSeq(queue, 1, n)
               m == n < Len(queue)
    <3>1. w' = [w EXCEPT ![x].at = "filter", ![x].batch = b, ![x].more = m]
      BY <2>3
    <3> HIDE DEF b, m
    <3> QED
      BY <2>1, <3>1
  <2> HIDE DEF Keeps, OrderInv, Carries, Sending
  <2> QED
    BY <1>4, <2>2, <2>3, Zenon DEF Read
<1>5. CASE Filter(x)
  <2>1. log' = log /\ late' = late
    BY <1>5 DEF Filter
  <2>2. CASE ~Ongoing(syncState)
    BY <1>5, <2>1, <2>2 DEF Filter
  <2>3. CASE Ongoing(syncState)
    <3> DEFINE f == Filtered(w[x].batch)
               next == [structure |-> f.structure, doc |-> f.doc]
    <3>1. \/ Fail(x, "soft")
          \/ w' = [w EXCEPT ![x].at = IF f.kept = <<>> THEN "set" ELSE "fetch",
                            ![x].updates = f.kept, ![x].sync = next]
      BY <1>5, <2>3 DEF Filter
    <3> HIDE DEF f, next
    <3>2. CASE Fail(x, "soft")
      BY <2>1, <3>2, FailKeeps
    <3>3. CASE w' = [w EXCEPT ![x].at = IF f.kept = <<>> THEN "set" ELSE "fetch",
                            ![x].updates = f.kept, ![x].sync = next]
      BY <2>1, <3>3
    <3> QED
      BY <3>1, <3>2, <3>3
  <2> QED
    BY <2>2, <2>3
<1>6. CASE Send(x)
  <2>1. log' = log /\ late' = late /\ Sending(x)
    BY <1>6 DEF Send
  <2>2. CASE Fail(x, "soft")
    BY <2>1, <2>2, FailKeeps
  <2>3. ASSUME NEW pc \in {"set", "sent"}, Goto(x, pc) PROVE Keeps
    BY <2>1, <2>3, GotoKeeps DEF Goto
  <2> QED
    BY <1>6, <2>2, <2>3 DEF Send
<1>7. CASE SetState(x)
  BY <1>7 DEF SetState
<1>8. CASE Delete(x)
  BY <1>8 DEF Delete
<1>9. CASE Release(x)
  <2> DEFINE r == [Idle EXCEPT
                !.at = "report", !.session = w[x].session, !.then = w[x].then,
                !.error = IF w[x].error = "none" /\ lock # x THEN "soft" ELSE w[x].error]
  <2>1. w' = [w EXCEPT ![x] = r] /\ log' = log /\ late' = late
    BY <1>9 DEF Release
  <2>2. {"at", "error", "request"} \subseteq DOMAIN r /\ r.at = "report"
    BY DEF Idle
  <2> HIDE DEF r
  <2> QED
    BY <2>1, <2>2, RestartKeeps
<1>10. CASE Report(x)
  <2> DEFINE again == [Idle EXCEPT !.at = "resyncLock", !.then = "last",
                                   !.session = "resync", !.hard = TRUE]
             flush == [Idle EXCEPT !.at = "lock", !.then = w[x].then]
  <2>1. log' = log /\ late' = late
    BY <1>10 DEF Report
  <2>2. \E r \in {Idle, again, flush} : w' = [w EXCEPT ![x] = r]
    BY <1>10 DEF Report
  <2>3. /\ {"at", "error", "request"} \subseteq DOMAIN Idle /\ Idle.at = "idle"
        /\ {"at", "error", "request"} \subseteq DOMAIN again /\ again.at = "resyncLock"
        /\ {"at", "error", "request"} \subseteq DOMAIN flush /\ flush.at = "lock"
    BY DEF Idle
  <2> HIDE DEF again, flush
  <2> QED
    BY <2>1, <2>2, <2>3, RestartKeeps
<1>11. CASE \E hard \in BOOLEAN : StartResync(x, hard)
  <2> PICK hard \in BOOLEAN : StartResync(x, hard)
    BY <1>11
  <2> DEFINE r == [w[x] EXCEPT !.at = "resyncLock", !.session = "resync", !.hard = hard]
  <2>1. w' = [w EXCEPT ![x] = r] /\ log' = log /\ late' = late
    BY DEF StartResync
  <2>2. {"at", "error", "request"} \subseteq DOMAIN r /\ r.at = "resyncLock"
    OBVIOUS
  <2> HIDE DEF r
  <2> QED
    BY <2>1, <2>2, RestartKeeps
<1>12. CASE ClearState(x) \/ DestroyQueue(x)
  BY <1>12 DEF ClearState, DestroyQueue, Goto
<1>13. CASE RequestResync(x)
  <2>1. log' = log /\ late' = late
    BY <1>13 DEF RequestResync
  <2>2. Fail(x, "soft") \/ Goto(x, "requested")
    BY <1>13 DEF RequestResync
  <2> QED
    BY <2>1, <2>2, FailKeeps, GotoKeeps DEF Goto
<1>14. CASE SetStarted(x)
  BY <1>14 DEF SetStarted, Goto
<1>15. CASE Crash(x)
  BY <1>15 DEF Crash, Idle
<1>16. CASE SendTimeout(x)
  BY <1>16 DEF SendTimeout, Fail, Idle
<1>17. CASE WebFails(x)
  BY <1>17 DEF WebFails, Fail, Idle
<1> QED
  BY <1>1, <1>2, <1>3, <1>4, <1>5, <1>6, <1>7, <1>8, <1>9, <1>10, <1>11, <1>12, <1>13,
     <1>14, <1>15, <1>16, <1>17

\* The steps of document-updater and web, and of time.
LEMMA WorldKeeps ==
  ASSUME OrderInv, ClientOp \/ QueueStructure \/ QueueContent \/ LockExpires \/ UNCHANGED vars
  PROVE  Keeps
<1> USE DEF Keeps, OrderInv, Carries, Sending
<1>1. CASE QueueContent
  BY <1>1 DEF QueueContent
<1>2. CASE ClientOp \/ QueueStructure \/ LockExpires \/ UNCHANGED vars
  BY <1>2 DEF ClientOp, QueueStructure, LockExpires, vars
<1> QED
  BY <1>1, <1>2

LEMMA NextOrder == OrderInv /\ [Next]_vars => OrderInv'
<1> SUFFICES ASSUME OrderInv, [Next]_vars PROVE OrderInv'
  OBVIOUS
<1>1. CASE ClientOp \/ QueueStructure \/ QueueContent \/ LockExpires \/ UNCHANGED vars
  BY <1>1, WorldKeeps, KeepsOrder
<1>2. CASE RecordLate
  BY <1>2, LateOrder
<1>3. ASSUME NEW x \in Workers, Fetch(x) \/ Record(x) PROVE OrderInv'
  BY <1>3, FetchOrder, RecordedOrder
<1>4. ASSUME NEW x \in Workers,
             \/ StartFlush(x) \/ GetLock(x) \/ LockTimeout(x) \/ Read(x) \/ Filter(x)
             \/ Send(x) \/ SetState(x) \/ Delete(x) \/ Release(x) \/ Report(x)
             \/ \E hard \in BOOLEAN : StartResync(x, hard)
             \/ ClearState(x) \/ DestroyQueue(x) \/ RequestResync(x) \/ SetStarted(x)
             \/ Crash(x) \/ SendTimeout(x) \/ WebFails(x)
      PROVE  OrderInv'
  BY <1>4, WorkerKeeps, KeepsOrder
<1> QED
  BY <1>1, <1>2, <1>3, <1>4 DEF Next, Step

\* history-v1 never records an op twice or after a later one, for any number of
\* workers and with every fault, the loss of the lock included.
THEOREM RecordedOnce == Spec => []OpsInOrder
<1>1. Init => OrderInv
  BY InitOrder
<1>2. OrderInv /\ [Next]_vars => OrderInv'
  BY NextOrder
<1>3. OrderInv => OpsInOrder
  BY DEF OrderInv
<1> QED
  BY <1>1, <1>2, <1>3, PTL DEF Spec
-----------------------------------------------------------------------------
(***************************************************************************)
(* Types. The queue, the batches and what is kept of them are sequences of *)
(* updates, and a request that is about to leave is one.                   *)
(***************************************************************************)
Updates ==
  {u \in [kind : {"op", "structure", "content"}, v : 0..MaxOps, n : Nat] :
     u.kind = "op" => u.v # 0 /\ u.n = 0}

Handlers ==
  [at : PCs, session : {"flush", "resync"}, then : {"flush", "last"}, hard : BOOLEAN,
   batch : Seq(Updates), more : BOOLEAN, updates : Seq(Updates),
   sync : SyncStates \cup {None}, request : Requests \cup {None},
   error : {"none", "soft", "hard"}]

Typed ==
  /\ struck \in Faults \cup {"none"}
  /\ docV \in 0..MaxOps /\ resyncs \in 0..MaxResyncs
  /\ queue \in Seq(Updates)
  /\ web \in [stage : {"idle", "structure", "content"}, for : Workers \cup {None}, n : Nat]
  /\ syncState \in SyncStates
  /\ failure \in [attempts : 0..2, resync : BOOLEAN]
  /\ lock \in Workers \cup {None}
  /\ log \in Seq([ops : SUBSET (1..MaxOps), content : 0..MaxOps])
  /\ late \in Requests \cup {None}
  /\ w \in [Workers -> Handlers]
  /\ \A x \in Workers : Sending(x) => w[x].request \in Requests

-----------------------------------------------------------------------------
(***************************************************************************)
(* What the lock protects while it does not expire under a worker.         *)
(***************************************************************************)
Has(s, kind) == \E i \in DOMAIN s : s[i].kind = kind

\* The sync state once the batch is done with.
Pending(x) == IF w[x].sync = None THEN syncState ELSE w[x].sync

\* What a sync state waits for is not in the batch.
Awaits(st, b) ==
  /\ st.structure => ~Has(b, "structure") /\ ~Has(b, "content")
  /\ st.doc => ~Has(b, "content")

\* It waits for nothing that the present one does not wait for.
Follows(st) ==
  /\ st.structure => syncState.structure
  /\ st.doc => syncState.structure \/ syncState.doc

Filtering == {"fetch", "send", "sent", "set", "delete"}

Critical == Flushing \cup Resyncing \cup {"release"}

Holding == \A x \in Workers : w[x].at \in Critical => lock = x

\* A worker has a sync state to set between Filter and SetState.
Syncing(h) == h.at \in {"fetch", "send", "sent", "set"}

Shaped == Typed /\ \A x \in Workers : ~Syncing(w[x]) => w[x].sync = None

Requesting ==
  /\ \A x \in Workers : w[x].at = "requested" <=> web.for = x
  /\ web.for # None => web.stage # "idle"

Skipping(x) ==
  /\ w[x].at \in Filtering => Awaits(Pending(x), w[x].batch) /\ Follows(Pending(x))
  /\ w[x].at \in {"destroy", "requested", "start"} => ~Ongoing(syncState)
  /\ w[x].at = "requested" /\ web.stage = "content" => Queued("structure")
  /\ w[x].at = "start" => Queued("structure") /\ Queued("content")

SkipsEnd ==
  /\ syncState.structure => Queued("structure") /\ Queued("content")
  /\ syncState.doc => Queued("content")

SkipInv ==
  /\ Shaped /\ Requesting
  /\ struck # "expire" => Holding /\ (\A x \in Workers : Skipping(x)) /\ SkipsEnd

-----------------------------------------------------------------------------
(***************************************************************************)
(* What the history holds of the ops, while no hard resync is cut short.   *)
(***************************************************************************)
Calm == struck \in {"none", "crash", "timeout", "web", "resyncCrash"}

Held(v) == v <= Recorded \/ Seen(v)

Contents(s) == {i \in DOMAIN s : s[i].kind = "content"}
Ops(s) == {i \in DOMAIN s : s[i].kind = "op"}

\* The ops of the document after a content are on the queue, between it and the
\* next content.
Between(i, j, m) ==
  \A v \in 1..m : queue[i].v < v => \E p \in Ops(queue) : i < p /\ p < j /\ queue[p].v = v

\* A content is that of all the ops that precede it.
InQueue ==
  /\ \A i \in DOMAIN queue : queue[i].v <= docV
  /\ \A i \in Ops(queue), j \in Contents(queue) : i < j => queue[i].v <= queue[j].v
  /\ \A i, j \in Contents(queue) :
       i < j => queue[i].v <= queue[j].v /\ Between(i, j, queue[j].v)
  /\ \A i \in Contents(queue) : Between(i, Len(queue) + 1, docV)

\* The ops after a content of the queue that are in the history are recorded ones.
After(i, m, S) == \A v \in 1..m : queue[i].v < v => v \in S \/ Seen(v)

InHistory ==
  /\ Recorded <= docV
  /\ \A i \in DOMAIN log : \A v \in log[i].ops : v <= log[i].content
  /\ \A i \in Contents(queue) : After(i, Recorded, {})

Honest(r) ==
  r.content # Bad =>
    /\ r.content <= docV
    /\ \A v \in r.ops : v <= r.content
    /\ r.base = Len(log) =>
         /\ \A v \in 1..Recorded : v <= r.content \/ Seen(v)
         /\ \A i \in Contents(queue) : After(i, r.content, r.ops)

Pendings == late # None => Honest(late)

\* A batch is what the queue begins with.
Begins(b) == Len(b) <= Len(queue) /\ \A i \in 1..Len(b) : b[i] = queue[i]

\* An op of the batch that is ignored: its resync is to come, or follows in the batch.
Skipped(x, i) ==
  Ongoing(Pending(x)) \/ \E j \in Contents(w[x].batch) : i < j

\* Between a content that is sent and an earlier one of the queue, the ops are sent.
Dense(us) ==
  \A k \in Contents(us), i \in Contents(queue) :
    \A v \in 1..us[k].v : queue[i].v < v => \E p \in Ops(us) : p < k /\ us[p].v = v

Batched(x) ==
  LET b == w[x].batch
      r == w[x].request
  IN  /\ w[x].at \in Filtering \cup {"filter"} => Begins(b)
      /\ w[x].at = "fetch" =>
           /\ ToSet(w[x].updates) \subseteq ToSet(b)
           /\ Dense(w[x].updates)
           /\ \A i \in Contents(b) : b[i] \in ToSet(w[x].updates)
           /\ \A i \in Ops(b) : b[i] \in ToSet(w[x].updates) \/ Skipped(x, i)
      /\ Sending(x) =>
           /\ Honest(r)
           /\ r.content # Bad =>
                \A i \in Contents(b) : \A v \in 1..b[i].v : v <= r.content \/ Seen(v)
           /\ \A i \in Ops(b) : b[i].v \in r.ops \/ Seen(b[i].v) \/ Skipped(x, i)
      /\ w[x].at \in {"set", "delete"} =>
           /\ \A i \in Contents(b) : \A v \in 1..b[i].v : Held(v)
           /\ \A i \in Ops(b) : Held(b[i].v) \/ Skipped(x, i)

\* A hard resync finds none ongoing.
Settled ==
  \A x \in Workers :
    /\ w[x].at \in {"clear", "destroy"} => w[x].hard
    /\ w[x].at = "request" /\ w[x].hard => ~Ongoing(syncState)

\* A hard resync has destroyed the queue, and its content is to come.
Asking(h) == h.hard /\ h.at \in {"request", "requested"}

Covered(v) ==
  \/ Held(v)
  \/ \E i \in Ops(queue) : queue[i].v = v
  \/ \E i \in Contents(queue) : v <= queue[i].v
  \/ \E x \in Workers : Asking(w[x])

Lossless ==
  /\ InQueue /\ InHistory /\ Pendings /\ Settled
  /\ \A x \in Workers : Batched(x)
  /\ \A v \in 1..docV : Covered(v)

LossInv == Calm => Lossless

-----------------------------------------------------------------------------
(***************************************************************************)
(* While no flush is cut short either, no content of the history is taken  *)
(* back: what is sent, and what is on the queue, goes beyond what is       *)
(* recorded.                                                               *)
(***************************************************************************)
Steady == struck \in {"none", "web", "resyncCrash"}

\* The updates that are in the history and not yet deleted.
Done(h) == IF h.at \in {"set", "delete"} THEN 1..Len(h.batch) ELSE {}

\* A content to be recorded, that of the first n updates of the queue.
Beyond(c, n) ==
  /\ Recorded <= c
  /\ \A i \in Contents(queue) : n < i => c <= queue[i].v

Forward ==
  /\ late = None
  /\ \A i \in DOMAIN log : log[i].content <= Recorded
  /\ \A i \in Contents(queue) : Recorded <= queue[i].v \/ \E x \in Workers : i \in Done(w[x])
  /\ \A x \in Workers :
       Sending(x) /\ w[x].request.content # Bad =>
         Beyond(w[x].request.content, Len(w[x].batch))

ForwardInv == Steady => Forward

\* The invariant as a whole.
KeptInv == OrderInv /\ SkipInv /\ LossInv /\ ForwardInv

-----------------------------------------------------------------------------
(***************************************************************************)
(* Folds. A fold of the library is a function on the sets of indices,      *)
(* chosen for its equation: one exists, and its values on the sets 1..k    *)
(* are those the fold goes through.                                        *)
(***************************************************************************)
LEMMA LeastNumber ==
  ASSUME NEW N \in SUBSET Nat, N # {}
  PROVE  \E n \in N : \A m \in Nat : m < n => m \notin N
<1> DEFINE R == OpToRel(<, Nat)
<1>1. PICK n \in N : \A m \in N : <<m, n>> \notin R
  <2> HIDE DEF R
  <2> QED
    BY WFMin, NatLessThanWellFounded DEF R
<1> QED
  BY <1>1 DEF OpToRel

LEMMA Climb ==
  ASSUME NEW n \in Nat, NEW P, 0 \in P, \A k \in 1..n : k - 1 \in P => k \in P
  PROVE  \A k \in 0..n : k \in P
<1> DEFINE N == {k \in 0..n : k \notin P}
<1>1. ASSUME NEW k \in N, \A m \in Nat : m < k => m \notin N PROVE FALSE
  <2>1. k # 0 /\ k \in 1..n /\ k - 1 \in Nat /\ k - 1 < k /\ k - 1 \in 0..n
    OBVIOUS
  <2> QED
    BY <1>1, <2>1
<1>2. N \in SUBSET Nat
  OBVIOUS
<1> HIDE DEF N
<1>3. N = {}
  BY <1>1, <1>2, LeastNumber
<1> QED
  BY <1>3 DEF N

LEMMA Greatest ==
  ASSUME NEW n \in Nat, NEW s \in SUBSET (1..n), s # {}
  PROVE  Max(s) \in s /\ \A y \in s : y <= Max(s)
<1> DEFINE N == {m \in Nat : \A y \in s : y <= m}
<1>1. N \in SUBSET Nat /\ n \in N
  OBVIOUS
<1>2. PICK m \in N : \A k \in Nat : k < m => k \notin N
  <2> HIDE DEF N
  <2> QED
    BY <1>1, LeastNumber
<1>3. m \in s
  <2> SUFFICES ASSUME m \notin s PROVE FALSE
    OBVIOUS
  <2>1. \A y \in s : y \in Nat /\ y <= m - 1
    OBVIOUS
  <2>2. m # 0
    <3>1. PICK y \in s : TRUE
      OBVIOUS
    <3> QED
      BY <2>1, <3>1
  <2>3. m - 1 \in Nat /\ m - 1 < m /\ m - 1 \in N
    BY <2>1, <2>2
  <2> QED
    BY <1>2, <2>3
<1>4. m \in s /\ \A y \in s : m >= y
  BY <1>3
<1>5. \A x \in s : (\A y \in s : x >= y) => x = m
  BY <1>4
<1> QED
  BY <1>4, <1>5 DEF Max

LEMMA GreatestUpto ==
  ASSUME NEW k \in Nat, k # 0
  PROVE  Max(1..k) = k /\ (1..k) \ {k} = 1..(k - 1)
<1>1. 1..k \in SUBSET (1..k) /\ 1..k # {} /\ k \in 1..k
  OBVIOUS
<1>2. Max(1..k) \in 1..k /\ k <= Max(1..k)
  BY <1>1, Greatest
<1> QED
  BY <1>2

FoldsUp(h, n, b, F) ==
  \A s \in SUBSET (1..n) :
    h[s] = IF s = {} THEN b ELSE F[<<h[s \ {Max(s)}], Max(s)>>]

LEMMA FoldExists ==
  ASSUME NEW n \in Nat, NEW S, NEW b \in S, NEW F \in [S \X (1..n) -> S]
  PROVE  \E h \in [SUBSET (1..n) -> S] : FoldsUp(h, n, b, F)
<1> DEFINE Body(h, s) == IF s = {} THEN b ELSE F[<<h[s \ {Max(s)}], Max(s)>>]
           Good(h, m) == /\ h \in [SUBSET (1..m) -> S]
                         /\ \A s \in SUBSET (1..m) : h[s] = Body(h, s)
           P == {m \in 0..n : \E h : Good(h, m)}
<1>1. 0 \in P
  <2> DEFINE h == [s \in SUBSET (1..0) |-> b]
  <2>1. \A s \in SUBSET (1..0) : s = {}
    OBVIOUS
  <2>2. Good(h, 0)
    BY <2>1
  <2> HIDE DEF h, Good
  <2>3. \E f : Good(f, 0)
    BY <2>2
  <2> QED
    BY <2>3
<1>2. ASSUME NEW m \in 1..n, m - 1 \in P PROVE m \in P
  <2>1. PICK h : Good(h, m - 1)
    BY <1>2
  <2> DEFINE j == [s \in SUBSET (1..m) |-> Body(h, s)]
  <2>2. ASSUME NEW s \in SUBSET (1..m), s # {}
        PROVE  Max(s) \in 1..n /\ s \ {Max(s)} \in SUBSET (1..(m - 1))
    <3> DEFINE x == Max(s)
    <3>1. x \in s /\ \A y \in s : y <= x
      BY <2>2, Greatest
    <3> HIDE DEF x
    <3>2. x \in 1..n /\ x <= m
      BY <3>1
    <3>3. \A y \in s \ {x} : y \in 1..(m - 1)
      BY <3>1, <3>2
    <3> QED
      BY <3>2, <3>3 DEF x
  <2>3. \A s \in SUBSET (1..m) : Body(h, s) \in S
    BY <2>1, <2>2
  <2>4. ASSUME NEW s \in SUBSET (1..(m - 1)) PROVE s \in SUBSET (1..m) /\ j[s] = h[s]
    BY <2>1
  <2>5. ASSUME NEW s \in SUBSET (1..m) PROVE Body(j, s) = Body(h, s)
    BY <2>2, <2>4
  <2> HIDE DEF Body
  <2>6. Good(j, m)
    BY <2>3, <2>5
  <2> HIDE DEF j, Good
  <2>7. \E f : Good(f, m)
    BY <2>6
  <2> QED
    BY <2>7
<1>3. n \in P
  <2> HIDE DEF P
  <2>1. \A m \in 0..n : m \in P
    BY <1>1, <1>2, Climb
  <2> QED
    BY <2>1
<1>4. PICK h : Good(h, n)
  BY <1>3
<1>5. h \in [SUBSET (1..n) -> S] /\ FoldsUp(h, n, b, F)
  BY <1>4 DEF FoldsUp
<1> QED
  BY <1>5

FoldsWithin(j, n, S, b, F) ==
  /\ j[{}] = b
  /\ \A s \in SUBSET (1..n) : s # {} /\ j[s \ {Max(s)}] \in S =>
       j[s] = F[<<j[s \ {Max(s)}], Max(s)>>]

Walks(g, n, b, F, j) ==
  g[0] = b /\ g[n] = j[1..n] /\ \A k \in 1..n : g[k] = F[<<g[k - 1], k>>]

LEMMA FoldWalk ==
  ASSUME NEW n \in Nat, NEW S, NEW b \in S, NEW F \in [S \X (1..n) -> S],
         NEW j, FoldsWithin(j, n, S, b, F)
  PROVE  \E g \in [0..n -> S] : Walks(g, n, b, F, j)
<1> DEFINE P == {k \in 0..n : j[1..k] \in S}
           g == [k \in 0..n |-> j[1..k]]
<1>1. j[1..0] = b
  <2>1. 1..0 = {}
    OBVIOUS
  <2> QED
    BY <2>1 DEF FoldsWithin
<1>2. 0 \in P
  BY <1>1
<1>3. ASSUME NEW k \in 1..n, k - 1 \in P
      PROVE  k \in P /\ j[1..k] = F[<<j[1..(k - 1)], k>>]
  <2>1. k \in Nat /\ k # 0 /\ k \in 1..k /\ k \in 0..n
    OBVIOUS
  <2>2. \A m \in 1..k : m \in 1..n
    OBVIOUS
  <2>3. 1..k \in SUBSET (1..n) /\ 1..k # {}
    BY <2>1, <2>2
  <2>4. Max(1..k) = k /\ (1..k) \ {k} = 1..(k - 1)
    BY <2>1, GreatestUpto
  <2>5. j[1..(k - 1)] \in S
    BY <1>3
  <2>6. j[1..k] = F[<<j[1..(k - 1)], k>>]
    BY <2>3, <2>4, <2>5 DEF FoldsWithin
  <2> QED
    BY <2>1, <2>5, <2>6
<1>4. \A k \in 0..n : k \in P
  <2> HIDE DEF P
  <2> QED
    BY <1>2, <1>3, Climb
<1>5. g \in [0..n -> S]
  BY <1>4
<1>6. \A k \in 1..n : g[k] = F[<<g[k - 1], k>>]
  <2> SUFFICES ASSUME NEW k \in 1..n PROVE g[k] = F[<<g[k - 1], k>>]
    OBVIOUS
  <2>1. k \in 0..n /\ k - 1 \in 0..n
    OBVIOUS
  <2>2. j[1..k] = F[<<j[1..(k - 1)], k>>]
    BY <1>3, <1>4, <2>1
  <2> QED
    BY <2>1, <2>2
<1>7. g[0] = b /\ g[n] = j[1..n]
  BY <1>1
<1> HIDE DEF g
<1>8. Walks(g, n, b, F, j)
  BY <1>6, <1>7 DEF Walks
<1> QED
  BY <1>5, <1>8

\* The states skipUpdatesDuringSync goes through.
FilterStates == [structure : BOOLEAN, doc : BOOLEAN, ok : BOOLEAN, kept : Seq(Updates)]

FilterBase == [structure |-> syncState.structure, doc |-> syncState.doc,
               ok |-> TRUE, kept |-> <<>>]

LEMMA SyncedTyped ==
  ASSUME NEW st \in FilterStates, NEW u \in Updates
  PROVE  Synced(st, u) \in FilterStates
<1>1. u.kind \in {"op", "structure", "content"}
  BY DEF Updates
<1>2. Append(st.kept, u) \in Seq(Updates)
  BY DEF FilterStates
<1> QED
  BY <1>1, <1>2 DEF FilterStates, Synced

LEMMA FilteredIs ==
  ASSUME syncState \in SyncStates, NEW q \in Seq(Updates)
  PROVE  \E g \in [0..Len(q) -> FilterStates] :
           /\ g[0] = FilterBase
           /\ \A k \in 1..Len(q) : g[k] = Synced(g[k - 1], q[k])
           /\ Filtered(q) = g[Len(q)]
<1> DEFINE n == Len(q)
           S == FilterStates
           F == [p \in S \X (1..n) |-> Synced(p[1], q[p[2]])]
           Folds(h) == h = [s \in SUBSET DOMAIN q |->
              IF s = {} THEN FilterBase ELSE Synced(h[s \ {Max(s)}], q[Max(s)])]
           j == CHOOSE h : Folds(h)
<1>1. n \in Nat /\ DOMAIN q = 1..n /\ \A k \in 1..n : q[k] \in Updates
  OBVIOUS
<1>2. FilterBase \in S
  BY DEF FilterBase, FilterStates, SyncStates
<1>3. F \in [S \X (1..n) -> S]
  BY <1>1, SyncedTyped
<1>4. \A st \in S, k \in 1..n : F[<<st, k>>] = Synced(st, q[k])
  OBVIOUS
<1>5. Filtered(q) = j[1..n]
  BY <1>1 DEF Filtered, FilterBase, FoldLeft, MapThenFoldSet
<1> HIDE DEF n, S, F
<1>6. \A s \in SUBSET (1..n) : s # {} => Max(s) \in 1..n
  BY <1>1, Greatest
<1>7. PICK i \in [SUBSET (1..n) -> S] : FoldsUp(i, n, FilterBase, F)
  BY <1>1, <1>2, <1>3, FoldExists
<1>8. \A s \in SUBSET (1..n) : s # {} =>
        F[<<i[s \ {Max(s)}], Max(s)>>] = Synced(i[s \ {Max(s)}], q[Max(s)])
  BY <1>4, <1>6
<1>9. Folds(j)
  <2>1. Folds(i)
    BY <1>1, <1>7, <1>8 DEF FoldsUp
  <2> HIDE DEF Folds
  <2> QED
    BY <2>1
<1>10. \A s \in SUBSET (1..n) :
         j[s] = IF s = {} THEN FilterBase ELSE Synced(j[s \ {Max(s)}], q[Max(s)])
  BY <1>1, <1>9
<1> HIDE DEF j, Folds
<1>11. FoldsWithin(j, n, S, FilterBase, F)
  BY <1>4, <1>6, <1>10 DEF FoldsWithin
<1>12. PICK g \in [0..n -> S] : Walks(g, n, FilterBase, F, j)
  BY <1>1, <1>2, <1>3, <1>11, FoldWalk
<1>13. \A k \in 1..n : g[k] = Synced(g[k - 1], q[k])
  <2> SUFFICES ASSUME NEW k \in 1..n PROVE g[k] = Synced(g[k - 1], q[k])
    OBVIOUS
  <2>1. k - 1 \in 0..n
    BY <1>1
  <2> QED
    BY <1>4, <1>12, <2>1 DEF Walks
<1> QED
  BY <1>5, <1>12, <1>13 DEF n, S, Walks

\* The contents the changes of a request go through.
ContentStates == (0..MaxOps) \cup {Bad}

Goes(c, u) == IF c = Bad THEN Bad ELSE Applied(c, u)

LEMMA GoesTyped ==
  ASSUME Recorded \in 0..MaxOps, NEW c \in ContentStates, NEW u \in Updates
  PROVE  Goes(c, u) \in ContentStates
BY DEF ContentStates, Goes, Applied, Updates

LEMMA ContentIs ==
  ASSUME Recorded \in 0..MaxOps, NEW q \in Seq(Updates)
  PROVE  \E g \in [0..Len(q) -> ContentStates] :
           /\ g[0] = Recorded
           /\ \A k \in 1..Len(q) : g[k] = Goes(g[k - 1], q[k])
           /\ Request(q).content = g[Len(q)]
<1> DEFINE n == Len(q)
           S == ContentStates
           F == [p \in S \X (1..n) |-> Goes(p[1], q[p[2]])]
           Folds(h) == h = [s \in SUBSET DOMAIN q |->
              IF s = {} THEN Recorded ELSE Goes(h[s \ {Max(s)}], q[Max(s)])]
           j == CHOOSE h : Folds(h)
<1>1. n \in Nat /\ DOMAIN q = 1..n /\ \A k \in 1..n : q[k] \in Updates
  OBVIOUS
<1>2. Recorded \in S
  BY DEF ContentStates
<1>3. F \in [S \X (1..n) -> S]
  BY <1>1, GoesTyped
<1>4. \A c \in S, k \in 1..n : F[<<c, k>>] = Goes(c, q[k])
  OBVIOUS
<1>5. Request(q).content = j[1..n]
  BY <1>1 DEF Request, Goes, FoldLeft, MapThenFoldSet
<1> HIDE DEF n, S, F
<1>6. \A s \in SUBSET (1..n) : s # {} => Max(s) \in 1..n
  BY <1>1, Greatest
<1>7. PICK i \in [SUBSET (1..n) -> S] : FoldsUp(i, n, Recorded, F)
  BY <1>1, <1>2, <1>3, FoldExists
<1>8. \A s \in SUBSET (1..n) : s # {} =>
        F[<<i[s \ {Max(s)}], Max(s)>>] = Goes(i[s \ {Max(s)}], q[Max(s)])
  BY <1>4, <1>6
<1>9. Folds(j)
  <2>1. Folds(i)
    BY <1>1, <1>7, <1>8 DEF FoldsUp
  <2> HIDE DEF Folds
  <2> QED
    BY <2>1
<1>10. \A s \in SUBSET (1..n) :
         j[s] = IF s = {} THEN Recorded ELSE Goes(j[s \ {Max(s)}], q[Max(s)])
  BY <1>1, <1>9
<1> HIDE DEF j, Folds
<1>11. FoldsWithin(j, n, S, Recorded, F)
  BY <1>4, <1>6, <1>10 DEF FoldsWithin
<1>12. PICK g \in [0..n -> S] : Walks(g, n, Recorded, F, j)
  BY <1>1, <1>2, <1>3, <1>11, FoldWalk
<1>13. \A k \in 1..n : g[k] = Goes(g[k - 1], q[k])
  <2> SUFFICES ASSUME NEW k \in 1..n PROVE g[k] = Goes(g[k - 1], q[k])
    OBVIOUS
  <2>1. k - 1 \in 0..n
    BY <1>1
  <2> QED
    BY <1>4, <1>12, <2>1 DEF Walks
<1> QED
  BY <1>5, <1>12, <1>13 DEF n, S, Walks

\* What is left of a queue: its updates that are not in the batch, in their order.
Rests(rest, u, b) == IF u \in ToSet(b) THEN rest ELSE Append(rest, u)

LEMMA WithoutIs ==
  ASSUME NEW q \in Seq(Updates), NEW b
  PROVE  \E g \in [0..Len(q) -> Seq(Updates)] :
           /\ g[0] = <<>>
           /\ \A k \in 1..Len(q) : g[k] = Rests(g[k - 1], q[k], b)
           /\ Without(q, b) = g[Len(q)]
<1> DEFINE n == Len(q)
           S == Seq(Updates)
           F == [p \in S \X (1..n) |-> Rests(p[1], q[p[2]], b)]
           Folds(h) == h = [s \in SUBSET DOMAIN q |->
              IF s = {} THEN <<>> ELSE Rests(h[s \ {Max(s)}], q[Max(s)], b)]
           j == CHOOSE h : Folds(h)
<1>1. n \in Nat /\ DOMAIN q = 1..n /\ \A k \in 1..n : q[k] \in Updates
  OBVIOUS
<1>2. <<>> \in S
  OBVIOUS
<1>3. F \in [S \X (1..n) -> S]
  <2>1. \A c \in S, u \in Updates : Rests(c, u, b) \in S
    BY DEF Rests
  <2> HIDE DEF n, S
  <2> QED
    BY <1>1, <2>1
<1>4. \A c \in S, k \in 1..n : F[<<c, k>>] = Rests(c, q[k], b)
  OBVIOUS
<1>5. Without(q, b) = j[1..n]
  BY <1>1 DEF Without, Rests, FoldLeft, MapThenFoldSet
<1> HIDE DEF n, S, F
<1>6. \A s \in SUBSET (1..n) : s # {} => Max(s) \in 1..n
  BY <1>1, Greatest
<1>7. PICK i \in [SUBSET (1..n) -> S] : FoldsUp(i, n, <<>>, F)
  BY <1>1, <1>2, <1>3, FoldExists
<1>8. \A s \in SUBSET (1..n) : s # {} =>
        F[<<i[s \ {Max(s)}], Max(s)>>] = Rests(i[s \ {Max(s)}], q[Max(s)], b)
  BY <1>4, <1>6
<1>9. Folds(j)
  <2>1. Folds(i)
    BY <1>1, <1>7, <1>8 DEF FoldsUp
  <2> HIDE DEF Folds
  <2> QED
    BY <2>1
<1>10. \A s \in SUBSET (1..n) :
         j[s] = IF s = {} THEN <<>> ELSE Rests(j[s \ {Max(s)}], q[Max(s)], b)
  BY <1>1, <1>9
<1> HIDE DEF j, Folds
<1>11. FoldsWithin(j, n, S, <<>>, F)
  BY <1>4, <1>6, <1>10 DEF FoldsWithin
<1>12. PICK g \in [0..n -> S] : Walks(g, n, <<>>, F, j)
  BY <1>1, <1>2, <1>3, <1>11, FoldWalk
<1>13. \A k \in 1..n : g[k] = Rests(g[k - 1], q[k], b)
  <2> SUFFICES ASSUME NEW k \in 1..n PROVE g[k] = Rests(g[k - 1], q[k], b)
    OBVIOUS
  <2>1. k - 1 \in 0..n
    BY <1>1
  <2> QED
    BY <1>4, <1>12, <2>1 DEF Walks
<1> QED
  BY <1>5, <1>12, <1>13 DEF n, S, Walks

\* What skipUpdatesDuringSync has found after k updates.
IsKept(st, u) == \E p \in DOMAIN st.kept : st.kept[p] = u

KeptFrom(st, q, k) == \A p \in DOMAIN st.kept : \E i \in 1..k : st.kept[p] = q[i]

KeptOrSkipped(st, q, k) ==
  \A i \in 1..k : \/ IsKept(st, q[i])
                  \/ /\ q[i].kind = "op"
                     /\ Ongoing(st) \/ \E j \in 1..k : i < j /\ q[j].kind = "content"

SyncedUpto(st, q, k) ==
  st.ok =>
    /\ st.structure => syncState.structure /\ \A i \in 1..k : q[i].kind = "op"
    /\ st.doc => syncState.structure \/ syncState.doc
    /\ \A i \in 1..k : q[i].kind = "content" => ~Ongoing(st)
    /\ \A i, j \in 1..k : q[i].kind = "content" /\ q[j].kind = "content" => i = j

FilterUpto(st, q, k) == KeptFrom(st, q, k) /\ KeptOrSkipped(st, q, k) /\ SyncedUpto(st, q, k)

LEMMA KeepsOne ==
  ASSUME NEW st \in FilterStates, NEW u \in Updates, NEW t \in FilterStates,
         t.kept = Append(st.kept, u)
  PROVE  /\ IsKept(t, u) /\ \A v : IsKept(st, v) => IsKept(t, v)
         /\ \A p \in DOMAIN t.kept : t.kept[p] = u \/ \E r \in DOMAIN st.kept : t.kept[p] = st.kept[r]
<1> DEFINE s == st.kept
<1>1. s \in Seq(Updates)
  BY DEF FilterStates
<1>2. t.kept = Append(s, u)
  OBVIOUS
<1> HIDE DEF s
<1>3. /\ DOMAIN Append(s, u) = 1..(Len(s) + 1) /\ DOMAIN s = 1..Len(s) /\ Len(s) \in Nat
      /\ Append(s, u)[Len(s) + 1] = u /\ \A p \in 1..Len(s) : Append(s, u)[p] = s[p]
  BY <1>1
<1>4. IsKept(t, u)
  BY <1>2, <1>3 DEF IsKept
<1>5. ASSUME NEW v, IsKept(st, v) PROVE IsKept(t, v)
  <2>1. PICK p \in DOMAIN s : s[p] = v
    BY <1>5 DEF IsKept, s
  <2>2. p \in DOMAIN Append(s, u) /\ Append(s, u)[p] = v
    BY <1>3, <2>1
  <2> QED
    BY <1>2, <2>2 DEF IsKept
<1>6. \A p \in DOMAIN t.kept : t.kept[p] = u \/ \E r \in DOMAIN s : t.kept[p] = s[r]
  BY <1>2, <1>3
<1> QED
  BY <1>4, <1>5, <1>6 DEF s

LEMMA FilterNext ==
  ASSUME NEW q \in Seq(Updates), NEW k \in 1..Len(q), NEW st \in FilterStates,
         FilterUpto(st, q, k - 1)
  PROVE  FilterUpto(Synced(st, q[k]), q, k)
<1> DEFINE u == q[k]
           t == Synced(st, u)
<1>1. u \in Updates /\ k - 1 \in Nat /\ k \in 1..k /\ \A i \in 1..k : i \in 1..(k - 1) \/ i = k
  OBVIOUS
<1>2. t \in FilterStates
  BY <1>1, SyncedTyped
<1>3. u.kind \in {"op", "structure", "content"}
  BY <1>1 DEF Updates
<1>4. CASE u.kind = "op" /\ Ongoing(st)
  <2>1. t = st
    BY <1>4 DEF Synced
  <2> HIDE DEF t
  <2>2. KeptFrom(t, q, k)
    BY <1>1, <2>1 DEF FilterUpto, KeptFrom
  <2>3. KeptOrSkipped(t, q, k)
    BY <1>1, <1>4, <2>1 DEF FilterUpto, KeptOrSkipped
  <2>4. SyncedUpto(t, q, k)
    BY <1>1, <1>4, <2>1 DEF FilterUpto, SyncedUpto
  <2> QED
    BY <2>2, <2>3, <2>4 DEF FilterUpto, t
<1>5. CASE ~(u.kind = "op" /\ Ongoing(st))
  <2>1. t.kept = Append(st.kept, u)
    BY <1>3, <1>5 DEF Synced, FilterStates
  <2>2. t.ok => st.ok
    BY <1>3 DEF Synced, FilterStates
  <2>3. \/ u.kind = "op" /\ ~Ongoing(t) /\ ~Ongoing(st)
        \/ u.kind = "structure" /\ ~t.structure /\ t.doc /\ (t.ok => st.structure /\ ~st.doc)
        \/ u.kind = "content" /\ t.structure = st.structure /\ ~t.doc
           /\ (t.ok => ~st.structure /\ st.doc)
    BY <1>3, <1>5 DEF Synced, FilterStates, Ongoing
  <2> HIDE DEF t
  <2>4. /\ IsKept(t, u) /\ \A v : IsKept(st, v) => IsKept(t, v)
        /\ \A p \in DOMAIN t.kept : t.kept[p] = u \/ \E r \in DOMAIN st.kept : t.kept[p] = st.kept[r]
    BY <1>1, <1>2, <2>1, KeepsOne
  <2>5. \A p \in DOMAIN t.kept : \E i \in 1..k : t.kept[p] = q[i]
    <3> SUFFICES ASSUME NEW p \in DOMAIN t.kept PROVE \E i \in 1..k : t.kept[p] = q[i]
      OBVIOUS
    <3>1. CASE t.kept[p] = u
      BY <1>1, <3>1
    <3>2. ASSUME NEW r \in DOMAIN st.kept, t.kept[p] = st.kept[r]
          PROVE  \E i \in 1..k : t.kept[p] = q[i]
      <4>1. PICK i \in 1..(k - 1) : st.kept[r] = q[i]
        BY DEF FilterUpto, KeptFrom
      <4>2. i \in 1..k
        BY <1>1
      <4> QED
        BY <3>2, <4>1, <4>2
    <3> QED
      BY <2>4, <3>1, <3>2
  <2>6. ASSUME NEW i \in 1..k
        PROVE  \/ IsKept(t, q[i])
               \/ /\ q[i].kind = "op"
                  /\ Ongoing(t) \/ \E j \in 1..k : i < j /\ q[j].kind = "content"
    <3>1. CASE i = k
      BY <2>4, <3>1
    <3>2. CASE i # k /\ IsKept(st, q[i])
      BY <2>4, <3>2
    <3>3. CASE i # k /\ ~IsKept(st, q[i])
      <4>1. i \in 1..(k - 1) /\ i < k
        BY <1>1, <3>3
      <4>2. /\ q[i].kind = "op"
            /\ Ongoing(st) \/ \E j \in 1..(k - 1) : i < j /\ q[j].kind = "content"
        BY <3>3, <4>1 DEF FilterUpto, KeptOrSkipped
      <4>3. CASE \E j \in 1..(k - 1) : i < j /\ q[j].kind = "content"
        <5>1. PICK j \in 1..(k - 1) : i < j /\ q[j].kind = "content"
          BY <4>3
        <5>2. j \in 1..k
          BY <1>1
        <5> QED
          BY <4>2, <5>1, <5>2
      <4>4. CASE Ongoing(st)
        <5>1. Ongoing(t) \/ u.kind = "content"
          BY <2>3, <4>4 DEF Ongoing
        <5> QED
          BY <1>1, <4>1, <4>2, <5>1
      <4> QED
        BY <4>2, <4>3, <4>4
    <3> QED
      BY <3>1, <3>2, <3>3
  <2>7. ASSUME t.ok
        PROVE  /\ t.structure => syncState.structure /\ \A i \in 1..k : q[i].kind = "op"
               /\ t.doc => syncState.structure \/ syncState.doc
               /\ \A i \in 1..k : q[i].kind = "content" => ~Ongoing(t)
               /\ \A i, j \in 1..k : q[i].kind = "content" /\ q[j].kind = "content" => i = j
    <3>1. /\ st.structure => syncState.structure /\ \A i \in 1..(k - 1) : q[i].kind = "op"
          /\ st.doc => syncState.structure \/ syncState.doc
          /\ \A i \in 1..(k - 1) : q[i].kind = "content" => ~Ongoing(st)
          /\ \A i, j \in 1..(k - 1) : q[i].kind = "content" /\ q[j].kind = "content" => i = j
      BY <2>2, <2>7 DEF FilterUpto, SyncedUpto
    <3>2. CASE u.kind = "op"
      BY <1>1, <2>3, <2>7, <3>1, <3>2 DEF Ongoing
    <3>3. CASE u.kind = "structure"
      BY <1>1, <2>3, <2>7, <3>1, <3>3 DEF Ongoing
    <3>4. CASE u.kind = "content"
      BY <1>1, <2>3, <2>7, <3>1, <3>4 DEF Ongoing
    <3> QED
      BY <1>3, <3>2, <3>3, <3>4
  <2>8. KeptFrom(t, q, k)
    BY <2>5 DEF KeptFrom
  <2>9. KeptOrSkipped(t, q, k)
    BY <2>6 DEF KeptOrSkipped
  <2>10. SyncedUpto(t, q, k)
    BY <2>7 DEF SyncedUpto
  <2> QED
    BY <2>8, <2>9, <2>10 DEF FilterUpto, t
<1> QED
  BY <1>4, <1>5

LEMMA FilterEnd ==
  ASSUME syncState \in SyncStates, NEW q \in Seq(Updates)
  PROVE  Filtered(q) \in FilterStates /\ FilterUpto(Filtered(q), q, Len(q))
<1>1. PICK g \in [0..Len(q) -> FilterStates] :
        /\ g[0] = FilterBase
        /\ \A k \in 1..Len(q) : g[k] = Synced(g[k - 1], q[k])
        /\ Filtered(q) = g[Len(q)]
  BY FilteredIs
<1> DEFINE n == Len(q)
           P == {k \in 0..n : FilterUpto(g[k], q, k)}
<1>2. n \in Nat
  OBVIOUS
<1>3. 0 \in P
  <2>1. 1..0 = {}
    OBVIOUS
  <2>2. FilterBase.kept = <<>> /\ FilterBase.structure = syncState.structure
        /\ FilterBase.doc = syncState.doc
    BY DEF FilterBase
  <2>3. FilterUpto(FilterBase, q, 0)
    BY <2>1, <2>2 DEF FilterUpto, KeptFrom, KeptOrSkipped, SyncedUpto
  <2> QED
    BY <1>1, <1>2, <2>3
<1>4. ASSUME NEW k \in 1..n, k - 1 \in P PROVE k \in P
  <2>1. k \in 0..n /\ k - 1 \in 0..n /\ g[k - 1] \in FilterStates /\ FilterUpto(g[k - 1], q, k - 1)
    BY <1>2, <1>4
  <2>2. FilterUpto(Synced(g[k - 1], q[k]), q, k)
    BY <2>1, FilterNext
  <2> QED
    BY <1>1, <2>1, <2>2
<1> HIDE DEF P
<1>5. \A k \in 0..n : k \in P
  BY <1>2, <1>3, <1>4, Climb
<1> QED
  BY <1>1, <1>2, <1>5 DEF P

\* The places in a queue of what is left of it.
Picks(f, r, q, b, k) ==
  /\ f \in [1..Len(r) -> 1..k]
  /\ \A a \in 1..Len(r) : r[a] = q[f[a]] /\ q[f[a]] \notin ToSet(b)
  /\ \A a, c \in 1..Len(r) : a < c => f[a] < f[c]
  /\ \A i \in 1..k : q[i] \notin ToSet(b) => \E a \in 1..Len(r) : f[a] = i

LEMMA RestsPicks ==
  ASSUME NEW q \in Seq(Updates), NEW b, NEW k \in 1..Len(q), NEW r \in Seq(Updates),
         NEW f, Picks(f, r, q, b, k - 1)
  PROVE  \E j : Picks(j, Rests(r, q[k], b), q, b, k)
<1>1. k \in Nat /\ k - 1 \in Nat /\ k \in 1..k /\ Len(r) \in Nat
  OBVIOUS
<1>2. \A i \in 1..k : i \in 1..(k - 1) \/ i = k
  BY <1>1
<1>3. \A i \in 1..(k - 1) : i \in 1..k /\ i < k
  BY <1>1
<1>4. CASE q[k] \in ToSet(b)
  <2>1. Rests(r, q[k], b) = r
    BY <1>4 DEF Rests
  <2>2. f \in [1..Len(r) -> 1..k]
    BY <1>3 DEF Picks
  <2>3. Picks(f, r, q, b, k)
    BY <1>2, <1>4, <2>2 DEF Picks
  <2> QED
    BY <2>1, <2>3
<1>5. CASE q[k] \notin ToSet(b)
  <2> DEFINE s == Append(r, q[k])
             m == Len(r)
             j == [a \in 1..(m + 1) |-> IF a = m + 1 THEN k ELSE f[a]]
  <2>1. Rests(r, q[k], b) = s
    BY <1>5 DEF Rests
  <2>2. Len(s) = m + 1 /\ s[m + 1] = q[k] /\ \A a \in 1..m : s[a] = r[a]
    OBVIOUS
  <2>3. \A a \in 1..(m + 1) : a \in 1..m \/ a = m + 1
    BY <1>1
  <2>4. \A a \in 1..m : a \in 1..(m + 1) /\ a # m + 1 /\ a < m + 1
    BY <1>1
  <2>5. m + 1 \in 1..(m + 1) /\ m \in Nat
    BY <1>1
  <2> HIDE DEF s, m
  <2>6. f \in [1..m -> 1..(k - 1)] /\ \A a \in 1..m : f[a] \in 1..(k - 1)
    BY DEF Picks, m
  <2>7. j[m + 1] = k /\ \A a \in 1..m : j[a] = f[a]
    BY <2>4, <2>5
  <2>8. j \in [1..(m + 1) -> 1..k]
    BY <1>1, <1>3, <2>3, <2>6
  <2> HIDE DEF j
  <2>9. \A a \in 1..(m + 1) : s[a] = q[j[a]] /\ q[j[a]] \notin ToSet(b)
    BY <1>5, <2>2, <2>3, <2>7 DEF Picks, m
  <2>10. \A a, c \in 1..(m + 1) : a < c => j[a] < j[c]
    <3> SUFFICES ASSUME NEW a \in 1..(m + 1), NEW c \in 1..(m + 1), a < c PROVE j[a] < j[c]
      OBVIOUS
    <3>1. a \in 1..m
      BY <2>3, <2>5
    <3>2. CASE c = m + 1
      BY <1>3, <2>6, <2>7, <3>1, <3>2
    <3>3. CASE c \in 1..m
      BY <2>7, <3>1, <3>3 DEF Picks, m
    <3> QED
      BY <2>3, <3>2, <3>3
  <2>11. \A i \in 1..k : q[i] \notin ToSet(b) => \E a \in 1..(m + 1) : j[a] = i
    <3> SUFFICES ASSUME NEW i \in 1..k, q[i] \notin ToSet(b) PROVE \E a \in 1..(m + 1) : j[a] = i
      OBVIOUS
    <3>1. CASE i = k
      BY <2>5, <2>7, <3>1
    <3>2. CASE i \in 1..(k - 1)
      <4>1. PICK a \in 1..m : f[a] = i
        BY <3>2 DEF Picks, m
      <4> QED
        BY <2>4, <2>7, <4>1
    <3> QED
      BY <1>2, <3>1, <3>2
  <2>12. Picks(j, s, q, b, k)
    BY <2>2, <2>8, <2>9, <2>10, <2>11 DEF Picks
  <2> QED
    BY <2>1, <2>12
<1> QED
  BY <1>4, <1>5

LEMMA WithoutPicks ==
  ASSUME NEW q \in Seq(Updates), NEW b
  PROVE  /\ Without(q, b) \in Seq(Updates)
         /\ \E f : Picks(f, Without(q, b), q, b, Len(q))
<1>1. PICK g \in [0..Len(q) -> Seq(Updates)] :
        /\ g[0] = <<>>
        /\ \A k \in 1..Len(q) : g[k] = Rests(g[k - 1], q[k], b)
        /\ Without(q, b) = g[Len(q)]
  BY WithoutIs
<1> DEFINE n == Len(q)
           P == {k \in 0..n : \E f : Picks(f, g[k], q, b, k)}
<1>2. n \in Nat
  OBVIOUS
<1>3. 0 \in P
  <2> DEFINE f == [a \in 1..0 |-> 0]
  <2>1. 1..0 = {} /\ Len(g[0]) = 0
    BY <1>1
  <2>2. Picks(f, g[0], q, b, 0)
    BY <2>1 DEF Picks
  <2> HIDE DEF f
  <2> QED
    BY <1>2, <2>2
<1>4. ASSUME NEW k \in 1..n, k - 1 \in P PROVE k \in P
  <2>1. k \in 0..n /\ k - 1 \in 0..n /\ g[k - 1] \in Seq(Updates)
    BY <1>2, <1>4
  <2>2. PICK f : Picks(f, g[k - 1], q, b, k - 1)
    BY <1>4
  <2>3. \E j : Picks(j, Rests(g[k - 1], q[k], b), q, b, k)
    BY <2>1, <2>2, RestsPicks
  <2> QED
    BY <1>1, <2>1, <2>3
<1> HIDE DEF P
<1>5. \A k \in 0..n : k \in P
  BY <1>2, <1>3, <1>4, Climb
<1> QED
  BY <1>1, <1>2, <1>5 DEF P

-----------------------------------------------------------------------------
(***************************************************************************)
(* Every step keeps the types.                                             *)
(***************************************************************************)
TypedWorld ==
  /\ struck \in Faults \cup {"none"}
  /\ docV \in 0..MaxOps /\ resyncs \in 0..MaxResyncs
  /\ web \in [stage : {"idle", "structure", "content"}, for : Workers \cup {None}, n : Nat]
  /\ failure \in [attempts : 0..2, resync : BOOLEAN]

TypedHistory ==
  /\ queue \in Seq(Updates)
  /\ syncState \in SyncStates
  /\ lock \in Workers \cup {None}
  /\ log \in Seq([ops : SUBSET (1..MaxOps), content : 0..MaxOps])
  /\ late \in Requests \cup {None}

TypedWorkers ==
  /\ w \in [Workers -> Handlers]
  /\ \A x \in Workers : Sending(x) => w[x].request \in Requests

LEMMA TypedIs == Typed <=> TypedWorld /\ TypedHistory /\ TypedWorkers
BY DEF Typed, TypedWorld, TypedHistory, TypedWorkers

LEMMA IdleTyped == Idle \in Handlers /\ Idle.at = "idle" /\ Idle.sync = None
<1>1. <<>> \in Seq(Updates)
  OBVIOUS
<1> QED
  BY <1>1 DEF Idle, Handlers, PCs

\* A worker goes to a state of its own.
LEMMA WorkerTyped ==
  ASSUME TypedWorkers, NEW x \in Workers, NEW r \in Handlers, w' = [w EXCEPT ![x] = r],
         r.at \in {"send", "sent"} => r.request \in Requests
  PROVE  TypedWorkers'
BY DEF TypedWorkers, Sending

LEMMA SameWorkers ==
  ASSUME TypedWorkers, w' = w PROVE TypedWorkers'
BY DEF TypedWorkers, Sending

LEMMA GotoTyped ==
  ASSUME TypedWorkers, NEW x \in Workers, NEW pc \in PCs, Goto(x, pc),
         pc \in {"send", "sent"} => Sending(x)
  PROVE  TypedWorkers'
<1> DEFINE r == [w[x] EXCEPT !.at = pc]
<1>1. w[x] \in Handlers
  BY DEF TypedWorkers
<1>2. r \in Handlers /\ r.at = pc /\ r.request = w[x].request
  BY <1>1 DEF Handlers
<1>3. w' = [w EXCEPT ![x] = r]
  BY DEF Goto
<1>4. r.at \in {"send", "sent"} => r.request \in Requests
  BY <1>2 DEF TypedWorkers
<1> HIDE DEF r
<1> QED
  BY <1>2, <1>3, <1>4, WorkerTyped

LEMMA FailTyped ==
  ASSUME TypedWorkers, NEW x \in Workers, NEW e \in {"soft", "hard"}, Fail(x, e)
  PROVE  TypedWorkers'
<1> DEFINE r == [Idle EXCEPT !.at = "release", !.error = e,
                             !.session = w[x].session, !.then = w[x].then]
<1>1. w[x] \in Handlers
  BY DEF TypedWorkers
<1>2. r \in Handlers /\ r.at = "release" /\ r.sync = None
  BY <1>1, IdleTyped DEF Handlers, PCs
<1>3. w' = [w EXCEPT ![x] = r]
  BY DEF Fail
<1> HIDE DEF r
<1> QED
  BY <1>2, <1>3, WorkerTyped

LEMMA RecordedTyped == TypedHistory => Recorded \in 0..MaxOps
<1> SUFFICES ASSUME TypedHistory PROVE Recorded \in 0..MaxOps
  OBVIOUS
<1>1. log \in Seq([ops : SUBSET (1..MaxOps), content : 0..MaxOps])
  BY DEF TypedHistory
<1>2. CASE log = <<>>
  BY <1>2, BoundsAssumption DEF Recorded
<1>3. CASE log # <<>>
  <2> DEFINE S == [ops : SUBSET (1..MaxOps), content : 0..MaxOps]
  <2>1. log[Len(log)] \in S
    <3> HIDE DEF S
    <3>1. log \in Seq(S)
      BY <1>1 DEF S
    <3> QED
      BY <1>3, <3>1
  <2> QED
    BY <1>3, <2>1 DEF Recorded
<1> QED
  BY <1>2, <1>3

LEMMA LogTyped ==
  ASSUME TypedHistory
  PROVE  \A i \in DOMAIN log : log[i].ops \subseteq 1..MaxOps /\ log[i].content \in 0..MaxOps
<1> DEFINE E == [ops : SUBSET (1..MaxOps), content : 0..MaxOps]
<1>1. log \in Seq(E)
  BY DEF TypedHistory
<1>2. \A e \in E : e.ops \subseteq 1..MaxOps /\ e.content \in 0..MaxOps
  OBVIOUS
<1> HIDE DEF E
<1>3. \A i \in DOMAIN log : log[i] \in E
  BY <1>1
<1> QED
  BY <1>2, <1>3

LEMMA RequestTyped ==
  ASSUME TypedHistory, NEW q \in Seq(Updates)
  PROVE  Request(q) \in Requests
<1>1. Recorded \in 0..MaxOps
  BY RecordedTyped
<1>2. PICK g \in [0..Len(q) -> ContentStates] :
        /\ g[0] = Recorded
        /\ \A k \in 1..Len(q) : g[k] = Goes(g[k - 1], q[k])
        /\ Request(q).content = g[Len(q)]
  BY <1>1, ContentIs
<1>3. Len(q) \in 0..Len(q)
  OBVIOUS
<1> DEFINE c == Request(q).content
<1>4. c \in (0..MaxOps) \cup {Bad}
  BY <1>2, <1>3 DEF ContentStates
<1>5. Request(q) = [base |-> Len(log), ops |-> Fresh(q), content |-> c]
  BY DEF Request
<1>6. Len(log) \in Nat
  BY DEF TypedHistory
<1>7. Fresh(q) \in SUBSET (1..MaxOps)
  BY DEF Fresh
<1> HIDE DEF c
<1> QED
  BY <1>4, <1>5, <1>6, <1>7 DEF Requests

LEMMA EntryTyped ==
  ASSUME TypedHistory, NEW r \in Requests, Accepts(r), log' = Append(log, Entry(r))
  PROVE  log' \in Seq([ops : SUBSET (1..MaxOps), content : 0..MaxOps])
<1>1. Entry(r) \in [ops : SUBSET (1..MaxOps), content : 0..MaxOps]
  BY DEF Requests, Accepts, Entry
<1> QED
  BY <1>1 DEF TypedHistory

LEMMA WorldTypes ==
  ASSUME Typed, ClientOp \/ QueueStructure \/ QueueContent \/ LockExpires \/ UNCHANGED vars
  PROVE  Typed'
<1> USE BoundsAssumption
<1>1. TypedWorld /\ TypedHistory /\ TypedWorkers
  BY TypedIs
<1>2. CASE ClientOp
  <2>1. docV' \in 1..MaxOps /\ docV' = docV + 1
    BY <1>1, <1>2 DEF ClientOp, TypedWorld
  <2>2. Op(docV') \in Updates
    BY <2>1 DEF Op, Updates
  <2>3. queue' \in Seq(Updates)
    BY <1>1, <1>2, <2>2 DEF ClientOp, TypedHistory
  <2>4. TypedWorkers'
    BY <1>1, <1>2, SameWorkers DEF ClientOp
  <2> QED
    BY <1>1, <1>2, <2>1, <2>3, <2>4, TypedIs DEF ClientOp, TypedWorld, TypedHistory, Typed, TypedWorkers
<1>3. CASE QueueStructure
  <2>1. Structure(web.n) \in Updates
    BY <1>1 DEF Structure, Updates, TypedWorld
  <2>2. queue' \in Seq(Updates)
    BY <1>1, <1>3, <2>1 DEF QueueStructure, TypedHistory
  <2>3. TypedWorkers'
    BY <1>1, <1>3, SameWorkers DEF QueueStructure
  <2> QED
    BY <1>1, <1>3, <2>2, <2>3 DEF QueueStructure, TypedWorld, TypedHistory, Typed, TypedWorkers
<1>4. CASE QueueContent
  <2>1. Content(docV, web.n) \in Updates
    BY <1>1 DEF Content, Updates, TypedWorld
  <2>2. queue' \in Seq(Updates)
    BY <1>1, <1>4, <2>1 DEF QueueContent, TypedHistory
  <2>3. web' \in [stage : {"idle", "structure", "content"}, for : Workers \cup {None}, n : Nat]
    BY <1>1, <1>4 DEF QueueContent, WebDone, TypedWorld
  <2>4. TypedWorkers'
    <3>1. CASE web.for = None
      BY <1>1, <1>4, <3>1, SameWorkers DEF QueueContent
    <3>2. CASE web.for # None
      <4>1. web.for \in Workers
        BY <1>1, <3>2 DEF TypedWorld
      <4>2. Goto(web.for, "start")
        BY <1>4, <3>2 DEF QueueContent, Goto
      <4>3. "start" \in PCs
        BY DEF PCs, Resyncing
      <4> QED
        BY <1>1, <4>1, <4>2, <4>3, GotoTyped
    <3> QED
      BY <3>1, <3>2
  <2> QED
    BY <1>1, <1>4, <2>2, <2>3, <2>4 DEF QueueContent, TypedWorld, TypedHistory, Typed, TypedWorkers
<1>5. CASE LockExpires
  <2>1. TypedWorkers'
    BY <1>1, <1>5, SameWorkers DEF LockExpires
  <2>2. struck' \in Faults \cup {"none"}
    BY <1>1, <1>5 DEF LockExpires, Strikes, TypedWorld
  <2> QED
    BY <1>1, <1>5, <2>1, <2>2 DEF LockExpires, world, TypedWorld, TypedHistory, Typed, TypedWorkers
<1>6. CASE UNCHANGED vars
  <2>1. TypedWorkers'
    BY <1>1, <1>6, SameWorkers DEF vars
  <2> QED
    BY <1>1, <1>6, <2>1 DEF vars, world, TypedWorld, TypedHistory, Typed, TypedWorkers
<1> QED
  BY <1>2, <1>3, <1>4, <1>5, <1>6

\* The steps of a worker that leave the rest of the world, the queue and the
\* history as they are.
LEMMA QuietTypes ==
  ASSUME Typed, TypedWorkers', struck' = struck,
         UNCHANGED <<world, failure, queue, syncState, log, late>>,
         lock' \in Workers \cup {None}
  PROVE  Typed'
BY DEF Typed, TypedWorkers, world

LEMMA FlushTypes ==
  ASSUME Typed, NEW x \in Workers,
         \/ StartFlush(x) \/ GetLock(x) \/ LockTimeout(x) \/ Read(x) \/ Filter(x)
         \/ Fetch(x) \/ Send(x) \/ Release(x)
  PROVE  Typed'
<1>1. TypedWorld /\ TypedHistory /\ TypedWorkers /\ w[x] \in Handlers /\ lock \in Workers \cup {None}
  BY TypedIs DEF TypedWorkers, TypedHistory
<1> USE <1>1
<1>2. CASE StartFlush(x)
  <2>1. "lock" \in PCs
    BY DEF PCs
  <2>2. TypedWorkers'
    BY <1>2, <2>1, GotoTyped DEF StartFlush
  <2> QED
    BY <1>2, <2>2, QuietTypes DEF StartFlush
<1>3. CASE GetLock(x)
  <2> DEFINE pc == CASE w[x].at = "lock" -> "read" [] w[x].hard -> "clear" [] OTHER -> "request"
  <2>1. pc \in {"read", "clear", "request"}
    OBVIOUS
  <2>2. Goto(x, pc)
    BY <1>3 DEF GetLock
  <2> HIDE DEF pc
  <2>3. pc \in PCs /\ pc \notin {"send", "sent"}
    BY <2>1 DEF PCs, Flushing, Resyncing
  <2>4. TypedWorkers'
    BY <2>2, <2>3, GotoTyped
  <2> QED
    BY <1>3, <2>4, QuietTypes DEF GetLock
<1>4. CASE LockTimeout(x)
  <2> DEFINE r == [w[x] EXCEPT !.at = "report", !.error = "soft"]
  <2>1. r \in Handlers /\ r.at = "report"
    BY DEF Handlers, PCs
  <2>2. w' = [w EXCEPT ![x] = r]
    BY <1>4 DEF LockTimeout
  <2> HIDE DEF r
  <2>3. TypedWorkers'
    BY <2>1, <2>2, WorkerTyped
  <2> QED
    BY <1>4, <2>3, QuietTypes DEF LockTimeout
<1>5. CASE Read(x)
  <2>1. CASE Goto(x, "release")
    <3>1. "release" \in PCs
      BY DEF PCs
    <3>2. TypedWorkers'
      BY <2>1, <3>1, GotoTyped
    <3> QED
      BY <1>5, <3>2, QuietTypes DEF Read
  <2>2. ASSUME NEW n \in 1..Len(queue),
               w' = [w EXCEPT ![x].at = "filter",
                              ![x].batch = SubSeq(queue, 1, n),
                              ![x].more = n < Len(queue)]
        PROVE  Typed'
    <3> DEFINE b == SubSeq(queue, 1, n)
               m == n < Len(queue)
               r == [w[x] EXCEPT !.at = "filter", !.batch = b, !.more = m]
    <3>1. b \in Seq(Updates) /\ m \in BOOLEAN
      BY DEF TypedHistory
    <3>2. w' = [w EXCEPT ![x] = r]
      BY <2>2
    <3> HIDE DEF b, m
    <3>3. r \in Handlers /\ r.at = "filter"
      BY <3>1 DEF Handlers, PCs, Flushing
    <3> HIDE DEF r
    <3>4. TypedWorkers'
      BY <3>2, <3>3, WorkerTyped
    <3> QED
      BY <1>5, <3>4, QuietTypes DEF Read
  <2> QED
    BY <1>5, <2>1, <2>2 DEF Read
<1>6. CASE Filter(x)
  <2>1. syncState \in SyncStates /\ w[x].batch \in Seq(Updates)
    BY DEF TypedHistory, Handlers
  <2> DEFINE f == Filtered(w[x].batch)
             next == [structure |-> f.structure, doc |-> f.doc]
  <2>2. f \in FilterStates
    BY <2>1, FilterEnd
  <2>3. \/ Fail(x, "soft")
        \/ w' = [w EXCEPT ![x].at = "fetch", ![x].updates = w[x].batch]
        \/ w' = [w EXCEPT ![x].at = IF f.kept = <<>> THEN "set" ELSE "fetch",
                          ![x].updates = f.kept, ![x].sync = next]
    BY <1>6 DEF Filter
  <2> HIDE DEF f
  <2>4. next \in SyncStates /\ f.kept \in Seq(Updates)
    BY <2>2 DEF FilterStates, SyncStates
  <2> HIDE DEF next
  <2>5. TypedWorkers'
    <3>1. CASE Fail(x, "soft")
      BY <3>1, FailTyped
    <3>2. CASE w' = [w EXCEPT ![x].at = "fetch", ![x].updates = w[x].batch]
      <4> DEFINE r == [w[x] EXCEPT !.at = "fetch", !.updates = w[x].batch]
      <4>1. r \in Handlers /\ r.at = "fetch"
        BY <2>1 DEF Handlers, PCs, Flushing
      <4>2. w' = [w EXCEPT ![x] = r]
        BY <3>2
      <4> HIDE DEF r
      <4> QED
        BY <4>1, <4>2, WorkerTyped
    <3>3. ASSUME NEW pc \in {"set", "fetch"},
                 w' = [w EXCEPT ![x].at = pc, ![x].updates = f.kept, ![x].sync = next]
          PROVE  TypedWorkers'
      <4> DEFINE r == [w[x] EXCEPT !.at = pc, !.updates = f.kept, !.sync = next]
      <4>1. r \in Handlers /\ r.at \in {"set", "fetch"}
        BY <2>4 DEF Handlers, PCs, Flushing
      <4>2. w' = [w EXCEPT ![x] = r]
        BY <3>3
      <4> HIDE DEF r
      <4> QED
        BY <4>1, <4>2, WorkerTyped
    <3> QED
      BY <2>3, <3>1, <3>2, <3>3
  <2> QED
    BY <1>6, <2>5, QuietTypes DEF Filter
<1>7. CASE Fetch(x)
  <2>1. TypedWorkers'
    <3>1. CASE Fail(x, "hard")
      BY <3>1, FailTyped
    <3>2. CASE w' = [w EXCEPT ![x].at = "send", ![x].updates = <<>>,
                              ![x].request = Request(w[x].updates)]
      <4> DEFINE q == Request(w[x].updates)
                 r == [w[x] EXCEPT !.at = "send", !.updates = <<>>, !.request = q]
      <4>1. w[x].updates \in Seq(Updates) /\ <<>> \in Seq(Updates)
        BY DEF Handlers
      <4>2. q \in Requests
        BY <4>1, RequestTyped
      <4>3. w' = [w EXCEPT ![x] = r]
        BY <3>2
      <4> HIDE DEF q
      <4>4. r \in Handlers /\ r.request = q
        BY <4>1, <4>2 DEF Handlers, PCs, Flushing
      <4> HIDE DEF r
      <4> QED
        BY <4>2, <4>3, <4>4, WorkerTyped
    <3> QED
      BY <1>7, <3>1, <3>2 DEF Fetch
  <2> QED
    BY <1>7, <2>1, QuietTypes DEF Fetch
<1>8. CASE Send(x)
  <2>1. TypedWorkers'
    <3>1. CASE Fail(x, "soft")
      BY <3>1, FailTyped
    <3>2. ASSUME NEW pc \in {"set", "sent"}, Goto(x, pc) PROVE TypedWorkers'
      <4>1. pc \in PCs /\ Sending(x)
        BY <1>8 DEF Send, Sending, PCs, Flushing
      <4> QED
        BY <3>2, <4>1, GotoTyped
    <3> QED
      BY <1>8, <3>1, <3>2 DEF Send
  <2> QED
    BY <1>8, <2>1, QuietTypes DEF Send
<1>9. CASE Release(x)
  <2> DEFINE e == IF w[x].error = "none" /\ lock # x THEN "soft" ELSE w[x].error
             r == [Idle EXCEPT !.at = "report", !.session = w[x].session,
                               !.then = w[x].then, !.error = e]
  <2>1. w' = [w EXCEPT ![x] = r]
    BY <1>9 DEF Release
  <2>2. e \in {"none", "soft", "hard"}
    BY DEF Handlers
  <2> HIDE DEF e
  <2>3. r \in Handlers /\ r.at = "report"
    BY <2>2, IdleTyped DEF Handlers, PCs
  <2> HIDE DEF r
  <2>4. TypedWorkers'
    BY <2>1, <2>3, WorkerTyped
  <2>5. lock' \in Workers \cup {None}
    BY <1>9 DEF Release
  <2> QED
    BY <1>9, <2>4, <2>5, QuietTypes DEF Release
<1> QED
  BY <1>2, <1>3, <1>4, <1>5, <1>6, <1>7, <1>8, <1>9

LEMMA ReportDoes ==
  ASSUME NEW x \in Workers, Report(x)
  PROVE  /\ failure' = failure \/ failure' = NoFailure \/ RecordError
         /\ resyncs' = resyncs \/ (resyncs' = resyncs + 1 /\ resyncs < MaxResyncs)
<1>1. CASE w[x].error # "none"
  <2>1. RecordError
    BY <1>1 DEF Report
  <2>2. CASE Resyncs(x)
    BY <1>1, <2>1, <2>2 DEF Report, Resyncs
  <2>3. CASE ~Resyncs(x)
    BY <1>1, <2>1, <2>3 DEF Report
  <2> QED
    BY <2>2, <2>3
<1>2. CASE w[x].error = "none"
  BY <1>2 DEF Report
<1> QED
  BY <1>1, <1>2

LEMMA HistoryTypes ==
  ASSUME Typed, NEW x \in Workers,
         \/ Record(x) \/ SetState(x) \/ Delete(x) \/ Report(x)
         \/ \E hard \in BOOLEAN : StartResync(x, hard)
  PROVE  Typed'
<1>1. TypedWorld /\ TypedHistory /\ TypedWorkers /\ w[x] \in Handlers
  BY TypedIs DEF TypedWorkers
<1> USE <1>1
<1>2. CASE Record(x)
  <2>1. w[x].request \in Requests
    BY <1>2 DEF Record, TypedWorkers, Sending
  <2>2. CASE Accepts(w[x].request)
    <3>1. "set" \in PCs
      BY DEF PCs, Flushing
    <3>2. TypedWorkers'
      BY <1>2, <2>2, <3>1, GotoTyped DEF Record
    <3>3. log' \in Seq([ops : SUBSET (1..MaxOps), content : 0..MaxOps])
      BY <1>2, <2>1, <2>2, EntryTyped DEF Record
    <3>4. UNCHANGED <<world, struck, queue, syncState, failure, lock, late>>
      BY <1>2 DEF Record
    <3> QED
      BY <3>2, <3>3, <3>4 DEF world, TypedWorld, TypedHistory, Typed, TypedWorkers
  <2>3. CASE ~Accepts(w[x].request)
    <3>1. TypedWorkers'
      BY <1>2, <2>3, FailTyped DEF Record
    <3>2. UNCHANGED <<world, struck, queue, syncState, failure, lock, late, log>>
      BY <1>2, <2>3 DEF Record
    <3> QED
      BY <3>1, <3>2 DEF world, TypedWorld, TypedHistory, Typed, TypedWorkers
  <2> QED
    BY <2>2, <2>3
<1>3. CASE SetState(x)
  <2> DEFINE r == [w[x] EXCEPT !.at = "delete", !.sync = None, !.updates = <<>>, !.request = None]
  <2>1. r \in Handlers /\ r.at = "delete"
    <3>1. <<>> \in Seq(Updates)
      OBVIOUS
    <3> QED
      BY <3>1 DEF Handlers, PCs, Flushing
  <2>2. w' = [w EXCEPT ![x] = r]
    BY <1>3 DEF SetState
  <2> HIDE DEF r
  <2>3. TypedWorkers'
    BY <2>1, <2>2, WorkerTyped
  <2>4. syncState' \in SyncStates
    BY <1>3 DEF SetState, TypedHistory, Handlers
  <2>5. UNCHANGED <<world, struck, queue, failure, lock, log, late>>
    BY <1>3 DEF SetState
  <2> QED
    BY <2>3, <2>4, <2>5 DEF world, TypedWorld, TypedHistory, Typed, TypedWorkers
<1>4. CASE Delete(x)
  <2> DEFINE pc == IF w[x].more THEN "read" ELSE "release"
             r == [w[x] EXCEPT !.at = pc, !.batch = <<>>, !.more = FALSE]
  <2>1. r \in Handlers /\ r.at \notin {"send", "sent"}
    <3>1. <<>> \in Seq(Updates)
      OBVIOUS
    <3> QED
      BY <3>1 DEF Handlers, PCs, Flushing
  <2>2. w' = [w EXCEPT ![x] = r]
    BY <1>4 DEF Delete
  <2> HIDE DEF r
  <2>3. TypedWorkers'
    BY <2>1, <2>2, WorkerTyped
  <2>4. queue' \in Seq(Updates)
    BY <1>4, WithoutPicks DEF Delete, TypedHistory
  <2>5. UNCHANGED <<world, struck, syncState, failure, lock, log, late>>
    BY <1>4 DEF Delete
  <2> QED
    BY <2>3, <2>4, <2>5 DEF world, TypedWorld, TypedHistory, Typed, TypedWorkers
<1>5. CASE Report(x)
  <2> DEFINE again == [Idle EXCEPT !.at = "resyncLock", !.then = "last",
                                   !.session = "resync", !.hard = TRUE]
             flush == [Idle EXCEPT !.at = "lock", !.then = w[x].then]
  <2>1. UNCHANGED <<docV, web, struck, queue, syncState, lock, log, late>>
    BY <1>5 DEF Report
  <2>2. \E r \in {Idle, again, flush} : w' = [w EXCEPT ![x] = r]
    BY <1>5 DEF Report
  <2>3. \A r \in {Idle, again, flush} : r \in Handlers /\ r.at \notin {"send", "sent"}
    <3>1. w[x].then \in {"flush", "last"}
      BY <1>1 DEF Handlers
    <3>2. Idle \in Handlers /\ again \in Handlers /\ flush \in Handlers
      BY <3>1, IdleTyped DEF Handlers, PCs
    <3>3. Idle.at = "idle" /\ again.at = "resyncLock" /\ flush.at = "lock"
      BY DEF Idle
    <3> HIDE DEF again, flush
    <3> QED
      BY <3>2, <3>3
  <2> HIDE DEF again, flush
  <2>4. TypedWorkers'
    BY <2>2, <2>3, WorkerTyped
  <2>5. failure' \in [attempts : 0..2, resync : BOOLEAN]
    <3>1. failure' = failure \/ failure' = NoFailure \/ RecordError
      BY <1>5, ReportDoes
    <3>2. RecordError => failure' \in [attempts : 0..2, resync : BOOLEAN]
      <4> HAVE RecordError
      <4> DEFINE n == IF failure.attempts < 2 THEN failure.attempts + 1 ELSE 2
      <4>1. failure \in [attempts : 0..2, resync : BOOLEAN]
        BY DEF TypedWorld
      <4>2. n \in 0..2
        BY <4>1
      <4>3. failure' = [failure EXCEPT !.attempts = n]
        BY DEF RecordError
      <4> HIDE DEF n
      <4> QED
        BY <4>1, <4>2, <4>3
    <3>3. NoFailure \in [attempts : 0..2, resync : BOOLEAN]
      BY DEF NoFailure
    <3>4. failure \in [attempts : 0..2, resync : BOOLEAN]
      BY DEF TypedWorld
    <3> QED
      BY <3>1, <3>2, <3>3, <3>4
  <2>6. resyncs' \in 0..MaxResyncs
    <3>1. resyncs' = resyncs \/ (resyncs' = resyncs + 1 /\ resyncs < MaxResyncs)
      BY <1>5, ReportDoes
    <3> QED
      BY <3>1, BoundsAssumption DEF TypedWorld
  <2> QED
    BY <2>1, <2>4, <2>5, <2>6 DEF TypedWorld, TypedHistory, Typed, TypedWorkers
<1>6. CASE \E hard \in BOOLEAN : StartResync(x, hard)
  <2> PICK hard \in BOOLEAN : StartResync(x, hard)
    BY <1>6
  <2> DEFINE r == [w[x] EXCEPT !.at = "resyncLock", !.session = "resync", !.hard = hard]
  <2>1. r \in Handlers /\ r.at = "resyncLock"
    BY DEF Handlers, PCs
  <2>2. w' = [w EXCEPT ![x] = r]
    BY DEF StartResync
  <2> HIDE DEF r
  <2>3. TypedWorkers'
    BY <2>1, <2>2, WorkerTyped
  <2>4. resyncs' \in 0..MaxResyncs
    BY BoundsAssumption DEF StartResync, TypedWorld
  <2>5. UNCHANGED <<docV, web, struck, queue, syncState, failure, lock, log, late>>
    BY DEF StartResync
  <2> QED
    BY <2>3, <2>4, <2>5 DEF TypedWorld, TypedHistory, Typed, TypedWorkers
<1> QED
  BY <1>2, <1>3, <1>4, <1>5, <1>6

LEMMA ResyncTypes ==
  ASSUME Typed, NEW x \in Workers,
         ClearState(x) \/ DestroyQueue(x) \/ RequestResync(x) \/ SetStarted(x)
  PROVE  Typed'
<1>1. TypedWorld /\ TypedHistory /\ TypedWorkers /\ w[x] \in Handlers
  BY TypedIs DEF TypedWorkers
<1> USE <1>1
<1>2. {"destroy", "request", "requested", "release"} \subseteq PCs
  BY DEF PCs, Resyncing
<1>3. CASE ClearState(x)
  <2>1. TypedWorkers'
    BY <1>2, <1>3, GotoTyped DEF ClearState
  <2>2. syncState' \in SyncStates
    BY <1>3 DEF ClearState, NoSync, SyncStates
  <2>3. UNCHANGED <<world, struck, queue, failure, lock, log, late>>
    BY <1>3 DEF ClearState
  <2> QED
    BY <2>1, <2>2, <2>3 DEF world, TypedWorld, TypedHistory, Typed, TypedWorkers
<1>4. CASE DestroyQueue(x)
  <2>1. TypedWorkers'
    BY <1>2, <1>4, GotoTyped DEF DestroyQueue
  <2>2. queue' \in Seq(Updates)
    BY <1>4 DEF DestroyQueue
  <2>3. UNCHANGED <<world, struck, syncState, failure, lock, log, late>>
    BY <1>4 DEF DestroyQueue
  <2> QED
    BY <2>1, <2>2, <2>3 DEF world, TypedWorld, TypedHistory, Typed, TypedWorkers
<1>5. CASE RequestResync(x)
  <2>1. UNCHANGED <<docV, resyncs, struck, queue, syncState, lock, log, late>>
    BY <1>5 DEF RequestResync
  <2>2. failure' \in [attempts : 0..2, resync : BOOLEAN]
    BY <1>5 DEF RequestResync, TypedWorld
  <2>3. CASE Ongoing(syncState)
    <3>1. Fail(x, "soft") /\ web' = web
      BY <1>5, <2>3 DEF RequestResync
    <3>2. TypedWorkers'
      BY <3>1, FailTyped
    <3> QED
      BY <2>1, <2>2, <3>1, <3>2 DEF TypedWorld, TypedHistory, Typed, TypedWorkers
  <2>4. CASE ~Ongoing(syncState)
    <3>1. Goto(x, "requested") /\ web' = [stage |-> "structure", for |-> x, n |-> web.n + 1]
      BY <1>5, <2>4 DEF RequestResync
    <3>2. TypedWorkers'
      BY <1>2, <3>1, GotoTyped
    <3>3. web' \in [stage : {"idle", "structure", "content"}, for : Workers \cup {None}, n : Nat]
      BY <3>1 DEF TypedWorld
    <3> QED
      BY <2>1, <2>2, <3>2, <3>3 DEF TypedWorld, TypedHistory, Typed, TypedWorkers
  <2> QED
    BY <2>3, <2>4
<1>6. CASE SetStarted(x)
  <2>1. TypedWorkers'
    BY <1>2, <1>6, GotoTyped DEF SetStarted
  <2>2. syncState' \in SyncStates
    BY <1>6 DEF SetStarted, SyncStates
  <2>3. UNCHANGED <<world, struck, queue, failure, lock, log, late>>
    BY <1>6 DEF SetStarted
  <2> QED
    BY <2>1, <2>2, <2>3 DEF world, TypedWorld, TypedHistory, Typed, TypedWorkers
<1> QED
  BY <1>3, <1>4, <1>5, <1>6

LEMMA FaultTypes ==
  ASSUME Typed, RecordLate \/ \E x \in Workers : Crash(x) \/ SendTimeout(x) \/ WebFails(x)
  PROVE  Typed'
<1>1. TypedWorld /\ TypedHistory /\ TypedWorkers
  BY TypedIs
<1> USE <1>1
<1>2. CASE RecordLate
  <2>1. UNCHANGED <<world, struck, queue, syncState, failure, lock, w>> /\ late' = None
    BY <1>2 DEF RecordLate
  <2>2. TypedWorkers'
    BY <2>1, SameWorkers
  <2>3. log' \in Seq([ops : SUBSET (1..MaxOps), content : 0..MaxOps])
    <3>1. late \in Requests
      BY <1>2 DEF RecordLate, TypedHistory
    <3>2. CASE Accepts(late)
      BY <1>2, <3>1, <3>2, EntryTyped DEF RecordLate
    <3>3. CASE ~Accepts(late)
      BY <1>2, <3>3 DEF RecordLate, TypedHistory
    <3> QED
      BY <3>2, <3>3
  <2> QED
    BY <2>1, <2>2, <2>3 DEF world, TypedWorld, TypedHistory, Typed, TypedWorkers
<1>3. ASSUME NEW x \in Workers, Crash(x) PROVE Typed'
  <2>1. UNCHANGED <<docV, resyncs, queue, syncState, failure, lock, log>>
    BY <1>3 DEF Crash
  <2>2. struck' \in Faults \cup {"none"}
    BY <1>3 DEF Crash, Strikes
  <2>3. late' \in Requests \cup {None}
    BY <1>3 DEF Crash, TypedHistory, TypedWorkers, Sending
  <2>4. web' \in [stage : {"idle", "structure", "content"}, for : Workers \cup {None}, n : Nat]
    BY <1>3 DEF Crash, TypedWorld
  <2>5. TypedWorkers'
    <3>1. w' = [w EXCEPT ![x] = Idle]
      BY <1>3 DEF Crash
    <3> QED
      BY <3>1, IdleTyped, WorkerTyped
  <2> QED
    BY <2>1, <2>2, <2>3, <2>4, <2>5 DEF TypedWorld, TypedHistory, Typed, TypedWorkers
<1>4. ASSUME NEW x \in Workers, SendTimeout(x) PROVE Typed'
  <2>1. UNCHANGED <<world, queue, syncState, failure, lock, log>>
    BY <1>4 DEF SendTimeout
  <2>2. struck' \in Faults \cup {"none"}
    BY <1>4 DEF SendTimeout, Strikes
  <2>3. late' \in Requests \cup {None}
    BY <1>4 DEF SendTimeout, TypedWorkers, Sending
  <2>4. TypedWorkers'
    BY <1>4, FailTyped DEF SendTimeout
  <2> QED
    BY <2>1, <2>2, <2>3, <2>4 DEF world, TypedWorld, TypedHistory, Typed, TypedWorkers
<1>5. ASSUME NEW x \in Workers, WebFails(x) PROVE Typed'
  <2>1. UNCHANGED <<docV, resyncs, queue, syncState, failure, lock, log, late>>
    BY <1>5 DEF WebFails
  <2>2. struck' \in Faults \cup {"none"}
    BY <1>5 DEF WebFails, Strikes
  <2>3. web' \in [stage : {"idle", "structure", "content"}, for : Workers \cup {None}, n : Nat]
    BY <1>5 DEF WebFails, WebDone, TypedWorld
  <2>4. TypedWorkers'
    BY <1>5, FailTyped DEF WebFails
  <2> QED
    BY <2>1, <2>2, <2>3, <2>4 DEF TypedWorld, TypedHistory, Typed, TypedWorkers
<1> QED
  BY <1>2, <1>3, <1>4, <1>5

LEMMA InitTypes == Init => Typed
<1> SUFFICES ASSUME Init PROVE Typed
  OBVIOUS
<1>1. 0 \in 0..MaxOps /\ 0 \in 0..MaxResyncs
  BY BoundsAssumption
<1>2. w \in [Workers -> Handlers] /\ \A x \in Workers : w[x].at = "idle"
  BY IdleTyped DEF Init
<1>3. queue \in Seq(Updates) /\ log \in Seq([ops : SUBSET (1..MaxOps), content : 0..MaxOps])
  BY DEF Init
<1>4. syncState \in SyncStates /\ failure \in [attempts : 0..2, resync : BOOLEAN]
  BY DEF Init, NoSync, NoFailure, SyncStates
<1> QED
  BY <1>1, <1>2, <1>3, <1>4 DEF Init, Typed, Sending

LEMMA NextTypes == Typed /\ [Next]_vars => Typed'
BY WorldTypes, FlushTypes, HistoryTypes, ResyncTypes, FaultTypes DEF Next, Step

LEMMA TypesGiven == Typed => TypeOK
<1> SUFFICES ASSUME Typed PROVE TypeOK
  OBVIOUS
<1>1. ASSUME NEW s \in Seq(Updates), NEW i \in DOMAIN s PROVE Update(s[i])
  <2>1. s[i] \in Updates
    OBVIOUS
  <2> QED
    BY <2>1 DEF Updates, Update
<1>2. \A x \in Workers : w[x] \in Handlers
  BY DEF Typed
<1>3. \A x \in Workers :
        /\ w[x].at \in PCs
        /\ w[x].sync \in SyncStates \cup {None}
        /\ w[x].request \in Requests \cup {None}
        /\ w[x].batch \in Seq(Updates)
  BY <1>2 DEF Handlers
<1> QED
  BY <1>1, <1>3 DEF Typed, TypeOK

\* Every variable has its type, whatever the number of workers, ops and resyncs and
\* the faults: the contents the history records are contents of the document, and
\* never those of changes that do not apply.
THEOREM ContentsTyped == Spec => []TypeOK
<1>1. Init => Typed
  BY InitTypes
<1>2. Typed /\ [Next]_vars => Typed'
  BY NextTypes
<1>3. Typed => TypeOK
  BY TypesGiven
<1> QED
  BY <1>1, <1>2, <1>3, PTL DEF Spec

-----------------------------------------------------------------------------
(***************************************************************************)
(* A resync that makes updates ignored is on the queue: only the holder of *)
(* the lock takes updates off the queue or changes the sync state, and a   *)
(* batch that leaves the sync state waiting has none of what it waits for. *)
(***************************************************************************)
Beside(x) == \A y \in Workers \ {x} : w'[y] = w[y]

\* What a worker that only goes on has as before.
Same(x) ==
  /\ w'[x].batch = w[x].batch /\ w'[x].sync = w[x].sync /\ w'[x].request = w[x].request
  /\ w'[x].updates = w[x].updates /\ w'[x].hard = w[x].hard

LEMMA GotoDoes ==
  ASSUME Typed, NEW x \in Workers, NEW pc, Goto(x, pc)
  PROVE  Beside(x) /\ Same(x) /\ w'[x].at = pc
<1>1. w \in [Workers -> Handlers] /\ w[x] \in Handlers
  BY DEF Typed
<1> QED
  BY <1>1 DEF Goto, Beside, Same, Handlers

LEMMA BecomesDoes ==
  ASSUME Typed, NEW x \in Workers, NEW r, w' = [w EXCEPT ![x] = r]
  PROVE  Beside(x) /\ w'[x] = r
<1>1. w \in [Workers -> Handlers]
  BY DEF Typed
<1> QED
  BY <1>1 DEF Beside

LEMMA FailDoes ==
  ASSUME Typed, NEW x \in Workers, NEW e, Fail(x, e)
  PROVE  Beside(x) /\ w'[x].at = "release" /\ w'[x].sync = None
<1> DEFINE r == [Idle EXCEPT !.at = "release", !.error = e,
                             !.session = w[x].session, !.then = w[x].then]
<1>1. w' = [w EXCEPT ![x] = r]
  BY DEF Fail
<1>2. r.at = "release" /\ r.sync = None
  BY DEF Idle
<1> HIDE DEF r
<1> QED
  BY <1>1, <1>2, BecomesDoes

LEMMA NotNone == \A x \in Workers : x # None
BY ValuesAssumption

\* The others are not disturbed by what the holder of the lock does, nor by a worker
\* that leaves the queue and the sync state alone.
LEMMA OthersSkip ==
  ASSUME SkipInv, struck # "expire", NEW x \in Workers, Beside(x),
         w[x].at \in Critical \/ UNCHANGED <<web, queue, syncState>>
  PROVE  \A y \in Workers \ {x} : Skipping(y)'
<1> SUFFICES ASSUME NEW y \in Workers \ {x} PROVE Skipping(y)'
  OBVIOUS
<1>1. w'[y] = w[y] /\ Skipping(y)
  BY DEF Beside, SkipInv
<1>2. CASE w[x].at \in Critical
  <2>1. w[y].at \notin Critical
    BY <1>2 DEF SkipInv, Holding
  <2>2. Filtering \cup {"destroy", "requested", "start"} \subseteq Critical
    BY DEF Filtering, Critical, Flushing, Resyncing
  <2>3. "delete" \in Filtering
    BY DEF Filtering
  <2> QED
    BY <1>1, <2>1, <2>2, <2>3 DEF Skipping
<1>3. CASE UNCHANGED <<web, queue, syncState>>
  BY <1>1, <1>3 DEF Skipping, Pending, Awaits, Follows, Queued, Ongoing
<1> QED
  BY <1>2, <1>3

LEMMA OthersRequest ==
  ASSUME Requesting, NEW x \in Workers, Beside(x), web' = web,
         w[x].at # "requested", w'[x].at # "requested"
  PROVE  Requesting'
BY DEF Requesting, Beside

LEMMA OthersHold ==
  ASSUME Holding, NEW x \in Workers, Beside(x),
         w'[x].at \in Critical => lock' = x,
         \A y \in Workers \ {x} : lock = y => lock' = y
  PROVE  Holding'
BY DEF Holding, Beside

\* Where a worker has to do neither with a batch nor with a resync.
Free == PCs \ (Filtering \cup {"destroy", "requested", "start"})

LEMMA FreeSkips ==
  ASSUME NEW x \in Workers, w'[x].at \in Free PROVE Skipping(x)'
BY DEF Free, Skipping, Filtering

LEMMA MoveSkips ==
  ASSUME SkipInv, Shaped', NEW x \in Workers, Beside(x),
         UNCHANGED <<web, queue, syncState>>,
         w[x].at # "requested", w'[x].at \in Free,
         struck' # "expire" => struck # "expire",
         w'[x].at \in Critical => lock' = x \/ (w[x].at \in Critical /\ lock' = lock),
         \A y \in Workers \ {x} : lock = y => lock' = y
  PROVE  SkipInv'
<1>1. Requesting'
  <2>1. w'[x].at # "requested"
    BY DEF Free
  <2> QED
    BY <2>1, OthersRequest DEF SkipInv
<1>2. ASSUME struck' # "expire" PROVE Holding' /\ (\A y \in Workers : Skipping(y)') /\ SkipsEnd'
  <2>1. struck # "expire" /\ Holding /\ SkipsEnd
    BY <1>2 DEF SkipInv
  <2>2. w'[x].at \in Critical => lock' = x
    BY <2>1 DEF Holding
  <2>3. Holding'
    BY <2>1, <2>2, OthersHold
  <2>4. \A y \in Workers \ {x} : Skipping(y)'
    BY <2>1, OthersSkip
  <2>5. Skipping(x)'
    BY FreeSkips
  <2>6. SkipsEnd'
    BY <2>1 DEF SkipsEnd, Queued
  <2> QED
    BY <2>3, <2>4, <2>5, <2>6
<1> QED
  BY <1>1, <1>2 DEF SkipInv

LEMMA FreeIs ==
  /\ {"idle", "lock", "resyncLock", "release", "report", "read", "filter",
      "clear", "request"} \subseteq Free
  /\ {"idle", "lock", "resyncLock", "report"} \cap Critical = {}
  /\ "requested" \notin Free
BY DEF Free, PCs, Filtering, Critical, Flushing, Resyncing

\* A worker that starts, gives up, fails or is done, or has read its batch.
LEMMA PlainSkips ==
  ASSUME SkipInv, Shaped', NEW x \in Workers,
         \/ StartFlush(x) \/ GetLock(x) \/ LockTimeout(x) \/ Read(x) \/ Release(x) \/ Report(x)
         \/ \E hard \in BOOLEAN : StartResync(x, hard)
  PROVE  SkipInv'
<1>1. Typed /\ w[x] \in Handlers
  BY DEF SkipInv, Shaped, Typed
<1> USE <1>1
<1>2. CASE StartFlush(x)
  <2>1. Goto(x, "lock") /\ UNCHANGED <<world, struck, queue, syncState, lock>> /\ w[x].at = "idle"
    BY <1>2 DEF StartFlush
  <2>2. Beside(x) /\ w'[x].at = "lock"
    BY <2>1, GotoDoes
  <2> QED
    BY <2>1, <2>2, FreeIs, MoveSkips DEF world
<1>3. CASE GetLock(x)
  <2> DEFINE pc == CASE w[x].at = "lock" -> "read" [] w[x].hard -> "clear" [] OTHER -> "request"
  <2>1. pc \in {"read", "clear", "request"}
    OBVIOUS
  <2>2. Goto(x, pc)
    BY <1>3 DEF GetLock
  <2> HIDE DEF pc
  <2>3. /\ UNCHANGED <<world, struck, queue, syncState>> /\ lock = None /\ lock' = x
        /\ w[x].at # "requested"
    BY <1>3 DEF GetLock
  <2>4. Beside(x) /\ w'[x].at \in {"read", "clear", "request"}
    BY <2>1, <2>2, GotoDoes
  <2>5. \A y \in Workers \ {x} : lock = y => lock' = y
    BY <2>3, NotNone
  <2> QED
    BY <2>3, <2>4, <2>5, FreeIs, MoveSkips DEF world
<1>4. CASE LockTimeout(x)
  <2> DEFINE r == [w[x] EXCEPT !.at = "report", !.error = "soft"]
  <2>1. w' = [w EXCEPT ![x] = r] /\ r.at = "report"
    BY <1>4 DEF LockTimeout, Handlers
  <2> HIDE DEF r
  <2>2. Beside(x) /\ w'[x].at = "report"
    BY <2>1, BecomesDoes
  <2>3. UNCHANGED <<world, struck, queue, syncState, lock>> /\ w[x].at # "requested"
    BY <1>4 DEF LockTimeout
  <2> QED
    BY <2>2, <2>3, FreeIs, MoveSkips DEF world
<1>5. CASE Read(x)
  <2>1. UNCHANGED <<world, struck, queue, syncState, lock>> /\ w[x].at = "read"
    BY <1>5 DEF Read
  <2>2. "read" \in Critical
    BY DEF Critical, Flushing
  <2>3. Beside(x) /\ w'[x].at \in {"release", "filter"}
    <3>1. CASE Goto(x, "release")
      BY <3>1, GotoDoes
    <3>2. ASSUME NEW n \in 1..Len(queue),
                 w' = [w EXCEPT ![x].at = "filter",
                                ![x].batch = SubSeq(queue, 1, n),
                                ![x].more = n < Len(queue)]
          PROVE  Beside(x) /\ w'[x].at \in {"release", "filter"}
      <4> DEFINE b == SubSeq(queue, 1, n)
                 m == n < Len(queue)
                 r == [w[x] EXCEPT !.at = "filter", !.batch = b, !.more = m]
      <4>1. w' = [w EXCEPT ![x] = r]
        BY <3>2
      <4> HIDE DEF b, m
      <4>2. r.at = "filter"
        BY DEF Handlers
      <4> HIDE DEF r
      <4> QED
        BY <4>1, <4>2, BecomesDoes
    <3> QED
      BY <1>5, <3>1, <3>2 DEF Read
  <2> QED
    BY <2>1, <2>2, <2>3, FreeIs, MoveSkips DEF world
<1>6. CASE Release(x)
  <2> DEFINE r == [Idle EXCEPT !.at = "report", !.session = w[x].session,
                               !.then = w[x].then,
                               !.error = IF w[x].error = "none" /\ lock # x THEN "soft"
                                         ELSE w[x].error]
  <2>1. w' = [w EXCEPT ![x] = r]
    BY <1>6 DEF Release
  <2>2. r.at = "report"
    BY DEF Idle
  <2> HIDE DEF r
  <2>3. Beside(x) /\ w'[x].at = "report"
    BY <2>1, <2>2, BecomesDoes
  <2>4. /\ UNCHANGED <<world, struck, queue, syncState>> /\ w[x].at # "requested"
        /\ lock' = IF lock = x THEN None ELSE lock
    BY <1>6 DEF Release
  <2>5. \A y \in Workers \ {x} : lock = y => lock' = y
    BY <2>4
  <2> QED
    BY <2>3, <2>4, <2>5, FreeIs, MoveSkips DEF world
<1>7. CASE Report(x)
  <2> DEFINE again == [Idle EXCEPT !.at = "resyncLock", !.then = "last",
                                   !.session = "resync", !.hard = TRUE]
             flush == [Idle EXCEPT !.at = "lock", !.then = w[x].then]
  <2>1. UNCHANGED <<web, struck, queue, syncState, lock>> /\ w[x].at # "requested"
    BY <1>7 DEF Report
  <2>2. \E r \in {Idle, again, flush} : w' = [w EXCEPT ![x] = r]
    BY <1>7 DEF Report
  <2>3. Idle.at = "idle" /\ again.at = "resyncLock" /\ flush.at = "lock"
    BY DEF Idle
  <2> HIDE DEF again, flush
  <2>4. Beside(x) /\ w'[x].at \in {"idle", "resyncLock", "lock"}
    BY <2>2, <2>3, BecomesDoes
  <2> QED
    BY <2>1, <2>4, FreeIs, MoveSkips
<1>8. CASE \E hard \in BOOLEAN : StartResync(x, hard)
  <2> PICK hard \in BOOLEAN : StartResync(x, hard)
    BY <1>8
  <2> DEFINE r == [w[x] EXCEPT !.at = "resyncLock", !.session = "resync", !.hard = hard]
  <2>1. w' = [w EXCEPT ![x] = r] /\ r.at = "resyncLock"
    BY DEF StartResync, Handlers
  <2> HIDE DEF r
  <2>2. Beside(x) /\ w'[x].at = "resyncLock"
    BY <2>1, BecomesDoes
  <2>3. UNCHANGED <<web, struck, queue, syncState, lock>> /\ w[x].at # "requested"
    BY DEF StartResync
  <2> QED
    BY <2>2, <2>3, FreeIs, MoveSkips
<1> QED
  BY <1>2, <1>3, <1>4, <1>5, <1>6, <1>7, <1>8

\* A worker that fails on its way to history-v1.
LEMMA FailSkips ==
  ASSUME SkipInv, Shaped', NEW x \in Workers, NEW e, Fail(x, e),
         UNCHANGED <<web, queue, syncState, lock>>, w[x].at \in Flushing,
         struck' # "expire" => struck # "expire"
  PROVE  SkipInv'
<1>1. Typed
  BY DEF SkipInv, Shaped
<1>2. Beside(x) /\ w'[x].at = "release"
  BY <1>1, FailDoes
<1>3. w[x].at \in Critical /\ w[x].at # "requested"
  BY DEF Critical, Flushing
<1> QED
  BY <1>2, <1>3, FreeIs, MoveSkips

\* A worker that goes on with its batch.
LEMMA FilterSkips ==
  ASSUME SkipInv, Shaped', NEW x \in Workers, Beside(x),
         UNCHANGED <<struck, web, queue, syncState, lock>>,
         w[x].at \in Flushing, w'[x].at \in {"fetch", "send", "sent", "set"},
         struck # "expire" =>
           /\ Awaits(Pending(x), w[x].batch)' /\ Follows(Pending(x))'
  PROVE  SkipInv'
<1>1. Requesting'
  <2>1. w[x].at # "requested" /\ w'[x].at # "requested"
    BY DEF Flushing
  <2> QED
    BY <2>1, OthersRequest DEF SkipInv
<1>2. ASSUME struck' # "expire" PROVE Holding' /\ (\A y \in Workers : Skipping(y)') /\ SkipsEnd'
  <2>1. struck # "expire" /\ Holding /\ SkipsEnd /\ w[x].at \in Critical
    BY <1>2 DEF SkipInv, Critical
  <2>2. lock = x
    BY <2>1 DEF Holding
  <2>3. Holding'
    BY <2>1, <2>2, OthersHold
  <2>4. \A y \in Workers \ {x} : Skipping(y)'
    BY <2>1, OthersSkip
  <2>5. Skipping(x)'
    BY <2>1 DEF Skipping
  <2>6. SkipsEnd'
    BY <2>1 DEF SkipsEnd, Queued
  <2> QED
    BY <2>3, <2>4, <2>5, <2>6
<1> QED
  BY <1>1, <1>2 DEF SkipInv

\* What a batch comes to while a resync is ongoing.
LEMMA FilterAwaits ==
  ASSUME syncState \in SyncStates, NEW q \in Seq(Updates), NEW st,
         Filtered(q).ok, st.structure = Filtered(q).structure, st.doc = Filtered(q).doc
  PROVE  /\ Awaits(st, q) /\ Follows(st)
         /\ \A i, j \in Contents(q) : i = j
<1> DEFINE f == Filtered(q)
<1>1. SyncedUpto(f, q, Len(q)) /\ DOMAIN q = 1..Len(q)
  BY FilterEnd DEF FilterUpto
<1>2. /\ f.structure => syncState.structure /\ \A i \in 1..Len(q) : q[i].kind = "op"
      /\ f.doc => syncState.structure \/ syncState.doc
      /\ \A i \in 1..Len(q) : q[i].kind = "content" => ~Ongoing(f)
      /\ \A i, j \in 1..Len(q) : q[i].kind = "content" /\ q[j].kind = "content" => i = j
  BY <1>1 DEF SyncedUpto
<1> HIDE DEF f
<1>3. Awaits(st, q)
  BY <1>1, <1>2 DEF Awaits, Has, Ongoing, f
<1>4. Follows(st)
  BY <1>2 DEF Follows, f
<1>5. \A i, j \in Contents(q) : i = j
  BY <1>1, <1>2 DEF Contents
<1> QED
  BY <1>3, <1>4, <1>5

\* What Filter leaves a worker with.
LEMMA FilterDoes ==
  ASSUME Typed, NEW x \in Workers, Filter(x)
  PROVE  \/ Fail(x, "soft")
         \/ /\ Beside(x) /\ ~Ongoing(syncState) /\ w'[x].at = "fetch"
            /\ w'[x].batch = w[x].batch /\ w'[x].updates = w[x].batch /\ w'[x].sync = w[x].sync
         \/ /\ Beside(x) /\ Ongoing(syncState) /\ Filtered(w[x].batch).ok
            /\ w'[x].at = IF Filtered(w[x].batch).kept = <<>> THEN "set" ELSE "fetch"
            /\ w'[x].batch = w[x].batch /\ w'[x].updates = Filtered(w[x].batch).kept
            /\ w'[x].sync = [structure |-> Filtered(w[x].batch).structure,
                             doc |-> Filtered(w[x].batch).doc]
<1>1. w \in [Workers -> Handlers] /\ w[x] \in Handlers
  BY DEF Typed
<1> DEFINE f == Filtered(w[x].batch)
           next == [structure |-> f.structure, doc |-> f.doc]
           pc == IF f.kept = <<>> THEN "set" ELSE "fetch"
<1>2. CASE ~Ongoing(syncState)
  <2>1. w' = [w EXCEPT ![x].at = "fetch", ![x].updates = w[x].batch]
    BY <1>2 DEF Filter
  <2> QED
    BY <1>1, <1>2, <2>1 DEF Handlers, Beside
<1>3. CASE Ongoing(syncState) /\ f.ok
  <2>1. w' = [w EXCEPT ![x].at = pc, ![x].updates = f.kept, ![x].sync = next]
    BY <1>3 DEF Filter
  <2> HIDE DEF f, next, pc
  <2>2. /\ Beside(x) /\ w'[x].at = pc /\ w'[x].batch = w[x].batch
        /\ w'[x].updates = f.kept /\ w'[x].sync = next
    BY <1>1, <2>1 DEF Handlers, Beside
  <2> QED
    BY <1>3, <2>2 DEF f, next, pc
<1>4. CASE Ongoing(syncState) /\ ~f.ok
  BY <1>4 DEF Filter
<1> QED
  BY <1>2, <1>3, <1>4

LEMMA BatchSkips ==
  ASSUME SkipInv, Shaped', NEW x \in Workers,
         Filter(x) \/ Fetch(x) \/ Send(x) \/ Record(x)
  PROVE  SkipInv'
<1>1. Typed /\ w[x] \in Handlers /\ syncState \in SyncStates /\ w[x].batch \in Seq(Updates)
  BY DEF SkipInv, Shaped, Typed, Handlers
<1> USE <1>1
<1>2. CASE Filter(x)
  <2>1. UNCHANGED <<world, struck, queue, syncState, lock>> /\ w[x].at = "filter"
    BY <1>2 DEF Filter
  <2>2. w[x].at \in Flushing
    BY <2>1 DEF Flushing
  <2> DEFINE f == Filtered(w[x].batch)
  <2>3. CASE Fail(x, "soft")
    BY <2>1, <2>2, <2>3, FailSkips DEF world
  <2>4. CASE /\ Beside(x) /\ ~Ongoing(syncState) /\ w'[x].at = "fetch"
             /\ w'[x].batch = w[x].batch /\ w'[x].updates = w[x].batch /\ w'[x].sync = w[x].sync
    <3>1. ASSUME struck # "expire" PROVE Awaits(Pending(x), w[x].batch)' /\ Follows(Pending(x))'
      <4>1. w[x].sync = None
        BY <2>1 DEF SkipInv, Shaped, Syncing
      <4>2. Pending(x)' = syncState'
        BY <2>4, <4>1 DEF Pending
      <4> QED
        BY <2>1, <2>4, <4>2 DEF Awaits, Follows, Ongoing
    <3> QED
      BY <2>1, <2>2, <2>4, <3>1, FilterSkips DEF world
  <2>5. CASE /\ Beside(x) /\ Ongoing(syncState) /\ f.ok
             /\ w'[x].at = IF f.kept = <<>> THEN "set" ELSE "fetch"
             /\ w'[x].batch = w[x].batch /\ w'[x].updates = f.kept
             /\ w'[x].sync = [structure |-> f.structure, doc |-> f.doc]
    <3> DEFINE next == [structure |-> f.structure, doc |-> f.doc]
    <3>1. f \in FilterStates /\ f.ok
      BY <2>5, FilterEnd
    <3>2. next \in SyncStates /\ next.structure = f.structure /\ next.doc = f.doc
      BY <3>1 DEF FilterStates, SyncStates
    <3>3. Awaits(next, w[x].batch) /\ Follows(next)
      BY <3>1, <3>2, FilterAwaits
    <3>4. w'[x].sync = next /\ w'[x].batch = w[x].batch /\ w'[x].at \in {"fetch", "set"} /\ Beside(x)
      BY <2>5
    <3> HIDE DEF next
    <3>5. next # None
      BY <3>2, ValuesAssumption DEF SyncStates
    <3>6. Pending(x)' = next
      BY <3>4, <3>5 DEF Pending
    <3>7. Awaits(Pending(x), w[x].batch)' /\ Follows(Pending(x))'
      BY <2>1, <3>3, <3>4, <3>6 DEF Awaits, Follows
    <3> QED
      BY <2>1, <2>2, <3>4, <3>7, FilterSkips DEF world
  <2> QED
    BY <1>2, <2>3, <2>4, <2>5, FilterDoes
<1>3. ASSUME w[x].at \in {"fetch", "send", "sent"}, Beside(x),
             w'[x].at \in {"send", "sent", "set"},
             w'[x].batch = w[x].batch, w'[x].sync = w[x].sync,
             UNCHANGED <<struck, web, queue, syncState, lock>>
      PROVE  SkipInv'
  <2>1. w[x].at \in Flushing /\ w[x].at \in Filtering
    BY <1>3 DEF Flushing, Filtering
  <2>2. ASSUME struck # "expire" PROVE Awaits(Pending(x), w[x].batch)' /\ Follows(Pending(x))'
    <3>1. Awaits(Pending(x), w[x].batch) /\ Follows(Pending(x))
      BY <2>1, <2>2 DEF SkipInv, Skipping
    <3>2. Pending(x)' = Pending(x)
      BY <1>3 DEF Pending
    <3> QED
      BY <1>3, <3>1, <3>2 DEF Awaits, Follows
  <2> QED
    BY <1>3, <2>1, <2>2, FilterSkips
<1>4. CASE Fetch(x)
  <2>1. UNCHANGED <<world, struck, queue, syncState, lock>> /\ w[x].at = "fetch"
    BY <1>4 DEF Fetch
  <2>2. CASE Fail(x, "hard")
    BY <2>1, <2>2, FailSkips DEF world, Flushing
  <2>3. CASE w' = [w EXCEPT ![x].at = "send", ![x].updates = <<>>,
                            ![x].request = Request(w[x].updates)]
    <3> DEFINE q == Request(w[x].updates)
               r == [w[x] EXCEPT !.at = "send", !.updates = <<>>, !.request = q]
    <3>1. w' = [w EXCEPT ![x] = r]
      BY <2>3
    <3> HIDE DEF q
    <3>2. r.at = "send" /\ r.batch = w[x].batch /\ r.sync = w[x].sync
      BY DEF Handlers
    <3> HIDE DEF r
    <3>3. Beside(x) /\ w'[x] = r
      BY <3>1, BecomesDoes
    <3> QED
      BY <1>3, <2>1, <3>2, <3>3 DEF world
  <2> QED
    BY <1>4, <2>2, <2>3 DEF Fetch
<1>5. CASE Send(x)
  <2>1. UNCHANGED <<world, struck, queue, syncState, lock>> /\ w[x].at = "send"
    BY <1>5 DEF Send
  <2>2. CASE Fail(x, "soft")
    BY <2>1, <2>2, FailSkips DEF world, Flushing
  <2>3. ASSUME NEW pc \in {"set", "sent"}, Goto(x, pc) PROVE SkipInv'
    <3>1. Beside(x) /\ Same(x) /\ w'[x].at = pc
      BY <2>3, GotoDoes
    <3> QED
      BY <1>3, <2>1, <3>1 DEF world, Same
  <2> QED
    BY <1>5, <2>2, <2>3 DEF Send
<1>6. CASE Record(x)
  <2>1. UNCHANGED <<world, struck, queue, syncState, lock>> /\ w[x].at = "sent"
    BY <1>6 DEF Record
  <2>2. CASE Fail(x, "hard")
    BY <2>1, <2>2, FailSkips DEF world, Flushing
  <2>3. CASE Goto(x, "set")
    <3>1. Beside(x) /\ Same(x) /\ w'[x].at = "set"
      BY <2>3, GotoDoes
    <3> QED
      BY <1>3, <2>1, <3>1 DEF world, Same
  <2> QED
    BY <1>6, <2>2, <2>3 DEF Record
<1> QED
  BY <1>2, <1>4, <1>5, <1>6

\* A worker that has no sync state to set has none.
Synchronous(x) ==
  \/ w'[x].sync = None
  \/ Syncing(w'[x])
  \/ w'[x].sync = w[x].sync /\ ~Syncing(w[x])

LEMMA FlushSyncs ==
  ASSUME Typed, NEW x \in Workers,
         \/ StartFlush(x) \/ GetLock(x) \/ LockTimeout(x) \/ Read(x) \/ Filter(x) \/ Fetch(x)
         \/ Send(x) \/ Record(x) \/ SetState(x) \/ Delete(x) \/ Release(x) \/ Report(x)
  PROVE  Beside(x) /\ Synchronous(x)
<1>1. w[x] \in Handlers
  BY DEF Typed
<1> USE <1>1 DEF Synchronous
<1>2. ASSUME NEW r, w' = [w EXCEPT ![x] = r], r.sync = None \/ Syncing(r) \/ (r.sync = w[x].sync /\ ~Syncing(w[x]))
      PROVE  Beside(x) /\ Synchronous(x)
  BY <1>2, BecomesDoes
<1>3. ASSUME NEW pc, Goto(x, pc), ~Syncing(w[x]) \/ pc \in {"sent", "set"}
      PROVE  Beside(x) /\ Synchronous(x)
  BY <1>3, GotoDoes DEF Same, Syncing
<1>4. ASSUME NEW e, Fail(x, e) PROVE Beside(x) /\ Synchronous(x)
  BY <1>4, FailDoes
<1>5. CASE StartFlush(x)
  BY <1>3, <1>5 DEF StartFlush, Syncing
<1>6. CASE GetLock(x)
  <2>1. ~Syncing(w[x])
    BY <1>6 DEF GetLock, Syncing
  <2> QED
    BY <1>3, <1>6, <2>1 DEF GetLock
<1>7. CASE LockTimeout(x)
  <2> DEFINE r == [w[x] EXCEPT !.at = "report", !.error = "soft"]
  <2>1. w' = [w EXCEPT ![x] = r] /\ r.sync = w[x].sync /\ ~Syncing(w[x])
    BY <1>7 DEF LockTimeout, Handlers, Syncing
  <2> HIDE DEF r
  <2> QED
    BY <1>2, <2>1
<1>8. CASE Read(x)
  <2>1. ~Syncing(w[x])
    BY <1>8 DEF Read, Syncing
  <2>2. CASE Goto(x, "release")
    BY <1>3, <2>1, <2>2
  <2>3. ASSUME NEW n \in 1..Len(queue),
               w' = [w EXCEPT ![x].at = "filter",
                              ![x].batch = SubSeq(queue, 1, n),
                              ![x].more = n < Len(queue)]
        PROVE  Beside(x) /\ Synchronous(x)
    <3> DEFINE b == SubSeq(queue, 1, n)
               m == n < Len(queue)
               r == [w[x] EXCEPT !.at = "filter", !.batch = b, !.more = m]
    <3>1. w' = [w EXCEPT ![x] = r]
      BY <2>3
    <3> HIDE DEF b, m
    <3>2. r.sync = w[x].sync
      BY DEF Handlers
    <3> HIDE DEF r
    <3> QED
      BY <1>2, <2>1, <3>1, <3>2
  <2> QED
    BY <1>8, <2>2, <2>3 DEF Read
<1>9. CASE Filter(x)
  BY <1>4, <1>9, FilterDoes DEF Syncing
<1>10. CASE Fetch(x)
  <2>1. CASE Fail(x, "hard")
    BY <1>4, <2>1
  <2>2. CASE w' = [w EXCEPT ![x].at = "send", ![x].updates = <<>>,
                            ![x].request = Request(w[x].updates)]
    <3> DEFINE q == Request(w[x].updates)
               r == [w[x] EXCEPT !.at = "send", !.updates = <<>>, !.request = q]
    <3>1. w' = [w EXCEPT ![x] = r]
      BY <2>2
    <3> HIDE DEF q
    <3>2. Syncing(r)
      BY DEF Handlers, Syncing
    <3> HIDE DEF r
    <3> QED
      BY <1>2, <3>1, <3>2
  <2> QED
    BY <1>10, <2>1, <2>2 DEF Fetch
<1>11. CASE Send(x)
  <2>1. ASSUME NEW pc \in {"set", "sent"}, Goto(x, pc) PROVE Beside(x) /\ Synchronous(x)
    BY <1>3, <2>1
  <2> QED
    BY <1>4, <1>11, <2>1 DEF Send
<1>12. CASE Record(x)
  BY <1>3, <1>4, <1>12 DEF Record
<1>13. CASE SetState(x)
  <2> DEFINE r == [w[x] EXCEPT !.at = "delete", !.sync = None, !.updates = <<>>, !.request = None]
  <2>1. w' = [w EXCEPT ![x] = r] /\ r.sync = None
    BY <1>13 DEF SetState, Handlers
  <2> HIDE DEF r
  <2> QED
    BY <1>2, <2>1
<1>14. CASE Delete(x)
  <2> DEFINE pc == IF w[x].more THEN "read" ELSE "release"
             r == [w[x] EXCEPT !.at = pc, !.batch = <<>>, !.more = FALSE]
  <2>1. w' = [w EXCEPT ![x] = r] /\ r.sync = w[x].sync /\ ~Syncing(w[x])
    BY <1>14 DEF Delete, Handlers, Syncing
  <2> HIDE DEF r
  <2> QED
    BY <1>2, <2>1
<1>15. CASE Release(x)
  <2> DEFINE r == [Idle EXCEPT !.at = "report", !.session = w[x].session,
                               !.then = w[x].then,
                               !.error = IF w[x].error = "none" /\ lock # x THEN "soft"
                                         ELSE w[x].error]
  <2>1. w' = [w EXCEPT ![x] = r]
    BY <1>15 DEF Release
  <2>2. r.sync = None
    BY DEF Idle
  <2> HIDE DEF r
  <2> QED
    BY <1>2, <2>1, <2>2
<1>16. CASE Report(x)
  <2> DEFINE again == [Idle EXCEPT !.at = "resyncLock", !.then = "last",
                                   !.session = "resync", !.hard = TRUE]
             flush == [Idle EXCEPT !.at = "lock", !.then = w[x].then]
  <2>1. \E r \in {Idle, again, flush} : w' = [w EXCEPT ![x] = r]
    BY <1>16 DEF Report
  <2>2. Idle.sync = None /\ again.sync = None /\ flush.sync = None
    BY DEF Idle
  <2> HIDE DEF again, flush
  <2> QED
    BY <1>2, <2>1, <2>2
<1> QED
  BY <1>5, <1>6, <1>7, <1>8, <1>9, <1>10, <1>11, <1>12, <1>13, <1>14, <1>15, <1>16

LEMMA OtherSyncs ==
  ASSUME Typed, NEW x \in Workers,
         \/ \E hard \in BOOLEAN : StartResync(x, hard)
         \/ ClearState(x) \/ DestroyQueue(x) \/ RequestResync(x) \/ SetStarted(x)
         \/ Crash(x) \/ SendTimeout(x) \/ WebFails(x)
  PROVE  Beside(x) /\ Synchronous(x)
<1>1. w[x] \in Handlers
  BY DEF Typed
<1> USE <1>1 DEF Synchronous
<1>2. ASSUME NEW r, w' = [w EXCEPT ![x] = r], r.sync = None \/ Syncing(r) \/ (r.sync = w[x].sync /\ ~Syncing(w[x]))
      PROVE  Beside(x) /\ Synchronous(x)
  BY <1>2, BecomesDoes
<1>3. ASSUME NEW pc, Goto(x, pc), ~Syncing(w[x])
      PROVE  Beside(x) /\ Synchronous(x)
  BY <1>3, GotoDoes DEF Same
<1>4. ASSUME NEW e, Fail(x, e) PROVE Beside(x) /\ Synchronous(x)
  BY <1>4, FailDoes
<1>5. CASE \E hard \in BOOLEAN : StartResync(x, hard)
  <2> PICK hard \in BOOLEAN : StartResync(x, hard)
    BY <1>5
  <2> DEFINE r == [w[x] EXCEPT !.at = "resyncLock", !.session = "resync", !.hard = hard]
  <2>1. w' = [w EXCEPT ![x] = r] /\ r.sync = w[x].sync /\ ~Syncing(w[x])
    BY DEF StartResync, Handlers, Syncing
  <2> HIDE DEF r
  <2> QED
    BY <1>2, <2>1
<1>6. CASE ClearState(x) \/ DestroyQueue(x) \/ SetStarted(x)
  BY <1>3, <1>6 DEF ClearState, DestroyQueue, SetStarted, Syncing
<1>7. CASE RequestResync(x)
  BY <1>3, <1>4, <1>7 DEF RequestResync, Syncing
<1>8. CASE Crash(x)
  <2>1. w' = [w EXCEPT ![x] = Idle]
    BY <1>8 DEF Crash
  <2> QED
    BY <1>2, <2>1, IdleTyped DEF Idle
<1>9. CASE SendTimeout(x) \/ WebFails(x)
  BY <1>4, <1>9 DEF SendTimeout, WebFails
<1> QED
  BY <1>5, <1>6, <1>7, <1>8, <1>9

LEMMA NextShaped == Shaped /\ Requesting /\ [Next]_vars => Shaped'
<1> SUFFICES ASSUME Shaped, Requesting, [Next]_vars PROVE Shaped'
  OBVIOUS
<1>1. Typed /\ Typed'
  BY NextTypes DEF Shaped
<1>2. ASSUME NEW x \in Workers, Beside(x), Synchronous(x) PROVE Shaped'
  BY <1>1, <1>2 DEF Shaped, Beside, Synchronous
<1>3. ASSUME NEW x \in Workers, Step(x) \/ StartFlush(x) PROVE Shaped'
  BY <1>1, <1>2, <1>3, FlushSyncs, OtherSyncs DEF Step
<1>4. ASSUME NEW x \in Workers,
             \/ \E hard \in BOOLEAN : StartResync(x, hard)
             \/ Crash(x) \/ SendTimeout(x) \/ WebFails(x)
      PROVE  Shaped'
  BY <1>1, <1>2, <1>4, OtherSyncs
<1>5. CASE ClientOp \/ QueueStructure \/ RecordLate \/ LockExpires \/ UNCHANGED vars
  <2>1. w' = w
    BY <1>5 DEF ClientOp, QueueStructure, RecordLate, LockExpires, vars
  <2> QED
    BY <1>1, <2>1 DEF Shaped
<1>6. CASE QueueContent
  <2>1. CASE web.for = None
    <3>1. w' = w
      BY <1>6, <2>1 DEF QueueContent
    <3> QED
      BY <1>1, <3>1 DEF Shaped
  <2>2. CASE web.for # None
    <3>1. web.for \in Workers
      BY <1>1, <2>2 DEF Typed
    <3>2. Goto(web.for, "start")
      BY <1>6, <2>2 DEF QueueContent, Goto
    <3>3. w[web.for].at = "requested"
      BY <3>1 DEF Requesting
    <3>4. Beside(web.for) /\ Same(web.for)
      BY <1>1, <3>1, <3>2, GotoDoes
    <3>5. Synchronous(web.for)
      BY <3>3, <3>4 DEF Synchronous, Same, Syncing
    <3> QED
      BY <1>2, <3>1, <3>4, <3>5
  <2> QED
    BY <2>1, <2>2
<1> QED
  BY <1>3, <1>4, <1>5, <1>6 DEF Next

LEMMA HolderSkips ==
  ASSUME SkipInv, Shaped', NEW x \in Workers, Beside(x), w[x].at \in Critical, lock' = lock,
         struck' # "expire" => struck # "expire", Requesting',
         struck' # "expire" => Skipping(x)' /\ SkipsEnd'
  PROVE  SkipInv'
<1>1. ASSUME struck' # "expire" PROVE Holding' /\ \A y \in Workers : Skipping(y)'
  <2>1. struck # "expire" /\ Holding
    BY <1>1 DEF SkipInv
  <2>2. lock = x
    BY <2>1 DEF Holding
  <2>3. Holding'
    BY <2>1, <2>2, OthersHold
  <2>4. \A y \in Workers \ {x} : Skipping(y)'
    BY <2>1, OthersSkip
  <2> QED
    BY <1>1, <2>3, <2>4
<1> QED
  BY <1>1 DEF SkipInv

\* An update that stays on the queue stays there by its kind, too.
LEMMA LeftQueued ==
  ASSUME queue \in Seq(Updates), NEW b, queue' = Without(queue, b), NEW kind,
         Queued(kind), ~Has(b, kind)
  PROVE  Queued(kind)'
<1>1. PICK f : Picks(f, queue', queue, b, Len(queue))
  BY WithoutPicks
<1>2. queue' \in Seq(Updates)
  BY WithoutPicks
<1>3. PICK i \in DOMAIN queue : queue[i].kind = kind
  BY DEF Queued
<1>4. queue[i] \notin ToSet(b)
  BY <1>3 DEF Has, ToSet
<1>5. PICK a \in 1..Len(queue') : f[a] = i
  BY <1>1, <1>4 DEF Picks
<1>6. queue'[a] = queue[i]
  BY <1>1, <1>5 DEF Picks
<1>7. a \in DOMAIN queue'
  BY <1>2
<1> QED
  BY <1>3, <1>6, <1>7 DEF Queued

LEMMA SetStateSkips ==
  ASSUME SkipInv, Shaped', NEW x \in Workers, SetState(x) PROVE SkipInv'
<1> DEFINE r == [w[x] EXCEPT !.at = "delete", !.sync = None, !.updates = <<>>, !.request = None]
<1>1. w[x] \in Handlers /\ w[x].at = "set" /\ Typed
  BY DEF SkipInv, Shaped, Typed, SetState
<1>2. w' = [w EXCEPT ![x] = r] /\ r.at = "delete" /\ r.sync = None /\ r.batch = w[x].batch
  BY <1>1 DEF SetState, Handlers
<1> HIDE DEF r
<1>3. Beside(x) /\ w'[x].at = "delete" /\ w'[x].sync = None /\ w'[x].batch = w[x].batch
  BY <1>1, <1>2, BecomesDoes
<1>4. UNCHANGED <<world, struck, queue, lock>> /\ syncState' = Pending(x)
  BY DEF SetState, Pending
<1>5. Requesting'
  BY <1>1, <1>3, <1>4, OthersRequest DEF SkipInv, world
<1>6. ASSUME struck' # "expire" PROVE Skipping(x)' /\ SkipsEnd'
  <2>1. Skipping(x) /\ SkipsEnd
    BY <1>4, <1>6 DEF SkipInv
  <2>2. Awaits(Pending(x), w[x].batch) /\ Follows(Pending(x))
    BY <1>1, <2>1 DEF Skipping, Filtering
  <2>3. Pending(x)' = Pending(x)
    BY <1>3, <1>4 DEF Pending
  <2>4. Awaits(Pending(x), w[x].batch)' /\ Follows(Pending(x))'
    BY <1>3, <1>4, <2>2, <2>3 DEF Awaits, Follows
  <2>5. Skipping(x)'
    BY <1>3, <2>4 DEF Skipping
  <2>6. SkipsEnd'
    BY <1>4, <2>1, <2>2 DEF SkipsEnd, Follows, Queued
  <2> QED
    BY <2>5, <2>6
<1> QED
  BY <1>1, <1>3, <1>4, <1>5, <1>6, HolderSkips DEF Critical, Flushing

LEMMA DeleteDoes ==
  ASSUME Typed, NEW x \in Workers, Delete(x)
  PROVE  Beside(x) /\ w'[x].at \in {"read", "release"} /\ w'[x].sync = w[x].sync
<1> DEFINE pc == IF w[x].more THEN "read" ELSE "release"
           r == [w[x] EXCEPT !.at = pc, !.batch = <<>>, !.more = FALSE]
<1>1. w[x] \in Handlers
  BY DEF Typed
<1>2. w' = [w EXCEPT ![x] = r] /\ r.at \in {"read", "release"} /\ r.sync = w[x].sync
  BY <1>1 DEF Delete, Handlers
<1> HIDE DEF r
<1> QED
  BY <1>2, BecomesDoes

LEMMA DeleteSkips ==
  ASSUME SkipInv, Shaped', NEW x \in Workers, Delete(x) PROVE SkipInv'
<1>1. Typed /\ w[x].at = "delete" /\ queue \in Seq(Updates)
  BY DEF SkipInv, Shaped, Typed, Delete
<1>2. Beside(x) /\ w'[x].at \in {"read", "release"}
  BY <1>1, DeleteDoes
<1>3. UNCHANGED <<world, struck, syncState, lock>> /\ queue' = Without(queue, w[x].batch)
  BY DEF Delete
<1>4. Requesting'
  BY <1>1, <1>2, <1>3, OthersRequest DEF SkipInv, world
<1>5. ASSUME struck' # "expire" PROVE Skipping(x)' /\ SkipsEnd'
  <2>1. Skipping(x) /\ SkipsEnd /\ w[x].sync = None
    BY <1>1, <1>3, <1>5 DEF SkipInv, Shaped, Syncing
  <2>2. Awaits(syncState, w[x].batch)
    BY <1>1, <2>1 DEF Skipping, Filtering, Pending
  <2>3. Skipping(x)'
    BY <1>2, FreeSkips, FreeIs
  <2>4. SkipsEnd'
    BY <1>1, <1>3, <2>1, <2>2, LeftQueued DEF SkipsEnd, Awaits
  <2> QED
    BY <2>3, <2>4
<1> QED
  BY <1>1, <1>2, <1>3, <1>4, <1>5, HolderSkips DEF Critical, Flushing

LEMMA ResyncSkips ==
  ASSUME SkipInv, Shaped', NEW x \in Workers,
         ClearState(x) \/ DestroyQueue(x) \/ RequestResync(x) \/ SetStarted(x)
  PROVE  SkipInv'
<1>1. Typed /\ Requesting
  BY DEF SkipInv, Shaped
<1>2. {"clear", "destroy", "request", "start"} \subseteq Critical
  BY DEF Critical, Resyncing
<1>3. CASE ClearState(x)
  <2>1. /\ UNCHANGED <<world, struck, queue, lock>> /\ syncState' = NoSync
        /\ w[x].at = "clear" /\ Beside(x) /\ w'[x].at = "destroy"
    BY <1>1, <1>3, GotoDoes DEF ClearState
  <2>2. Requesting'
    BY <1>1, <2>1, OthersRequest DEF world
  <2>3. Skipping(x)' /\ SkipsEnd'
    BY <2>1 DEF Skipping, SkipsEnd, NoSync, Ongoing, Filtering
  <2> QED
    BY <1>2, <2>1, <2>2, <2>3, HolderSkips
<1>4. CASE DestroyQueue(x)
  <2>1. /\ UNCHANGED <<world, struck, syncState, lock>> /\ queue' = <<>>
        /\ w[x].at = "destroy" /\ Beside(x) /\ w'[x].at = "request"
    BY <1>1, <1>4, GotoDoes DEF DestroyQueue
  <2>2. Requesting'
    BY <1>1, <2>1, OthersRequest DEF world
  <2>3. ASSUME struck' # "expire" PROVE Skipping(x)' /\ SkipsEnd'
    <3>1. ~Ongoing(syncState)
      BY <2>1, <2>3 DEF SkipInv, Skipping
    <3> QED
      BY <2>1, <3>1, FreeIs, FreeSkips DEF SkipsEnd, Ongoing
  <2> QED
    BY <1>2, <2>1, <2>2, <2>3, HolderSkips
<1>5. CASE RequestResync(x)
  <2>1. UNCHANGED <<struck, syncState, lock, queue>> /\ w[x].at = "request"
    BY <1>5 DEF RequestResync
  <2>2. CASE Ongoing(syncState)
    <3>1. web' = web /\ Beside(x) /\ w'[x].at = "release"
      BY <1>1, <1>5, <2>2, FailDoes DEF RequestResync
    <3> QED
      BY <1>2, <2>1, <3>1, FreeIs, MoveSkips
  <2>3. CASE ~Ongoing(syncState)
    <3>1. /\ web.stage = "idle" /\ web'.stage = "structure" /\ web'.for = x
          /\ Beside(x) /\ w'[x].at = "requested"
      BY <1>1, <1>5, <2>3, GotoDoes DEF RequestResync
    <3>2. web.for = None
      BY <1>1, <3>1 DEF Requesting
    <3>3. Requesting'
      BY <1>1, <3>1, <3>2, NotNone DEF Requesting, Beside
    <3>4. ASSUME struck' # "expire" PROVE Skipping(x)' /\ SkipsEnd'
      <4>1. SkipsEnd
        BY <2>1, <3>4 DEF SkipInv
      <4> QED
        BY <2>1, <2>3, <3>1, <4>1 DEF SkipsEnd, Skipping, Filtering, Queued, Ongoing
    <3> QED
      BY <1>2, <2>1, <3>1, <3>3, <3>4, HolderSkips
  <2> QED
    BY <2>2, <2>3
<1>6. CASE SetStarted(x)
  <2>1. /\ UNCHANGED <<world, struck, queue, lock>>
        /\ syncState' = [structure |-> TRUE, doc |-> FALSE]
        /\ w[x].at = "start" /\ Beside(x) /\ w'[x].at = "release"
    BY <1>1, <1>6, GotoDoes DEF SetStarted
  <2>2. Requesting'
    BY <1>1, <2>1, OthersRequest DEF world
  <2>3. ASSUME struck' # "expire" PROVE Skipping(x)' /\ SkipsEnd'
    <3>1. Queued("structure") /\ Queued("content")
      BY <2>1, <2>3 DEF SkipInv, Skipping
    <3> QED
      BY <2>1, <3>1, FreeIs, FreeSkips DEF SkipsEnd, Queued
  <2> QED
    BY <1>2, <2>1, <2>2, <2>3, HolderSkips
<1> QED
  BY <1>3, <1>4, <1>5, <1>6

LEMMA FaultSkips ==
  ASSUME SkipInv, Shaped', NEW x \in Workers, Crash(x) \/ SendTimeout(x) \/ WebFails(x)
  PROVE  SkipInv'
<1>1. Typed /\ Requesting /\ web \in [stage : {"idle", "structure", "content"}, for : Workers \cup {None}, n : Nat]
  BY DEF SkipInv, Shaped, Typed
<1>2. ASSUME NEW f, Strikes(f) PROVE struck' # "expire" => struck # "expire"
  BY <1>2 DEF Strikes
<1>3. ASSUME Beside(x), w'[x].at \in {"idle", "release"}, w[x].at \in Critical,
             UNCHANGED <<queue, syncState, lock>>, struck' # "expire" => struck # "expire",
             web' \in {web, [web EXCEPT !.for = None], WebDone},
             web.for = x => web'.for = None,
             web.for # x => web' = web
      PROVE  SkipInv'
  <2>1. Requesting'
    <3>1. web'.for = None \/ (web' = web /\ web.for # x)
      BY <1>1, <1>3
    <3>2. \A y \in Workers \ {x} : w[y].at = "requested" <=> web'.for = y
      BY <1>1, <1>3, <3>1, NotNone DEF Requesting
    <3> QED
      BY <1>1, <1>3, <3>1, <3>2, NotNone DEF Requesting, Beside
  <2>2. ASSUME struck' # "expire" PROVE Skipping(x)' /\ SkipsEnd'
    <3>1. SkipsEnd
      BY <1>3, <2>2 DEF SkipInv
    <3> QED
      BY <1>3, <3>1, FreeIs, FreeSkips DEF SkipsEnd, Queued
  <2> QED
    BY <1>3, <2>1, <2>2, HolderSkips
<1>4. CASE Crash(x)
  <2>1. /\ UNCHANGED <<queue, syncState, lock>> /\ w[x].at \in Critical
        /\ web' = IF web.for = x THEN [web EXCEPT !.for = None] ELSE web
        /\ struck' # "expire" => struck # "expire"
    BY <1>2, <1>4 DEF Crash, Critical
  <2>2. Beside(x) /\ w'[x].at = "idle"
    BY <1>1, <1>4, BecomesDoes, IdleTyped DEF Crash
  <2>3. [web EXCEPT !.for = None].for = None
    BY <1>1
  <2> QED
    BY <1>3, <2>1, <2>2, <2>3
<1>5. CASE SendTimeout(x)
  <2>1. /\ UNCHANGED <<world, queue, syncState, lock>> /\ w[x].at = "sent"
        /\ struck' # "expire" => struck # "expire"
    BY <1>2, <1>5 DEF SendTimeout
  <2>2. Fail(x, "soft")
    BY <1>5 DEF SendTimeout
  <2> QED
    BY <2>1, <2>2, FailSkips DEF world, Flushing
<1>6. CASE WebFails(x)
  <2>1. /\ UNCHANGED <<queue, syncState, lock>> /\ w[x].at = "requested"
        /\ web' \in {[web EXCEPT !.for = None], WebDone}
        /\ struck' # "expire" => struck # "expire"
    BY <1>2, <1>6 DEF WebFails
  <2>2. Beside(x) /\ w'[x].at = "release"
    BY <1>1, <1>6, FailDoes DEF WebFails
  <2>3. web.for = x /\ w[x].at \in Critical
    BY <1>1, <2>1 DEF Requesting, Critical, Resyncing
  <2>4. [web EXCEPT !.for = None].for = None /\ WebDone.for = None
    BY <1>1 DEF WebDone
  <2> QED
    BY <1>3, <2>1, <2>2, <2>3, <2>4
<1> QED
  BY <1>4, <1>5, <1>6

\* A queue that grows.
LEMMA GrownQueued ==
  ASSUME queue \in Seq(Updates), NEW u \in Updates, queue' = Append(queue, u)
  PROVE  /\ Queued(u.kind)'
         /\ \A kind : Queued(kind) => Queued(kind)'
<1>1. /\ DOMAIN queue' = 1..(Len(queue) + 1) /\ DOMAIN queue = 1..Len(queue) /\ Len(queue) \in Nat
      /\ queue'[Len(queue) + 1] = u /\ \A i \in 1..Len(queue) : queue'[i] = queue[i]
  OBVIOUS
<1>2. Queued(u.kind)'
  BY <1>1 DEF Queued
<1>3. ASSUME NEW kind, Queued(kind) PROVE Queued(kind)'
  <2>1. PICK i \in 1..Len(queue) : queue[i].kind = kind
    BY <1>1, <1>3 DEF Queued
  <2>2. i \in DOMAIN queue' /\ queue'[i].kind = kind
    BY <1>1, <2>1
  <2> QED
    BY <2>2 DEF Queued
<1> QED
  BY <1>2, <1>3

LEMMA GrownSkips ==
  ASSUME SkipInv, NEW y \in Workers, Skipping(y), w'[y] = w[y], syncState' = syncState,
         \A kind : Queued(kind) => Queued(kind)',
         w[y].at = "requested" /\ web'.stage = "content" => Queued("structure")'
  PROVE  Skipping(y)'
BY DEF Skipping, Pending, Awaits, Follows, Ongoing

LEMMA WorldSkips ==
  ASSUME SkipInv, Shaped',
         \/ ClientOp \/ QueueStructure \/ QueueContent \/ RecordLate \/ LockExpires
         \/ UNCHANGED vars
  PROVE  SkipInv'
<1>1. Typed /\ Requesting /\ queue \in Seq(Updates)
  BY DEF SkipInv, Shaped, Typed
<1> USE <1>1
<1>2. CASE ClientOp
  <2>1. /\ UNCHANGED <<web, struck, syncState, lock, w>> /\ queue' = Append(queue, Op(docV'))
    BY <1>2 DEF ClientOp
  <2>2. Op(docV') \in Updates
    <3>1. docV' \in 1..MaxOps
      BY <1>2, BoundsAssumption DEF ClientOp, Typed
    <3> QED
      BY <3>1 DEF Op, Updates
  <2>3. \A kind : Queued(kind) => Queued(kind)'
    BY <2>1, <2>2, GrownQueued
  <2>4. ASSUME struck # "expire", NEW y \in Workers PROVE Skipping(y)'
    BY <2>1, <2>3, <2>4, GrownSkips DEF SkipInv, Skipping
  <2> QED
    BY <2>1, <2>3, <2>4 DEF SkipInv, Requesting, Holding, SkipsEnd
<1>3. CASE QueueStructure
  <2>1. /\ UNCHANGED <<struck, syncState, lock, w>> /\ queue' = Append(queue, Structure(web.n))
        /\ web' = [web EXCEPT !.stage = "content"] /\ web.stage = "structure"
    BY <1>3 DEF QueueStructure
  <2>2. web \in [stage : {"idle", "structure", "content"}, for : Workers \cup {None}, n : Nat]
    BY DEF Typed
  <2>3. Structure(web.n) \in Updates /\ Structure(web.n).kind = "structure"
    BY <2>2, BoundsAssumption DEF Structure, Updates
  <2>4. Queued("structure")' /\ \A kind : Queued(kind) => Queued(kind)'
    BY <2>1, <2>3, GrownQueued
  <2>5. web'.for = web.for /\ web'.stage = "content"
    BY <2>1, <2>2
  <2>6. ASSUME struck # "expire", NEW y \in Workers PROVE Skipping(y)'
    BY <2>1, <2>4, <2>6, GrownSkips DEF SkipInv
  <2> QED
    BY <2>1, <2>4, <2>5, <2>6 DEF SkipInv, Requesting, Holding, SkipsEnd
<1>4. CASE QueueContent
  <2>1. /\ UNCHANGED <<struck, syncState, lock>> /\ queue' = Append(queue, Content(docV, web.n))
        /\ web' = WebDone /\ web.stage = "content"
    BY <1>4 DEF QueueContent
  <2>2. /\ web \in [stage : {"idle", "structure", "content"}, for : Workers \cup {None}, n : Nat]
        /\ docV \in 0..MaxOps
    BY DEF Typed
  <2>3. Content(docV, web.n) \in Updates /\ Content(docV, web.n).kind = "content"
    BY <2>2 DEF Content, Updates
  <2>4. Queued("content")' /\ \A kind : Queued(kind) => Queued(kind)'
    BY <2>1, <2>3, GrownQueued
  <2>5. web'.for = None /\ web'.stage = "idle"
    BY <2>1, <2>2 DEF WebDone
  <2>6. CASE web.for = None
    <3>1. w' = w
      BY <1>4, <2>6 DEF QueueContent
    <3>2. ASSUME struck # "expire", NEW y \in Workers PROVE Skipping(y)'
      BY <2>1, <2>4, <2>5, <3>1, <3>2, GrownSkips DEF SkipInv
    <3> QED
      BY <2>1, <2>4, <2>5, <2>6, <3>1, <3>2 DEF SkipInv, Requesting, Holding, SkipsEnd
  <2>7. CASE web.for # None
    <3> PICK x \in Workers : x = web.for
      BY <2>2, <2>7
    <3>1. w[x].at = "requested"
      BY DEF Requesting
    <3>2. Goto(x, "start")
      BY <1>4, <2>7 DEF QueueContent, Goto
    <3>3. Beside(x) /\ Same(x) /\ w'[x].at = "start"
      BY <3>1, <3>2, GotoDoes
    <3>4. Requesting'
      BY <2>5, <3>1, <3>3, NotNone DEF Requesting, Beside
    <3>5. ASSUME struck # "expire" PROVE Holding' /\ SkipsEnd' /\ \A y \in Workers : Skipping(y)'
      <4>1. Holding /\ SkipsEnd /\ \A y \in Workers : Skipping(y)
        BY <3>5 DEF SkipInv
      <4>2. {"requested", "start"} \subseteq Critical
        BY DEF Critical, Resyncing
      <4>3. Holding'
        BY <2>1, <3>1, <3>3, <4>1, <4>2, OthersHold DEF Holding
      <4>4. \A y \in Workers \ {x} : Skipping(y)'
        BY <2>1, <2>4, <2>5, <3>3, <4>1, GrownSkips DEF Beside
      <4>5. Skipping(x)'
        <5>1. Queued("structure") /\ ~Ongoing(syncState)
          BY <2>1, <3>1, <4>1 DEF Skipping
        <5>2. Queued("structure")' /\ Queued("content")' /\ ~Ongoing(syncState')
          BY <2>1, <2>4, <5>1
        <5> QED
          BY <3>3, <5>2 DEF Skipping, Filtering, Ongoing
      <4>6. SkipsEnd'
        BY <2>1, <2>4, <4>1 DEF SkipsEnd
      <4> QED
        BY <4>3, <4>4, <4>5, <4>6
    <3> QED
      BY <2>1, <3>4, <3>5 DEF SkipInv
  <2> QED
    BY <2>6, <2>7
<1>5. CASE RecordLate \/ UNCHANGED vars
  <2>1. UNCHANGED <<web, struck, queue, syncState, lock, w>>
    BY <1>5 DEF RecordLate, world, vars
  <2>2. Requesting' /\ (Holding => Holding') /\ (SkipsEnd => SkipsEnd')
    BY <2>1 DEF Requesting, Holding, SkipsEnd, Queued
  <2>3. \A y \in Workers : Skipping(y) => Skipping(y)'
    BY <2>1 DEF Skipping, Pending, Awaits, Follows, Queued, Ongoing
  <2> QED
    BY <2>1, <2>2, <2>3 DEF SkipInv
<1>6. CASE LockExpires
  <2>1. UNCHANGED <<web, queue, syncState, w>> /\ lock # None /\ lock' = None
    BY <1>6 DEF LockExpires, world
  <2>2. Requesting' /\ (SkipsEnd => SkipsEnd')
    BY <2>1 DEF Requesting, SkipsEnd, Queued
  <2>3. \A y \in Workers : Skipping(y) => Skipping(y)'
    BY <2>1 DEF Skipping, Pending, Awaits, Follows, Queued, Ongoing
  <2>4. ASSUME struck' # "expire" PROVE struck # "expire" /\ (Holding => Holding')
    <3>1. struck' = struck /\ w[lock].at \in {"idle", "lock", "resyncLock", "report"}
      BY <1>6, <2>4 DEF LockExpires, Strikes
    <3>2. w[lock].at \notin Critical
      BY <3>1 DEF Critical, Flushing, Resyncing
    <3> QED
      BY <2>1, <2>4, <3>1, <3>2 DEF Holding
  <2> QED
    BY <2>2, <2>3, <2>4 DEF SkipInv
<1> QED
  BY <1>2, <1>3, <1>4, <1>5, <1>6

LEMMA InitSkips == Init => SkipInv
<1> SUFFICES ASSUME Init PROVE SkipInv
  OBVIOUS
<1>1. Typed
  BY InitTypes
<1>2. /\ \A x \in Workers : w[x] = Idle
      /\ web.for = None /\ web.stage = "idle" /\ syncState = NoSync
  BY DEF Init
<1>3. Idle.at = "idle" /\ Idle.sync = None
  BY DEF Idle
<1>4. Shaped /\ Requesting
  BY <1>1, <1>2, <1>3, NotNone DEF Shaped, Requesting
<1>5. Holding
  BY <1>2, <1>3, FreeIs DEF Holding
<1>6. \A x \in Workers : Skipping(x)
  BY <1>2, <1>3 DEF Skipping, Filtering
<1>7. SkipsEnd
  BY <1>2 DEF SkipsEnd, NoSync
<1> QED
  BY <1>4, <1>5, <1>6, <1>7 DEF SkipInv

LEMMA NextSkips == SkipInv /\ [Next]_vars => SkipInv'
<1> SUFFICES ASSUME SkipInv, [Next]_vars PROVE SkipInv'
  OBVIOUS
<1>1. Shaped'
  BY NextShaped DEF SkipInv
<1>2. ASSUME NEW x \in Workers, Step(x) \/ StartFlush(x) PROVE SkipInv'
  BY <1>1, <1>2, PlainSkips, BatchSkips, SetStateSkips, DeleteSkips, ResyncSkips DEF Step
<1>3. ASSUME NEW x \in Workers,
             \/ \E hard \in BOOLEAN : StartResync(x, hard)
             \/ Crash(x) \/ SendTimeout(x) \/ WebFails(x)
      PROVE  SkipInv'
  BY <1>1, <1>3, PlainSkips, FaultSkips
<1>4. CASE \/ ClientOp \/ QueueStructure \/ QueueContent \/ RecordLate \/ LockExpires
           \/ UNCHANGED vars
  BY <1>1, <1>4, WorldSkips
<1> QED
  BY <1>2, <1>3, <1>4 DEF Next

LEMMA SkipsGiven == SkipInv => SkipEnds
BY DEF SkipInv, SkipsEnd, SkipEnds

\* As long as no lock expires under a worker, updates are only ignored for a resync
\* that is on the queue, whatever crashes or is not answered: the flush that reaches
\* it ends the resync.
THEOREM ResyncsCome == Spec => []SkipEnds
<1>1. Init => SkipInv
  BY InitSkips
<1>2. SkipInv /\ [Next]_vars => SkipInv'
  BY NextSkips
<1>3. SkipInv => SkipEnds
  BY SkipsGiven
<1> QED
  BY <1>1, <1>2, <1>3, PTL DEF Spec

-----------------------------------------------------------------------------
(***************************************************************************)
(* No op is lost. Steps that leave the queue, the history and the document *)
(* as they are keep what is said of them.                                  *)
(***************************************************************************)
Past == <<queue, log, docV>>

LEMMA SamePast ==
  ASSUME UNCHANGED Past
  PROVE  /\ InQueue => InQueue'
         /\ InHistory => InHistory'
         /\ Recorded' = Recorded
BY DEF Past, InQueue, InHistory, Between, After, Ops, Contents, Recorded, Seen

LEMMA SameHonest ==
  ASSUME UNCHANGED Past, NEW r, Honest(r)
  PROVE  Honest(r)'
BY DEF Past, Honest, After, Contents, Recorded, Seen

LEMMA SameCovered ==
  ASSUME UNCHANGED Past, NEW v, Covered(v),
         \A y \in Workers : Asking(w[y]) => Asking(w'[y])
  PROVE  Covered(v)'
BY DEF Past, Covered, Held, Ops, Contents, Recorded, Seen

\* A worker that does nothing keeps its batch and its request, unless the sync
\* state changes under it.
LEMMA SameBatched ==
  ASSUME UNCHANGED Past, NEW y \in Workers, w'[y] = w[y], Batched(y),
         syncState' = syncState
  PROVE  Batched(y)'
BY DEF Past, Batched, Begins, Dense, Skipped, Pending, Sending, Honest, Held, After, Ops,
       Contents, Recorded, Seen

Batching == Filtering \cup {"filter"}

LEMMA NoBatch ==
  ASSUME NEW y \in Workers, w'[y].at \notin Batching
  PROVE  Batched(y)'
BY DEF Batching, Filtering, Batched, Sending

LEMMA OneHolds ==
  ASSUME Holding, NEW x \in Workers, w[x].at \in Critical, NEW y \in Workers \ {x}
  PROVE  w[y].at \notin Critical /\ w[y].at \notin Batching
BY DEF Holding, Critical, Flushing, Resyncing, Batching, Filtering

\* An update is added to the queue.
LEMMA AppendIs ==
  ASSUME queue \in Seq(Updates), NEW u \in Updates, queue' = Append(queue, u)
  PROVE  /\ Len(queue) \in Nat /\ Len(queue') = Len(queue) + 1
         /\ DOMAIN queue = 1..Len(queue) /\ DOMAIN queue' = 1..Len(queue) + 1
         /\ queue'[Len(queue) + 1] = u
         /\ \A i \in DOMAIN queue : queue'[i] = queue[i]
OBVIOUS

LEMMA GrownIs ==
  ASSUME queue \in Seq(Updates), NEW u \in Updates, queue' = Append(queue, u)
  PROVE  /\ \A i \in Contents(queue) : i \in Contents(queue') /\ queue'[i] = queue[i]
         /\ \A i \in Ops(queue) : i \in Ops(queue') /\ queue'[i] = queue[i]
         /\ \A i \in Contents(queue') :
              i \in Contents(queue) \/ (i = Len(queue) + 1 /\ u.kind = "content")
         /\ \A i \in Ops(queue') :
              i \in Ops(queue) \/ (i = Len(queue) + 1 /\ u.kind = "op")
BY AppendIs DEF Contents, Ops

LEMMA GrownBetween ==
  ASSUME queue \in Seq(Updates), NEW u \in Updates, queue' = Append(queue, u),
         NEW i \in Contents(queue), NEW j, NEW m, Between(i, j, m)
  PROVE  Between(i, j, m)'
<1>1. /\ \A p \in Ops(queue) : p \in Ops(queue') /\ queue'[p] = queue[p]
      /\ queue'[i] = queue[i]
  BY GrownIs
<1> QED
  BY <1>1 DEF Between

\* What document-updater adds: the next op, or the content as it is.
Adds(u) ==
  /\ queue' = Append(queue, u) /\ log' = log
  /\ docV' \in 0..MaxOps /\ u.v <= docV'
  /\ docV' = docV \/ (docV' = docV + 1 /\ u.kind = "op" /\ u.v = docV')
  /\ u.kind = "content" => u.v = docV /\ docV' = docV

LEMMA AddsQueue ==
  ASSUME Typed, InQueue, NEW u \in Updates, Adds(u)
  PROVE  InQueue'
<1>1. queue \in Seq(Updates) /\ docV \in Nat /\ docV' \in Nat /\ docV <= docV'
  BY BoundsAssumption DEF Typed, Adds
<1>2. /\ Len(queue) \in Nat /\ Len(queue') = Len(queue) + 1
      /\ DOMAIN queue = 1..Len(queue) /\ DOMAIN queue' = 1..Len(queue) + 1
      /\ queue'[Len(queue) + 1] = u
      /\ \A i \in DOMAIN queue : queue'[i] = queue[i]
  BY <1>1, AppendIs DEF Adds
<1>3. /\ \A i \in Contents(queue) : i \in Contents(queue') /\ queue'[i] = queue[i]
      /\ \A i \in Ops(queue) : i \in Ops(queue') /\ queue'[i] = queue[i]
      /\ \A i \in Contents(queue') :
           i \in Contents(queue) \/ (i = Len(queue) + 1 /\ u.kind = "content")
      /\ \A i \in Ops(queue') :
           i \in Ops(queue) \/ (i = Len(queue) + 1 /\ u.kind = "op")
  BY <1>1, GrownIs DEF Adds
<1>4. /\ \A i \in Contents(queue) : i \in 1..Len(queue) /\ queue[i].v \in Nat
      /\ \A i \in Ops(queue) : i \in 1..Len(queue) /\ queue[i].v \in Nat
      /\ \A i \in DOMAIN queue : queue[i].v \in Nat /\ queue[i].v <= docV
  <2>1. \A i \in DOMAIN queue : queue[i] \in Updates
    BY <1>1
  <2>2. \A v \in Updates : v.v \in Nat
    BY BoundsAssumption DEF Updates
  <2> QED
    BY <1>2, <2>1, <2>2 DEF Contents, Ops, InQueue
<1>5. ASSUME NEW i \in Contents(queue), NEW j, NEW m, Between(i, j, m)
      PROVE  Between(i, j, m)'
  BY <1>1, <1>5, GrownBetween DEF Adds
<1>6. u.v \in Nat /\ u.v <= docV'
  BY BoundsAssumption DEF Updates, Adds
<1>7. \A i \in DOMAIN queue' : queue'[i].v <= docV'
  BY <1>1, <1>2, <1>4, <1>6
<1>8. \A i \in Ops(queue'), j \in Contents(queue') : i < j => queue'[i].v <= queue'[j].v
  BY <1>1, <1>2, <1>3, <1>4, <1>6 DEF InQueue, Adds
<1>9. ASSUME NEW i \in Contents(queue'), NEW j \in Contents(queue'), i < j
      PROVE  queue'[i].v <= queue'[j].v /\ Between(i, j, queue[j].v)'
  <2>1. i \in Contents(queue) /\ queue'[i] = queue[i]
    BY <1>2, <1>3, <1>4, <1>9
  <2>2. CASE j \in Contents(queue)
    <3>1. queue[i].v <= queue[j].v /\ Between(i, j, queue[j].v)
      BY <1>9, <2>1, <2>2 DEF InQueue
    <3>2. queue'[j] = queue[j]
      BY <1>3, <2>2
    <3> DEFINE m == queue[j].v
    <3>3. Between(i, j, m)
      BY <3>1
    <3> HIDE DEF m
    <3> QED
      BY <1>5, <2>1, <3>1, <3>2, <3>3 DEF m
  <2>3. CASE j = Len(queue) + 1 /\ u.kind = "content"
    <3>1. queue'[j].v = docV
      BY <1>2, <2>3 DEF Adds
    <3>2. Between(i, j, docV)
      BY <2>1, <2>3 DEF InQueue
    <3>3. Between(i, j, docV)' /\ docV' = docV
      BY <1>5, <2>1, <2>3, <3>2 DEF Adds
    <3>4. queue'[i].v <= docV
      BY <1>4, <2>1 DEF Contents
    <3> QED
      BY <3>1, <3>3, <3>4 DEF Between
  <2> QED
    BY <1>3, <2>2, <2>3
<1>0. Len(queue') + 1 = Len(queue) + 2
  BY <1>2
<1>10. ASSUME NEW i \in Contents(queue') PROVE Between(i, Len(queue) + 1, docV)'
  <2>1. CASE i \in Contents(queue)
    <3>1. Between(i, Len(queue) + 1, docV)
      BY <2>1 DEF InQueue
    <3>2. ASSUME NEW v \in 1..docV', queue'[i].v < v
          PROVE  \E p \in Ops(queue') : i < p /\ p < Len(queue) + 2 /\ queue'[p].v = v
      <4>1. CASE v \in 1..docV
        <5>1. queue[i].v < v
          BY <1>3, <2>1, <3>2
        <5>2. PICK p \in Ops(queue) : i < p /\ p < Len(queue) + 1 /\ queue[p].v = v
          BY <3>1, <4>1, <5>1 DEF Between
        <5> QED
          BY <1>2, <1>3, <1>4, <5>2
      <4>2. CASE v \notin 1..docV
        <5>1. v = docV' /\ docV' = docV + 1 /\ u.kind = "op" /\ u.v = v
          BY <1>1, <3>2, <4>2 DEF Adds
        <5>2. Len(queue) + 1 \in Ops(queue')
          BY <1>2, <5>1 DEF Ops
        <5>3. i < Len(queue) + 1
          BY <1>2, <1>4, <2>1
        <5> QED
          BY <1>2, <5>1, <5>2, <5>3
      <4> QED
        BY <4>1, <4>2
    <3> QED
      BY <1>0, <3>2 DEF Between
  <2>2. CASE i = Len(queue) + 1 /\ u.kind = "content"
    <3>1. queue'[i].v = docV'
      BY <1>2, <2>2 DEF Adds
    <3> QED
      BY <1>1, <3>1 DEF Between
  <2> QED
    BY <1>3, <2>1, <2>2
<1> QED
  BY <1>7, <1>8, <1>9, <1>10 DEF InQueue

LEMMA AddsAfter ==
  ASSUME Typed, NEW u \in Updates, Adds(u), NEW m \in 0..docV, NEW S,
         \A i \in Contents(queue) : After(i, m, S)
  PROVE  \A i \in Contents(queue') : \A v \in 1..m : queue'[i].v < v => v \in S \/ Seen(v)
<1>1. queue \in Seq(Updates) /\ docV \in Nat
  BY BoundsAssumption DEF Typed
<1>2. ASSUME NEW i \in Contents(queue'), NEW v \in 1..m, queue'[i].v < v
      PROVE  v \in S \/ Seen(v)
  <2>1. CASE i \in Contents(queue)
    <3>1. queue'[i] = queue[i]
      BY <1>1, <2>1, GrownIs DEF Adds
    <3> QED
      BY <1>2, <2>1, <3>1 DEF After
  <2>2. CASE i = Len(queue) + 1 /\ u.kind = "content"
    <3>1. queue'[i].v = docV
      BY <1>1, <2>2, AppendIs DEF Adds
    <3> QED
      BY <1>1, <1>2, <3>1
  <2> QED
    BY <1>1, <2>1, <2>2, GrownIs DEF Adds
<1> QED
  BY <1>2

LEMMA AddsSeen ==
  ASSUME NEW u, Adds(u)
  PROVE  Recorded' = Recorded /\ \A v : Seen(v)' <=> Seen(v)
BY DEF Adds, Recorded, Seen

LEMMA AddsHistory ==
  ASSUME Typed, InHistory, NEW u \in Updates, Adds(u)
  PROVE  InHistory'
<1>1. Recorded \in 0..docV /\ docV <= docV' /\ docV \in Nat /\ docV' \in Nat
  <2>1. Recorded \in 0..MaxOps
    BY RecordedTyped, TypedIs
  <2> QED
    BY <2>1, BoundsAssumption DEF Typed, InHistory, Adds
<1>2. \A i \in Contents(queue') :
        \A v \in 1..Recorded : queue'[i].v < v => v \in {} \/ Seen(v)
  BY <1>1, AddsAfter DEF InHistory
<1>3. Recorded' = Recorded /\ \A v : Seen(v)' <=> Seen(v)
  BY AddsSeen
<1>4. \A i \in Contents(queue') : After(i, Recorded, {})'
  BY <1>2, <1>3 DEF After
<1>5. Recorded' <= docV'
  BY <1>1, <1>3
<1> QED
  BY <1>4, <1>5 DEF InHistory, Adds

LEMMA AddsHonest ==
  ASSUME Typed, NEW u \in Updates, Adds(u), NEW r \in Requests, Honest(r)
  PROVE  Honest(r)'
<1> SUFFICES ASSUME r.content # Bad PROVE Honest(r)'
  BY DEF Honest
<1>1. /\ docV <= docV' /\ docV \in Nat /\ docV' \in Nat
      /\ r.content \in 0..MaxOps /\ r.content <= docV
  BY BoundsAssumption DEF Typed, Adds, Honest, Requests
<1>2. log' = log /\ Recorded' = Recorded /\ \A v : Seen(v)' <=> Seen(v)
  BY AddsSeen DEF Adds
<1>3. ASSUME r.base = Len(log)
      PROVE  /\ \A v \in 1..Recorded : v <= r.content \/ Seen(v)
             /\ \A i \in Contents(queue') :
                  \A v \in 1..r.content : queue'[i].v < v => v \in r.ops \/ Seen(v)
  <2>1. /\ \A v \in 1..Recorded : v <= r.content \/ Seen(v)
        /\ \A i \in Contents(queue) : After(i, r.content, r.ops)
    BY <1>3 DEF Honest
  <2>2. r.content \in 0..docV
    BY <1>1
  <2> QED
    BY <2>1, <2>2, AddsAfter
<1>4. r.content <= docV'
  BY <1>1
<1> QED
  BY <1>2, <1>3, <1>4 DEF Honest, After

LEMMA AddsBegins ==
  ASSUME Typed, NEW u \in Updates, Adds(u), NEW b \in Seq(Updates), Begins(b)
  PROVE  Begins(b)'
<1>1. /\ Len(queue) \in Nat /\ Len(queue') = Len(queue) + 1
      /\ DOMAIN queue = 1..Len(queue)
      /\ \A i \in DOMAIN queue : queue'[i] = queue[i]
  BY AppendIs DEF Typed, Adds
<1>2. Len(b) \in Nat
  OBVIOUS
<1> QED
  BY <1>1, <1>2 DEF Begins

\* No update of the batch is later than the document.
LEMMA BatchOld ==
  ASSUME Typed, InQueue, NEW b \in Seq(Updates), Begins(b)
  PROVE  \A u \in ToSet(b) : u.v <= docV
<1> SUFFICES ASSUME NEW i \in DOMAIN b PROVE b[i].v <= docV
  BY DEF ToSet
<1>1. queue \in Seq(Updates) /\ Len(b) \in Nat /\ Len(queue) \in Nat
  BY DEF Typed
<1>2. i \in 1..Len(b) /\ i \in DOMAIN queue
  BY <1>1 DEF Begins
<1>3. queue[i].v <= docV
  BY <1>2 DEF InQueue
<1> QED
  BY <1>2, <1>3 DEF Begins

LEMMA AddsDense ==
  ASSUME Typed, InQueue, NEW u \in Updates, Adds(u), NEW b \in Seq(Updates), Begins(b),
         NEW us \in Seq(Updates), ToSet(us) \subseteq ToSet(b), Dense(us)
  PROVE  Dense(us)'
<1>1. queue \in Seq(Updates) /\ docV \in Nat
  BY BoundsAssumption DEF Typed
<1> SUFFICES ASSUME NEW k \in Contents(us), NEW i \in Contents(queue'), NEW v \in 1..us[k].v,
                    queue'[i].v < v
             PROVE  \E p \in Ops(us) : p < k /\ us[p].v = v
  BY DEF Dense
<1>2. CASE i \in Contents(queue)
  <2>1. queue'[i] = queue[i]
    BY <1>1, <1>2, GrownIs DEF Adds
  <2> QED
    BY <1>2, <2>1 DEF Dense
<1>3. CASE i = Len(queue) + 1 /\ u.kind = "content"
  <2>1. queue'[i].v = docV
    BY <1>1, <1>3, AppendIs DEF Adds
  <2>2. us[k].v <= docV /\ us[k].v \in Nat
    <3>1. k \in DOMAIN us /\ us[k] \in ToSet(us) /\ us[k] \in Updates
      BY DEF Contents, ToSet
    <3>2. us[k] \in ToSet(b)
      BY <3>1
    <3>3. us[k].v <= docV
      BY <3>2, BatchOld
    <3> QED
      BY <3>1, <3>3, BoundsAssumption DEF Updates
  <2> QED
    BY <1>1, <2>1, <2>2
<1> QED
  BY <1>1, <1>2, <1>3, GrownIs DEF Adds

\* What a worker has read, filtered or asked for outlasts what is added.
LEMMA AddsBatched ==
  ASSUME Typed, InQueue, NEW u \in Updates, Adds(u), NEW y \in Workers, Batched(y),
         w'[y] = w[y], syncState' = syncState
  PROVE  Batched(y)'
<1> DEFINE h == w[y]
           b == w[y].batch
           r == w[y].request
<1>1. b \in Seq(Updates) /\ h.updates \in Seq(Updates) /\ (Sending(y) => r \in Requests)
  BY DEF Typed, Handlers
<1>2. /\ log' = log /\ Recorded' = Recorded /\ (\A v : Seen(v)' <=> Seen(v))
      /\ \A v : Held(v)' <=> Held(v)
  BY AddsSeen DEF Adds, Held
<1>3. ASSUME NEW i PROVE Skipped(y, i)' <=> Skipped(y, i)
  BY DEF Skipped, Pending, Contents
<1>4. w[y].at \in Filtering \cup {"filter"} => Begins(b) /\ Begins(b)'
  <2>1. \A c \in Seq(Updates) :
          Begins(c) => Len(c) <= Len(queue') /\ \A i \in 1..Len(c) : c[i] = queue'[i]
    BY AddsBegins DEF Begins
  <2>2. ASSUME Begins(b) PROVE Begins(b)'
    BY <1>1, <2>1, <2>2 DEF Begins
  <2> QED
    BY <2>2 DEF Batched
<1>5. ASSUME w[y].at = "fetch" PROVE Dense(w[y].updates)'
  <2> DEFINE us == w[y].updates
  <2>1. Begins(b) /\ ToSet(us) \subseteq ToSet(b) /\ Dense(us)
    BY <1>4, <1>5 DEF Batched, Filtering
  <2>2. \A k \in Contents(us), i \in Contents(queue') : \A v \in 1..us[k].v :
          queue'[i].v < v => \E p \in Ops(us) : p < k /\ us[p].v = v
    <3> HIDE DEF us, b
    <3> QED
      BY <1>1, <2>1, AddsDense DEF Dense, us
  <2> QED
    BY <2>2 DEF Dense
<1>6. Sending(y) => Honest(r)'
  BY <1>1, AddsHonest DEF Batched, Honest, After
<1> QED
  BY <1>2, <1>3, <1>4, <1>5, <1>6 DEF Batched, Sending

LEMMA AddsCovered ==
  ASSUME Typed, NEW u \in Updates, Adds(u), NEW v \in 1..docV',
         v \in 1..docV => Covered(v),
         (\A y \in Workers : Asking(w[y]) => Asking(w'[y])) \/ u.kind = "content"
  PROVE  Covered(v)'
<1>1. /\ queue \in Seq(Updates) /\ docV \in Nat /\ docV' \in Nat
  BY BoundsAssumption DEF Typed, Adds
<1>2. Len(queue) + 1 \in DOMAIN queue' /\ queue'[Len(queue) + 1] = u
  BY <1>1, AppendIs DEF Adds
<1>3. CASE v \notin 1..docV
  <2>1. v = docV' /\ u.kind = "op" /\ u.v = v
    BY <1>1, <1>3 DEF Adds
  <2>2. Len(queue) + 1 \in Ops(queue')
    BY <1>2, <2>1 DEF Ops
  <2> QED
    BY <1>2, <2>1, <2>2 DEF Covered
<1>4. CASE v \in 1..docV /\ u.kind = "content"
  <2>1. Len(queue) + 1 \in Contents(queue') /\ v <= u.v
    BY <1>1, <1>2, <1>4 DEF Contents, Adds
  <2> QED
    BY <1>2, <2>1 DEF Covered
<1>5. CASE v \in 1..docV /\ u.kind # "content"
  <2>1. Covered(v)
    BY <1>5
  <2>2. Held(v)' <=> Held(v)
    BY AddsSeen DEF Held
  <2>3. /\ \A i \in Contents(queue) : i \in Contents(queue') /\ queue'[i] = queue[i]
        /\ \A i \in Ops(queue) : i \in Ops(queue') /\ queue'[i] = queue[i]
    BY <1>1, GrownIs DEF Adds
  <2>4. \A y \in Workers : Asking(w[y]) => Asking(w'[y])
    BY <1>5
  <2>5. CASE \E i \in Ops(queue) : queue[i].v = v
    BY <2>3, <2>5 DEF Covered
  <2>6. CASE \E i \in Contents(queue) : v <= queue[i].v
    BY <2>3, <2>6 DEF Covered
  <2> QED
    BY <2>1, <2>2, <2>4, <2>5, <2>6 DEF Covered
<1> QED
  BY <1>3, <1>4, <1>5

-----------------------------------------------------------------------------
(***************************************************************************)
(* A request is recorded.                                                  *)
(***************************************************************************)
Records(r) ==
  /\ r \in Requests /\ Accepts(r) /\ log' = Append(log, Entry(r))
  /\ UNCHANGED <<queue, docV>>

LEMMA RecordsSeen ==
  ASSUME Typed, NEW r, Records(r)
  PROVE  /\ Recorded' = r.content /\ r.content \in 0..MaxOps
         /\ \A v \in r.ops : Seen(v)'
         /\ \A v : Seen(v) => Seen(v)'
         /\ Len(log') = Len(log) + 1 /\ Len(log) \in Nat
         /\ \A i \in DOMAIN log' :
              \/ i \in DOMAIN log /\ log'[i] = log[i]
              \/ log'[i].ops = r.ops /\ log'[i].content = r.content
<1>1. log \in Seq([ops : SUBSET (1..MaxOps), content : 0..MaxOps])
  BY DEF Typed
<1> DEFINE e == Entry(r)
<1>2. /\ e \in [ops : SUBSET (1..MaxOps), content : 0..MaxOps]
      /\ e.ops = r.ops /\ e.content = r.content
  BY DEF Records, Requests, Entry, Accepts
<1>3. log' = Append(log, e)
  BY DEF Records
<1> HIDE DEF e
<1>4. /\ Len(log) \in Nat /\ Len(log') = Len(log) + 1
      /\ DOMAIN log = 1..Len(log) /\ DOMAIN log' = 1..Len(log) + 1
      /\ log'[Len(log) + 1] = e /\ \A i \in DOMAIN log : log'[i] = log[i]
  BY <1>1, <1>2, <1>3
<1>5. Recorded' = r.content
  <2>1. log' # <<>>
    BY <1>4
  <2> QED
    BY <1>2, <1>4, <2>1 DEF Recorded
<1>6. ASSUME NEW v \in r.ops PROVE Seen(v)'
  <2>1. v <= v
    BY <1>2, BoundsAssumption
  <2> QED
    BY <1>2, <1>4, <2>1 DEF Seen
<1>7. \A v : Seen(v) => Seen(v)'
  BY <1>4 DEF Seen
<1>8. \A i \in DOMAIN log' :
        \/ i \in DOMAIN log /\ log'[i] = log[i]
        \/ log'[i].ops = r.ops /\ log'[i].content = r.content
  BY <1>2, <1>4
<1> QED
  BY <1>2, <1>4, <1>5, <1>6, <1>7, <1>8

LEMMA RecordsHeld ==
  ASSUME Typed, NEW r, Records(r), Honest(r), NEW v \in Nat \ {0}, Held(v)
  PROVE  Held(v)'
<1>1. Recorded' = r.content /\ (Seen(v) => Seen(v)')
  BY RecordsSeen
<1>2. CASE v <= Recorded
  <2>1. Recorded \in 0..MaxOps
    BY RecordedTyped, TypedIs
  <2>2. v \in 1..Recorded
    BY <1>2, <2>1, BoundsAssumption
  <2>3. v <= r.content \/ Seen(v)
    BY <2>2 DEF Honest, Records, Accepts
  <2> QED
    BY <1>1, <2>3 DEF Held
<1> QED
  BY <1>1, <1>2 DEF Held

LEMMA RecordsHistory ==
  ASSUME Typed, NEW r, Records(r), Honest(r), InQueue, InHistory
  PROVE  InQueue' /\ InHistory'
<1>1. InQueue'
  BY DEF Records, InQueue, Between, Ops, Contents
<1>2. /\ Recorded' = r.content /\ (\A v \in r.ops : Seen(v)')
      /\ \A v : Seen(v) => Seen(v)'
      /\ \A i \in DOMAIN log' :
           \/ i \in DOMAIN log /\ log'[i] = log[i]
           \/ log'[i].ops = r.ops /\ log'[i].content = r.content
  BY RecordsSeen
<1>3. r.content <= docV /\ \A i \in Contents(queue) : After(i, r.content, r.ops)
  BY DEF Honest, Records, Accepts
<1>4. \A i \in Contents(queue) : After(i, Recorded, {})'
  BY <1>2, <1>3 DEF After, Records
<1>5. \A v \in r.ops : v <= r.content
  BY DEF Honest, Records, Accepts
<1>6. \A i \in DOMAIN log' : \A v \in log'[i].ops : v <= log'[i].content
  BY <1>2, <1>5 DEF InHistory
<1> QED
  BY <1>1, <1>2, <1>3, <1>4, <1>6 DEF InHistory, Records, Contents

LEMMA RecordsCovered ==
  ASSUME Typed, NEW r, Records(r), Honest(r), NEW v \in Nat \ {0}, Covered(v),
         \A y \in Workers : Asking(w[y]) => Asking(w'[y])
  PROVE  Covered(v)'
<1>1. Held(v) => Held(v)'
  BY RecordsHeld
<1> QED
  BY <1>1 DEF Covered, Records, Ops, Contents

LEMMA RecordsBatched ==
  ASSUME OrderInv, Typed, NEW r, Records(r), Honest(r), NEW y \in Workers, Batched(y),
         w'[y] = w[y], syncState' = syncState
  PROVE  Batched(y)'
<1> DEFINE h == w[y]
           b == w[y].batch
           q == w[y].request
<1>1. b \in Seq(Updates) /\ h.updates \in Seq(Updates) /\ (Sending(y) => q \in Requests)
  BY DEF Typed, Handlers
<1>2. UNCHANGED <<queue, docV>> /\ (\A v : Seen(v) => Seen(v)')
  BY RecordsSeen DEF Records
<1>3. ASSUME NEW i PROVE Skipped(y, i)' <=> Skipped(y, i)
  BY DEF Skipped, Pending, Contents
<1>4. \A v \in Nat \ {0} : Held(v) => Held(v)'
  BY RecordsHeld
<1>5. Sending(y) => Honest(q)'
  <2>1. \A s : Valid(s) /\ Honest(s) =>
          /\ s.content # Bad => s.content <= docV /\ \A v \in s.ops : v <= s.content
          /\ s.base # Len(log')
    <3>1. Len(log') = Len(log) + 1 /\ Len(log) \in Nat
      BY RecordsSeen
    <3> QED
      BY <3>1 DEF Valid, Honest
  <2> QED
    BY <1>2, <2>1 DEF OrderInv, Carries, Batched, Honest
<1>6. \A i \in Ops(b) : b[i].v \in Nat \ {0}
  BY <1>1, BoundsAssumption DEF Ops, Updates
<1> QED
  BY <1>2, <1>3, <1>4, <1>5, <1>6 DEF Batched, Sending, Begins, Dense

-----------------------------------------------------------------------------
(***************************************************************************)
(* A worker goes on, and the queue, the history and the document stay.     *)
(***************************************************************************)
LEMMA CalmHolds == ASSUME SkipInv, Calm PROVE Typed /\ Holding /\ SkipsEnd /\ Requesting
BY DEF SkipInv, Calm, Shaped

LEMMA MoveKeeps ==
  ASSUME SkipInv, Calm, Lossless, UNCHANGED <<queue, log, docV>>,
         NEW x \in Workers, Beside(x), Pendings', Batched(x)',
         syncState' = syncState \/ w[x].at \in Critical,
         ~Asking(w[x]),
         w'[x].at \in {"clear", "destroy"} => w'[x].hard,
         w'[x].at = "request" /\ w'[x].hard => ~Ongoing(syncState')
  PROVE  Lossless'
<1>1. Typed /\ Holding
  BY CalmHolds
<1>2. UNCHANGED Past
  BY DEF Past
<1>3. InQueue' /\ InHistory'
  BY <1>2, SamePast DEF Lossless
<1>4. ASSUME NEW y \in Workers \ {x} PROVE w'[y] = w[y] /\ Batched(y)'
  <2>1. w'[y] = w[y]
    BY DEF Beside
  <2>2. CASE syncState' = syncState
    BY <1>2, <2>1, <2>2, SameBatched DEF Lossless
  <2>3. CASE w[x].at \in Critical
    BY <1>1, <2>1, <2>3, OneHolds, NoBatch
  <2> QED
    BY <2>1, <2>2, <2>3
<1>5. \A y \in Workers : Batched(y)'
  BY <1>4
<1>6. ASSUME NEW v \in 1..docV PROVE Covered(v)'
  BY <1>2, <1>4, SameCovered DEF Lossless
<1>7. Settled'
  <2>1. \A y \in Workers \ {x} :
          w[y].at = "request" /\ w[y].hard => ~Ongoing(syncState')
    <3>1. CASE syncState' = syncState
      BY <3>1 DEF Lossless, Settled
    <3>2. CASE w[x].at \in Critical
      BY <1>1, <3>2, OneHolds DEF Critical, Resyncing
    <3> QED
      BY <3>1, <3>2
  <2>2. \A y \in Workers : w[y].at \in {"clear", "destroy"} => w[y].hard
    BY DEF Lossless, Settled
  <2>3. ASSUME NEW y \in Workers
        PROVE  /\ w'[y].at \in {"clear", "destroy"} => w'[y].hard
               /\ w'[y].at = "request" /\ w'[y].hard => ~Ongoing(syncState')
    BY <1>4, <2>1, <2>2
  <2> QED
    BY <2>3 DEF Settled, Ongoing
<1> QED
  BY <1>3, <1>5, <1>6, <1>7 DEF Lossless

LEMMA SamePendings ==
  ASSUME UNCHANGED Past, Pendings, late' = late
  PROVE  Pendings'
BY SameHonest DEF Pendings, Honest, After, Contents, Recorded, Seen, Past

\* The steps of a worker outside the batch and the resync.
LEMMA PlainKeeps ==
  ASSUME SkipInv, Calm, Lossless, NEW x \in Workers,
         \/ StartFlush(x) \/ GetLock(x) \/ LockTimeout(x) \/ Release(x) \/ Report(x)
         \/ \E hard \in BOOLEAN : StartResync(x, hard)
  PROVE  Lossless'
<1>1. Typed /\ UNCHANGED <<queue, log, docV, web, syncState, late>>
  BY CalmHolds DEF StartFlush, GetLock, LockTimeout, Release, Report, StartResync, world
<1>2. Pendings'
  BY <1>1, SamePendings DEF Past, Lossless
<1>3. ASSUME Beside(x), w'[x].at \notin Batching, w[x].at \notin {"request", "requested"},
             w'[x].at # "destroy", w'[x].at = "request" => ~w'[x].hard,
             w'[x].at = "clear" => w'[x].hard
      PROVE  Lossless'
  <2>1. Batched(x)'
    BY <1>3, NoBatch
  <2>2. /\ UNCHANGED <<queue, log, docV>> /\ syncState' = syncState
        /\ ~Asking(w[x])
        /\ w'[x].at \in {"clear", "destroy"} => w'[x].hard
        /\ ~(w'[x].at = "request" /\ w'[x].hard)
    BY <1>1, <1>3 DEF Asking
  <2> QED
    BY <1>2, <1>3, <2>1, <2>2, MoveKeeps
<1>4. {"idle", "lock", "resyncLock", "release", "report", "read", "clear", "request"}
        \cap Batching = {}
  BY DEF Batching, Filtering
<1>5. w \in [Workers -> Handlers]
  BY <1>1 DEF Typed
<1>6. CASE StartFlush(x)
  <2>1. Goto(x, "lock") /\ w[x].at = "idle"
    BY <1>6 DEF StartFlush
  <2> QED
    BY <1>1, <1>3, <1>4, <2>1, GotoDoes
<1>7. CASE GetLock(x)
  <2> DEFINE pc == CASE w[x].at = "lock" -> "read" [] w[x].hard -> "clear" [] OTHER -> "request"
  <2>1. Goto(x, pc) /\ w[x].at \in {"lock", "resyncLock"}
    BY <1>7 DEF GetLock
  <2>2. /\ pc \in {"read", "clear", "request"}
        /\ pc = "clear" => w[x].hard
        /\ pc = "request" => ~w[x].hard
    OBVIOUS
  <2> HIDE DEF pc
  <2>3. Beside(x) /\ Same(x) /\ w'[x].at = pc
    BY <1>1, <2>1, GotoDoes
  <2> QED
    BY <1>3, <1>4, <2>1, <2>2, <2>3 DEF Same
<1>8. CASE LockTimeout(x)
  <2> DEFINE r == [w[x] EXCEPT !.at = "report", !.error = "soft"]
  <2>1. w' = [w EXCEPT ![x] = r] /\ w[x].at \in {"lock", "resyncLock"}
    BY <1>8 DEF LockTimeout
  <2>2. r.at = "report"
    BY <1>5 DEF Handlers
  <2> HIDE DEF r
  <2>3. Beside(x) /\ w'[x] = r
    BY <1>1, <2>1, BecomesDoes
  <2> QED
    BY <1>3, <1>4, <2>1, <2>2, <2>3
<1>9. CASE Release(x)
  <2> DEFINE r == [Idle EXCEPT
                !.at = "report", !.session = w[x].session, !.then = w[x].then,
                !.error = IF w[x].error = "none" /\ lock # x THEN "soft" ELSE w[x].error]
  <2>1. w' = [w EXCEPT ![x] = r] /\ w[x].at = "release"
    BY <1>9 DEF Release
  <2>2. r.at = "report"
    BY DEF Idle
  <2> HIDE DEF r
  <2>3. Beside(x) /\ w'[x] = r
    BY <1>1, <2>1, BecomesDoes
  <2> QED
    BY <1>3, <1>4, <2>1, <2>2, <2>3
<1>10. CASE Report(x)
  <2> DEFINE again == [Idle EXCEPT !.at = "resyncLock", !.then = "last",
                                   !.session = "resync", !.hard = TRUE]
             flush == [Idle EXCEPT !.at = "lock", !.then = w[x].then]
  <2>1. \E r \in {Idle, again, flush} : w' = [w EXCEPT ![x] = r]
    BY <1>10 DEF Report
  <2>2. Idle.at = "idle" /\ again.at = "resyncLock" /\ flush.at = "lock"
    BY DEF Idle
  <2> HIDE DEF again, flush
  <2>3. PICK r \in {Idle, again, flush} : w' = [w EXCEPT ![x] = r]
    BY <2>1
  <2>4. Beside(x) /\ w'[x] = r /\ r.at \in {"idle", "resyncLock", "lock"}
    BY <1>1, <2>2, <2>3, BecomesDoes
  <2>5. w[x].at = "report"
    BY <1>10 DEF Report
  <2> QED
    BY <1>3, <1>4, <2>4, <2>5
<1>11. CASE \E hard \in BOOLEAN : StartResync(x, hard)
  <2> PICK hard \in BOOLEAN : StartResync(x, hard)
    BY <1>11
  <2> DEFINE r == [w[x] EXCEPT !.at = "resyncLock", !.session = "resync", !.hard = hard]
  <2>1. w' = [w EXCEPT ![x] = r] /\ w[x].at = "idle"
    BY DEF StartResync
  <2>2. r.at = "resyncLock"
    BY <1>5 DEF Handlers
  <2> HIDE DEF r
  <2>3. Beside(x) /\ w'[x] = r
    BY <1>1, <2>1, BecomesDoes
  <2> QED
    BY <1>3, <1>4, <2>1, <2>2, <2>3
<1> QED
  BY <1>6, <1>7, <1>8, <1>9, <1>10, <1>11

-----------------------------------------------------------------------------
(***************************************************************************)
(* A batch: read, filtered, and converted to a request.                    *)
(***************************************************************************)
\* A worker that flushes goes on without touching anything else.
LEMMA FlushKeeps ==
  ASSUME SkipInv, Calm, Lossless, UNCHANGED <<queue, log, docV, web, syncState, late>>,
         NEW x \in Workers, Beside(x), w[x].at \in Flushing,
         w'[x].at \in Flushing \cup {"release"}, Batched(x)'
  PROVE  Lossless'
<1>1. Pendings'
  BY SamePendings DEF Past, Lossless
<1>2. w'[x].at \notin {"clear", "destroy", "request"}
  BY DEF Flushing
<1>3. ~Asking(w[x])
  BY DEF Flushing, Asking
<1> QED
  BY <1>1, <1>2, <1>3, MoveKeeps

LEMMA FailKept ==
  ASSUME SkipInv, Calm, Lossless, UNCHANGED <<queue, log, docV, web, syncState, late>>,
         NEW x \in Workers, w[x].at \in Flushing, NEW e, Fail(x, e)
  PROVE  Lossless'
<1>1. Beside(x) /\ w'[x].at = "release"
  BY CalmHolds, FailDoes
<1>2. Batched(x)'
  BY <1>1, NoBatch DEF Batching, Filtering
<1> QED
  BY <1>1, <1>2, FlushKeeps

LEMMA ReadKeeps ==
  ASSUME SkipInv, Calm, Lossless, NEW x \in Workers, Read(x)
  PROVE  Lossless'
<1>1. Typed /\ UNCHANGED <<queue, log, docV, web, syncState, late>> /\ w[x].at = "read"
  BY CalmHolds DEF Read, world
<1>2. CASE Goto(x, "release")
  <2>1. Beside(x) /\ w'[x].at = "release"
    BY <1>1, <1>2, GotoDoes
  <2>2. Batched(x)'
    BY <2>1, NoBatch DEF Batching, Filtering
  <2> QED
    BY <1>1, <2>1, <2>2, FlushKeeps DEF Flushing
<1>3. ASSUME NEW n \in 1..Len(queue),
             w' = [w EXCEPT ![x].at = "filter", ![x].batch = SubSeq(queue, 1, n),
                            ![x].more = n < Len(queue)]
      PROVE  Lossless'
  <2> DEFINE b == SubSeq(queue, 1, n)
             r == [w[x] EXCEPT !.at = "filter", !.batch = b, !.more = n < Len(queue)]
  <2>1. w' = [w EXCEPT ![x] = r]
    BY <1>3
  <2>2. r.at = "filter" /\ r.batch = b
    BY <1>1 DEF Typed, Handlers
  <2>3. /\ Len(queue) \in Nat /\ Len(b) = n /\ n <= Len(queue)
        /\ \A i \in 1..n : b[i] = queue[i]
    BY <1>1 DEF Typed
  <2> HIDE DEF r, b
  <2>4. Beside(x) /\ w'[x] = r
    BY <1>1, <2>1, BecomesDoes
  <2>5. Begins(w[x].batch)'
    BY <1>1, <2>2, <2>3, <2>4 DEF Begins
  <2>6. Batched(x)'
    BY <2>2, <2>4, <2>5 DEF Batched, Sending, Filtering
  <2> QED
    BY <1>1, <2>2, <2>4, <2>6, FlushKeeps DEF Flushing
<1> QED
  BY <1>2, <1>3, Zenon DEF Read

LEMMA VersionsIs ==
  ASSUME NEW q \in Seq(Updates)
  PROVE  /\ DOMAIN q = 1..Len(q) /\ Len(q) \in Nat
         /\ \A i \in DOMAIN q : q[i] \in Updates /\ q[i].v \in 0..MaxOps /\ q[i].v \in Nat
         /\ \A i \in Ops(q) : q[i].v \in 1..MaxOps /\ q[i] = Op(q[i].v)
<1>1. DOMAIN q = 1..Len(q) /\ Len(q) \in Nat /\ \A i \in DOMAIN q : q[i] \in Updates
  OBVIOUS
<1>2. ASSUME NEW u \in Updates
      PROVE  /\ u.v \in 0..MaxOps /\ u.v \in Nat
             /\ u.kind = "op" => u.v \in 1..MaxOps /\ u = Op(u.v)
  BY BoundsAssumption DEF Updates, Op
<1> QED
  BY <1>1, <1>2 DEF Ops

\* What the batch says of the queue.
LEMMA BatchIs ==
  ASSUME queue \in Seq(Updates), NEW b \in Seq(Updates), Begins(b)
  PROVE  /\ Len(b) \in Nat /\ DOMAIN b = 1..Len(b) /\ Len(queue) \in Nat
         /\ DOMAIN queue = 1..Len(queue) /\ Len(b) <= Len(queue)
         /\ \A i \in DOMAIN b : i \in DOMAIN queue /\ b[i] = queue[i]
         /\ \A i \in Contents(b) : i \in Contents(queue) /\ b[i] = queue[i]
         /\ \A i \in Ops(b) : i \in Ops(queue) /\ b[i] = queue[i]
         /\ \A i \in Contents(queue) : i <= Len(b) => i \in Contents(b)
         /\ \A i \in Ops(queue) : i <= Len(b) => i \in Ops(b)
<1>1. /\ Len(b) \in Nat /\ DOMAIN b = 1..Len(b) /\ Len(queue) \in Nat
      /\ DOMAIN queue = 1..Len(queue) /\ Len(b) <= Len(queue)
      /\ \A i \in DOMAIN b : i \in DOMAIN queue /\ b[i] = queue[i]
  BY DEF Begins
<1> QED
  BY <1>1 DEF Contents, Ops

\* Outside a resync the batch has all the ops between its contents.
LEMMA WholeDense ==
  ASSUME Typed, InQueue, NEW b \in Seq(Updates), Begins(b)
  PROVE  Dense(b)
<1>1. queue \in Seq(Updates)
  BY DEF Typed
<1>2. /\ Len(b) \in Nat /\ DOMAIN b = 1..Len(b) /\ Len(queue) \in Nat
      /\ DOMAIN queue = 1..Len(queue) /\ Len(b) <= Len(queue)
      /\ \A i \in Contents(b) : i \in Contents(queue) /\ b[i] = queue[i]
      /\ \A i \in Ops(queue) : i <= Len(b) => i \in Ops(b) /\ b[i] = queue[i]
  BY <1>1, BatchIs
<1> SUFFICES ASSUME NEW k \in Contents(b), NEW i \in Contents(queue), NEW v \in 1..b[k].v,
                    queue[i].v < v
             PROVE  \E p \in Ops(b) : p < k /\ b[p].v = v
  BY DEF Dense
<1>3. /\ k \in Contents(queue) /\ b[k] = queue[k] /\ k \in 1..Len(b) /\ i \in 1..Len(queue)
      /\ queue[k].v \in Nat /\ queue[i].v \in Nat
  BY <1>1, <1>2, VersionsIs DEF Contents
<1>4. i < k
  <2>1. k < i => queue[k].v <= queue[i].v
    BY <1>3 DEF InQueue
  <2> QED
    BY <1>3, <2>1
<1>5. Between(i, k, queue[k].v)
  BY <1>3, <1>4 DEF InQueue
<1>6. PICK p \in Ops(queue) : i < p /\ p < k /\ queue[p].v = v
  BY <1>3, <1>5 DEF Between
<1>7. p \in Ops(b) /\ b[p] = queue[p]
  <2>1. p \in Nat
    BY <1>2 DEF Ops
  <2> QED
    BY <1>2, <1>3, <1>6, <2>1
<1> QED
  BY <1>6, <1>7

\* In a resync only one content is kept, and it is the first of the queue.
LEMMA KeptDense ==
  ASSUME Typed, InQueue, NEW b \in Seq(Updates), Begins(b),
         \A i, j \in Contents(b) : i = j,
         NEW us \in Seq(Updates), ToSet(us) \subseteq ToSet(b)
  PROVE  Dense(us)
<1>1. queue \in Seq(Updates)
  BY DEF Typed
<1>2. /\ Len(b) \in Nat /\ DOMAIN b = 1..Len(b) /\ Len(queue) \in Nat
      /\ DOMAIN queue = 1..Len(queue) /\ Len(b) <= Len(queue)
      /\ \A i \in Contents(b) : i \in Contents(queue) /\ b[i] = queue[i]
      /\ \A i \in Contents(queue) : i <= Len(b) => i \in Contents(b)
  BY <1>1, BatchIs
<1> SUFFICES ASSUME NEW k \in Contents(us), NEW i \in Contents(queue), NEW v \in 1..us[k].v,
                    queue[i].v < v
             PROVE  FALSE
  BY DEF Dense
<1>3. us[k] \in ToSet(b) /\ us[k].kind = "content"
  BY DEF Contents, ToSet
<1>4. PICK c \in DOMAIN b : b[c] = us[k]
  BY <1>3 DEF ToSet
<1>5. c \in Contents(b)
  BY <1>3, <1>4 DEF Contents
<1>6. /\ c \in Contents(queue) /\ queue[c] = us[k] /\ c \in 1..Len(b) /\ i \in 1..Len(queue)
      /\ queue[c].v \in Nat /\ queue[i].v \in Nat
  BY <1>1, <1>2, <1>4, <1>5, VersionsIs DEF Contents
<1>7. i < c
  <2>1. c < i => queue[c].v <= queue[i].v
    BY <1>6 DEF InQueue
  <2> QED
    BY <1>6, <2>1
<1>8. i \in Contents(b)
  BY <1>2, <1>6, <1>7
<1> QED
  BY <1>5, <1>6, <1>7, <1>8

\* What a filter leaves of a batch, told by the batch.
LEMMA FilterLeaves ==
  ASSUME syncState \in SyncStates, NEW b \in Seq(Updates)
  PROVE  LET f == Filtered(b)
         IN  /\ f.kept \in Seq(Updates) /\ f.structure \in BOOLEAN /\ f.doc \in BOOLEAN
             /\ ToSet(f.kept) \subseteq ToSet(b)
             /\ \A i \in Contents(b) : b[i] \in ToSet(f.kept)
             /\ \A i \in Ops(b) : \/ b[i] \in ToSet(f.kept)
                                  \/ Ongoing(f)
                                  \/ \E j \in Contents(b) : i < j
<1> DEFINE f == Filtered(b)
<1>1. f \in FilterStates /\ FilterUpto(f, b, Len(b))
  BY FilterEnd
<1> HIDE DEF f
<1>2. /\ f.kept \in Seq(Updates) /\ f.structure \in BOOLEAN /\ f.doc \in BOOLEAN
      /\ KeptFrom(f, b, Len(b)) /\ KeptOrSkipped(f, b, Len(b))
  BY <1>1 DEF FilterStates, FilterUpto
<1>3. Len(b) \in Nat /\ DOMAIN b = 1..Len(b)
  OBVIOUS
<1>4. ToSet(f.kept) \subseteq ToSet(b)
  BY <1>2, <1>3 DEF KeptFrom, ToSet
<1>5. \A i \in DOMAIN b : IsKept(f, b[i]) => b[i] \in ToSet(f.kept)
  BY DEF IsKept, ToSet
<1>6. \A i \in Contents(b) : b[i] \in ToSet(f.kept)
  BY <1>2, <1>3, <1>5 DEF KeptOrSkipped, Contents
<1>7. ASSUME NEW i \in Ops(b), b[i] \notin ToSet(f.kept), ~Ongoing(f)
      PROVE  \E j \in Contents(b) : i < j
  <2>1. i \in 1..Len(b) /\ ~IsKept(f, b[i])
    BY <1>3, <1>5, <1>7 DEF Ops
  <2>2. PICK j \in 1..Len(b) : i < j /\ b[j].kind = "content"
    BY <1>2, <1>7, <2>1 DEF KeptOrSkipped
  <2> QED
    BY <1>3, <2>2 DEF Contents
<1> QED
  BY <1>2, <1>4, <1>6, <1>7 DEF f

LEMMA FilterKeeps ==
  ASSUME SkipInv, Calm, Lossless, NEW x \in Workers, Filter(x)
  PROVE  Lossless'
<1> DEFINE b == w[x].batch
<1>1. /\ Typed /\ UNCHANGED <<queue, log, docV, web, syncState, late>> /\ w[x].at = "filter"
      /\ InQueue /\ Begins(b)
  BY CalmHolds DEF Filter, world, Lossless, Batched
<1>2. b \in Seq(Updates) /\ syncState \in SyncStates /\ w[x].at \in Flushing
  BY <1>1 DEF Typed, Handlers, Flushing
<1>4. CASE Fail(x, "soft")
  BY <1>1, <1>2, <1>4, FailKept
<1>5. ASSUME Beside(x), ~Ongoing(syncState), w'[x].at = "fetch", w'[x].batch = b,
             w'[x].updates = b
      PROVE  Lossless'
  <2>1. Dense(b) /\ Begins(b)
    BY <1>1, <1>2, WholeDense
  <2>2. \A i \in DOMAIN b : b[i] \in ToSet(b)
    BY DEF ToSet
  <2>3. Batched(x)'
    <3>1. Begins(w[x].batch)' /\ Dense(w[x].updates)'
      BY <1>1, <1>5, <2>1 DEF Begins, Dense, Contents
    <3> QED
      BY <1>5, <2>2, <3>1 DEF Batched, Sending, Contents, Ops
  <2> QED
    BY <1>1, <1>2, <1>5, <2>3, FlushKeeps DEF Flushing
<1>6. ASSUME Beside(x), Filtered(b).ok,
             w'[x].at = IF Filtered(b).kept = <<>> THEN "set" ELSE "fetch",
             w'[x].batch = b, w'[x].updates = Filtered(b).kept,
             w'[x].sync = [structure |-> Filtered(b).structure, doc |-> Filtered(b).doc]
      PROVE  Lossless'
  <2> DEFINE f == Filtered(b)
             st == [structure |-> f.structure, doc |-> f.doc]
             us == f.kept
  <2>1. /\ us \in Seq(Updates) /\ f.structure \in BOOLEAN /\ f.doc \in BOOLEAN
        /\ ToSet(us) \subseteq ToSet(b)
        /\ \A i \in Contents(b) : b[i] \in ToSet(us)
        /\ \A i \in Ops(b) : \/ b[i] \in ToSet(us)
                             \/ Ongoing(f)
                             \/ \E j \in Contents(b) : i < j
    <3> HIDE DEF b
    <3> QED
      BY <1>2, FilterLeaves
  <2>2. \A i, j \in Contents(b) : i = j
    BY <1>2, <1>6, FilterAwaits
  <2>3. Dense(us) /\ Begins(b)
    BY <1>1, <1>2, <2>1, <2>2, KeptDense
  <2>4. st \in [structure : BOOLEAN, doc : BOOLEAN] /\ (Ongoing(f) <=> Ongoing(st)) /\ st # None
    BY <2>1, ValuesAssumption DEF Ongoing
  <2>5. /\ w'[x].at = IF us = <<>> THEN "set" ELSE "fetch"
        /\ w'[x].batch = b /\ w'[x].updates = us /\ w'[x].sync = st
    BY <1>6
  <2> HIDE DEF us, st, f
  <2>6. ASSUME NEW i PROVE Skipped(x, i)' <=> Ongoing(st) \/ \E j \in Contents(b) : i < j
    BY <2>4, <2>5 DEF Skipped, Pending, Ongoing
  <2>7. Begins(w[x].batch)' /\ Dense(w[x].updates)'
    BY <1>1, <2>3, <2>5 DEF Begins, Dense, Contents
  <2>8. CASE us = <<>>
    <3>1. ToSet(us) = {}
      BY <2>8 DEF ToSet
    <3>2. Contents(b) = {} /\ \A i \in Ops(b) : Skipped(x, i)'
      BY <2>1, <2>4, <2>6, <3>1
    <3>3. w'[x].at = "set"
      BY <2>5, <2>8
    <3>4. Batched(x)'
      BY <2>5, <2>7, <3>2, <3>3 DEF Batched, Sending
    <3> QED
      BY <1>1, <1>2, <1>6, <3>3, <3>4, FlushKeeps DEF Flushing
  <2>9. CASE us # <<>>
    <3>1. w'[x].at = "fetch"
      BY <2>5, <2>9
    <3>2. \A i \in Ops(b) : b[i] \in ToSet(us) \/ Skipped(x, i)'
      BY <2>1, <2>4, <2>6
    <3>3. Batched(x)'
      BY <2>1, <2>5, <2>7, <3>1, <3>2 DEF Batched, Sending
    <3> QED
      BY <1>1, <1>2, <1>6, <3>1, <3>3, FlushKeeps DEF Flushing
  <2> QED
    BY <2>8, <2>9
<1> QED
  BY <1>1, <1>4, <1>5, <1>6, FilterDoes

LEMMA OpsFresh ==
  ASSUME NEW us \in Seq(Updates)
  PROVE  \A p \in Ops(us) : us[p].v \in Fresh(us) \/ Seen(us[p].v)
<1> SUFFICES ASSUME NEW p \in Ops(us), ~Seen(us[p].v) PROVE us[p].v \in Fresh(us)
  OBVIOUS
<1>1. us[p].v \in 1..MaxOps /\ us[p] = Op(us[p].v) /\ p \in DOMAIN us
  BY VersionsIs DEF Ops
<1> QED
  BY <1>1 DEF Fresh

\* The contents of a batch are those of the queue.
LEMMA ContentsFrom ==
  ASSUME queue \in Seq(Updates), NEW b \in Seq(Updates), Begins(b),
         NEW us, ToSet(us) \subseteq ToSet(b), NEW k \in Contents(us)
  PROVE  \E i \in Contents(queue) : queue[i] = us[k]
<1>1. us[k] \in ToSet(b) /\ us[k].kind = "content"
  BY DEF Contents, ToSet
<1>2. PICK i \in DOMAIN b : b[i] = us[k]
  BY <1>1 DEF ToSet
<1>3. i \in Contents(b)
  BY <1>1, <1>2 DEF Contents
<1>4. i \in Contents(queue) /\ b[i] = queue[i]
  BY <1>3, BatchIs
<1> QED
  BY <1>2, <1>4

\* The content the first updates come to has what the history and their contents
\* have, and the ops in it that a content on the queue lacks are sent or recorded.
\* It has the ops that are sent, which go beyond what is recorded.
Sound(c, us, k) ==
  /\ c \in 0..docV
  /\ \A v \in 1..Recorded : v <= c \/ Seen(v)
  /\ \A j \in Contents(us) : j <= k => \A v \in 1..us[j].v : v <= c \/ Seen(v)
  /\ \A i \in Contents(queue) : \A v \in 1..c : queue[i].v < v => v \in Fresh(us) \/ Seen(v)
  /\ \A p \in Ops(us) : p <= k /\ ~Seen(us[p].v) => us[p].v <= c /\ Recorded < c

LEMMA SoundNext ==
  ASSUME Typed, InQueue, InHistory, NEW b \in Seq(Updates), Begins(b),
         NEW us \in Seq(Updates), ToSet(us) \subseteq ToSet(b), Dense(us),
         NEW k \in 1..Len(us), NEW c, Sound(c, us, k - 1), Applied(c, us[k]) # Bad
  PROVE  Sound(Applied(c, us[k]), us, k)
<1> DEFINE u == us[k]
           d == Applied(c, us[k])
<1>1. /\ queue \in Seq(Updates) /\ docV \in Nat /\ Recorded \in Nat /\ Recorded <= docV
      /\ c \in Nat /\ c <= docV /\ k \in Nat
  <2>1. Recorded \in Nat
    BY RecordedTyped, TypedIs, BoundsAssumption
  <2>2. queue \in Seq(Updates) /\ docV \in Nat
    BY BoundsAssumption DEF Typed
  <2> QED
    BY <2>1, <2>2 DEF InHistory, Sound
<1>2. /\ u \in Updates /\ u.v \in Nat /\ k \in DOMAIN us
      /\ u.kind \in {"op", "structure", "content"} /\ DOMAIN us = 1..Len(us)
      /\ \A j \in DOMAIN us : us[j].v \in Nat
  <2>1. u \in Updates
    OBVIOUS
  <2> QED
    BY <2>1, VersionsIs DEF Updates
<1>3. u.v <= docV
  <2>1. u \in ToSet(us)
    BY <1>2 DEF ToSet
  <2>2. u \in ToSet(b)
    BY <2>1
  <2> HIDE DEF u
  <2> QED
    BY <2>2, BatchOld
<1>4. /\ \A v \in 1..Recorded : v <= c \/ Seen(v)
      /\ \A j \in Contents(us) : j <= k - 1 => \A v \in 1..us[j].v : v <= c \/ Seen(v)
      /\ \A i \in Contents(queue) : \A v \in 1..c : queue[i].v < v => v \in Fresh(us) \/ Seen(v)
      /\ \A p \in Ops(us) : p <= k - 1 /\ ~Seen(us[p].v) => us[p].v <= c /\ Recorded < c
  BY DEF Sound
<1>5. /\ \A j \in Contents(us) : j \in Nat /\ (j <= k => j <= k - 1 \/ j = k)
      /\ \A p \in Ops(us) : us[p].v \in Nat /\ p \in Nat /\ (p <= k => p <= k - 1 \/ p = k)
  BY <1>2 DEF Contents, Ops
<1>6. CASE d = c /\ u.kind # "content"
  <2>1. k \notin Contents(us)
    BY <1>6 DEF Contents
  <2>2. \A j \in Contents(us) : j <= k => \A v \in 1..us[j].v : v <= c \/ Seen(v)
    BY <1>4, <1>5, <2>1
  <2>3. u.kind = "op" => Seen(u.v)
    BY <1>1, <1>2, <1>6 DEF Applied
  <2>4. \A p \in Ops(us) : p <= k /\ ~Seen(us[p].v) => us[p].v <= c /\ Recorded < c
    BY <1>4, <1>5, <2>3 DEF Ops
  <2> QED
    BY <1>1, <1>4, <1>6, <2>2, <2>4 DEF Sound
<1>7. CASE u.kind = "op" /\ d = c + 1 /\ u.v = c + 1
  <2>1. k \in Ops(us) /\ k \notin Contents(us)
    BY <1>2, <1>7 DEF Contents, Ops
  <2>2. c + 1 \in Fresh(us) \/ Seen(c + 1)
    BY <1>7, <2>1, OpsFresh
  <2>3. \A j \in Contents(us) : j <= k => \A v \in 1..us[j].v : v <= d \/ Seen(v)
    <3> SUFFICES ASSUME NEW j \in Contents(us), j <= k, NEW v \in 1..us[j].v
                 PROVE  v <= d \/ Seen(v)
      OBVIOUS
    <3>1. v <= c \/ Seen(v)
      BY <1>4, <1>5, <2>1
    <3>2. v \in Nat
      OBVIOUS
    <3> QED
      BY <1>1, <1>7, <3>1, <3>2
  <2>4. \A v \in 1..Recorded : v <= d \/ Seen(v)
    BY <1>1, <1>4, <1>7
  <2>5. \A i \in Contents(queue) : \A v \in 1..d : queue[i].v < v => v \in Fresh(us) \/ Seen(v)
    <3> SUFFICES ASSUME NEW i \in Contents(queue), NEW v \in 1..d, queue[i].v < v
                 PROVE  v \in Fresh(us) \/ Seen(v)
      OBVIOUS
    <3>1. v \in 1..c \/ v = c + 1
      BY <1>1, <1>7
    <3> QED
      BY <1>4, <2>2, <3>1
  <2>6. d \in 0..docV
    BY <1>1, <1>3, <1>7
  <2>7. Recorded <= c
    <3>1. ~Seen(c + 1)
      BY <1>1, <1>7 DEF Applied
    <3>2. c < Recorded => c + 1 \in 1..Recorded
      BY <1>1
    <3>3. ~(c + 1 <= c)
      BY <1>1
    <3> QED
      BY <1>1, <1>4, <3>1, <3>2, <3>3
  <2>8. \A p \in Ops(us) : p <= k /\ ~Seen(us[p].v) => us[p].v <= d /\ Recorded < d
    <3> SUFFICES ASSUME NEW p \in Ops(us), p <= k, ~Seen(us[p].v) PROVE us[p].v <= d
      BY <1>1, <1>7, <2>7
    <3>1. us[p].v <= c \/ us[p].v = d
      BY <1>4, <1>5, <1>7
    <3> QED
      BY <1>1, <1>5, <1>7, <3>1
  <2> QED
    BY <2>3, <2>4, <2>5, <2>6, <2>8 DEF Sound
<1>8. CASE u.kind = "content" /\ u.v = Recorded /\ d = c
  <2>1. \A j \in Contents(us) : j <= k => \A v \in 1..us[j].v : v <= c \/ Seen(v)
    BY <1>4, <1>5, <1>8
  <2>2. \A p \in Ops(us) : p <= k /\ ~Seen(us[p].v) => us[p].v <= c /\ Recorded < c
    BY <1>4, <1>5, <1>8 DEF Ops
  <2> QED
    BY <1>1, <1>4, <1>8, <2>1, <2>2 DEF Sound
<1>9. CASE u.kind = "content" /\ c = Recorded /\ d = u.v
  <2>1. k \in Contents(us)
    BY <1>2, <1>9 DEF Contents
  <2>2. PICK q \in Contents(queue) : queue[q] = u
    BY <1>1, <2>1, ContentsFrom
  <2>3. \A v \in 1..Recorded : v <= d \/ Seen(v)
    <3> SUFFICES ASSUME NEW v \in 1..Recorded, ~(v <= d) PROVE Seen(v)
      OBVIOUS
    <3>1. queue[q].v < v
      BY <1>2, <1>9, <2>2
    <3>2. After(q, Recorded, {})
      BY DEF InHistory
    <3> QED
      BY <3>1, <3>2 DEF After
  <2>4. \A j \in Contents(us) : j <= k => \A v \in 1..us[j].v : v <= d \/ Seen(v)
    <3> SUFFICES ASSUME NEW j \in Contents(us), j <= k, NEW v \in 1..us[j].v
                 PROVE  v <= d \/ Seen(v)
      OBVIOUS
    <3>1. CASE j = k
      BY <1>9, <3>1
    <3>2. CASE j <= k - 1
      <4>1. v <= Recorded \/ Seen(v)
        BY <1>4, <1>9, <3>2
      <4>2. v \in Nat \ {0}
        OBVIOUS
      <4>3. v \in 1..Recorded \/ Seen(v)
        BY <1>1, <4>1, <4>2
      <4> QED
        BY <2>3, <4>3
    <3> QED
      BY <1>5, <3>1, <3>2
  <2>5. \A i \in Contents(queue) : \A v \in 1..d : queue[i].v < v => v \in Fresh(us) \/ Seen(v)
    <3> SUFFICES ASSUME NEW i \in Contents(queue), NEW v \in 1..d, queue[i].v < v
                 PROVE  v \in Fresh(us) \/ Seen(v)
      OBVIOUS
    <3>1. PICK p \in Ops(us) : p < k /\ us[p].v = v
      BY <1>9, <2>1 DEF Dense
    <3> QED
      BY <3>1, OpsFresh
  <2>6. d \in 0..docV
    BY <1>2, <1>3, <1>9, <1>1
  <2>7. \A p \in Ops(us) : p <= k => Seen(us[p].v)
    BY <1>1, <1>4, <1>5, <1>9 DEF Ops
  <2> QED
    BY <2>3, <2>4, <2>5, <2>6, <2>7 DEF Sound
<1>10. \/ d = c /\ u.kind # "content"
       \/ u.kind = "op" /\ d = c + 1 /\ u.v = c + 1
       \/ u.kind = "content" /\ u.v = Recorded /\ d = c
       \/ u.kind = "content" /\ c = Recorded /\ d = u.v
  BY <1>2 DEF Applied
<1> QED
  BY <1>6, <1>7, <1>8, <1>9, <1>10

LEMMA SoundStart ==
  ASSUME Typed, InHistory, NEW us \in Seq(Updates)
  PROVE  Sound(Recorded, us, 0)
<1>1. Recorded \in Nat /\ docV \in Nat /\ Recorded <= docV
  BY RecordedTyped, TypedIs, BoundsAssumption DEF Typed, InHistory
<1>2. (\A j \in Contents(us) : ~(j <= 0)) /\ \A p \in Ops(us) : ~(p <= 0)
  BY DEF Contents, Ops
<1>3. \A i \in Contents(queue) : \A v \in 1..Recorded :
        queue[i].v < v => v \in Fresh(us) \/ Seen(v)
  BY DEF InHistory, After
<1> QED
  BY <1>1, <1>2, <1>3 DEF Sound

LEMMA RequestSound ==
  ASSUME Typed, InQueue, InHistory, NEW b \in Seq(Updates), Begins(b),
         NEW us \in Seq(Updates), ToSet(us) \subseteq ToSet(b), Dense(us),
         Request(us).content # Bad
  PROVE  Sound(Request(us).content, us, Len(us))
<1>1. Recorded \in 0..MaxOps /\ Recorded # Bad
  BY RecordedTyped, TypedIs, ValuesAssumption, BoundsAssumption
<1>2. PICK g \in [0..Len(us) -> ContentStates] :
        /\ g[0] = Recorded
        /\ \A k \in 1..Len(us) : g[k] = Goes(g[k - 1], us[k])
        /\ Request(us).content = g[Len(us)]
  BY <1>1, ContentIs
<1>3. Len(us) \in Nat
  OBVIOUS
<1> DEFINE P == {k \in 0..Len(us) : g[k] = Bad \/ Sound(g[k], us, k)}
<1>4. 0 \in P
  BY <1>2, <1>3, SoundStart
<1>5. ASSUME NEW k \in 1..Len(us), k - 1 \in P PROVE k \in P
  <2>1. g[k] = Goes(g[k - 1], us[k]) /\ k \in 0..Len(us)
    BY <1>2
  <2>2. CASE g[k - 1] = Bad
    BY <2>1, <2>2 DEF Goes
  <2>3. CASE g[k - 1] # Bad
    <3>1. Sound(g[k - 1], us, k - 1) /\ g[k] = Applied(g[k - 1], us[k])
      BY <1>5, <2>1, <2>3 DEF Goes
    <3>2. g[k] # Bad => Sound(g[k], us, k)
      BY <3>1, SoundNext
    <3> QED
      BY <2>1, <3>2
  <2> QED
    BY <2>2, <2>3
<1> HIDE DEF P
<1>6. \A k \in 0..Len(us) : k \in P
  BY <1>3, <1>4, <1>5, Climb
<1>7. Len(us) \in P
  BY <1>3, <1>6
<1> QED
  BY <1>2, <1>7 DEF P

LEMMA RequestHonest ==
  ASSUME Typed, InQueue, InHistory, NEW b \in Seq(Updates), Begins(b),
         NEW us \in Seq(Updates), ToSet(us) \subseteq ToSet(b), Dense(us),
         NEW r, r = Request(us)
  PROVE  /\ Honest(r)
         /\ r.content # Bad =>
              \A k \in Contents(us) : \A v \in 1..us[k].v : v <= r.content \/ Seen(v)
         /\ \A p \in Ops(us) : us[p].v \in r.ops \/ Seen(us[p].v)
<1>1. r.ops = Fresh(us)
  BY DEF Request
<1>2. \A p \in Ops(us) : us[p].v \in r.ops \/ Seen(us[p].v)
  BY <1>1, OpsFresh
<1>3. ASSUME r.content # Bad
      PROVE  /\ Honest(r)
             /\ \A k \in Contents(us) : \A v \in 1..us[k].v : v <= r.content \/ Seen(v)
  <2>1. Sound(r.content, us, Len(us))
    BY <1>3, RequestSound
  <2>2. r.content <= docV
    <3>1. docV \in Nat
      BY BoundsAssumption DEF Typed
    <3> QED
      BY <2>1, <3>1 DEF Sound
  <2>3. \A k \in Contents(us) : k <= Len(us)
    BY DEF Contents
  <2>4. \A i \in Contents(queue) : After(i, r.content, r.ops)
    BY <1>1, <2>1 DEF Sound, After
  <2>5. ASSUME NEW v \in r.ops PROVE v <= r.content
    <3>1. PICK p \in DOMAIN us : us[p] = Op(v)
      BY <1>1 DEF Fresh
    <3>2. ~Seen(v) /\ us[p].v = v /\ p \in Ops(us) /\ p <= Len(us)
      BY <1>1, <3>1 DEF Fresh, Ops, Op
    <3> QED
      BY <2>1, <3>2 DEF Sound
  <2> QED
    BY <2>1, <2>2, <2>3, <2>4, <2>5 DEF Sound, Honest
<1>4. r.content = Bad => Honest(r)
  BY DEF Honest
<1> QED
  BY <1>2, <1>3, <1>4

LEMMA FetchKeeps ==
  ASSUME SkipInv, Calm, Lossless, NEW x \in Workers, Fetch(x)
  PROVE  Lossless'
<1> DEFINE b == w[x].batch
           us == w[x].updates
           q == Request(us)
<1>1. /\ Typed /\ UNCHANGED <<queue, log, docV, web, syncState, late>> /\ w[x].at = "fetch"
      /\ InQueue /\ InHistory /\ Batched(x)
  BY CalmHolds DEF Fetch, world, Lossless
<1>2. b \in Seq(Updates) /\ us \in Seq(Updates) /\ w[x].at \in Flushing
  BY <1>1 DEF Typed, Handlers, Flushing
<1>3. CASE ~InOrder(us)
  <2>1. Fail(x, "hard")
    BY <1>3 DEF Fetch
  <2> QED
    BY <1>1, <1>2, <2>1, FailKept
<1>4. CASE InOrder(us)
  <2>1. /\ Begins(b) /\ ToSet(us) \subseteq ToSet(b) /\ Dense(us)
        /\ \A i \in Contents(b) : b[i] \in ToSet(us)
        /\ \A i \in Ops(b) : b[i] \in ToSet(us) \/ Skipped(x, i)
    BY <1>1 DEF Batched, Filtering
  <2>2. /\ Honest(q)
        /\ q.content # Bad =>
             \A k \in Contents(us) : \A v \in 1..us[k].v : v <= q.content \/ Seen(v)
        /\ \A p \in Ops(us) : us[p].v \in q.ops \/ Seen(us[p].v)
    <3> HIDE DEF b, us
    <3> QED
      BY <1>1, <1>2, <2>1, RequestHonest
  <2> DEFINE r == [w[x] EXCEPT !.at = "send", !.updates = <<>>, !.request = q]
  <2>3. w' = [w EXCEPT ![x] = r]
    BY <1>4 DEF Fetch
  <2>4. r.at = "send" /\ r.request = q /\ r.batch = b /\ r.sync = w[x].sync
    <3> HIDE DEF q
    <3> QED
      BY <1>1 DEF Typed, Handlers
  <2> HIDE DEF r, q
  <2>5. Beside(x) /\ w'[x] = r
    BY <1>1, <2>3, BecomesDoes
  <2>6. ASSUME NEW i PROVE Skipped(x, i)' <=> Skipped(x, i)
    BY <1>1, <2>4, <2>5 DEF Skipped, Pending
  <2>7. q.content # Bad =>
          \A i \in Contents(b) : \A v \in 1..b[i].v : v <= q.content \/ Seen(v)
    <3> SUFFICES ASSUME q.content # Bad, NEW i \in Contents(b), NEW v \in 1..b[i].v
                 PROVE  v <= q.content \/ Seen(v)
      OBVIOUS
    <3>1. b[i] \in ToSet(us) /\ b[i].kind = "content"
      BY <2>1 DEF Contents
    <3>2. PICK k \in DOMAIN us : us[k] = b[i]
      BY <3>1 DEF ToSet
    <3>3. k \in Contents(us) /\ v \in 1..us[k].v
      BY <3>1, <3>2 DEF Contents
    <3> QED
      BY <2>2, <3>3
  <2>8. \A i \in Ops(b) : b[i].v \in q.ops \/ Seen(b[i].v) \/ Skipped(x, i)
    <3> SUFFICES ASSUME NEW i \in Ops(b), b[i] \in ToSet(us)
                 PROVE  b[i].v \in q.ops \/ Seen(b[i].v)
      BY <2>1
    <3>1. PICK k \in DOMAIN us : us[k] = b[i]
      BY DEF ToSet
    <3>2. k \in Ops(us)
      BY <3>1 DEF Ops
    <3> QED
      BY <2>2, <3>1, <3>2
  <2>9. Batched(x)'
    <3>1. Honest(w[x].request)'
      BY <1>1, <2>2, <2>4, <2>5 DEF Honest, After, Contents, Recorded, Seen
    <3>2. Begins(w[x].batch)'
      BY <1>1, <2>1, <2>4, <2>5 DEF Begins
    <3>3. \A v : Seen(v)' <=> Seen(v)
      BY <1>1 DEF Seen
    <3> QED
      BY <2>4, <2>5, <2>6, <2>7, <2>8, <3>1, <3>2, <3>3 DEF Batched, Sending
  <2> QED
    BY <1>1, <1>2, <2>4, <2>5, <2>9, FlushKeeps DEF Flushing
<1> QED
  BY <1>3, <1>4

LEMMA SendKeeps ==
  ASSUME SkipInv, Calm, Lossless, NEW x \in Workers, Send(x)
  PROVE  Lossless'
<1> DEFINE b == w[x].batch
           r == w[x].request
<1>1. /\ Typed /\ UNCHANGED <<queue, log, docV, web, syncState, late>> /\ w[x].at = "send"
      /\ Batched(x)
  BY CalmHolds DEF Send, world, Lossless
<1>2. w[x].at \in Flushing
  BY <1>1 DEF Flushing
<1>3. CASE lock # x
  <2>1. Fail(x, "soft")
    BY <1>3 DEF Send
  <2> QED
    BY <1>1, <1>2, <2>1, FailKept
<1>4. CASE lock = x
  <2> DEFINE pc == IF NoChanges(r) THEN "set" ELSE "sent"
  <2>1. Goto(x, pc)
    BY <1>4 DEF Send
  <2>2. Beside(x) /\ Same(x) /\ w'[x].at = pc
    BY <1>1, <2>1, GotoDoes
  <2>3. /\ Begins(b) /\ Honest(r)
        /\ r.content # Bad =>
             \A i \in Contents(b) : \A v \in 1..b[i].v : v <= r.content \/ Seen(v)
        /\ \A i \in Ops(b) : b[i].v \in r.ops \/ Seen(b[i].v) \/ Skipped(x, i)
    BY <1>1 DEF Batched, Filtering, Sending
  <2>4. /\ \A i : Skipped(x, i)' <=> Skipped(x, i)
        /\ Recorded' = Recorded /\ \A v : Seen(v)' <=> Seen(v)
    BY <1>1, <2>2 DEF Skipped, Pending, Same, Recorded, Seen
  <2>5. Begins(w[x].batch)'
    BY <1>1, <2>2, <2>3 DEF Begins, Same
  <2>6. CASE NoChanges(r)
    <3>1. r.ops = {} /\ r.content = Recorded /\ r.content # Bad
      BY <1>1, <2>6, RecordedTyped, TypedIs, ValuesAssumption, BoundsAssumption DEF NoChanges
    <3>2. w'[x].at = "set" /\ w'[x].batch = b
      BY <2>2, <2>6 DEF Same
    <3>3. Batched(x)'
      BY <2>3, <2>4, <2>5, <3>1, <3>2 DEF Batched, Sending, Held
    <3> QED
      BY <1>1, <1>2, <2>2, <3>2, <3>3, FlushKeeps DEF Flushing
  <2>7. CASE ~NoChanges(r)
    <3>1. w'[x].at = "sent" /\ w'[x].batch = b /\ w'[x].request = r
      BY <2>2, <2>7 DEF Same
    <3>2. Honest(w[x].request)'
      BY <1>1, <2>3, <3>1 DEF Honest, After, Contents, Recorded, Seen
    <3>3. Batched(x)'
      BY <2>3, <2>4, <2>5, <3>1, <3>2 DEF Batched, Sending
    <3> QED
      BY <1>1, <1>2, <2>2, <3>1, <3>3, FlushKeeps DEF Flushing
  <2> QED
    BY <2>6, <2>7
<1> QED
  BY <1>3, <1>4

\* A worker that waits for neither a lock nor a resync.
Apart(h) == h.at \notin {"request", "requested", "clear", "destroy"}

LEMMA RecordsKeeps ==
  ASSUME OrderInv, Typed, Lossless, NEW r, Records(r), Honest(r),
         syncState' = syncState, late' \in {late, None},
         \A y \in Workers :
           w'[y] = w[y] \/ (Batched(y)' /\ Apart(w[y]) /\ Apart(w'[y]))
  PROVE  Lossless'
<1>1. InQueue' /\ InHistory'
  BY RecordsHistory DEF Lossless
<1>2. Pendings'
  <2>1. ASSUME late # None
        PROVE  /\ late.content # Bad =>
                    late.content <= docV /\ \A v \in late.ops : v <= late.content
               /\ late.base # Len(log')
    <3>1. Valid(late) /\ Honest(late)
      BY <2>1 DEF OrderInv, Lossless, Pendings
    <3>2. Len(log') = Len(log) + 1 /\ Len(log) \in Nat
      BY RecordsSeen
    <3> QED
      BY <3>1, <3>2 DEF Valid, Honest
  <2> QED
    BY <2>1 DEF Pendings, Honest, Records
<1>3. \A y \in Workers : Batched(y)'
  BY RecordsBatched DEF Lossless
<1>4. Settled'
  <2>1. \A y \in Workers : w'[y] = w[y] \/ Apart(w'[y])
    OBVIOUS
  <2> QED
    BY <2>1 DEF Lossless, Settled, Apart
<1>5. \A v \in 1..docV' : Covered(v)'
  <2>1. \A y \in Workers : w'[y] = w[y] \/ Apart(w[y])
    OBVIOUS
  <2>2. \A v \in 1..docV : v \in Nat \ {0} /\ Covered(v)
    BY DEF Lossless
  <2>3. docV' = docV
    BY DEF Records
  <2>4. \A y \in Workers : Asking(w[y]) => Asking(w'[y])
    BY <2>1 DEF Apart, Asking
  <2> QED
    BY <2>2, <2>3, <2>4, RecordsCovered
<1> QED
  BY <1>1, <1>2, <1>3, <1>4, <1>5 DEF Lossless

LEMMA LateKeeps ==
  ASSUME OrderInv, SkipInv, Calm, Lossless, RecordLate
  PROVE  Lossless'
<1>1. /\ Typed /\ late # None /\ late' = None /\ w' = w
      /\ UNCHANGED <<queue, docV, web, syncState>>
  BY CalmHolds DEF RecordLate, world
<1>2. CASE Accepts(late)
  <2>1. Records(late) /\ Honest(late)
    BY <1>1, <1>2 DEF Records, RecordLate, Typed, Lossless, Pendings
  <2> QED
    BY <1>1, <2>1, RecordsKeeps
<1>3. CASE ~Accepts(late)
  <2>1. UNCHANGED Past
    BY <1>1, <1>3 DEF RecordLate, Past
  <2>2. InQueue' /\ InHistory' /\ \A y \in Workers : Batched(y)'
    BY <1>1, <2>1, SamePast, SameBatched DEF Lossless
  <2>3. \A v \in 1..docV' : Covered(v)'
    BY <1>1, <2>1, SameCovered DEF Lossless
  <2> QED
    BY <1>1, <2>2, <2>3 DEF Lossless, Settled, Pendings
<1> QED
  BY <1>2, <1>3

LEMMA RecordKeeps ==
  ASSUME OrderInv, SkipInv, Calm, Lossless, NEW x \in Workers, Record(x)
  PROVE  Lossless'
<1> DEFINE b == w[x].batch
           r == w[x].request
<1>1. /\ Typed /\ UNCHANGED <<queue, docV, web, syncState, late>> /\ w[x].at = "sent"
      /\ Batched(x)
  BY CalmHolds DEF Record, world, Lossless
<1>2. w[x].at \in Flushing
  BY <1>1 DEF Flushing
<1>3. CASE ~Accepts(r)
  <2>1. Fail(x, "hard") /\ log' = log
    BY <1>3 DEF Record
  <2> QED
    BY <1>1, <1>2, <2>1, FailKept
<1>4. CASE Accepts(r)
  <2>1. Records(r) /\ Honest(r) /\ Goto(x, "set")
    BY <1>1, <1>4 DEF Records, Record, Typed, Sending, Batched
  <2>2. Beside(x) /\ Same(x) /\ w'[x].at = "set"
    BY <1>1, <2>1, GotoDoes
  <2>3. /\ Begins(b)
        /\ \A i \in Contents(b) : \A v \in 1..b[i].v : v <= r.content \/ Seen(v)
        /\ \A i \in Ops(b) : b[i].v \in r.ops \/ Seen(b[i].v) \/ Skipped(x, i)
    BY <1>1, <1>4 DEF Batched, Filtering, Sending, Accepts
  <2>4. /\ \A i : Skipped(x, i)' <=> Skipped(x, i)
        /\ Begins(w[x].batch)' /\ w'[x].batch = b
    BY <1>1, <2>2, <2>3 DEF Skipped, Pending, Same, Begins
  <2>5. /\ Recorded' = r.content /\ (\A v \in r.ops : Seen(v)')
        /\ \A v : Seen(v) => Seen(v)'
    BY <1>1, <2>1, RecordsSeen
  <2>6. Batched(x)'
    BY <2>2, <2>3, <2>4, <2>5 DEF Batched, Sending, Held
  <2>7. \A y \in Workers : w'[y] = w[y] \/ (Batched(y)' /\ Apart(w[y]) /\ Apart(w'[y]))
    BY <1>1, <2>2, <2>6 DEF Beside, Apart
  <2> HIDE DEF r
  <2> QED
    BY <1>1, <2>1, <2>7, RecordsKeeps
<1> QED
  BY <1>3, <1>4

LEMMA SetStateKeeps ==
  ASSUME SkipInv, Calm, Lossless, NEW x \in Workers, SetState(x)
  PROVE  Lossless'
<1> DEFINE b == w[x].batch
           r == [w[x] EXCEPT !.at = "delete", !.sync = None, !.updates = <<>>, !.request = None]
<1>1. /\ Typed /\ UNCHANGED <<queue, log, docV, web, late>> /\ w[x].at = "set"
      /\ Batched(x) /\ syncState' = Pending(x)
  BY CalmHolds DEF SetState, world, Lossless, Pending
<1>2. w' = [w EXCEPT ![x] = r]
  BY DEF SetState
<1>3. r.at = "delete" /\ r.batch = b /\ r.sync = None
  BY <1>1 DEF Typed, Handlers
<1> HIDE DEF r
<1>4. Beside(x) /\ w'[x] = r
  BY <1>1, <1>2, BecomesDoes
<1>5. \A i : Skipped(x, i)' <=> Skipped(x, i)
  BY <1>1, <1>3, <1>4 DEF Skipped, Pending
<1>6. /\ Begins(b)
      /\ \A i \in Contents(b) : \A v \in 1..b[i].v : Held(v)
      /\ \A i \in Ops(b) : Held(b[i].v) \/ Skipped(x, i)
  BY <1>1 DEF Batched, Filtering
<1>7. Begins(w[x].batch)' /\ \A v : Held(v)' <=> Held(v)
  BY <1>1, <1>3, <1>4, <1>6 DEF Begins, Held, Recorded, Seen
<1>8. Batched(x)'
  BY <1>3, <1>4, <1>5, <1>6, <1>7 DEF Batched, Sending
<1>9. Pendings' /\ ~Asking(w[x])
  BY <1>1, SamePendings DEF Past, Lossless, Asking
<1> QED
  BY <1>1, <1>3, <1>4, <1>8, <1>9, MoveKeeps DEF Critical, Flushing

-----------------------------------------------------------------------------
(***************************************************************************)
(* The batch is deleted.                                                   *)
(***************************************************************************)
Removes(b) == queue' = Without(queue, b) /\ log' = log /\ docV' = docV

\* What is left of the queue stays in its order.
Remains(f, b) ==
  /\ \A i \in DOMAIN queue' : f[i] \in DOMAIN queue /\ queue'[i] = queue[f[i]]
  /\ \A i \in DOMAIN queue' : queue[f[i]] \notin ToSet(b)
  /\ \A i, j \in DOMAIN queue' : i < j <=> f[i] < f[j]
  /\ \A i \in DOMAIN queue : queue[i] \notin ToSet(b) => \E j \in DOMAIN queue' : f[j] = i

LEMMA RemovesRemains ==
  ASSUME queue \in Seq(Updates), NEW b, Removes(b)
  PROVE  /\ queue' \in Seq(Updates)
         /\ \E f : Remains(f, b)
<1> DEFINE r == Without(queue, b)
<1>1. r \in Seq(Updates) /\ \E f : Picks(f, r, queue, b, Len(queue))
  BY WithoutPicks
<1>2. queue' = r
  BY DEF Removes
<1> HIDE DEF r
<1>3. PICK f : Picks(f, r, queue, b, Len(queue))
  BY <1>1
<1>4. DOMAIN r = 1..Len(r) /\ Len(r) \in Nat /\ DOMAIN queue = 1..Len(queue) /\ Len(queue) \in Nat
  BY <1>1
<1>5. /\ \A a \in DOMAIN r : f[a] \in DOMAIN queue /\ r[a] = queue[f[a]]
      /\ \A a \in DOMAIN r : queue[f[a]] \notin ToSet(b)
      /\ \A i \in DOMAIN queue : queue[i] \notin ToSet(b) => \E a \in DOMAIN r : f[a] = i
      /\ \A a, c \in DOMAIN r : a < c => f[a] < f[c]
  BY <1>3, <1>4 DEF Picks
<1>6. ASSUME NEW a \in DOMAIN r, NEW c \in DOMAIN r, f[a] < f[c] PROVE a < c
  <2>1. a \in Nat /\ c \in Nat /\ f[a] \in Nat /\ f[c] \in Nat
    BY <1>4, <1>5
  <2>2. ~(c < a) /\ a # c
    BY <1>5, <1>6, <2>1
  <2> QED
    BY <2>1, <2>2
<1>7. Remains(f, b)
  BY <1>2, <1>5, <1>6 DEF Remains
<1> QED
  BY <1>1, <1>2, <1>7

\* An update after the batch is not one of its ops when it follows a content
\* that is kept.
LEMMA AfterBatch ==
  ASSUME Typed, InQueue, NEW b \in Seq(Updates), Begins(b),
         NEW i \in Contents(queue), queue[i] \notin ToSet(b),
         NEW p \in Ops(queue), i < p, queue[i].v < queue[p].v
  PROVE  queue[p] \notin ToSet(b)
<1>1. queue \in Seq(Updates)
  BY DEF Typed
<1>2. /\ Len(b) \in Nat /\ DOMAIN b = 1..Len(b) /\ DOMAIN queue = 1..Len(queue)
      /\ Len(queue) \in Nat
      /\ \A j \in DOMAIN b : j \in DOMAIN queue /\ b[j] = queue[j]
      /\ \A j \in Ops(b) : j \in Ops(queue) /\ b[j] = queue[j]
      /\ \A j \in Contents(queue) : j <= Len(b) => j \in Contents(b)
  BY <1>1, BatchIs
<1>3. /\ i \in DOMAIN queue /\ p \in DOMAIN queue /\ queue[p].kind = "op"
      /\ queue[i].v \in Nat /\ queue[p].v \in Nat
  BY <1>1, VersionsIs DEF Contents, Ops
<1>4. i > Len(b)
  <2>1. i \notin DOMAIN b
    BY <1>2 DEF ToSet
  <2> QED
    BY <1>2, <1>3, <2>1
<1> SUFFICES ASSUME queue[p] \in ToSet(b) PROVE FALSE
  OBVIOUS
<1>5. PICK j \in DOMAIN b : b[j] = queue[p]
  BY DEF ToSet
<1>6. j \in Ops(b) /\ j \in Ops(queue) /\ queue[j] = queue[p]
  BY <1>2, <1>3, <1>5 DEF Ops
<1>7. j < i
  BY <1>2, <1>3, <1>4
<1>8. queue[j].v <= queue[i].v
  BY <1>6, <1>7 DEF InQueue
<1> QED
  BY <1>3, <1>6, <1>8

LEMMA RemovesQueue ==
  ASSUME Typed, InQueue, NEW b \in Seq(Updates), Begins(b), Removes(b)
  PROVE  InQueue'
<1>1. queue \in Seq(Updates) /\ docV' = docV
  BY DEF Typed, Removes
<1>2. queue' \in Seq(Updates) /\ \E f : Remains(f, b)
  BY <1>1, RemovesRemains
<1>3. PICK f : Remains(f, b)
  BY <1>2
<1>4. /\ \A i \in DOMAIN queue' : f[i] \in DOMAIN queue /\ queue'[i] = queue[f[i]]
      /\ \A i \in DOMAIN queue' : queue[f[i]] \notin ToSet(b)
      /\ \A i, j \in DOMAIN queue' : i < j <=> f[i] < f[j]
      /\ \A i \in DOMAIN queue : queue[i] \notin ToSet(b) => \E j \in DOMAIN queue' : f[j] = i
  BY <1>3 DEF Remains
<1>5. /\ \A i \in Contents(queue') : i \in DOMAIN queue' /\ f[i] \in Contents(queue)
      /\ \A i \in Ops(queue') : i \in DOMAIN queue' /\ f[i] \in Ops(queue)
  BY <1>4 DEF Contents, Ops
<1>6. \A i \in DOMAIN queue' : queue'[i].v <= docV'
  BY <1>1, <1>4 DEF InQueue
<1>7. \A i \in Ops(queue'), j \in Contents(queue') : i < j => queue'[i].v <= queue'[j].v
  BY <1>4, <1>5 DEF InQueue
\* The ops between two contents that are left are left.
<1>8. ASSUME NEW i \in Contents(queue'), NEW p \in Ops(queue), f[i] < p,
             queue[f[i]].v < queue[p].v
      PROVE  \E a \in Ops(queue') : i < a /\ f[a] = p /\ queue'[a].v = queue[p].v
  <2>1. queue[p] \notin ToSet(b)
    BY <1>4, <1>5, <1>8, AfterBatch
  <2>2. PICK a \in DOMAIN queue' : f[a] = p
    BY <1>4, <2>1 DEF Ops
  <2>3. queue'[a] = queue[p] /\ i < a
    BY <1>4, <1>5, <1>8, <2>2
  <2> QED
    BY <2>2, <2>3 DEF Ops
<1>9. ASSUME NEW i \in Contents(queue'), NEW j \in Contents(queue'), i < j
      PROVE  queue'[i].v <= queue'[j].v /\ Between(i, j, queue[j].v)'
  <2>1. f[i] \in Contents(queue) /\ f[j] \in Contents(queue) /\ f[i] < f[j]
    BY <1>4, <1>5, <1>9
  <2>2. queue[f[i]].v <= queue[f[j]].v /\ Between(f[i], f[j], queue[f[j]].v)
    BY <2>1 DEF InQueue
  <2>3. ASSUME NEW v \in 1..queue'[j].v, queue'[i].v < v
        PROVE  \E p \in Ops(queue') : i < p /\ p < j /\ queue'[p].v = v
    <3>1. v \in 1..queue[f[j]].v /\ queue[f[i]].v < v
      BY <1>4, <1>5, <2>3
    <3>2. PICK p \in Ops(queue) : f[i] < p /\ p < f[j] /\ queue[p].v = v
      BY <2>2, <3>1 DEF Between
    <3>3. PICK a \in Ops(queue') : i < a /\ f[a] = p /\ queue'[a].v = queue[p].v
      BY <1>8, <3>1, <3>2
    <3>4. a < j
      BY <1>4, <1>5, <3>2, <3>3
    <3> QED
      BY <3>2, <3>3, <3>4
  <2>4. queue'[i].v <= queue'[j].v
    BY <1>4, <1>5, <2>2
  <2> QED
    BY <2>3, <2>4 DEF Between
<1>10. ASSUME NEW i \in Contents(queue') PROVE Between(i, Len(queue) + 1, docV)'
  <2>1. f[i] \in Contents(queue)
    BY <1>5
  <2>2. Between(f[i], Len(queue) + 1, docV)
    BY <2>1 DEF InQueue
  <2>3. ASSUME NEW v \in 1..docV', queue'[i].v < v
        PROVE  \E p \in Ops(queue') : i < p /\ p < Len(queue') + 1 /\ queue'[p].v = v
    <3>1. v \in 1..docV /\ queue[f[i]].v < v
      BY <1>1, <1>4, <1>5, <2>3
    <3>2. PICK p \in Ops(queue) : f[i] < p /\ queue[p].v = v
      BY <2>2, <3>1 DEF Between
    <3>3. PICK a \in Ops(queue') : i < a /\ f[a] = p /\ queue'[a].v = queue[p].v
      BY <1>8, <3>1, <3>2
    <3>4. a < Len(queue') + 1
      <4>1. Len(queue') \in Nat /\ a \in 1..Len(queue')
        BY <1>2, <1>5
      <4> QED
        BY <4>1
    <3> QED
      BY <3>2, <3>3, <3>4
  <2> QED
    BY <2>3 DEF Between
<1> QED
  BY <1>6, <1>7, <1>9, <1>10 DEF InQueue

\* Fewer contents are on the queue.
Fewer ==
  /\ log' = log /\ docV' = docV
  /\ \A i \in Contents(queue') : \E j \in Contents(queue) : queue[j] = queue'[i]

LEMMA FewerSeen ==
  ASSUME Fewer
  PROVE  /\ Recorded' = Recorded
         /\ \A v : (Seen(v)' <=> Seen(v)) /\ (Held(v)' <=> Held(v))
BY DEF Fewer, Recorded, Seen, Held

LEMMA FewerHistory ==
  ASSUME Fewer, InHistory
  PROVE  InHistory'
<1>1. Recorded' = Recorded /\ \A v : Seen(v)' <=> Seen(v)
  BY FewerSeen
<1>2. ASSUME NEW i \in Contents(queue') PROVE After(i, Recorded, {})'
  <2>1. PICK j \in Contents(queue) : queue[j] = queue'[i]
    BY DEF Fewer
  <2>2. After(j, Recorded, {})
    BY DEF InHistory
  <2> QED
    BY <1>1, <2>1, <2>2 DEF After
<1> QED
  BY <1>1, <1>2 DEF InHistory, Fewer

LEMMA FewerPendings ==
  ASSUME Fewer, Pendings, late' = late
  PROVE  Pendings'
<1> SUFFICES ASSUME late # None, late.content # Bad
             PROVE  /\ late.content <= docV' /\ \A v \in late.ops : v <= late.content
                    /\ late.base = Len(log') =>
                         /\ \A v \in 1..Recorded' : v <= late.content \/ Seen(v)'
                         /\ \A i \in Contents(queue') : After(i, late.content, late.ops)'
  BY DEF Pendings, Honest, After
<1>1. /\ Recorded' = Recorded /\ (\A v : Seen(v)' <=> Seen(v))
      /\ docV' = docV /\ log' = log /\ late' = late
  BY FewerSeen DEF Fewer
<1>2. Honest(late)
  BY DEF Pendings
<1>3. ASSUME late.base = Len(log), NEW i \in Contents(queue')
      PROVE  After(i, late.content, late.ops)'
  <2>1. PICK j \in Contents(queue) : queue[j] = queue'[i]
    BY DEF Fewer
  <2>2. After(j, late.content, late.ops)
    BY <1>2, <1>3 DEF Honest
  <2> QED
    BY <1>1, <2>1, <2>2 DEF After
<1> QED
  BY <1>1, <1>2, <1>3 DEF Honest

\* What a batch that is deleted has is in the history, or covered by a content
\* that is left.
LEMMA RemovesCovered ==
  ASSUME SkipInv, Calm, Lossless, NEW x \in Workers, w[x].at = "delete",
         Removes(w[x].batch),
         \A y \in Workers \ {x} : w'[y] = w[y],
         NEW v \in 1..docV
  PROVE  Covered(v)'
<1> DEFINE b == w[x].batch
<1>1. /\ Typed /\ SkipsEnd /\ Skipping(x) /\ Batched(x) /\ InQueue /\ Covered(v)
      /\ w[x].sync = None
  BY CalmHolds DEF SkipInv, Calm, Lossless, Shaped, Syncing
<1>2. b \in Seq(Updates) /\ queue \in Seq(Updates) /\ v \in Nat
  BY <1>1 DEF Typed, Handlers
<1>3. /\ Begins(b)
      /\ \A i \in Contents(b) : \A u \in 1..b[i].v : Held(u)
      /\ \A i \in Ops(b) : Held(b[i].v) \/ Skipped(x, i)
      /\ Awaits(syncState, b)
  BY <1>1 DEF Batched, Skipping, Filtering, Pending
<1>4. ASSUME NEW i PROVE Skipped(x, i) <=> Ongoing(syncState) \/ \E j \in Contents(b) : i < j
  BY <1>1 DEF Skipped, Pending
<1> HIDE DEF b
<1>5. /\ queue' \in Seq(Updates) /\ \E f : Remains(f, b)
  BY <1>2, RemovesRemains DEF b
<1>6. \A u : Held(u)' <=> Held(u)
  BY DEF Removes, Held, Recorded, Seen
<1>7. \A i \in DOMAIN queue : queue[i] \notin ToSet(b) => \E j \in DOMAIN queue' : queue'[j] = queue[i]
  BY <1>5 DEF Remains
<1>8. /\ Len(b) \in Nat /\ DOMAIN b = 1..Len(b) /\ DOMAIN queue = 1..Len(queue)
      /\ Len(queue) \in Nat
      /\ \A j \in Contents(b) : j \in Contents(queue) /\ b[j] = queue[j]
      /\ \A j \in Ops(b) : j \in Ops(queue) /\ b[j] = queue[j]
      /\ \A j \in Contents(queue) : j <= Len(b) => j \in Contents(b)
  BY <1>2, <1>3, BatchIs
<1>9. /\ \A i \in DOMAIN queue : queue[i].v \in Nat
      /\ \A i \in Ops(b) : b[i].v \in 1..MaxOps
  BY <1>2, VersionsIs
<1>10. CASE Held(v)
  BY <1>6, <1>10 DEF Covered
<1>11. ASSUME NEW i \in Ops(queue), queue[i].v = v PROVE Covered(v)'
  <2>1. CASE queue[i] \notin ToSet(b)
    <3>1. PICK j \in DOMAIN queue' : queue'[j] = queue[i]
      BY <1>7, <2>1 DEF Ops
    <3>2. j \in Ops(queue')
      BY <3>1 DEF Ops
    <3> QED
      BY <1>11, <3>1, <3>2 DEF Covered
  <2>2. CASE queue[i] \in ToSet(b)
    <3>1. PICK j \in DOMAIN b : b[j] = queue[i]
      BY <2>2 DEF ToSet
    <3>2. j \in Ops(b) /\ j \in Ops(queue) /\ b[j] = queue[j] /\ queue[j].v = v /\ j \in 1..Len(b)
      BY <1>8, <1>11, <3>1 DEF Ops
    <3>3. CASE Held(b[j].v)
      BY <1>10, <3>2, <3>3
    <3>4. CASE \E k \in Contents(b) : j < k
      <4>1. PICK k \in Contents(b) : j < k
        BY <3>4
      <4>2. k \in Contents(queue) /\ b[k] = queue[k]
        BY <1>8
      <4>3. v <= b[k].v
        BY <1>1, <3>2, <4>1, <4>2 DEF InQueue
      <4>4. b[k].v \in Nat
        BY <1>9, <4>2 DEF Contents
      <4>5. v \in 1..b[k].v
        BY <4>3, <4>4
      <4>6. Held(v)
        BY <1>3, <4>5
      <4> QED
        BY <1>10, <4>6
    <3>5. CASE Ongoing(syncState)
      <4>1. Queued("content") /\ ~Has(b, "content")
        BY <1>1, <1>3, <3>5 DEF Ongoing, SkipsEnd, Awaits
      <4>2. PICK p \in Contents(queue) : TRUE
        BY <4>1 DEF Queued, Contents
      <4>3. p \in DOMAIN queue /\ p > Len(b) /\ queue[p] \notin ToSet(b)
        <5>1. p \notin Contents(b) /\ p \in DOMAIN queue
          BY <4>1 DEF Has, Contents
        <5>2. queue[p] \notin ToSet(b)
          BY <4>1 DEF Has, Contents, ToSet
        <5> QED
          BY <1>8, <5>1, <5>2
      <4>4. v <= queue[p].v
        <5>1. j < p
          BY <1>8, <3>2, <4>3
        <5> QED
          BY <1>1, <3>2, <5>1 DEF InQueue
      <4>5. PICK q \in DOMAIN queue' : queue'[q] = queue[p]
        BY <1>7, <4>3
      <4>6. q \in Contents(queue')
        BY <4>5 DEF Contents
      <4> QED
        BY <4>4, <4>5, <4>6 DEF Covered
    <3> QED
      BY <1>3, <1>4, <3>2, <3>3, <3>4, <3>5
  <2> QED
    BY <2>1, <2>2
<1>12. ASSUME NEW i \in Contents(queue), v <= queue[i].v PROVE Covered(v)'
  <2>1. CASE queue[i] \notin ToSet(b)
    <3>1. PICK j \in DOMAIN queue' : queue'[j] = queue[i]
      BY <1>7, <2>1 DEF Contents
    <3>2. j \in Contents(queue')
      BY <3>1 DEF Contents
    <3> QED
      BY <1>12, <3>1, <3>2 DEF Covered
  <2>2. CASE queue[i] \in ToSet(b)
    <3>1. PICK j \in DOMAIN b : b[j] = queue[i]
      BY <2>2 DEF ToSet
    <3>2. j \in Contents(b)
      BY <3>1 DEF Contents
    <3>3. v \in 1..b[j].v
      BY <1>2, <1>9, <1>12, <3>1 DEF Contents
    <3> QED
      BY <1>3, <1>10, <3>2, <3>3
  <2> QED
    BY <2>1, <2>2
<1>13. ASSUME NEW y \in Workers, Asking(w[y]) PROVE Covered(v)'
  <2>1. w'[y] = w[y]
    BY <1>13 DEF Asking
  <2> QED
    BY <1>13, <2>1 DEF Covered
<1> QED
  BY <1>1, <1>10, <1>11, <1>12, <1>13 DEF Covered

LEMMA DeleteKeeps ==
  ASSUME SkipInv, Calm, Lossless, NEW x \in Workers, Delete(x)
  PROVE  Lossless'
<1> DEFINE b == w[x].batch
<1>1. /\ Typed /\ Holding /\ UNCHANGED <<log, docV, web, syncState, late>>
      /\ w[x].at = "delete" /\ queue' = Without(queue, b) /\ InQueue /\ Batched(x)
  BY CalmHolds DEF Delete, world, Lossless
<1>2. Beside(x) /\ w'[x].at \in {"read", "release"}
  BY <1>1, DeleteDoes
<1>3. /\ b \in Seq(Updates) /\ queue \in Seq(Updates) /\ Begins(b) /\ Removes(b)
  BY <1>1 DEF Typed, Handlers, Batched, Filtering, Removes
<1>4. InQueue'
  <2> HIDE DEF b
  <2> QED
    BY <1>1, <1>3, RemovesQueue
<1>5. Fewer
  <2> HIDE DEF b
  <2>1. PICK f : Remains(f, b)
    BY <1>3, RemovesRemains
  <2>2. \A i \in DOMAIN queue' : f[i] \in DOMAIN queue /\ queue'[i] = queue[f[i]]
    BY <2>1 DEF Remains
  <2>3. \A i \in Contents(queue') : f[i] \in Contents(queue) /\ queue[f[i]] = queue'[i]
    BY <2>2 DEF Contents
  <2> QED
    BY <1>1, <2>3 DEF Fewer
<1>6. InHistory' /\ Pendings'
  BY <1>1, <1>5, FewerHistory, FewerPendings DEF Lossless
<1>7. \A y \in Workers : Batched(y)'
  <2>1. Batched(x)'
    BY <1>2, NoBatch DEF Batching, Filtering
  <2>2. ASSUME NEW y \in Workers \ {x} PROVE Batched(y)'
    <3>1. w[y].at \notin Batching /\ w'[y] = w[y]
      BY <1>1, <1>2, OneHolds DEF Beside, Critical, Flushing
    <3> QED
      BY <3>1, NoBatch
  <2> QED
    BY <2>1, <2>2
<1>8. \A v \in 1..docV' : Covered(v)'
  BY <1>1, <1>2, <1>3, RemovesCovered DEF Beside
<1>9. Settled'
  <2>1. \A y \in Workers : w'[y] = w[y] \/ w'[y].at \notin {"clear", "destroy", "request"}
    BY <1>2 DEF Beside
  <2> QED
    BY <1>1, <2>1 DEF Lossless, Settled
<1> QED
  BY <1>4, <1>6, <1>7, <1>8, <1>9 DEF Lossless

-----------------------------------------------------------------------------
(***************************************************************************)
(* A resync, and what goes wrong.                                          *)
(***************************************************************************)
LEMMA ResyncKeeps ==
  ASSUME SkipInv, Calm, Lossless, NEW x \in Workers, ClearState(x) \/ SetStarted(x)
  PROVE  Lossless'
<1>1. /\ Typed /\ UNCHANGED <<queue, log, docV, web, late>>
      /\ w[x].at \in {"clear", "start"} /\ w[x].at \in Critical
  BY CalmHolds DEF ClearState, SetStarted, world, Critical, Resyncing
<1>2. PICK pc \in {"destroy", "release"} :
        Goto(x, pc) /\ (pc = "destroy" => w[x].at = "clear")
  BY DEF ClearState, SetStarted
<1>3. Beside(x) /\ Same(x) /\ w'[x].at = pc
  BY <1>1, <1>2, GotoDoes
<1>4. Batched(x)'
  BY <1>3, NoBatch DEF Batching, Filtering
<1>5. Pendings'
  BY <1>1, SamePendings DEF Past, Lossless
<1>6. (w'[x].at \in {"clear", "destroy"} => w'[x].hard) /\ ~Asking(w[x])
  BY <1>1, <1>2, <1>3 DEF Lossless, Settled, Same, Asking
<1> QED
  BY <1>1, <1>3, <1>4, <1>5, <1>6, MoveKeeps

LEMMA DestroyKeeps ==
  ASSUME SkipInv, Calm, Lossless, NEW x \in Workers, DestroyQueue(x)
  PROVE  Lossless'
<1>1. /\ Typed /\ Holding /\ UNCHANGED <<log, docV, web, syncState, late>>
      /\ w[x].at = "destroy" /\ queue' = <<>> /\ Goto(x, "request")
  BY CalmHolds DEF DestroyQueue, world
<1>2. Beside(x) /\ Same(x) /\ w'[x].at = "request"
  BY <1>1, GotoDoes
<1>3. w'[x].hard /\ ~Ongoing(syncState)
  BY <1>1, <1>2 DEF Lossless, Settled, Same, SkipInv, Calm, Skipping
<1>4. Contents(queue') = {} /\ Ops(queue') = {} /\ DOMAIN queue' = {}
  BY <1>1 DEF Contents, Ops
<1>5. InQueue'
  BY <1>4 DEF InQueue
<1>6. Fewer
  BY <1>1, <1>4 DEF Fewer
<1>7. InHistory' /\ Pendings'
  BY <1>1, <1>6, FewerHistory, FewerPendings DEF Lossless
<1>8. ASSUME NEW y \in Workers \ {x}
      PROVE  w'[y] = w[y] /\ w[y].at \notin Critical /\ w[y].at \notin Batching
  BY <1>1, <1>2, OneHolds DEF Beside, Critical, Resyncing
<1>9. \A y \in Workers : Batched(y)'
  <2>1. Batched(x)'
    BY <1>2, NoBatch DEF Batching, Filtering
  <2>2. \A y \in Workers \ {x} : Batched(y)'
    BY <1>8, NoBatch
  <2> QED
    BY <2>1, <2>2
<1>10. Settled'
  BY <1>1, <1>2, <1>3, <1>8 DEF Lossless, Settled, Critical, Resyncing, Ongoing
<1>11. \A v \in 1..docV' : Covered(v)'
  BY <1>2, <1>3 DEF Covered, Asking
<1> QED
  BY <1>5, <1>7, <1>9, <1>10, <1>11 DEF Lossless

LEMMA RequestKeeps ==
  ASSUME SkipInv, Calm, Lossless, NEW x \in Workers, RequestResync(x)
  PROVE  Lossless'
<1>1. /\ Typed /\ UNCHANGED <<queue, log, docV, syncState, late>> /\ w[x].at = "request"
  BY CalmHolds DEF RequestResync
<1>2. Pendings'
  BY <1>1, SamePendings DEF Past, Lossless
<1>3. CASE Ongoing(syncState)
  <2>1. Fail(x, "soft")
    BY <1>3 DEF RequestResync
  <2>2. Beside(x) /\ w'[x].at = "release"
    BY <1>1, <2>1, FailDoes
  <2>3. Batched(x)'
    BY <2>2, NoBatch DEF Batching, Filtering
  <2>4. ~Asking(w[x])
    BY <1>1, <1>3 DEF Lossless, Settled, Asking
  <2> QED
    BY <1>1, <1>2, <2>1, <2>2, <2>3, <2>4, MoveKeeps
<1>4. CASE ~Ongoing(syncState)
  <2>1. Goto(x, "requested")
    BY <1>4 DEF RequestResync
  <2>2. Beside(x) /\ Same(x) /\ w'[x].at = "requested"
    BY <1>1, <2>1, GotoDoes
  <2>3. \A y \in Workers : Asking(w[y]) => Asking(w'[y])
    BY <2>2 DEF Asking, Beside, Same
  <2>4. \A y \in Workers : Batched(y)'
    <3>1. Batched(x)'
      BY <2>2, NoBatch DEF Batching, Filtering
    <3>2. \A y \in Workers \ {x} : Batched(y)'
      BY <1>1, <2>2, SameBatched DEF Past, Beside, Lossless
    <3> QED
      BY <3>1, <3>2
  <2>5. \A v \in 1..docV' : Covered(v)'
    BY <1>1, <2>3, SameCovered DEF Past, Lossless
  <2>6. InQueue' /\ InHistory'
    BY <1>1, SamePast DEF Past, Lossless
  <2>7. Settled'
    <3>1. \A y \in Workers : w'[y] = w[y] \/ w'[y].at = "requested"
      BY <2>2 DEF Beside
    <3> QED
      BY <1>1, <3>1 DEF Lossless, Settled
  <2> QED
    BY <1>2, <2>4, <2>5, <2>6, <2>7 DEF Lossless
<1> QED
  BY <1>3, <1>4

\* A worker dies or gets no answer; a request it has sent may still arrive. A hard
\* resync is not what fails.
LEMMA FaultKeeps ==
  ASSUME SkipInv, Calm, Calm', Lossless, NEW x \in Workers,
         Crash(x) \/ SendTimeout(x) \/ WebFails(x)
  PROVE  Lossless'
<1>1. Typed
  BY CalmHolds
<1>2. CASE Crash(x)
  <2>1. ~Asking(w[x])
    <3>1. CASE Strikes("crash") /\ w[x].at \in Flushing
      BY <3>1 DEF Flushing, Asking
    <3>2. CASE Strikes(IF w[x].hard THEN "hardCrash" ELSE "resyncCrash")
      BY <3>2 DEF Strikes, Calm, Asking
    <3> QED
      BY <1>2, <3>1, <3>2 DEF Crash
  <2>2. UNCHANGED <<queue, log, docV, syncState>> /\ w' = [w EXCEPT ![x] = Idle]
    BY <1>2 DEF Crash
  <2>3. Beside(x) /\ w'[x].at = "idle"
    <3>1. Beside(x) /\ w'[x] = Idle
      BY <1>1, <2>2, BecomesDoes
    <3> QED
      BY <3>1, IdleTyped
  <2>4. Batched(x)'
    BY <2>3, NoBatch DEF Batching, Filtering
  <2>5. late' = late \/ (w[x].at = "sent" /\ late' = w[x].request)
    BY <1>2 DEF Crash
  <2>6. w[x].at = "sent" => Honest(w[x].request)
    BY DEF Lossless, Batched, Sending
  <2>7. Pendings'
    BY <2>2, <2>5, <2>6
      DEF Lossless, Pendings, Honest, After, Contents, Recorded, Seen
  <2> QED
    BY <2>1, <2>2, <2>3, <2>4, <2>7, MoveKeeps
<1>3. CASE SendTimeout(x)
  <2>1. /\ UNCHANGED <<queue, log, docV, syncState>> /\ Fail(x, "soft")
        /\ w[x].at = "sent" /\ late' = w[x].request
    BY <1>3 DEF SendTimeout, world
  <2>2. Beside(x) /\ w'[x].at = "release" /\ ~Asking(w[x])
    BY <1>1, <2>1, FailDoes DEF Asking
  <2>3. Batched(x)'
    BY <2>2, NoBatch DEF Batching, Filtering
  <2>4. Honest(w[x].request)
    BY <2>1 DEF Lossless, Batched, Sending
  <2>5. Pendings'
    BY <2>1, <2>4 DEF Lossless, Pendings, Honest, After, Contents, Recorded, Seen
  <2> QED
    BY <2>1, <2>2, <2>3, <2>5, MoveKeeps
<1>4. CASE WebFails(x)
  <2>1. /\ UNCHANGED <<queue, log, docV, syncState, late>> /\ Fail(x, "soft")
        /\ ~w[x].hard
    BY <1>4 DEF WebFails, Strikes, Calm
  <2>2. Beside(x) /\ w'[x].at = "release" /\ ~Asking(w[x])
    BY <1>1, <2>1, FailDoes DEF Asking
  <2>3. Batched(x)'
    BY <2>2, NoBatch DEF Batching, Filtering
  <2>4. Pendings'
    BY <2>1, SamePendings DEF Past, Lossless
  <2> QED
    BY <2>1, <2>2, <2>3, <2>4, MoveKeeps
<1> QED
  BY <1>2, <1>3, <1>4

\* document-updater, web and time.
LEMMA WorldKept ==
  ASSUME SkipInv, Calm, Calm', Lossless,
         ClientOp \/ QueueStructure \/ QueueContent \/ LockExpires
  PROVE  Lossless'
<1>1. /\ Typed /\ Requesting /\ docV \in Nat /\ MaxOps \in Nat
      /\ web \in [stage : {"idle", "structure", "content"}, for : Workers \cup {None}, n : Nat]
  BY CalmHolds, BoundsAssumption DEF Typed
<1>2. ASSUME NEW u \in Updates, Adds(u), UNCHANGED <<syncState, late>>,
             \A y \in Workers : w'[y] = w[y] \/ (w[y].at = "requested" /\ w'[y].at = "start"),
             w' = w \/ u.kind = "content"
      PROVE  Lossless'
  <2>1. InQueue' /\ InHistory'
    BY <1>1, <1>2, AddsQueue, AddsHistory DEF Lossless
  <2>2. Pendings'
    <3>1. late # None => late \in Requests /\ Honest(late)
      BY <1>1 DEF Typed, Lossless, Pendings
    <3>2. \A r \in Requests : Honest(r) =>
            /\ r.content # Bad => r.content <= docV' /\ \A v \in r.ops : v <= r.content
            /\ r.content # Bad /\ r.base = Len(log') =>
                 /\ \A v \in 1..Recorded' : v <= r.content \/ Seen(v)'
                 /\ \A i \in Contents(queue') : After(i, r.content, r.ops)'
      BY <1>1, <1>2, AddsHonest DEF Honest, After
    <3> QED
      BY <1>2, <3>1, <3>2 DEF Pendings, Honest, After
  <2>3. ASSUME NEW y \in Workers PROVE Batched(y)'
    <3>1. CASE w'[y] = w[y]
      BY <1>1, <1>2, <3>1, AddsBatched DEF Lossless
    <3>2. CASE w'[y].at = "start"
      BY <3>2, NoBatch DEF Batching, Filtering
    <3> QED
      BY <1>2, <3>1, <3>2
  <2>4. Settled'
    BY <1>2 DEF Lossless, Settled
  <2>5. ASSUME NEW v \in 1..docV' PROVE Covered(v)'
    <3>1. v \in 1..docV => Covered(v)
      BY DEF Lossless
    <3>2. (\A y \in Workers : Asking(w[y]) => Asking(w'[y])) \/ u.kind = "content"
      BY <1>2
    <3> QED
      BY <1>1, <1>2, <3>1, <3>2, AddsCovered
  <2> QED
    BY <2>1, <2>2, <2>3, <2>4, <2>5 DEF Lossless
<1>3. CASE ClientOp
  <2>1. /\ UNCHANGED <<log, syncState, late, w>> /\ queue' = Append(queue, Op(docV'))
        /\ docV' = docV + 1 /\ docV' \in 1..MaxOps
    BY <1>1, <1>3 DEF ClientOp
  <2>2. Op(docV') \in Updates /\ Op(docV').kind = "op" /\ Op(docV').v = docV'
    BY <2>1 DEF Op, Updates
  <2>3. Adds(Op(docV'))
    BY <1>1, <2>1, <2>2 DEF Adds
  <2> DEFINE u == Op(docV')
  <2>4. u \in Updates /\ Adds(u)
    BY <2>2, <2>3
  <2> HIDE DEF u
  <2> QED
    BY <1>2, <2>1, <2>4
<1>4. CASE QueueStructure
  <2>1. /\ UNCHANGED <<docV, log, syncState, late, w>> /\ queue' = Append(queue, Structure(web.n))
    BY <1>4 DEF QueueStructure
  <2>2. /\ Structure(web.n) \in Updates /\ Structure(web.n).kind = "structure"
        /\ Structure(web.n).v = 0
    BY <1>1 DEF Structure, Updates
  <2>3. Adds(Structure(web.n))
    BY <1>1, <2>1, <2>2 DEF Adds, Typed
  <2> QED
    BY <1>2, <2>1, <2>2, <2>3
<1>5. CASE QueueContent
  <2>1. /\ UNCHANGED <<docV, log, syncState, late>> /\ queue' = Append(queue, Content(docV, web.n))
        /\ w' = IF web.for = None THEN w ELSE [w EXCEPT ![web.for].at = "start"]
    BY <1>5 DEF QueueContent
  <2>2. /\ Content(docV, web.n) \in Updates /\ Content(docV, web.n).kind = "content"
        /\ Content(docV, web.n).v = docV
    BY <1>1 DEF Content, Updates, Typed
  <2>3. Adds(Content(docV, web.n))
    BY <1>1, <2>1, <2>2 DEF Adds, Typed
  <2>4. \A y \in Workers : w'[y] = w[y] \/ (w[y].at = "requested" /\ w'[y].at = "start")
    <3>1. CASE web.for = None
      BY <2>1, <3>1
    <3>2. CASE web.for # None
      <4> PICK x \in Workers : x = web.for
        BY <1>1, <3>2
      <4>1. Goto(x, "start") /\ w[x].at = "requested"
        BY <1>1, <2>1, <3>2 DEF Goto, Requesting
      <4>2. Beside(x) /\ w'[x].at = "start"
        BY <1>1, <4>1, GotoDoes
      <4> QED
        BY <4>1, <4>2 DEF Beside
    <3> QED
      BY <3>1, <3>2
  <2> QED
    BY <1>2, <2>1, <2>2, <2>3, <2>4
<1>6. CASE LockExpires
  <2>1. UNCHANGED <<queue, log, docV, syncState, late, w>>
    BY <1>6 DEF LockExpires, world
  <2>2. UNCHANGED Past
    BY <2>1 DEF Past
  <2>3. InQueue' /\ InHistory' /\ Pendings' /\ \A y \in Workers : Batched(y)'
    BY <2>1, <2>2, SamePast, SamePendings, SameBatched DEF Lossless
  <2>4. \A v \in 1..docV' : Covered(v)'
    BY <2>1, <2>2, SameCovered DEF Lossless
  <2> QED
    BY <2>1, <2>3, <2>4 DEF Lossless, Settled
<1> QED
  BY <1>3, <1>4, <1>5, <1>6

-----------------------------------------------------------------------------
(***************************************************************************)
(* Nothing is taken back.                                                  *)
(***************************************************************************)
\* A worker that has recorded its batch has it until it is deleted, and one that is
\* to send has its request.
Continues(x) ==
  /\ w[x].at \in {"set", "delete"} =>
       w'[x].at \in {"set", "delete"} /\ w'[x].batch = w[x].batch
  /\ w'[x].at \in {"send", "sent"} =>
       Sending(x) /\ w'[x].batch = w[x].batch /\ w'[x].request = w[x].request

LEMMA ContinuesForward ==
  ASSUME Forward, UNCHANGED <<queue, log, late>>, NEW x \in Workers, Beside(x), Continues(x)
  PROVE  Forward'
<1>1. ASSUME NEW y \in Workers PROVE Done(w[y]) \subseteq Done(w'[y])
  BY DEF Beside, Continues, Done
<1>2. ASSUME NEW y \in Workers, Sending(y)'
      PROVE  Sending(y) /\ w'[y].batch = w[y].batch /\ w'[y].request = w[y].request
  BY <1>2 DEF Beside, Continues, Sending
<1>3. Recorded' = Recorded /\ Contents(queue') = Contents(queue)
  BY DEF Recorded
<1>4. \A c, n : Beyond(c, n)' <=> Beyond(c, n)
  BY <1>3 DEF Beyond
<1>5. late' = None /\ \A i \in DOMAIN log' : log'[i].content <= Recorded'
  BY <1>3 DEF Forward
<1>6. \A i \in Contents(queue') :
        Recorded' <= queue'[i].v \/ \E y \in Workers : i \in Done(w'[y])
  BY <1>1, <1>3 DEF Forward
<1>7. ASSUME NEW y \in Workers, Sending(y)', w'[y].request.content # Bad
      PROVE  Beyond(w[y].request.content, Len(w[y].batch))'
  BY <1>2, <1>4, <1>7 DEF Forward
<1> QED
  BY <1>5, <1>6, <1>7 DEF Forward

\* The steps of a worker that leave the queue and the history as they are.
LEMMA WorkerContinues ==
  ASSUME Typed, NEW x \in Workers,
         \/ StartFlush(x) \/ GetLock(x) \/ LockTimeout(x) \/ Read(x) \/ Filter(x)
         \/ Send(x) \/ SetState(x) \/ Release(x) \/ Report(x)
         \/ \E hard \in BOOLEAN : StartResync(x, hard)
         \/ ClearState(x) \/ RequestResync(x) \/ SetStarted(x)
         \/ (Crash(x) /\ w[x].at \in Resyncing) \/ WebFails(x)
  PROVE  Beside(x) /\ Continues(x) /\ UNCHANGED <<queue, log, late>>
<1>1. w \in [Workers -> Handlers] /\ w[x] \in Handlers
  BY DEF Typed
<1>2. UNCHANGED <<queue, log, late>>
  BY DEF StartFlush, GetLock, LockTimeout, Read, Filter, Send, SetState, Release, Report,
         StartResync, ClearState, RequestResync, SetStarted, Crash, WebFails, Resyncing
<1> SUFFICES Beside(x) /\ Continues(x)
  BY <1>2
<1>3. ASSUME NEW pc, Goto(x, pc), pc \notin {"send", "sent"}, w[x].at \notin {"set", "delete"}
      PROVE  Beside(x) /\ Continues(x)
  BY <1>3, GotoDoes DEF Continues
<1>4. ASSUME NEW e, Fail(x, e), w[x].at \notin {"set", "delete"}
      PROVE  Beside(x) /\ Continues(x)
  BY <1>4, FailDoes DEF Continues
<1>5. ASSUME NEW h, w' = [w EXCEPT ![x] = h], h.at \notin {"send", "sent"},
             w[x].at \notin {"set", "delete"}
      PROVE  Beside(x) /\ Continues(x)
  BY <1>5, BecomesDoes DEF Continues
<1>6. CASE StartFlush(x) \/ ClearState(x) \/ SetStarted(x)
  BY <1>3, <1>6 DEF StartFlush, ClearState, SetStarted
<1>7. CASE GetLock(x)
  <2> DEFINE pc == CASE w[x].at = "lock" -> "read" [] w[x].hard -> "clear" [] OTHER -> "request"
  <2>1. Goto(x, pc) /\ w[x].at \in {"lock", "resyncLock"} /\ pc \notin {"send", "sent"}
    BY <1>7 DEF GetLock
  <2> HIDE DEF pc
  <2> QED
    BY <1>3, <2>1
<1>8. CASE LockTimeout(x)
  <2> DEFINE h == [w[x] EXCEPT !.at = "report", !.error = "soft"]
  <2>1. w' = [w EXCEPT ![x] = h] /\ w[x].at \in {"lock", "resyncLock"} /\ h.at = "report"
    BY <1>1, <1>8 DEF LockTimeout, Handlers
  <2> HIDE DEF h
  <2> QED
    BY <1>5, <2>1
<1>9. CASE Read(x)
  <2>1. w[x].at = "read"
    BY <1>9 DEF Read
  <2>2. CASE Goto(x, "release")
    BY <1>3, <2>1, <2>2
  <2>3. ASSUME NEW n \in 1..Len(queue),
               w' = [w EXCEPT ![x].at = "filter",
                              ![x].batch = SubSeq(queue, 1, n),
                              ![x].more = n < Len(queue)]
        PROVE  Beside(x) /\ Continues(x)
    <3> DEFINE h == [w[x] EXCEPT !.at = "filter", !.batch = SubSeq(queue, 1, n),
                                 !.more = n < Len(queue)]
    <3>1. w' = [w EXCEPT ![x] = h] /\ h.at = "filter"
      BY <1>1, <2>3 DEF Handlers
    <3> HIDE DEF h
    <3> QED
      BY <1>5, <2>1, <3>1
  <2> QED
    BY <1>9, <2>2, <2>3, Zenon DEF Read
<1>10. CASE Filter(x)
  <2>1. w[x].at = "filter"
    BY <1>10 DEF Filter
  <2>2. CASE Fail(x, "soft")
    BY <1>4, <2>1, <2>2
  <2>3. CASE Beside(x) /\ w'[x].at \in {"set", "fetch"}
    BY <2>1, <2>3 DEF Continues
  <2> QED
    BY <1>10, <2>2, <2>3, FilterDoes
<1>11. CASE Send(x)
  <2>1. w[x].at = "send"
    BY <1>11 DEF Send
  <2>2. CASE Fail(x, "soft")
    BY <1>4, <2>1, <2>2
  <2>3. CASE \E pc \in {"set", "sent"} : Goto(x, pc)
    <3>1. Beside(x) /\ Same(x)
      BY <2>3, GotoDoes
    <3> QED
      BY <2>1, <3>1 DEF Continues, Same, Sending
  <2> QED
    BY <1>11, <2>2, <2>3 DEF Send
<1>12. CASE SetState(x)
  <2> DEFINE h == [w[x] EXCEPT !.at = "delete", !.sync = None, !.updates = <<>>,
                               !.request = None]
  <2>1. w' = [w EXCEPT ![x] = h] /\ h.at = "delete" /\ h.batch = w[x].batch
    BY <1>1, <1>12 DEF SetState, Handlers
  <2> HIDE DEF h
  <2>2. Beside(x) /\ w'[x] = h
    BY <2>1, BecomesDoes
  <2> QED
    BY <2>1, <2>2 DEF Continues
<1>13. CASE Release(x)
  <2> DEFINE h == [Idle EXCEPT
                !.at = "report", !.session = w[x].session, !.then = w[x].then,
                !.error = IF w[x].error = "none" /\ lock # x THEN "soft" ELSE w[x].error]
  <2>1. w' = [w EXCEPT ![x] = h] /\ w[x].at = "release" /\ h.at = "report"
    BY <1>13 DEF Release, Idle
  <2> HIDE DEF h
  <2> QED
    BY <1>5, <2>1
<1>14. CASE Report(x)
  <2> DEFINE again == [Idle EXCEPT !.at = "resyncLock", !.then = "last",
                                   !.session = "resync", !.hard = TRUE]
             flush == [Idle EXCEPT !.at = "lock", !.then = w[x].then]
  <2>1. (\E h \in {Idle, again, flush} : w' = [w EXCEPT ![x] = h]) /\ w[x].at = "report"
    BY <1>14 DEF Report
  <2>2. Idle.at = "idle" /\ again.at = "resyncLock" /\ flush.at = "lock"
    BY DEF Idle
  <2> HIDE DEF again, flush
  <2>3. PICK h \in {Idle, again, flush} : w' = [w EXCEPT ![x] = h]
    BY <2>1
  <2> QED
    BY <1>5, <2>1, <2>2, <2>3
<1>15. ASSUME NEW hard \in BOOLEAN, StartResync(x, hard) PROVE Beside(x) /\ Continues(x)
  <2> DEFINE h == [w[x] EXCEPT !.at = "resyncLock", !.session = "resync", !.hard = hard]
  <2>1. w' = [w EXCEPT ![x] = h] /\ w[x].at = "idle" /\ h.at = "resyncLock"
    BY <1>1, <1>15 DEF StartResync, Handlers
  <2> HIDE DEF h
  <2> QED
    BY <1>5, <2>1
<1>16. CASE RequestResync(x)
  <2>1. w[x].at = "request" /\ (Fail(x, "soft") \/ Goto(x, "requested"))
    BY <1>16 DEF RequestResync
  <2> QED
    BY <1>3, <1>4, <2>1
<1>17. CASE Crash(x) /\ w[x].at \in Resyncing
  <2>1. w' = [w EXCEPT ![x] = Idle] /\ Idle.at = "idle" /\ w[x].at \notin {"set", "delete"}
    BY <1>17 DEF Crash, Idle, Resyncing
  <2> QED
    BY <1>5, <2>1
<1>18. CASE WebFails(x)
  BY <1>4, <1>18 DEF WebFails
<1> QED
  BY <1>2, <1>6, <1>7, <1>8, <1>9, <1>10, <1>11, <1>12, <1>13, <1>14, <1>15, <1>16, <1>17, <1>18

\* What the first updates of the queue come to.
LEMMA BeyondNext ==
  ASSUME Typed, InQueue, InHistory, Forward, NEW b \in Seq(Updates), Begins(b),
         \A i \in Contents(queue) : Recorded <= queue[i].v,
         NEW u \in ToSet(b), NEW c \in Nat, Beyond(c, Len(b)), Applied(c, u) # Bad
  PROVE  Beyond(Applied(c, u), Len(b)) /\ Applied(c, u) \in Nat
<1>1. PICK k \in DOMAIN b : b[k] = u
  BY DEF ToSet
<1>2. /\ queue \in Seq(Updates) /\ k \in DOMAIN queue /\ queue[k] = u /\ k <= Len(b)
      /\ k \in Nat /\ Len(b) \in Nat /\ Recorded \in Nat /\ u.v \in Nat
      /\ u.kind \in {"op", "structure", "content"}
      /\ \A i \in DOMAIN queue : i \in Nat /\ queue[i].v \in Nat
  <2>1. queue \in Seq(Updates)
    BY DEF Typed
  <2>2. k \in DOMAIN queue /\ queue[k] = u /\ k <= Len(b) /\ k \in Nat /\ Len(b) \in Nat
    BY <1>1, <2>1, BatchIs
  <2>3. Recorded \in Nat
    BY RecordedTyped, TypedIs, BoundsAssumption
  <2>4. /\ u \in Updates
        /\ \A i \in DOMAIN queue : queue[i].v \in Nat
    BY <2>1, <2>2, VersionsIs
  <2>5. u.v \in Nat /\ u.kind \in {"op", "structure", "content"}
    BY <2>4, BoundsAssumption DEF Updates
  <2> QED
    BY <2>1, <2>2, <2>3, <2>4, <2>5
<1> DEFINE d == Applied(c, u)
<1>3. \/ d = c
      \/ u.kind = "op" /\ d = c + 1 /\ u.v = c + 1
      \/ u.kind = "content" /\ d = u.v
  BY <1>2 DEF Applied
<1>4. CASE u.kind \in {"op", "content"} /\ d = u.v /\ Recorded <= d
  <2>1. ASSUME NEW i \in Contents(queue), Len(b) < i PROVE d <= queue[i].v
    <3>1. k < i /\ i \in DOMAIN queue
      BY <1>2, <2>1 DEF Contents
    <3>2. k \in Ops(queue) \/ k \in Contents(queue)
      BY <1>2, <1>4 DEF Ops, Contents
    <3> QED
      BY <1>2, <1>4, <3>1, <3>2 DEF InQueue
  <2> QED
    BY <1>2, <1>4, <2>1 DEF Beyond
<1>5. u.kind = "content" => Recorded <= u.v
  BY <1>2 DEF Contents
<1>6. Recorded <= c
  BY DEF Beyond
<1> HIDE DEF d
<1>7. d = c \/ (u.kind \in {"op", "content"} /\ d = u.v /\ Recorded <= d)
  BY <1>2, <1>3, <1>5, <1>6
<1> QED
  BY <1>4, <1>7 DEF d

LEMMA RequestBeyond ==
  ASSUME Typed, InQueue, InHistory, Forward, NEW b \in Seq(Updates), Begins(b),
         \A i \in Contents(queue) : Recorded <= queue[i].v,
         NEW us \in Seq(Updates), ToSet(us) \subseteq ToSet(b),
         Request(us).content # Bad
  PROVE  Beyond(Request(us).content, Len(b))
<1>1. Recorded \in 0..MaxOps /\ Recorded # Bad
  BY RecordedTyped, TypedIs, ValuesAssumption, BoundsAssumption
<1>2. PICK g \in [0..Len(us) -> ContentStates] :
        /\ g[0] = Recorded
        /\ \A k \in 1..Len(us) : g[k] = Goes(g[k - 1], us[k])
        /\ Request(us).content = g[Len(us)]
  BY <1>1, ContentIs
<1>3. Len(us) \in Nat
  OBVIOUS
<1> DEFINE P == {k \in 0..Len(us) : g[k] = Bad \/ (g[k] \in Nat /\ Beyond(g[k], Len(b)))}
<1>4. 0 \in P
  BY <1>1, <1>2, <1>3, BoundsAssumption DEF Beyond
<1>5. ASSUME NEW k \in 1..Len(us), k - 1 \in P PROVE k \in P
  <2>1. g[k] = Goes(g[k - 1], us[k]) /\ k \in 0..Len(us)
    BY <1>2
  <2>2. CASE g[k - 1] = Bad
    BY <2>1, <2>2 DEF Goes
  <2>3. CASE g[k - 1] # Bad
    <3> DEFINE c == g[k - 1]
    <3>1. c \in Nat /\ Beyond(c, Len(b)) /\ g[k] = Applied(c, us[k])
      BY <1>5, <2>1, <2>3 DEF Goes
    <3>2. us[k] \in ToSet(b)
      BY DEF ToSet
    <3> HIDE DEF c
    <3>3. g[k] # Bad => g[k] \in Nat /\ Beyond(g[k], Len(b))
      BY <3>1, <3>2, BeyondNext
    <3> QED
      BY <2>1, <3>3
  <2> QED
    BY <2>2, <2>3
<1> HIDE DEF P
<1>6. \A k \in 0..Len(us) : k \in P
  BY <1>3, <1>4, <1>5, Climb
<1>7. Len(us) \in P
  BY <1>3, <1>6
<1> QED
  BY <1>2, <1>7 DEF P

LEMMA FetchForward ==
  ASSUME SkipInv, Calm, Lossless, Forward, NEW x \in Workers, Fetch(x)
  PROVE  Forward'
<1> DEFINE b == w[x].batch
           us == w[x].updates
           q == Request(us)
<1>1. /\ Typed /\ Holding /\ UNCHANGED <<queue, log, late>> /\ w[x].at = "fetch"
      /\ InQueue /\ InHistory /\ Batched(x)
  BY CalmHolds DEF Fetch, Lossless
<1>2. b \in Seq(Updates) /\ us \in Seq(Updates)
  BY <1>1 DEF Typed, Handlers
<1>3. CASE ~InOrder(us)
  <2>1. Fail(x, "hard")
    BY <1>3 DEF Fetch
  <2>2. Beside(x) /\ Continues(x)
    BY <1>1, <2>1, FailDoes DEF Continues
  <2> QED
    BY <1>1, <2>2, ContinuesForward
<1>4. CASE InOrder(us)
  <2> DEFINE r == [w[x] EXCEPT !.at = "send", !.updates = <<>>, !.request = q]
  <2>1. w' = [w EXCEPT ![x] = r]
    BY <1>4 DEF Fetch
  <2>2. r.at = "send" /\ r.request = q /\ r.batch = b
    <3> HIDE DEF q
    <3> QED
      BY <1>1 DEF Typed, Handlers
  <2>3. Beside(x) /\ w'[x] = r
    BY <1>1, <2>1, BecomesDoes
  <2> HIDE DEF r
  <2>4. ASSUME NEW y \in Workers \ {x}
        PROVE  w'[y] = w[y] /\ w[y].at \notin Batching
    BY <1>1, <2>3, OneHolds DEF Beside, Critical, Flushing
  <2>5. \A y \in Workers : Done(w[y]) = {} /\ Done(w'[y]) = {}
    BY <1>1, <2>2, <2>3, <2>4 DEF Done, Batching, Filtering
  <2>6. \A i \in Contents(queue) : Recorded <= queue[i].v
    BY <2>5 DEF Forward
  <2>7. q.content # Bad => Beyond(q.content, Len(b))
    <3>1. Begins(b) /\ ToSet(us) \subseteq ToSet(b)
      BY <1>1 DEF Batched, Filtering
    <3> HIDE DEF b, us
    <3> QED
      BY <1>1, <1>2, <2>6, <3>1, RequestBeyond
  <2> HIDE DEF q
  <2>8. Recorded' = Recorded /\ Contents(queue') = Contents(queue)
    BY <1>1 DEF Recorded
  <2>9. \A y \in Workers \ {x} : ~Sending(y)'
    BY <2>4 DEF Sending, Batching, Filtering
  <2>10. w'[x].request.content # Bad => Beyond(w[x].request.content, Len(w[x].batch))'
    BY <1>1, <2>2, <2>3, <2>7, <2>8 DEF Beyond
  <2> QED
    BY <1>1, <2>6, <2>8, <2>9, <2>10 DEF Forward
<1> QED
  BY <1>3, <1>4

LEMMA RecordForward ==
  ASSUME SkipInv, Calm, Lossless, Forward, NEW x \in Workers, Record(x)
  PROVE  Forward'
<1> DEFINE b == w[x].batch
           r == w[x].request
<1>1. /\ Typed /\ Holding /\ UNCHANGED <<queue, docV, late>> /\ w[x].at = "sent"
      /\ Sending(x)
  BY CalmHolds DEF Record, world, Sending
<1>2. CASE ~Accepts(r)
  <2>1. Fail(x, "hard") /\ log' = log
    BY <1>2 DEF Record
  <2>2. Beside(x) /\ Continues(x)
    BY <1>1, <2>1, FailDoes DEF Continues
  <2> QED
    BY <1>1, <2>1, <2>2, ContinuesForward
<1>3. CASE Accepts(r)
  <2>1. Records(r) /\ Goto(x, "set")
    BY <1>1, <1>3 DEF Records, Record, Typed
  <2>2. Beside(x) /\ Same(x) /\ w'[x].at = "set"
    BY <1>1, <2>1, GotoDoes
  <2>3. /\ Recorded' = r.content /\ r.content \in Nat
        /\ \A i \in DOMAIN log' :
             \/ i \in DOMAIN log /\ log'[i] = log[i]
             \/ log'[i].ops = r.ops /\ log'[i].content = r.content
    BY <1>1, <2>1, RecordsSeen, BoundsAssumption
  <2>4. /\ r.content # Bad /\ Recorded <= r.content
        /\ \A i \in Contents(queue) : Len(b) < i => r.content <= queue[i].v
    BY <1>1, <1>3 DEF Forward, Beyond, Accepts
  <2>5. Recorded \in Nat /\ \A i \in DOMAIN log : log[i].content \in Nat
    BY <1>1, RecordedTyped, LogTyped, TypedIs, BoundsAssumption
  <2>6. \A i \in DOMAIN log' : log'[i].content <= Recorded'
    BY <2>3, <2>4, <2>5 DEF Forward
  <2>7. ASSUME NEW i \in Contents(queue')
        PROVE  Recorded' <= queue'[i].v \/ \E y \in Workers : i \in Done(w'[y])
    <3>1. i \in Contents(queue) /\ queue'[i] = queue[i] /\ i \in Nat \ {0} /\ Len(b) \in Nat
      BY <1>1 DEF Contents, Typed, Handlers
    <3>2. CASE Len(b) < i
      BY <2>3, <2>4, <3>1, <3>2
    <3>3. CASE i <= Len(b)
      <4>1. Done(w'[x]) = 1..Len(b)
        BY <2>2 DEF Done, Same
      <4>2. i \in 1..Len(b)
        BY <3>1, <3>3
      <4> QED
        BY <4>1, <4>2
    <3> HIDE DEF b
    <3> QED
      BY <3>1, <3>2, <3>3
  <2>8. \A y \in Workers : ~Sending(y)'
    <3>1. ~Sending(x)'
      BY <2>2 DEF Sending
    <3>2. ASSUME NEW y \in Workers \ {x} PROVE ~Sending(y)'
      <4>1. w'[y] = w[y] /\ w[y].at \notin Batching
        BY <1>1, <2>2, OneHolds DEF Beside, Critical, Flushing
      <4> QED
        BY <4>1 DEF Sending, Batching, Filtering
    <3> QED
      BY <3>1, <3>2
  <2> QED
    BY <1>1, <2>6, <2>7, <2>8 DEF Forward
<1> QED
  BY <1>2, <1>3

\* The queue is emptied, or what has been recorded is deleted.
LEMMA RemoveForward ==
  ASSUME SkipInv, Calm, Lossless, Forward, NEW x \in Workers, Delete(x) \/ DestroyQueue(x)
  PROVE  Forward'
<1> DEFINE b == w[x].batch
<1>1. /\ Typed /\ Holding /\ UNCHANGED <<log, late>> /\ Beside(x)
      /\ w[x].at \in {"delete", "destroy"} /\ w'[x].at \notin {"send", "sent"}
  <2>1. Typed /\ Holding
    BY CalmHolds
  <2>2. CASE Delete(x)
    BY <2>1, <2>2, DeleteDoes DEF Delete
  <2>3. CASE DestroyQueue(x)
    BY <2>1, <2>3, GotoDoes DEF DestroyQueue
  <2> QED
    BY <2>1, <2>2, <2>3
<1>2. ASSUME NEW y \in Workers \ {x} PROVE w'[y] = w[y] /\ w[y].at \notin Batching
  BY <1>1, OneHolds DEF Beside, Critical, Flushing, Resyncing
<1>3. \A y \in Workers : ~Sending(y)'
  BY <1>1, <1>2 DEF Sending, Batching, Filtering
<1>4. \A y \in Workers \ {x} : Done(w[y]) = {}
  BY <1>2 DEF Done, Batching, Filtering
<1>5. ASSUME NEW i \in Contents(queue') PROVE Recorded <= queue'[i].v
  <2>1. CASE DestroyQueue(x)
    BY <1>5, <2>1 DEF DestroyQueue, Contents
  <2>2. CASE Delete(x)
    <3>1. b \in Seq(Updates) /\ queue \in Seq(Updates) /\ Begins(b) /\ Removes(b)
      BY <1>1, <2>2 DEF Typed, Handlers, Lossless, Batched, Filtering, Removes, Delete, world
    <3>2. Done(w[x]) = 1..Len(b)
      BY <2>2 DEF Done, Delete
    <3> HIDE DEF b
    <3>3. PICK f : Remains(f, b)
      BY <3>1, RemovesRemains
    <3>4. f[i] \in Contents(queue) /\ queue'[i] = queue[f[i]] /\ queue[f[i]] \notin ToSet(b)
      BY <3>3 DEF Remains, Contents
    <3>5. f[i] \notin 1..Len(b)
      BY <3>1, <3>4 DEF Begins, ToSet
    <3> QED
      BY <1>4, <3>2, <3>4, <3>5 DEF Forward
  <2> QED
    BY <2>1, <2>2
<1>6. Recorded' = Recorded /\ late' = None /\ \A i \in DOMAIN log' : log'[i].content <= Recorded'
  BY <1>1 DEF Recorded, Forward
<1> QED
  BY <1>3, <1>5, <1>6 DEF Forward

LEMMA WorldForward ==
  ASSUME SkipInv, Calm, Lossless, Forward,
         ClientOp \/ QueueStructure \/ QueueContent \/ LockExpires
  PROVE  Forward'
<1>1. /\ Typed /\ Requesting /\ UNCHANGED <<log, late>> /\ queue \in Seq(Updates)
      /\ Recorded \in Nat /\ docV \in 0..MaxOps /\ docV \in Nat /\ Recorded <= docV
  <2>1. Typed /\ Requesting /\ Recorded \in Nat
    BY CalmHolds, RecordedTyped, TypedIs, BoundsAssumption
  <2> QED
    BY <2>1, BoundsAssumption
      DEF Typed, Lossless, InHistory, ClientOp, QueueStructure, QueueContent, LockExpires, world
<1>2. ASSUME NEW y \in Workers
      PROVE  /\ Done(w'[y]) = Done(w[y])
             /\ Sending(y)' => Sending(y) /\ w'[y] = w[y]
  <2>1. CASE w' = w
    BY <2>1 DEF Done, Sending
  <2>2. CASE QueueContent /\ web.for # None
    <3> PICK x \in Workers : x = web.for
      BY <1>1, <2>2 DEF Typed
    <3>1. Goto(x, "start") /\ w[x].at = "requested"
      BY <1>1, <2>2 DEF QueueContent, Goto, Requesting
    <3>2. Beside(x) /\ w'[x].at = "start"
      BY <1>1, <3>1, GotoDoes
    <3> QED
      BY <3>1, <3>2 DEF Beside, Done, Sending
  <2> QED
    BY <2>1, <2>2 DEF ClientOp, QueueStructure, QueueContent, LockExpires
<1>3. ASSUME NEW i \in Contents(queue')
      PROVE  (i \in Contents(queue) /\ queue'[i] = queue[i]) \/ queue'[i].v = docV
  <2>1. CASE queue' = queue
    BY <2>1
  <2>2. ASSUME NEW u \in Updates, queue' = Append(queue, u), u.kind = "content" => u.v = docV
        PROVE  (i \in Contents(queue) /\ queue'[i] = queue[i]) \/ queue'[i].v = docV
    BY <1>1, <2>2, AppendIs, GrownIs
  <2>3. CASE ClientOp
    <3> DEFINE u == Op(docV')
    <3>1. u \in Updates /\ u.kind = "op" /\ queue' = Append(queue, u)
      BY <1>1, <2>3, BoundsAssumption DEF ClientOp, Op, Updates
    <3> HIDE DEF u
    <3> QED
      BY <2>2, <3>1
  <2>4. CASE QueueStructure
    <3> DEFINE u == Structure(web.n)
    <3>1. u \in Updates /\ u.kind = "structure" /\ queue' = Append(queue, u)
      BY <1>1, <2>4, BoundsAssumption DEF QueueStructure, Structure, Updates, Typed
    <3> HIDE DEF u
    <3> QED
      BY <2>2, <3>1
  <2>5. CASE QueueContent
    <3> DEFINE u == Content(docV, web.n)
    <3>1. u \in Updates /\ u.v = docV /\ queue' = Append(queue, u)
      BY <1>1, <2>5, BoundsAssumption DEF QueueContent, Content, Updates, Typed
    <3> HIDE DEF u
    <3> QED
      BY <2>2, <3>1
  <2>6. LockExpires => queue' = queue
    BY DEF LockExpires
  <2> QED
    BY <2>1, <2>3, <2>4, <2>5, <2>6
<1>4. Recorded' = Recorded /\ late' = None /\ \A i \in DOMAIN log' : log'[i].content <= Recorded'
  BY <1>1 DEF Recorded, Forward
<1>5. \A i \in Contents(queue') :
        Recorded' <= queue'[i].v \/ \E y \in Workers : i \in Done(w'[y])
  BY <1>1, <1>2, <1>3, <1>4 DEF Forward
<1>6. ASSUME NEW y \in Workers, Sending(y)', w'[y].request.content # Bad
      PROVE  Beyond(w[y].request.content, Len(w[y].batch))'
  <2>1. Sending(y) /\ w'[y] = w[y] /\ Beyond(w[y].request.content, Len(w[y].batch))
    BY <1>2, <1>6 DEF Forward
  <2>2. w[y].request.content <= docV
    BY <1>6, <2>1 DEF Lossless, Batched, Honest
  <2> QED
    BY <1>3, <1>4, <2>1, <2>2 DEF Beyond
<1> QED
  BY <1>4, <1>5, <1>6 DEF Forward

\* A fault once struck stays the only one.
LEMMA CalmBefore ==
  ASSUME Next
  PROVE  (Calm' => Calm) /\ (Steady' => Steady)
<1>1. ASSUME NEW x \in Workers, Step(x) \/ StartFlush(x) PROVE struck' = struck
  BY <1>1 DEF Step, StartFlush, GetLock, LockTimeout, Read, Filter, Fetch, Send, Record, SetState,
              Delete, Release, Report, ClearState, DestroyQueue, RequestResync, SetStarted, world
<1>2. ASSUME NEW x \in Workers, NEW hard \in BOOLEAN, StartResync(x, hard)
      PROVE  struck' = struck
  BY <1>2 DEF StartResync
<1>3. ASSUME NEW x \in Workers, Crash(x) PROVE struck = "none"
  BY <1>3 DEF Crash, Strikes
<1>4. ASSUME NEW x \in Workers, SendTimeout(x) \/ WebFails(x) PROVE struck = "none"
  BY <1>4 DEF SendTimeout, WebFails, Strikes
<1>5. ClientOp \/ QueueStructure \/ QueueContent \/ RecordLate => struck' = struck
  BY DEF ClientOp, QueueStructure, QueueContent, RecordLate, world
<1>6. LockExpires => struck' = struck \/ struck = "none"
  BY DEF LockExpires, Strikes
<1>7. struck' = struck \/ struck = "none"
  BY <1>1, <1>2, <1>3, <1>4, <1>5, <1>6 DEF Next
<1> QED
  BY <1>7 DEF Calm, Steady

LEMMA NextForward ==
  ASSUME SkipInv, LossInv, ForwardInv, Next, Steady'
  PROVE  Forward'
<1>1. Steady /\ Forward
  BY CalmBefore DEF ForwardInv
<1>2. Calm /\ Lossless
  BY <1>1 DEF Calm, Steady, LossInv
<1>3. Typed
  BY <1>2, CalmHolds
<1>4. ASSUME NEW x \in Workers,
             \/ StartFlush(x) \/ GetLock(x) \/ LockTimeout(x) \/ Read(x) \/ Filter(x)
             \/ Send(x) \/ SetState(x) \/ Release(x) \/ Report(x)
             \/ \E hard \in BOOLEAN : StartResync(x, hard)
             \/ ClearState(x) \/ RequestResync(x) \/ SetStarted(x)
             \/ (Crash(x) /\ w[x].at \in Resyncing) \/ WebFails(x)
      PROVE  Forward'
  BY <1>1, <1>3, <1>4, WorkerContinues, ContinuesForward, Zenon
<1>5. ASSUME NEW x \in Workers, Fetch(x) \/ Record(x) \/ Delete(x) \/ DestroyQueue(x)
      PROVE  Forward'
  BY <1>1, <1>2, <1>5, FetchForward, RecordForward, RemoveForward
<1>6. ASSUME NEW x \in Workers, Crash(x) PROVE w[x].at \in Resyncing
  BY <1>6 DEF Crash, Strikes, Steady
<1>7. ASSUME NEW x \in Workers PROVE ~SendTimeout(x)
  BY DEF SendTimeout, Strikes, Steady
<1>8. ~RecordLate
  BY <1>1 DEF RecordLate, Forward
<1>9. CASE ClientOp \/ QueueStructure \/ QueueContent \/ LockExpires
  BY <1>1, <1>2, <1>9, WorldForward
<1> QED
  BY <1>4, <1>5, <1>6, <1>7, <1>8, <1>9 DEF Next, Step

LEMMA InitKept == Init => KeptInv
<1> SUFFICES ASSUME Init PROVE KeptInv
  OBVIOUS
<1>1. OrderInv /\ SkipInv
  BY InitOrder, InitSkips
<1>2. /\ queue = <<>> /\ docV = 0 /\ log = <<>> /\ late = None
      /\ \A x \in Workers : w[x].at = "idle"
  BY DEF Init, Idle
<1>3. Contents(queue) = {} /\ Ops(queue) = {} /\ DOMAIN queue = {} /\ Recorded = 0
  BY <1>2 DEF Contents, Ops, Recorded
<1>4. InQueue /\ InHistory /\ Pendings /\ Settled
  BY <1>2, <1>3 DEF InQueue, InHistory, Pendings, Settled
<1>5. \A x \in Workers : Batched(x)
  BY <1>2 DEF Batched, Filtering, Sending
<1>6. \A v \in 1..docV : Covered(v)
  BY <1>2
<1>7. Forward
  BY <1>2, <1>3 DEF Forward, Sending
<1> QED
  BY <1>1, <1>4, <1>5, <1>6, <1>7 DEF KeptInv, LossInv, Lossless, ForwardInv

LEMMA NextKept == KeptInv /\ [Next]_vars => KeptInv'
<1> SUFFICES ASSUME KeptInv, [Next]_vars PROVE KeptInv'
  OBVIOUS
<1>1. OrderInv /\ SkipInv /\ LossInv /\ ForwardInv /\ OrderInv' /\ SkipInv'
  BY NextOrder, NextSkips DEF KeptInv
<1>2. CASE UNCHANGED vars
  <2>1. UNCHANGED <<struck, queue, log, docV, syncState, late, w>>
    BY <1>2 DEF vars, world
  <2>2. (Calm' <=> Calm) /\ (Steady' <=> Steady)
    BY <2>1 DEF Calm, Steady
  <2>3. ASSUME Lossless PROVE Lossless'
    <3>1. InQueue' /\ InHistory' /\ Pendings' /\ \A y \in Workers : Batched(y)'
      BY <2>1, <2>3, SamePast, SamePendings, SameBatched DEF Past, Lossless
    <3>2. \A v \in 1..docV' : Covered(v)'
      BY <2>1, <2>3, SameCovered DEF Past, Lossless
    <3> QED
      BY <2>1, <2>3, <3>1, <3>2 DEF Lossless, Settled
  <2>4. ASSUME Forward PROVE Forward'
    BY <2>1, <2>4 DEF Forward, Beyond, Recorded, Contents, Sending
  <2> QED
    BY <1>1, <2>2, <2>3, <2>4 DEF KeptInv, LossInv, ForwardInv
<1>3. CASE Next
  <2>1. Steady' => Forward'
    BY <1>1, <1>3, NextForward
  <2> SUFFICES ASSUME Calm' PROVE Lossless'
    BY <1>1, <2>1 DEF KeptInv, LossInv, ForwardInv
  <2>2. Calm /\ Lossless
    BY <1>1, <1>3, CalmBefore DEF LossInv
  <2>3. ASSUME NEW x \in Workers, Step(x) \/ StartFlush(x) PROVE Lossless'
    BY <1>1, <2>2, <2>3, PlainKeeps, ReadKeeps, FilterKeeps, FetchKeeps, SendKeeps, RecordKeeps,
       SetStateKeeps, DeleteKeeps, ResyncKeeps, DestroyKeeps, RequestKeeps DEF Step
  <2>4. ASSUME NEW x \in Workers,
               \/ \E hard \in BOOLEAN : StartResync(x, hard)
               \/ Crash(x) \/ SendTimeout(x) \/ WebFails(x)
        PROVE  Lossless'
    BY <1>1, <2>2, <2>4, PlainKeeps, FaultKeeps
  <2>5. CASE ClientOp \/ QueueStructure \/ QueueContent \/ LockExpires
    BY <1>1, <2>2, <2>5, WorldKept
  <2>6. CASE RecordLate
    BY <1>1, <2>2, <2>6, LateKeeps
  <2> QED
    BY <1>3, <2>3, <2>4, <2>5, <2>6 DEF Next
<1> QED
  BY <1>2, <1>3

\* An op the latest content lacks, though the history has seen it, was taken back.
LEMMA SeenIsRecorded ==
  ASSUME Typed, InHistory, NEW v \in 1..docV, Seen(v)
  PROVE  v <= Recorded \/ TakenBack(v)
<1>1. log \in Seq([ops : SUBSET (1..MaxOps), content : 0..MaxOps]) /\ MaxOps \in Nat
  BY BoundsAssumption DEF Typed
<1>2. PICK i \in DOMAIN log : \E n \in log[i].ops : v <= n
  BY DEF Seen
<1>3. PICK n \in log[i].ops : v <= n
  BY <1>2
<1>4. n <= log[i].content /\ log[i].ops \subseteq 1..MaxOps /\ log[i].content \in 0..MaxOps
  BY LogTyped, TypedIs DEF InHistory
<1>5. v \in Nat /\ n \in Nat /\ log[i].content \in Nat
  BY <1>1, <1>4
<1>6. v <= log[i].content
  BY <1>3, <1>4, <1>5
<1> DEFINE j == Len(log)
<1>7. i \in 1..j /\ j \in DOMAIN log /\ j \in Nat /\ Recorded = log[j].content
  BY <1>1 DEF Recorded
<1>8. Recorded \in Nat
  BY RecordedTyped, TypedIs, <1>1
<1> HIDE DEF j
<1>9. CASE i = j
  BY <1>6, <1>7, <1>9
<1>10. CASE i < j
  <2>1. v <= Recorded \/ Recorded < v
    BY <1>5, <1>8
  <2> QED
    BY <1>6, <1>7, <1>10, <2>1 DEF TakenBack
<1> QED
  BY <1>7, <1>9, <1>10

LEMMA LossGiven == KeptInv => NothingLost
<1> SUFFICES ASSUME KeptInv, Calm, NEW v \in 1..docV
             PROVE  (Steady => Kept(v)) /\ (Kept(v) \/ TakenBack(v))
  BY DEF NothingLost, Calm, Steady
<1>1. Typed /\ Covered(v) /\ InHistory
  BY CalmHolds DEF KeptInv, LossInv, Lossless
<1>2. queue \in Seq(Updates)
  BY <1>1 DEF Typed
<1>3. ASSUME NEW i \in Ops(queue), queue[i].v = v PROVE queue[i] = Op(v)
  BY <1>2, <1>3, VersionsIs
<1>4. Kept(v) \/ Seen(v)
  BY <1>1, <1>3 DEF Covered, Held, Kept, Asking, Ops, Contents
<1>5. ASSUME Steady, TakenBack(v) PROVE v <= Recorded
  <2>1. PICK i \in DOMAIN log : v <= log[i].content
    BY <1>5 DEF TakenBack
  <2>2. log[i].content <= Recorded
    BY <1>5 DEF KeptInv, ForwardInv, Forward
  <2>3. v \in Nat /\ log[i].content \in Nat /\ Recorded \in Nat
    BY <1>1, LogTyped, RecordedTyped, TypedIs, BoundsAssumption
  <2> QED
    BY <2>1, <2>2, <2>3
<1>6. Seen(v) => v <= Recorded \/ TakenBack(v)
  BY <1>1, SeenIsRecorded
<1> QED
  BY <1>4, <1>5, <1>6 DEF Kept

\* No op is lost while no hard resync is cut short: each is in the content the history
\* has, or is on the queue itself or in a content that is, or a hard resync is about to
\* ask for one. Where a flush dies or gets no answer, the history may have had it and
\* have it taken back by the batch that is sent again, and only then.
THEOREM OpsKept == Spec => []NothingLost
<1>1. Init => KeptInv
  BY InitKept
<1>2. KeptInv /\ [Next]_vars => KeptInv'
  BY NextKept
<1>3. KeptInv => NothingLost
  BY LossGiven
<1> QED
  BY <1>1, <1>2, <1>3, PTL DEF Spec

=============================================================================
