----------------------------- MODULE DocUpdater -----------------------------
(***************************************************************************)
(* The document updater for one document: the queue of pending updates,    *)
(* the notification list its dispatchers pop, the Redis lock, the workers  *)
(* that apply updates under it, the HTTP handlers that run under it, and   *)
(* the copies of the document in Redis and in Mongo.                       *)
(*                                                                         *)
(* Text is abstracted to the sequence of the ids of the ops it results     *)
(* from, so the version of a copy is its length.  A worker is one          *)
(* asynchronous task of one of the service's processes; each of its awaits *)
(* is a step.  A client is one editing session (one socket).               *)
(***************************************************************************)
EXTENDS Integers, Sequences, FiniteSets

CONSTANTS
  Workers,      \* tasks that can be in progress at the same time
  Clients,      \* editing sessions
  None,         \* no worker, no update
  Methods,      \* the HTTP methods: a subset of {"get", "set", "flush", "delete"}
  Faults,       \* what may go wrong: a subset of AllFaults
  BatchMax,     \* MAX_OPS_PER_ITERATION
  MaxAge,       \* MAX_AGE_OF_OP
  DocOpsMax,    \* DOC_OPS_MAX_LENGTH
  MaxOps,       \* bound: ops a session makes
  MaxSends,     \* bound: times a session sends one op
  MaxHttp       \* bound: HTTP requests

AllFaults == {"read", "mismatch", "hash", "write", "history", "persist",
              "notify", "slowLock", "docOpsTtl", "crash"}

ASSUME DocUpdaterAssumption ==
  /\ None \notin Workers
  /\ Methods \subseteq {"get", "set", "flush", "delete"}
  /\ Faults \subseteq AllFaults
  /\ BatchMax \in Nat \ {0}
  /\ MaxAge \in Nat
  /\ DocOpsMax \in Nat
  /\ MaxOps \in Nat
  /\ MaxSends \in Nat \ {0}
  /\ MaxHttp \in Nat

VARIABLES
  pending,      \* Redis list PendingUpdates:{doc}
  unnotified,   \* updates pushed there whose notification is still to be pushed
  notes,        \* entries for the document in pending-updates-list
  lock,         \* Redis key Blocking:{doc}: the worker whose value it holds
  loaded,       \* whether Redis holds the document
  lines,        \* doclines in Redis
  unflushed,    \* whether UnflushedTime:{doc} is set
  docOps,       \* Redis list DocOps:{doc}
  history,      \* Redis list ProjectHistory:Ops:{project}, this document's entries
  mongo,        \* the document in Mongo
  published,    \* everything published on applied-ops, in order
  pc,           \* where each worker is
  job,          \* the local variables of each worker
  session,      \* what each client knows
  requests      \* HTTP requests accepted so far

redisVars  == <<loaded, lines, unflushed, docOps>>
queueVars  == <<pending, unnotified, notes>>
outVars    == <<history, mongo, published>>
workerVars == <<pc, job>>
vars == <<queueVars, lock, redisVars, outVars, workerVars, session, requests>>

-----------------------------------------------------------------------------
(* Data *)

Ids == (Clients \X (0..MaxOps)) \cup ({"http"} \X (0..MaxHttp))

Updates ==
  [id : Ids, src : Clients \cup {"http"}, v : Nat, dup : BOOLEAN]

Ops == [id : Ids, src : Clients \cup {"http"}, v : Nat]

Messages == [kind : {"op", "dup", "error"}, id : Ids \cup {None}, v : Nat]

Tasks == {"none", "dispatch"} \cup Methods

\* task: what the worker is doing; batch: updates popped and not applied yet;
\* upd: the update applyUpdate works on; snap: the lines it read or computed;
\* ops: the ops sharejs applied; own: the handler's method has begun;
\* was: the document was loaded already when setDoc read it; req: the request.
Jobs == [task : Tasks, batch : Seq(Updates), upd : Updates \cup {None},
         snap : Seq(Ids), ops : Seq(Ops), own : BOOLEAN, was : BOOLEAN,
         req : 0..MaxHttp]

\* st: whether its last op was answered; n: ops made; base: the version its op in
\* flight was made at, or else the least its next op can have; sends: times the op
\* in flight was sent.
Sessions == [st : {"ready", "waiting", "gone"}, n : 0..MaxOps, base : Nat,
             sends : 0..MaxSends]

NoJob == [task |-> "none", batch |-> <<>>, upd |-> None, snap |-> <<>>,
          ops |-> <<>>, own |-> FALSE, was |-> FALSE, req |-> 0]

Crit == {"fetch", "getDoc", "load", "put", "shareJs", "check", "write",
         "queueOps", "snapshot", "flush", "persist", "clear", "remove",
         "release", "releaseErr"}

PCs == {"idle", "tryLock", "getLock", "slowLock", "continue"} \cup Crit

InCrit(w) == pc[w] \in Crit

Lesser(a, b) == IF a < b THEN a ELSE b

\* The document as the service has accepted it: Redis if it is loaded there.
Log == IF loaded THEN lines ELSE mongo

\* The last n entries of a list (LTRIM key -n -1).
LastEntries(s, n) ==
  SubSeq(s, (Len(s) - Lesser(n, Len(s))) + 1, Len(s))

ErrorMessage == [kind |-> "error", id |-> None, v |-> 0]

\* The versions a client can have heard of: of an op published to it or of a
\* document it fetched.
KnownVersions ==
  0..Len(Log) \cup {published[i].v + 1 :
                      i \in {j \in DOMAIN published : published[j].kind = "op"}}

-----------------------------------------------------------------------------
(* Redis primitives *)

\* Mutant of FirstVersion: off by one.
FirstVersionOffByOne == (Len(lines) - Len(docOps)) - 1

\* getPreviousDocOps: the version of the first op DocOps holds.
FirstVersion == Len(lines) - Len(docOps)

\* The ops from version v up to the one before the document's.
OpsSince(v) == SubSeq(docOps, (v - FirstVersion) + 1, Len(docOps))

\* An op from the update's own source is among those it would be transformed over.
Resubmitted(u) ==
  u.dup /\ \E i \in DOMAIN OpsSince(u.v) : OpsSince(u.v)[i].src = u.src

\* Mutant of Outcome: dupIfSource is ignored.
OutcomeNoDup(u, ver) ==
  IF u.v > ver THEN "future version"
  ELSE IF u.v + MaxAge < ver THEN "too old"
  ELSE IF u.v = ver THEN "apply"
  ELSE IF ~loaded \/ u.v < FirstVersion THEN "ops not available"
  ELSE IF Len(OpsSince(u.v)) # ver - u.v THEN "internal error"
  ELSE "apply"

\* What ShareJS makes of update u, read against a copy at version ver: the checks
\* of makeOpQueue, the first one that fails deciding.
Outcome(u, ver) ==
  IF u.v > ver THEN "future version"
  ELSE IF u.v + MaxAge < ver THEN "too old"
  ELSE IF u.v = ver THEN "apply"
  ELSE IF ~loaded \/ u.v < FirstVersion THEN "ops not available"
  ELSE IF Len(OpsSince(u.v)) # ver - u.v THEN "internal error"
  ELSE IF Resubmitted(u) THEN "already submitted"
  ELSE "apply"


Init ==
  /\ pending = <<>> /\ unnotified = 0 /\ notes = 0
  /\ lock = None
  /\ loaded = FALSE /\ lines = <<>> /\ unflushed = FALSE /\ docOps = <<>>
  /\ history = <<>> /\ mongo = <<>> /\ published = <<>>
  /\ pc = [w \in Workers |-> "idle"]
  /\ job = [w \in Workers |-> NoJob]
  /\ session = [c \in Clients |-> [st |-> "ready", n |-> 0, base |-> 0, sends |-> 0]]
  /\ requests = 0

-----------------------------------------------------------------------------
(* The sessions: what real-time queues for them, and what they hear *)

\* queueChange, first half: RPUSH onto the document's pending updates.
Push(u) == /\ pending' = Append(pending, u)
           /\ unnotified' = unnotified + 1
           /\ UNCHANGED notes

\* A session has one op in flight; it is submitted at a version it has seen.
ClientSend(c) ==
  LET s == session[c] IN
  /\ s.st = "ready" /\ s.n < MaxOps
  /\ \E v \in {x \in KnownVersions : x >= s.base} :
       /\ Push([id |-> <<c, s.n + 1>>, src |-> c, v |-> v, dup |-> FALSE])
       /\ session' = [session EXCEPT ![c] =
            [st |-> "waiting", n |-> s.n + 1, base |-> v, sends |-> 1]]
  /\ UNCHANGED <<lock, redisVars, outVars, workerVars, requests>>

\* No answer in time: retryOp sends the very update it sent before, at the version
\* it had then, with dupIfSource; a new connection leaves this to the timeout.
ClientResend(c) ==
  LET s == session[c] IN
  /\ s.st = "waiting" /\ s.sends < MaxSends
  /\ Push([id |-> <<c, s.n>>, src |-> c, v |-> s.base, dup |-> TRUE])
  /\ session' = [session EXCEPT ![c].sends = @ + 1]
  /\ UNCHANGED <<lock, redisVars, outVars, workerVars, requests>>

\* Its own op, or the acknowledgement of a duplicate, reaches the session.
ClientAck(c) ==
  LET s == session[c] IN
  /\ s.st = "waiting"
  /\ \E i \in DOMAIN published :
       /\ published[i].kind \in {"op", "dup"} /\ published[i].id = <<c, s.n>>
       /\ session' = [session EXCEPT ![c] =
            [st |-> "ready", n |-> s.n, base |-> published[i].v + 1, sends |-> 0]]
  /\ UNCHANGED <<queueVars, lock, redisVars, outVars, workerVars, requests>>

\* An error disconnects every session in the room; the user loads the document
\* again in a new session.
ClientGone(c) ==
  /\ session[c].st # "gone"
  /\ \E i \in DOMAIN published : published[i].kind = "error"
  /\ session' = [session EXCEPT ![c].st = "gone"]
  /\ UNCHANGED <<queueVars, lock, redisVars, outVars, workerVars, requests>>

\* queueChange, second half: RPUSH onto pending-updates-list, which may fail.
Notify ==
  /\ unnotified > 0
  /\ unnotified' = unnotified - 1
  /\ \/ notes' = notes + 1
     \/ "notify" \in Faults /\ UNCHANGED notes
  /\ UNCHANGED <<pending, lock, redisVars, outVars, workerVars, session, requests>>

-----------------------------------------------------------------------------
(* Steps of a worker *)

Goto(w, place) == pc' = [pc EXCEPT ![w] = place]

\* Mutant of Fail: the error is not published.
FailSilently(w) ==
  /\ Goto(w, "releaseErr")
  /\ job' = [job EXCEPT ![w] = NoJob]
  /\ UNCHANGED published

\* An exception inside the locked section: the rest of the batch is dropped and
\* the lock released; applyUpdate publishes the error first.
Fail(w) ==
  /\ Goto(w, "releaseErr")
  /\ job' = [job EXCEPT ![w] = NoJob]
  /\ published' = IF job[w].upd # None THEN Append(published, ErrorMessage)
                                       ELSE published

\* Take up the next update of the batch, or what comes after the last one.
Advance(w, batch) ==
  LET j == [job[w] EXCEPT !.snap = <<>>, !.ops = <<>>, !.upd = None, !.batch = <<>>]
      method == j.task \in Methods
  IN  \/ /\ batch # <<>>
         /\ Goto(w, "getDoc")
         /\ job' = [job EXCEPT ![w] = [j EXCEPT !.upd = Head(batch), !.batch = Tail(batch)]]
      \/ /\ batch = <<>> /\ j.own                    \* setDoc has applied its update
         /\ Goto(w, "flush")
         /\ job' = [job EXCEPT ![w] = j]
      \/ /\ batch = <<>> /\ ~j.own /\ method          \* now the handler's method
         /\ Goto(w, IF j.task \in {"get", "set"} THEN "getDoc" ELSE "flush")
         /\ job' = [job EXCEPT ![w] = [j EXCEPT !.own = TRUE]]
      \/ /\ batch = <<>> /\ ~j.own /\ ~method
         /\ Goto(w, "release")
         /\ job' = [job EXCEPT ![w] = j]

\* getDoc returns the given lines: to applyUpdate, to the get handler, or to
\* setDoc, which makes an update of the difference, if there is one.
HaveDoc(w, text, hit) ==
  LET j == job[w] IN
  \/ /\ j.upd # None
     /\ Goto(w, "shareJs")
     /\ job' = [job EXCEPT ![w].snap = text]
  \/ /\ j.upd = None /\ j.task = "get"
     /\ Goto(w, "release")
     /\ job' = [job EXCEPT ![w].snap = <<>>]
  \/ /\ j.upd = None /\ j.task = "set"
     /\ Goto(w, "flush")
     /\ job' = [job EXCEPT ![w] = [j EXCEPT !.snap = <<>>, !.was = hit]]
  \/ /\ j.upd = None /\ j.task = "set"
     /\ Goto(w, "getDoc")
     /\ job' = [job EXCEPT ![w] =
          [j EXCEPT !.snap = <<>>, !.was = hit,
                    !.upd = [id |-> <<"http", j.req>>, src |-> "http",
                             v |-> Len(text), dup |-> FALSE]]]

\* After the flush: flushAndDeleteDoc goes on to remove the document.
AfterFlush(w) ==
  /\ Goto(w, IF job[w].task = "delete" \/ (job[w].task = "set" /\ ~job[w].was)
             THEN "remove" ELSE "release")
  /\ job' = [job EXCEPT ![w].snap = <<>>]

\* A dispatcher pops a notification and starts a task for it.
TakeNotification(w) ==
  /\ pc[w] = "idle" /\ notes > 0
  /\ notes' = notes - 1
  /\ Goto(w, "tryLock")
  /\ job' = [job EXCEPT ![w].task = "dispatch"]
  /\ UNCHANGED <<pending, unnotified, lock, redisVars, outVars, session, requests>>

\* Mutant of HttpRequest: getDoc is called without the lock.
HttpRequestNoLock(w) ==
  /\ pc[w] = "idle" /\ requests < MaxHttp
  /\ requests' = requests + 1
  /\ \E m \in Methods :
       /\ Goto(w, IF m = "get" THEN "getDoc" ELSE "getLock")
       /\ job' = [job EXCEPT ![w] =
            [@ EXCEPT !.task = m, !.req = requests + 1, !.own = (m = "get")]]
  /\ UNCHANGED <<queueVars, lock, redisVars, outVars, session>>

\* A request for one of the ...WithLock methods.
HttpRequest(w) ==
  /\ pc[w] = "idle" /\ requests < MaxHttp
  /\ requests' = requests + 1
  /\ Goto(w, "getLock")
  /\ \E m \in Methods :
       job' = [job EXCEPT ![w] = [@ EXCEPT !.task = m, !.req = requests + 1]]
  /\ UNCHANGED <<queueVars, lock, redisVars, outVars, session>>

\* Mutant of Acquire: SET without NX.
AcquireAlways(w) ==
  /\ pc[w] \in {"tryLock", "getLock"}
  /\ lock' = w
  /\ Goto(w, "fetch")
  /\ UNCHANGED <<queueVars, redisVars, outVars, job, session, requests>>

\* SET NX succeeds, for a dispatched task or for a handler that polls.
Acquire(w) ==
  /\ pc[w] \in {"tryLock", "getLock"} /\ lock = None
  /\ lock' = w
  /\ Goto(w, "fetch")
  /\ UNCHANGED <<queueVars, redisVars, outVars, job, session, requests>>

\* SET NX succeeds but took longer than MAX_REDIS_REQUEST_LENGTH: tryLock frees
\* the lock and says it did not get it.
AcquireSlowly(w) ==
  /\ "slowLock" \in Faults
  /\ pc[w] \in {"tryLock", "getLock"} /\ lock = None
  /\ lock' = w
  /\ Goto(w, "slowLock")
  /\ UNCHANGED <<queueVars, redisVars, outVars, job, session, requests>>

\* A dispatched task gives up, a handler polls on.
FreeSlowLock(w) ==
  /\ pc[w] = "slowLock"
  /\ lock' = IF lock = w THEN None ELSE lock
  /\ IF job[w].task = "dispatch"
     THEN Goto(w, "idle") /\ job' = [job EXCEPT ![w] = NoJob]
     ELSE Goto(w, "getLock") /\ UNCHANGED job
  /\ UNCHANGED <<queueVars, redisVars, outVars, session, requests>>

\* The lock is taken: a dispatched task gives up at once (its holder looks again
\* after releasing), a handler gives up after MAX_LOCK_WAIT_TIME.
GiveUpLock(w) ==
  /\ pc[w] \in {"tryLock", "getLock"} /\ lock # None
  /\ Goto(w, "idle")
  /\ job' = [job EXCEPT ![w] = NoJob]
  /\ UNCHANGED <<queueVars, lock, redisVars, outVars, session, requests>>

\* getPendingUpdatesForDoc: LRANGE and LTRIM in one MULTI.
Fetch(w) ==
  LET n == Lesser(BatchMax, Len(pending)) IN
  /\ pc[w] = "fetch"
  /\ pending' = SubSeq(pending, n + 1, Len(pending))
  /\ Advance(w, SubSeq(pending, 1, n))
  /\ UNCHANGED <<unnotified, notes, lock, redisVars, outVars, session, requests>>

\* DocumentManager.getDoc asks Redis.
ReadDoc(w) ==
  /\ pc[w] = "getDoc"
  /\ IF loaded THEN HaveDoc(w, lines, TRUE)
               ELSE Goto(w, "load") /\ UNCHANGED job
  /\ UNCHANGED <<queueVars, lock, redisVars, outVars, session, requests>>

\* ... then the persistence API ...
LoadDoc(w) ==
  /\ pc[w] = "load"
  /\ Goto(w, "put")
  /\ job' = [job EXCEPT ![w].snap = mongo]
  /\ UNCHANGED <<queueVars, lock, redisVars, outVars, session, requests>>

\* ... and puts what it got into Redis.
PutDoc(w) ==
  /\ pc[w] = "put"
  /\ loaded' = TRUE /\ lines' = job[w].snap
  /\ HaveDoc(w, job[w].snap, FALSE)
  /\ UNCHANGED <<queueVars, lock, unflushed, docOps, outVars, session, requests>>

\* Redis answers late, or Redis or the persistence API with an error.
ReadFails(w) ==
  /\ "read" \in Faults
  /\ pc[w] \in {"getDoc", "load", "put", "flush"}
  /\ Fail(w)
  /\ UNCHANGED <<queueVars, lock, redisVars, history, mongo, session, requests>>

\* ShareJS refuses the update: its version, its age, the ops to transform it
\* against, or (a fault) a delete component that does not match the text.
Reject(w) ==
  /\ pc[w] = "shareJs"
  /\ \/ Outcome(job[w].upd, Len(job[w].snap)) \notin {"apply", "already submitted"}
     \/ "mismatch" \in Faults
  /\ Fail(w)
  /\ UNCHANGED <<queueVars, lock, redisVars, history, mongo, session, requests>>

\* A duplicate is published for its source to see, at the version of the first
\* op of that source, and not applied.
Duplicate(w) ==
  LET u == job[w].upd
      since == OpsSince(u.v)
  IN
  /\ pc[w] = "shareJs"
  /\ Outcome(u, Len(job[w].snap)) = "already submitted"
  /\ \E i \in DOMAIN since :
       /\ since[i].src = u.src
       /\ \A k \in 1..(i - 1) : since[k].src # u.src
       /\ published' = Append(published, [kind |-> "dup", id |-> u.id, v |-> u.v + i - 1])
  /\ Goto(w, "check")
  /\ UNCHANGED <<queueVars, lock, redisVars, history, mongo, job, session, requests>>

\* The update is transformed and applied to the copy read, and published: Redis
\* does not have it yet.
Apply(w) ==
  LET j == job[w]
      v == Len(j.snap)
  IN  /\ pc[w] = "shareJs"
      /\ Outcome(j.upd, v) = "apply"
      /\ published' = Append(published, [kind |-> "op", id |-> j.upd.id, v |-> v])
      /\ Goto(w, "check")
      /\ job' = [job EXCEPT ![w] =
           [j EXCEPT !.snap = Append(@, j.upd.id),
                     !.ops = <<[id |-> j.upd.id, src |-> j.upd.src, v |-> v]>>]]
      /\ UNCHANGED <<queueVars, lock, redisVars, history, mongo, session, requests>>

\* The size or the hash of the result is found wrong after it was published.
ApplyFails(w) ==
  LET u == job[w].upd IN
  /\ "hash" \in Faults
  /\ pc[w] = "shareJs"
  /\ Outcome(u, Len(job[w].snap)) = "apply"
  /\ published' = published \o
       <<[kind |-> "op", id |-> u.id, v |-> Len(job[w].snap)], ErrorMessage>>
  /\ Goto(w, "releaseErr")
  /\ job' = [job EXCEPT ![w] = NoJob]
  /\ UNCHANGED <<queueVars, lock, redisVars, history, mongo, session, requests>>

\* updateDocument compares the version in Redis with the one it is given ...
VersionsAgree(w) ==
  loaded /\ Len(lines) + Len(job[w].ops) = Len(job[w].snap)

\* ... and goes on if they are what they should be ...
Check(w) ==
  /\ pc[w] = "check"
  /\ VersionsAgree(w)
  /\ Goto(w, "write")
  /\ UNCHANGED <<queueVars, lock, redisVars, outVars, job, session, requests>>

\* ... or throws; so does a Redis error, before anything is written.
CheckFails(w) ==
  /\ pc[w] \in {"check", "write"}
  /\ \/ pc[w] = "check" /\ ~VersionsAgree(w)
     \/ "write" \in Faults
  /\ Fail(w)
  /\ UNCHANGED <<queueVars, lock, redisVars, history, mongo, session, requests>>

\* Mutant of Write: UnflushedTime is not set.
WriteUnmarked(w) ==
  LET j == job[w] IN
  /\ pc[w] = "write"
  /\ loaded' = TRUE /\ lines' = j.snap /\ UNCHANGED unflushed
  /\ docOps' = LastEntries(docOps, DocOpsMax) \o j.ops
  /\ IF j.ops = <<>> THEN Advance(w, j.batch)
                     ELSE Goto(w, "queueOps") /\ UNCHANGED job
  /\ UNCHANGED <<queueVars, lock, outVars, session, requests>>

\* ... and then writes: MSET, LTRIM, RPUSH and SET NX in one MULTI.
Write(w) ==
  LET j == job[w] IN
  /\ pc[w] = "write"
  /\ loaded' = TRUE /\ lines' = j.snap /\ unflushed' = TRUE
  /\ docOps' = LastEntries(docOps, DocOpsMax) \o j.ops
  /\ IF j.ops = <<>> THEN Advance(w, j.batch)
                     ELSE Goto(w, "queueOps") /\ UNCHANGED job
  /\ UNCHANGED <<queueVars, lock, outVars, session, requests>>

\* Mutant of QueueOps: LPUSH for RPUSH.
QueueOpsFirst(w) ==
  LET j == job[w] IN
  /\ pc[w] = "queueOps"
  /\ history' = j.ops \o history
  /\ Advance(w, j.batch)
  /\ UNCHANGED <<queueVars, lock, redisVars, mongo, published, session, requests>>

\* The applied op goes to the project history queue; an error there is only
\* counted.  If tracked changes collapsed, a snapshot is recorded next.
QueueOps(w) ==
  LET j == job[w] IN
  /\ pc[w] = "queueOps"
  /\ \/ history' = history \o j.ops
     \/ "history" \in Faults /\ UNCHANGED history
  /\ \/ Advance(w, j.batch)
     \/ Goto(w, "snapshot") /\ UNCHANGED job
  /\ UNCHANGED <<queueVars, lock, redisVars, mongo, published, session, requests>>

\* recordSnapshot, a call to Mongo.
Snapshot(w) ==
  /\ pc[w] = "snapshot"
  /\ Advance(w, job[w].batch)
  /\ UNCHANGED <<queueVars, lock, redisVars, outVars, session, requests>>

SnapshotFails(w) ==
  /\ "persist" \in Faults
  /\ pc[w] = "snapshot"
  /\ Fail(w)
  /\ UNCHANGED <<queueVars, lock, redisVars, history, mongo, session, requests>>

\* Mutant of Flush: the test of unflushedTime is inverted.
FlushClean(w) ==
  /\ pc[w] = "flush"
  /\ IF loaded /\ ~unflushed
     THEN Goto(w, "persist") /\ job' = [job EXCEPT ![w].snap = lines]
     ELSE AfterFlush(w)
  /\ UNCHANGED <<queueVars, lock, redisVars, outVars, session, requests>>

\* flushDocIfLoaded: nothing to do if the document is not in Redis or unmodified.
Flush(w) ==
  /\ pc[w] = "flush"
  /\ IF loaded /\ unflushed
     THEN Goto(w, "persist") /\ job' = [job EXCEPT ![w].snap = lines]
     ELSE AfterFlush(w)
  /\ UNCHANGED <<queueVars, lock, redisVars, outVars, session, requests>>

\* The persistence API stores the lines that were read from Redis.
Persist(w) ==
  /\ pc[w] = "persist"
  /\ mongo' = job[w].snap
  /\ Goto(w, "clear")
  /\ UNCHANGED <<queueVars, lock, redisVars, history, published, job, session, requests>>

\* Mutant of PersistFails: the error is ignored, and a delete goes on to remove
\* the document.
PersistFailsIgnored(w) ==
  /\ "persist" \in Faults
  /\ pc[w] = "persist"
  /\ AfterFlush(w)
  /\ UNCHANGED <<queueVars, lock, redisVars, outVars, session, requests>>

\* The persistence API answers with an error: the exception ends the task.
PersistFails(w) ==
  /\ "persist" \in Faults
  /\ pc[w] = "persist"
  /\ Fail(w)
  /\ UNCHANGED <<queueVars, lock, redisVars, history, mongo, session, requests>>

\* clearUnflushedTime, after the answer.
ClearUnflushed(w) ==
  /\ pc[w] = "clear"
  /\ unflushed' = FALSE
  /\ AfterFlush(w)
  /\ UNCHANGED <<queueVars, lock, loaded, lines, docOps, outVars, session, requests>>

\* Mutant of Remove: DocOps is deleted too.
RemoveAll(w) ==
  /\ pc[w] = "remove"
  /\ loaded' = FALSE /\ lines' = <<>> /\ unflushed' = FALSE /\ docOps' = <<>>
  /\ Goto(w, "release")
  /\ UNCHANGED <<queueVars, lock, outVars, job, session, requests>>

\* removeDocFromMemory deletes every key of the document except DocOps.
Remove(w) ==
  /\ pc[w] = "remove"
  /\ loaded' = FALSE /\ lines' = <<>> /\ unflushed' = FALSE
  /\ Goto(w, "release")
  /\ UNCHANGED <<queueVars, lock, docOps, outVars, job, session, requests>>

\* Compare and delete.  Only a task that did not fail, and still owned the lock,
\* looks for more updates.
Release(w) ==
  /\ pc[w] \in {"release", "releaseErr"}
  /\ lock' = IF lock = w THEN None ELSE lock
  /\ Goto(w, IF pc[w] = "release" /\ lock = w THEN "continue" ELSE "idle")
  /\ job' = [job EXCEPT ![w] = NoJob]
  /\ UNCHANGED <<queueVars, redisVars, outVars, session, requests>>

\* Mutant of LookAgain: nobody looks at the queue after releasing the lock.
NeverLookAgain(w) ==
  /\ pc[w] = "continue"
  /\ Goto(w, "idle")
  /\ UNCHANGED <<queueVars, lock, redisVars, outVars, job, session, requests>>

\* continueProcessingUpdatesWithLock: LLEN, after the lock was released.
LookAgain(w) ==
  /\ pc[w] = "continue"
  /\ IF pending = <<>>
     THEN Goto(w, "idle") /\ UNCHANGED job
     ELSE Goto(w, "tryLock") /\ job' = [job EXCEPT ![w].task = "dispatch"]
  /\ UNCHANGED <<queueVars, lock, redisVars, outVars, session, requests>>

-----------------------------------------------------------------------------
(* Redis and the processes *)

\* The TTL of the lock runs out after its holder died.
LockExpires ==
  /\ lock # None
  /\ pc[lock] \notin Crit \cup {"slowLock"}
  /\ lock' = None
  /\ UNCHANGED <<queueVars, redisVars, outVars, workerVars, session, requests>>

\* The process of a task dies.
Crash(w) ==
  /\ "crash" \in Faults
  /\ pc[w] # "idle"
  /\ Goto(w, "idle")
  /\ job' = [job EXCEPT ![w] = NoJob]
  /\ UNCHANGED <<queueVars, lock, redisVars, outVars, session, requests>>

\* DocOps:{doc} was not pushed to for DOC_OPS_TTL.
DocOpsExpire ==
  /\ "docOpsTtl" \in Faults
  /\ docOps # <<>>
  /\ docOps' = <<>>
  /\ UNCHANGED <<queueVars, lock, loaded, lines, unflushed, outVars, workerVars,
                 session, requests>>

Step(w) ==
  \/ Acquire(w) \/ FreeSlowLock(w) \/ GiveUpLock(w)
  \/ Fetch(w) \/ ReadDoc(w) \/ LoadDoc(w) \/ PutDoc(w)
  \/ Reject(w) \/ Duplicate(w) \/ Apply(w)
  \/ Check(w) \/ CheckFails(w) \/ Write(w) \/ QueueOps(w) \/ Snapshot(w)
  \/ Flush(w) \/ Persist(w) \/ ClearUnflushed(w) \/ Remove(w)
  \/ Release(w) \/ LookAgain(w)

Failure(w) ==
  \/ AcquireSlowly(w) \/ ReadFails(w) \/ ApplyFails(w) \/ SnapshotFails(w)
  \/ PersistFails(w) \/ Crash(w)

Client(c) == ClientSend(c) \/ ClientResend(c) \/ ClientAck(c) \/ ClientGone(c)

Next ==
  \/ \E c \in Clients : Client(c)
  \/ Notify
  \/ \E w \in Workers : TakeNotification(w) \/ HttpRequest(w) \/ Step(w) \/ Failure(w)
  \/ LockExpires \/ DocOpsExpire

Spec == Init /\ [][Next]_vars

\* The one overrun UpdateManager calls "ok": the lock expires while its holder
\* still waits for Mongo to record a snapshot.
LockExpiresInSnapshot ==
  /\ lock # None /\ pc[lock] = "snapshot"
  /\ lock' = None
  /\ UNCHANGED <<queueVars, redisVars, outVars, workerVars, session, requests>>

OverrunSpec == Init /\ [][Next \/ LockExpiresInSnapshot]_vars

-----------------------------------------------------------------------------
(* Properties *)

\* Every variable holds what the code stores in it.
TypeOK ==
  /\ pending \in Seq(Updates) /\ unnotified \in Nat /\ notes \in Nat
  /\ lock \in Workers \cup {None}
  /\ loaded \in BOOLEAN /\ lines \in Seq(Ids) /\ unflushed \in BOOLEAN
  /\ docOps \in Seq(Ops) /\ history \in Seq(Ops) /\ mongo \in Seq(Ids)
  /\ published \in Seq(Messages)
  /\ pc \in [Workers -> PCs]
  /\ job \in [Workers -> Jobs]
  /\ session \in [Clients -> Sessions]
  /\ requests \in 0..MaxHttp

\* Two tasks are never both between acquiring the lock and releasing it, even
\* when holders die and the lock expires under them.
OneHolder ==
  \A w1, w2 \in Workers : InCrit(w1) /\ InCrit(w2) => w1 = w2

\* What makes it so: the lock stays with a task from acquiring to releasing it.
LockHeld == \A w \in Workers : pc[w] \in Crit \cup {"slowLock"} => lock = w

\* What a task read before an await is still true when it uses it: the lines read
\* are the document's, the lines computed extend them by the op applied, and what
\* is about to be removed is in Mongo.
CopyCurrentOf(w) ==
  LET j == job[w] IN
  /\ pc[w] \in {"getDoc", "load", "put", "shareJs"} => j.ops = <<>>
  /\ pc[w] = "load" => ~loaded
  /\ pc[w] = "put" => ~loaded /\ j.snap = mongo
  /\ pc[w] = "shareJs" => loaded /\ j.snap = lines /\ j.upd # None
  /\ pc[w] \in {"check", "write"} =>
       /\ loaded
       /\ \/ j.ops = <<>> /\ j.snap = lines
          \/ /\ Len(j.ops) = 1 /\ j.ops[1].v = Len(lines)
             /\ j.snap = Append(lines, j.ops[1].id)
  /\ pc[w] = "persist" => loaded /\ j.snap = lines
  /\ pc[w] = "clear" => loaded /\ mongo = lines
  /\ pc[w] = "remove" => (loaded => mongo = lines)

\* It is true of every task: DocumentManager and UpdateManager may go on after each
\* await with what they have.
CopyCurrent == \A w \in Workers : CopyCurrentOf(w)

\* sharejs/server/model.js calls a failed version check "should never happen":
\* an update that was applied to a copy is checked against the same copy, and
\* transforming it finds all the ops between its version and the copy's.
NoInternalError ==
  \A w \in Workers :
    /\ pc[w] \in {"check", "write"} => VersionsAgree(w)
    /\ pc[w] = "shareJs" =>
         Outcome(job[w].upd, Len(job[w].snap)) # "internal error"

\* DocOps outlives the document's other keys: whether the document is loaded,
\* evicted or loaded again, its entries are the last ops of the document, at the
\* versions getPreviousDocOps computes for them.
DocOpsAligned ==
  /\ Len(docOps) <= Len(Log)
  /\ \A i \in DOMAIN docOps :
       LET v == (Len(Log) - Len(docOps)) + i - 1 IN
       docOps[i].v = v /\ docOps[i].id = Log[v + 1]

\* The list is trimmed to more than an update may lag: none is refused for ops
\* that are missing rather than for its age.
RecentOpsKept == Len(docOps) >= Lesser(MaxAge, Len(Log))

\* A document in Redis that is not marked as modified is the one in Mongo, which
\* is why flushing skips it and removing it afterwards loses nothing.
CleanCopyIsSaved == loaded /\ ~unflushed => mongo = lines

\* An op submitted again after a lost answer is in the document once.
NoOpTwice ==
  \A i, j \in DOMAIN Log : Log[i] = Log[j] => i = j

\* What project history is given is ops of the document, each at its version and
\* in their order.
HistoryFollowsLog ==
  /\ \A i \in DOMAIN history :
       /\ history[i].v < Len(Log)
       /\ history[i].id = Log[history[i].v + 1]
  /\ \A i, j \in DOMAIN history : i < j => history[i].v < history[j].v

\* An op is published before it is written: unless the very next message is the
\* error of its own failure, it is in the document at the version published, or
\* is about to be.
PublishedIsLogged ==
  \A i \in DOMAIN published :
    LET m == published[i] IN
    m.kind = "op" =>
      \/ m.v < Len(Log) /\ Log[m.v + 1] = m.id
      \/ i < Len(published) /\ published[i + 1].kind = "error"
      \/ \E w \in Workers :
           /\ pc[w] \in {"check", "write"}
           /\ job[w].ops # <<>> /\ job[w].ops[1].id = m.id /\ job[w].ops[1].v = m.v

\* Accepted ops form a log that only grows, and flushing saves all of it.
DL == INSTANCE DocLog WITH Id <- Ids, log <- Log, saved <- Len(mongo)

\* Every step of the updater accepts one op at the end of the log, saves the log or
\* changes neither, in spite of evictions, reloads, failures and deaths.
ImplementsDocLog == DL!Spec

-----------------------------------------------------------------------------
(* Liveness *)

\* Processes run, Redis answers, and the pushes of queueChange go through.
Fairness ==
  /\ WF_vars(Notify)
  /\ WF_vars(\E w \in Workers : TakeNotification(w))
  /\ \A w \in Workers : WF_vars(Step(w))

FairSpec == Spec /\ Fairness

\* An update whose notification was consumed while the lock was taken is not
\* forgotten: every update queued is answered, whoever applies it.
EveryUpdateAnswered ==
  \A id \in Ids :
    (\E i \in DOMAIN pending : pending[i].id = id) ~>
      (\E i \in DOMAIN published : published[i].id = id)
=============================================================================
