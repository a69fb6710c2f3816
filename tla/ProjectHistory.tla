--------------------------- MODULE ProjectHistory ---------------------------
(***************************************************************************)
(* project-history for one project with one document: workers take batches *)
(* off the queue document-updater fills and send them to history-v1 under  *)
(* a lock that expires; a resync puts the whole content of the document on *)
(* the queue, and what precedes it is skipped. An op is the number of ops  *)
(* the document has after it, and a content is the number of ops in it.    *)
(***************************************************************************)
EXTENDS Naturals, Sequences, FiniteSets, SequencesExt

CONSTANTS Workers,          \* handlers of the service, in one process or several
          MaxOps,           \* bound: ops of the document
          MaxResyncs,       \* bound: resyncs
          Faults,           \* the rare events, one of which may happen, once
          None,             \* no worker, no new sync state
          Bad               \* the content of changes that do not apply

ASSUME BoundsAssumption == MaxOps \in Nat /\ MaxResyncs \in Nat
ASSUME ValuesAssumption ==
    /\ None \notin Workers /\ None \notin [structure : BOOLEAN, doc : BOOLEAN]
    /\ Bad \notin Nat

VARIABLES struck,           \* the rare event that has happened, or "none"
          docV,             \* ops of the document, in document-updater
          queue,            \* ProjectHistory:Ops
          resyncs,          \* resyncs begun so far
          web,              \* web and document-updater, carrying one out
          syncState,        \* projectHistorySyncState
          failure,          \* projectHistoryFailures: attempts up to two, a resync
          lock,             \* ProjectHistoryLock
          log,              \* history-v1: the requests it has recorded
          late,             \* a request nobody waits for any more, or None
          w                 \* the workers

world == <<docV, resyncs, web>>
vars == <<world, struck, queue, syncState, failure, lock, log, late, w>>

Op(v) == [kind |-> "op", v |-> v, n |-> 0]
Structure(n) == [kind |-> "structure", v |-> 0, n |-> n]
Content(v, n) == [kind |-> "content", v |-> v, n |-> n]

NoSync == [structure |-> FALSE, doc |-> FALSE]
Ongoing(s) == s.structure \/ s.doc
NoFailure == [attempts |-> 0, resync |-> FALSE]
Idle == [at |-> "idle", session |-> "flush", then |-> "flush", hard |-> FALSE,
         batch |-> <<>>, more |-> FALSE, updates |-> <<>>, sync |-> None,
         request |-> None, error |-> "none"]

Init ==
    /\ struck = "none"
    /\ docV = 0 /\ queue = <<>> /\ resyncs = 0 /\ web = [stage |-> "idle", for |-> None, n |-> 0]
    /\ syncState = NoSync /\ failure = NoFailure /\ lock = None
    /\ log = <<>> /\ late = None
    /\ w = [x \in Workers |-> Idle]
-----------------------------------------------------------------------------
\* document-updater and web.

WebDone == [web EXCEPT !.stage = "idle", !.for = None]

\* An op is applied and queued, under the document's lock.
ClientOp ==
    /\ docV < MaxOps
    /\ docV' = docV + 1
    /\ queue' = Append(queue, Op(docV'))
    /\ UNCHANGED <<resyncs, web, struck, syncState, failure, lock, log, late, w>>

\* queueResyncProjectStructure.
QueueStructure ==
    /\ web.stage = "structure"
    /\ queue' = Append(queue, Structure(web.n))
    /\ web' = [web EXCEPT !.stage = "content"]
    /\ UNCHANGED <<docV, resyncs, struck, syncState, failure, lock, log, late, w>>

\* resyncDocContents, under the document's lock, and the answers of
\* document-updater and web.
QueueContent ==
    /\ web.stage = "content"
    /\ queue' = Append(queue, Content(docV, web.n))
    /\ web' = WebDone
    /\ w' = IF web.for = None THEN w ELSE [w EXCEPT ![web.for].at = "start"]
    /\ UNCHANGED <<docV, resyncs, struck, syncState, failure, lock, log, late>>
-----------------------------------------------------------------------------
\* What a batch of updates comes to.

\* updateState of one update, and whether it is to be kept.
Synced(st, u) ==
    CASE u.kind = "structure" ->
            [st EXCEPT !.ok = st.ok /\ st.structure /\ ~st.doc,
                       !.structure = FALSE, !.doc = TRUE, !.kept = Append(@, u)]
      [] u.kind = "content" ->
            [st EXCEPT !.ok = st.ok /\ ~st.structure /\ st.doc,
                       !.doc = FALSE, !.kept = Append(@, u)]
      [] u.kind = "op" ->
            IF Ongoing(st) THEN st ELSE [st EXCEPT !.kept = Append(@, u)]

\* skipUpdatesDuringSync.
Filtered(batch) ==
    FoldLeft(Synced, [structure |-> syncState.structure, doc |-> syncState.doc,
                      ok |-> TRUE, kept |-> <<>>], batch)

\* The content of the document in the latest chunk.
Recorded == IF log = <<>> THEN 0 ELSE log[Len(log)].content

\* alreadySeenDocVersion, by the versions of the document in the latest chunk.
Seen(v) == \E i \in DOMAIN log : \E r \in log[i].ops : v <= r

\* The ops that are not discarded.
Fresh(updates) == {v \in 1..MaxOps : ~Seen(v) /\ \E i \in DOMAIN updates : updates[i] = Op(v)}

InOrder(updates) ==
    \A i, j \in DOMAIN updates :
        i < j /\ updates[i].kind = "op" /\ updates[j].kind = "op" => updates[i].v < updates[j].v

\* One update applied to a content. That of a document is expanded to its
\* difference from the content recorded so far, whatever precedes it.
Applied(c, u) ==
    CASE u.kind = "structure" -> c
      [] u.kind = "op" -> IF Seen(u.v) THEN c ELSE IF c + 1 = u.v THEN u.v ELSE Bad
      [] u.kind = "content" -> IF u.v = Recorded THEN c ELSE IF c = Recorded THEN u.v ELSE Bad

\* The changes the updates are converted to.
Request(updates) ==
    [base |-> Len(log),
     ops |-> Fresh(updates),
     content |-> FoldLeft(LAMBDA c, u : IF c = Bad THEN Bad ELSE Applied(c, u), Recorded, updates)]

NoChanges(r) == r.ops = {} /\ r.content = Recorded

\* Mutant: changes are recorded though they do not apply.
AcceptsUnapplied(r) == r.base = Len(log)

\* Mutant: the end version is not compared.
AcceptsAny(r) == r.content # Bad

\* legacy_changes: end_version is that of the latest chunk, and they apply.
Accepts(r) == r.base = Len(log) /\ r.content # Bad

Entry(r) == [ops |-> r.ops, content |-> r.content]
-----------------------------------------------------------------------------
\* Flushing: processUpdatesForProject.

Goto(x, pc) == w' = [w EXCEPT ![x].at = pc]
Fail(x, e) ==
    w' = [w EXCEPT ![x] = [Idle EXCEPT !.at = "release", !.error = e,
                                       !.session = w[x].session, !.then = w[x].then]]

StartFlush(x) ==
    /\ w[x].at = "idle"
    /\ Goto(x, "lock")
    /\ UNCHANGED <<world, struck, queue, syncState, failure, lock, log, late>>

GetLock(x) ==
    /\ w[x].at \in {"lock", "resyncLock"}
    /\ lock = None
    /\ lock' = x
    /\ Goto(x, CASE w[x].at = "lock" -> "read"
                 [] w[x].hard -> "clear"
                 [] OTHER -> "request")
    /\ UNCHANGED <<world, struck, queue, syncState, failure, log, late>>

\* getLock gives up: recorded as an error.
LockTimeout(x) ==
    /\ w[x].at \in {"lock", "resyncLock"}
    /\ lock # None
    /\ w' = [w EXCEPT ![x].at = "report", ![x].error = "soft"]
    /\ UNCHANGED <<world, struck, queue, syncState, failure, lock, log, late>>

\* getUpdatesInBatches: the head of the queue, as much as the limits allow.
Read(x) ==
    /\ w[x].at = "read"
    /\ \/ queue = <<>> /\ Goto(x, "release")
       \/ \E n \in 1..Len(queue) :
            w' = [w EXCEPT ![x].at = "filter",
                           ![x].batch = SubSeq(queue, 1, n),
                           ![x].more = n < Len(queue)]
    /\ UNCHANGED <<world, struck, queue, syncState, failure, lock, log, late>>

\* Outside a resync everything is kept, and the state stays as it is.
Filter(x) ==
    /\ w[x].at = "filter"
    /\ LET f == Filtered(w[x].batch)
           next == [structure |-> f.structure, doc |-> f.doc]
       IN  IF ~Ongoing(syncState)
           THEN w' = [w EXCEPT ![x].at = "fetch", ![x].updates = w[x].batch]
           ELSE IF ~f.ok THEN Fail(x, "soft")
           ELSE w' = [w EXCEPT ![x].at = IF f.kept = <<>> THEN "set" ELSE "fetch",
                               ![x].updates = f.kept,
                               ![x].sync = next]
    /\ UNCHANGED <<world, struck, queue, syncState, failure, lock, log, late>>

\* getMostRecentVersion, expandSyncUpdates and the conversions.
Fetch(x) ==
    /\ w[x].at = "fetch"
    /\ IF InOrder(w[x].updates)
       THEN w' = [w EXCEPT ![x].at = "send", ![x].updates = <<>>,
                           ![x].request = Request(w[x].updates)]
       ELSE Fail(x, "hard")
    /\ UNCHANGED <<world, struck, queue, syncState, failure, lock, log, late>>

\* The lock is extended, and the request leaves if there is something to send.
Send(x) ==
    /\ w[x].at = "send"
    /\ IF lock # x THEN Fail(x, "soft")
       ELSE Goto(x, IF NoChanges(w[x].request) THEN "set" ELSE "sent")
    /\ UNCHANGED <<world, struck, queue, syncState, failure, lock, log, late>>

\* history-v1 records the changes or answers 422.
Record(x) ==
    /\ w[x].at = "sent"
    /\ IF Accepts(w[x].request)
       THEN log' = Append(log, Entry(w[x].request)) /\ Goto(x, "set")
       ELSE Fail(x, "hard") /\ UNCHANGED log
    /\ UNCHANGED <<world, struck, queue, syncState, failure, lock, late>>

SetState(x) ==
    /\ w[x].at = "set"
    /\ syncState' = IF w[x].sync = None THEN syncState ELSE w[x].sync
    /\ w' = [w EXCEPT ![x].at = "delete", ![x].sync = None,
                      ![x].updates = <<>>, ![x].request = None]
    /\ UNCHANGED <<world, struck, queue, failure, lock, log, late>>

\* Mutant: the queue is dropped, with what was pushed meanwhile.
DeleteAll(x) ==
    /\ w[x].at = "delete"
    /\ queue' = <<>>
    /\ w' = [w EXCEPT ![x].at = IF w[x].more THEN "read" ELSE "release",
                      ![x].batch = <<>>, ![x].more = FALSE]
    /\ UNCHANGED <<world, struck, syncState, failure, lock, log, late>>

\* What is left of the queue once each update of the batch is removed by its value.
Without(q, batch) ==
    FoldLeft(LAMBDA rest, u : IF u \in ToSet(batch) THEN rest ELSE Append(rest, u), <<>>, q)

\* deleteAppliedDocUpdates.
Delete(x) ==
    /\ w[x].at = "delete"
    /\ queue' = Without(queue, w[x].batch)
    /\ w' = [w EXCEPT ![x].at = IF w[x].more THEN "read" ELSE "release",
                      ![x].batch = <<>>, ![x].more = FALSE]
    /\ UNCHANGED <<world, struck, syncState, failure, lock, log, late>>

\* releaseLock: a lock that is gone is an error of its own.
Release(x) ==
    /\ w[x].at = "release"
    /\ lock' = IF lock = x THEN None ELSE lock
    /\ w' = [w EXCEPT ![x] = [Idle EXCEPT
                !.at = "report", !.session = w[x].session, !.then = w[x].then,
                !.error = IF w[x].error = "none" /\ lock # x THEN "soft" ELSE w[x].error]]
    /\ UNCHANGED <<world, struck, queue, syncState, failure, log, late>>

\* ErrorRecorder.record.
RecordError == failure' = [failure EXCEPT !.attempts = IF @ < 2 THEN @ + 1 ELSE 2]

\* resyncProject, after the first hard failure of a flush; its own flush is the
\* last. (At the bound it is as if the process had died here.)
Resyncs(x) ==
    /\ w[x].session = "flush" /\ w[x].then = "flush"
    /\ w[x].error = "hard" /\ failure.attempts = 0
    /\ resyncs < MaxResyncs

\* ErrorRecorder.record or clearError, once the lock is released. A resync that
\* was started is followed by a flush, or left to the next one by RetryManager.
Report(x) ==
    /\ w[x].at = "report"
    /\ \/ /\ w[x].error # "none"
          /\ RecordError
          /\ IF Resyncs(x)
             THEN /\ resyncs' = resyncs + 1
                  /\ w' = [w EXCEPT ![x] = [Idle EXCEPT !.at = "resyncLock", !.then = "last",
                                                       !.session = "resync", !.hard = TRUE]]
             ELSE /\ UNCHANGED resyncs
                  /\ w' = [w EXCEPT ![x] = Idle]
       \/ /\ w[x].error = "none" /\ w[x].session = "flush"
          /\ failure' = NoFailure
          /\ w' = [w EXCEPT ![x] = Idle]
          /\ UNCHANGED resyncs
       \/ /\ w[x].error = "none" /\ w[x].session = "resync"
          /\ UNCHANGED <<resyncs, failure>>
          /\ \/ w' = [w EXCEPT ![x] = [Idle EXCEPT !.at = "lock", !.then = w[x].then]]
             \/ w[x].then = "flush" /\ w' = [w EXCEPT ![x] = Idle]
    /\ UNCHANGED <<docV, web, struck, queue, syncState, lock, log, late>>
-----------------------------------------------------------------------------
\* Resyncing: startResync and startHardResync.

StartResync(x, hard) ==
    /\ w[x].at = "idle" /\ resyncs < MaxResyncs
    /\ resyncs' = resyncs + 1
    /\ w' = [w EXCEPT ![x].at = "resyncLock", ![x].session = "resync", ![x].hard = hard]
    /\ UNCHANGED <<docV, web, struck, queue, syncState, failure, lock, log, late>>

\* Mutant: the sync state of the resync before is kept.
ClearStateNot(x) ==
    /\ w[x].at = "clear"
    /\ Goto(x, "destroy")
    /\ UNCHANGED <<world, struck, queue, syncState, failure, lock, log, late>>

ClearState(x) ==
    /\ w[x].at = "clear"
    /\ syncState' = NoSync
    /\ Goto(x, "destroy")
    /\ UNCHANGED <<world, struck, queue, failure, lock, log, late>>

DestroyQueue(x) ==
    /\ w[x].at = "destroy"
    /\ queue' = <<>>
    /\ Goto(x, "request")
    /\ UNCHANGED <<world, struck, syncState, failure, lock, log, late>>

\* recordSyncStart, and requestResync unless a sync is ongoing. web carries out
\* one at a time.
RequestResync(x) ==
    /\ w[x].at = "request"
    /\ failure' = [failure EXCEPT !.resync = TRUE]
    /\ IF Ongoing(syncState)
       THEN Fail(x, "soft") /\ UNCHANGED web
       ELSE /\ web.stage = "idle"
            /\ web' = [stage |-> "structure", for |-> x, n |-> web.n + 1]
            /\ Goto(x, "requested")
    /\ UNCHANGED <<docV, resyncs, struck, queue, syncState, lock, log, late>>

\* setResyncState, once both updates are on the queue.
SetStarted(x) ==
    /\ w[x].at = "start"
    /\ syncState' = [structure |-> TRUE, doc |-> FALSE]
    /\ Goto(x, "release")
    /\ UNCHANGED <<world, struck, queue, failure, lock, log, late>>
-----------------------------------------------------------------------------
\* What may go wrong, once in a behaviour.

Strikes(f) == f \in Faults /\ struck = "none" /\ struck' = f

Flushing == {"read", "filter", "fetch", "send", "sent", "set", "delete"}
Resyncing == {"clear", "destroy", "request", "requested", "start"}

\* The process dies; its lock stays, and so does a request on its way.
Crash(x) ==
    /\ \/ Strikes("crash") /\ w[x].at \in Flushing
       \/ Strikes(IF w[x].hard THEN "hardCrash" ELSE "resyncCrash") /\ w[x].at \in Resyncing
    /\ late' = IF w[x].at = "sent" THEN w[x].request ELSE late
    /\ web' = IF web.for = x THEN [web EXCEPT !.for = None] ELSE web
    /\ w' = [w EXCEPT ![x] = Idle]
    /\ UNCHANGED <<docV, resyncs, queue, syncState, failure, lock, log>>

\* No answer comes in time from history-v1.
SendTimeout(x) ==
    /\ Strikes("timeout")
    /\ w[x].at = "sent"
    /\ late' = w[x].request
    /\ Fail(x, "soft")
    /\ UNCHANGED <<world, queue, syncState, failure, lock, log>>

\* history-v1 carries out a request nobody waits for.
RecordLate ==
    /\ late # None
    /\ log' = IF Accepts(late) THEN Append(log, Entry(late)) ELSE log
    /\ late' = None
    /\ UNCHANGED <<world, struck, queue, syncState, failure, lock, w>>

\* web's answer is an error: it goes on all the same, or has given up.
WebFails(x) ==
    /\ Strikes(IF w[x].hard THEN "hardWeb" ELSE "web")
    /\ w[x].at = "requested"
    /\ web' \in {[web EXCEPT !.for = None], WebDone}
    /\ Fail(x, "soft")
    /\ UNCHANGED <<docV, resyncs, queue, syncState, failure, lock, log, late>>

\* The lock outlives a worker that died, or expires under one at work.
LockExpires ==
    /\ lock # None
    /\ \/ w[lock].at \in {"idle", "lock", "resyncLock", "report"} /\ UNCHANGED struck
       \/ Strikes("expire") /\ w[lock].at \in Flushing \cup Resyncing
    /\ lock' = None
    /\ UNCHANGED <<world, queue, syncState, failure, log, late, w>>
-----------------------------------------------------------------------------
Step(x) ==
    \/ GetLock(x) \/ LockTimeout(x)
    \/ Read(x) \/ Filter(x) \/ Fetch(x) \/ Send(x) \/ Record(x) \/ SetState(x) \/ Delete(x)
    \/ Release(x) \/ Report(x)
    \/ ClearState(x) \/ DestroyQueue(x) \/ RequestResync(x) \/ SetStarted(x)

Next ==
    \/ ClientOp \/ QueueStructure \/ QueueContent \/ RecordLate \/ LockExpires
    \/ \E x \in Workers :
        \/ Step(x) \/ StartFlush(x)
        \/ \E hard \in BOOLEAN : StartResync(x, hard)
        \/ Crash(x) \/ SendTimeout(x) \/ WebFails(x)

Spec == Init /\ [][Next]_vars
-----------------------------------------------------------------------------
\* Properties.

Update(q) == q.kind \in {"op", "structure", "content"} /\ q.v \in 0..MaxOps /\ q.n \in Nat
SyncStates == [structure : BOOLEAN, doc : BOOLEAN]
Requests == [base : Nat, ops : SUBSET (1..MaxOps), content : (0..MaxOps) \cup {Bad}]
PCs == {"idle", "lock", "resyncLock", "release", "report"} \cup Flushing \cup Resyncing

\* Every variable has its type.
TypeOK ==
    /\ struck \in Faults \cup {"none"}
    /\ docV \in 0..MaxOps /\ resyncs \in 0..MaxResyncs
    /\ \A i \in DOMAIN queue : Update(queue[i])
    /\ web \in [stage : {"idle", "structure", "content"}, for : Workers \cup {None}, n : Nat]
    /\ syncState \in SyncStates
    /\ failure \in [attempts : 0..2, resync : BOOLEAN]
    /\ lock \in Workers \cup {None}
    /\ log \in Seq([ops : SUBSET (1..MaxOps), content : 0..MaxOps])
    /\ late \in Requests \cup {None}
    /\ \A x \in Workers :
        /\ w[x].at \in PCs
        /\ w[x].sync \in SyncStates \cup {None}
        /\ w[x].request \in Requests \cup {None}
        /\ \A i \in DOMAIN w[x].batch : Update(w[x].batch[i])

\* No op is recorded twice or after a later one, whatever is sent again, late,
\* or by two workers at once (end_version and _skipAlreadyAppliedUpdates).
OpsInOrder ==
    \A i, j \in DOMAIN log :
        i < j => \A a \in log[i].ops, b \in log[j].ops : a < b

Queued(kind) == \E i \in DOMAIN queue : queue[i].kind = kind

\* While a lock is not lost under a worker, updates are only ignored for a
\* resync that is on the queue, so that it ends (startResync, its options 1 to 3).
SkipEnds ==
    struck # "expire" =>
        /\ syncState.structure => Queued("structure") /\ Queued("content")
        /\ syncState.doc => Queued("content")

\* The op is in the content history-v1 has, or will be: it is on the queue itself,
\* or in a content that is, or a hard resync is about to ask for one.
Kept(v) ==
    \/ v <= Recorded
    \/ \E i \in DOMAIN queue :
          queue[i] = Op(v) \/ (queue[i].kind = "content" /\ v <= queue[i].v)
    \/ \E x \in Workers : w[x].hard /\ w[x].at \in {"request", "requested"}

\* history-v1 had the op, and a later request took it back: that of a batch with
\* the content of a resync, recorded once and sent again (expandSyncUpdates).
TakenBack(v) ==
    \E i, j \in DOMAIN log : i < j /\ v <= log[i].content /\ log[j].content < v

\* No op of the document is lost while hard resyncs are not cut short and the lock
\* is not lost: not when flushes fail, when the queue is skipped or destroyed for
\* a content, when web fails or a worker dies in a resync; and not by a flush
\* that dies or gets no answer either, unless sending its batch again takes the op
\* back (getUpdatesInBatches, shouldSkipUpdate, startHardResync).
NothingLost ==
    /\ struck \in {"none", "web", "resyncCrash"} => \A v \in 1..docV : Kept(v)
    /\ struck \in {"crash", "timeout"} => \A v \in 1..docV : Kept(v) \/ TakenBack(v)

\* An update discarded because it was applied is part of the content
\* (_skipAlreadyAppliedUpdates, "discard updates already applied").
DiscardedIsApplied == \A v \in 1..docV : Seen(v) => v <= Recorded
=============================================================================
