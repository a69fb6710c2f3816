# A TLA+ verification of LLatex

LLatex is Overleaf Community Edition with a writing agent built in: users edit
the documents of a project together, and an agent driven by language models may
edit them too. These modules model the parts of it where concurrency and failure
decide whether users keep their text and their quota.

Run a check with `tlc -config <Run>.cfg MC<Module>.tla`, a proof with
`tlapm <Module>_proofs.tla`.

## 1. The system

| component | state | operations | interacts with |
|---|---|---|---|
| **web client** (`services/web/frontend/js`, ShareJS) | snapshot, version, one op in flight, pending op, a queue and a timer for ops that come too early | edit, send, send again after 5 s, acknowledge, open and leave a document, rejoin after a disconnection | real-time by socket.io |
| **real-time** (`services/real-time`) | sockets, rooms, the chain of calls planned for each Redis channel, connected users | join and leave project and document, subscribe and unsubscribe, `queueChange`, distribute applied ops and errors | Redis lists and channels, document-updater by HTTP |
| **document-updater** (`services/document-updater`) | in Redis: pending updates, document lines, ops, ranges, per-document lock, per-project set, block key, unload queue | apply updates; get, set, flush, delete a document under the lock; block a project; unload projects | web's persistence API (Mongo), project-history queue, real-time |
| **web** (`services/web`) | projects, documents and users in Mongo | persistence API, migrations of the history, compile requests, API of the agent | all services |
| **writing agent in web** (`services/web/modules/llm-agent`) | quota (Mongo), reservations (memory), conversations (Mongo), compile lock and result (Redis) | sendMessage, cancelRun, callbacks agentComplete and agentCancelled, rollbackToMessage, shared compiles | llm-agent, chat, project-history, CLSI |
| **llm-agent** (`services/llm-agent`) | runs in memory and Mongo | startRun, cancelRun, the loop of model calls and tools, callbacks | web, document-updater |
| **project-history** (`services/project-history`) | in Redis: the queue of a project's updates and its lock; in Mongo: sync state and failure record | flush the queue in batches, record errors and retry, resync (soft and hard) | history-v1, document-updater and web (resync), by HTTP |
| **history-v1** (`services/history-v1`) | chunk records (Mongo or Postgres) and objects, a buffer of changes in Redis with its persist time, blobs | import changes, persist and expire the buffer, delete old chunks, read at a version | object storage, project-history |
| **docstore** | documents in Mongo or archived | archive and unarchive | object storage |
| **clsi** | a compile directory per project, its lock, output cache | compile, clear | file system |
| filestore, chat, contacts, notifications, git-bridge, libraries, server-ce | | single calls, streams, packaging | |

What is hard in it:

- a document is changed by dispatched updates, HTTP handlers, flushes and
  removals, all of them asynchronous tasks in several processes, separated by a
  Redis lock that can expire;
- an op is published to clients before it is written, clients send an op again
  when its answer is late, and the list of recent ops outlives the document in
  Redis;
- the notification of an update and the update itself are pushed separately, and
  a notification found while the lock is taken is thrown away;
- browsers show edits before the server has them, transform what they receive over
  two ops of their own, and send again what may have been applied on a connection
  that is gone;
- a project is unloaded by a queue several processes pop, filled on the word of
  real-time processes that each know only their own sockets;
- the channel of a document is subscribed to and given up as clients come and go,
  while joins are overtaken by leaves and Redis answers late;
- history is fed through a queue whose entries are deleted only after they are
  recorded, by a service that may die in between, and whose lock outlives a dead
  worker and can expire under a live one; a resync throws the queue away and
  ignores updates until its own content arrives;
- a change that history-v1 has acknowledged may be in a Redis buffer only, and is
  moved to chunks that are replaced, closed and deleted by several processes;
- the agent's quota is checked against a sum kept in memory, released along
  three paths, while the callback of a run and the response of the request that
  started it may come in either order.

`PROJECT.json` lists every hazard at its line with the properties that cover it.

## 2. The modules

| module | models | abstract or composed |
|---|---|---|
| `DocLog` | what the updater promises of a document: a log that only grows, saved as a whole | abstract specification |
| `DocUpdater` | the pipeline of one document: client sessions, the queue, its notifications, the lock, the workers, Redis, Mongo, the history queue | implements `DocLog` |
| `ProjectBlock` | `ProjectBlock:{id}`, the set of loaded documents, migrations | uses the lock of `DocUpdater` as an assumption: one task per document |
| `ProjectUnload` | leaving a project, the flush-and-delete queue, the background flushers | whether any document is loaded is one bit |
| `DocFeed` | a document's room and channel in one real-time process, joinDoc and leaveDoc, the browsers that read it | document-updater is a version that is published, then written |
| `TextOT` | the text type of ShareJS: components, apply, append, compose, transform | operators, used by `EditSession` |
| `EditSession` | browsers with an op in flight and a pending op, their retries and rejoins, the server's order of ops | uses `TextOT`; that the server takes an update whole is `DocUpdater`'s subject, early ops and rooms are `DocFeed`'s |
| `ProjectHistory` | project-history's queue, lock, sync state and failure record for a project with one document; resyncs | history-v1 is a log that accepts requests made for its end |
| `HistoryLog` | what history-v1 promises of a project: a log that only grows, by requests made for its end | abstract specification |
| `ChunkStore` | history-v1's import, buffer, persist and expire jobs, chunk records and objects | implements `HistoryLog` |
| `AgentTurn` | sendMessage, the run, its callbacks, quota and reservations, conversation, rollback | the tool calls of a run are one step |
| `AgentCompile` | the compile lock and the published result | a compile is one step |

`MC<Module>` gives each module the values and the symmetry TLC needs;
`<Module>_proofs` holds its theorems, `Agent_proofs` those of the two modules about the
writing agent (so the names in `AgentCompile` say whose they are: `CompileSpec`). The definitions carry the names of the code
where they can; `map` in `PROJECT.json` gives the lines of each.

### DocUpdater

One worker is one asynchronous task of a document-updater process, and each
`await` that reads or writes shared state is a boundary between two actions. `pc`
is where the task is: `tryLock` or `getLock` (RedisLocker), `fetch`
(UpdateManager.fetchAndApplyUpdates), `getDoc`, `load`, `put`
(DocumentManager.getDoc), `shareJs` (the applied copy is made, the op published),
`check` and `write` (RedisManager.updateDocument: version test, then one MULTI),
`queueOps`, `snapshot`, then `flush`, `persist`, `clear`, `remove` for the
handlers, and `release`, `continue`. `job` holds its local variables: what it read
before an await is there until it is used.

Text is the sequence of the ids of the ops it results from. So the version of a
copy is its length, a copy that lost or doubled an op is visible as such, and
transformation of positions is left out: *whether* ops are transformed over each
other (the versions and the ops found in `DocOps`) is in the model, *what* they
become is not. A session (`session`) makes one op at a time at a version it has
seen; `retryOp` sends the same update again, with `dupIfSource`, at the version it
had the first time, also after a reconnection. Faults are switched on by name in
`Faults`: failing reads (`read`), a delete that does not match (`mismatch`), a
wrong hash or size found after publication (`hash`), a failing write, history
queue, persistence API or notification push, a lock granted too slowly
(`slowLock`), an expiring `DocOps` list (`docOpsTtl`), a process that dies
(`crash`). The lock expires only when its holder is gone; `OverrunSpec` adds the
one overrun the code calls harmless.

Left out: contents (sizes, null bytes, ranges), comments and tracked changes,
rename, resync, `history-ot` documents, and `ignoreFlushErrors` of
flushAndDeleteDoc (only administrative calls set it).

### ProjectBlock

`CheckBlock` and `PutDoc` are the two halves of putDocInMemory (the MULTI that adds
the document to the set and reads the block; the write of the document),
`RemoveKeys` and `Untrack` those of removeDocFromMemory, `Block`, `Undo`,
`Unblock` the calls of blockProject and unblockProject. `copy` is the migration
stage at which the document in Redis was read from web, so `got` is what the
loading task carries from its request to `PutDoc`.

### ProjectUnload

`Join`, `Ask`, `Serve`, `Disconnect`, `LeaveCheck` are a socket's life;
`LeaveCheck` is the timer of leaveProject, which looks at the sockets of its own
process only and then asks for the project to be unloaded; the HTTP call, or Redis
behind it, may fail (`RequestFails`), which is only logged, and nobody asks again.
`queue` is the sorted set with each score abstracted to young or
old, `newer` whether the document was updated after its request was scored;
`Touch` leaves open what SMOOTHING_OFFSET leaves open. A flusher scans, pops,
checks and flushes in four separate steps; `failed` has the projects whose last
request, or whose flush, failed. `Events` switches on failures (of both), updates
served after their user's leave check (`late`) and external writes to a project
nobody has open (`external`).

### DocFeed

The state is split along the connections: `wire` is what Redis has sent to the
process (ops and the replies to subscribe and unsubscribe), `plans` the chain of
calls of ChannelManager, of which one at a time is `issued`, `downlink` what each
socket has been sent. `handler` holds the joinDoc calls between their awaits
(`auth`, `subscribe`, `get`, `answer`) and `epoch` the joinLeaveEpoch by which an
overtaken call ends. `reader` is the browser: the container that waits for the
document, and the ShareJsDoc with the ops that came too early (`queue`) and the
op its timer was set for (`timer`; `Spent` when it fired and was not reset). An op
is the version it applies to. `FaultSets` lists which rare events a behaviour may
have: ops lost by Redis, a failing subscription, ops delayed in a cluster.

Left out: the rooms of projects, other messages than ops, the checks of access,
rejoining from a version after a reconnection and what an op contains
(`EditSession`).

### TextOT and EditSession

`TextOT` has no state. An op is a sequence of components, a text a sequence of
characters; `AppendTo`, `ApplyComponent`, `TransformPosition`, `TransformComponent`
and `TransformX` are `append`, the loop of `apply`, `transformPosition`,
`transformComponent` and `transformX`; `Failed` and `Clash` are the two exceptions.
transformX is a recursive function: what it computes for every two ops would need an
induction over data, so it is checked and not proved about.

In `EditSession`, `client` is the browser's document: `text` (the snapshot), `version`,
`inflight` and `pending` (each `<<>>`, or the op in a tuple), `submitted`
(inflightSubmittedIds), `source` (the publicId of
its connection), `timers` (the update each retry timer was set for) and `polls`
(retryOp's own timeouts while there is no connection). `link` goes from `ok` to `down`,
to `room` (joinDoc has entered the room), `read` (document-updater has given the ops
missed) and back to `ok` when the answer arrives. `log` is the server's list of ops;
`Serve` is one update taken by document-updater, transformed, applied and published.
`of` is a name for an op that the code does not have, by which the properties
recognise it. When a connection ends, what is on its way down is lost, and what is on
its way up from any point on. Every character is inserted once, so a doubled or lost
edit is visible.

Two events are switched on in `Faults`, because the code does not survive them (section
5): `stale`, a poll that sends its op again while another is in flight, and `overtake`,
an op that is applied while a client is in the room and its missed ops are not read.
Left out: comments and history-ot documents, ranges, edits made while disconnected, a
server that fails or forgets ops (`DocUpdater`), and two updates of one connection that
overtake each other in real-time.

### ProjectHistory

A worker is one call of processUpdatesForProject, resyncProject or startResync,
and `at` is the await it is at: `lock` and `resyncLock`, `read`, `filter`, `fetch`,
`send`, `sent`, `set`, `delete` of a flush, `clear`, `destroy`, `request`,
`requested`, `start` of a resync, `release` and `report` of both. An op is the
number of ops the document has after it, and a content the number of ops in it, so
an op fits exactly one content, and changes that do not fit are refused as
history-v1 refuses them (422). `log` is the sequence of recorded requests, whose
length is the end version the next one must name; the versions in it are the ones
_skipAlreadyAppliedUpdates compares with. `web` is the resync web and
document-updater carry out: the structure of the project, then the content of the
document, both put on the queue. A request that nobody waits for any more is
`late`. Of the rare events named in `Faults` (a process dies in a flush, in a resync or
in a hard resync; history-v1 does not answer in time; web's answer is an error, to a
resync or to a hard one; the lock expires under a live worker) one happens, once, and
`struck` is the one that did.

`NothingLost` says where each op of the document is: in the content history-v1 has, on
the queue as itself, in a content on the queue, or in one that a hard resync is about to
ask for (`Kept`). An op is in a recorded content only when that content is of at least
its version, and the queue has it only by an update of its very version. After a flush
that died or got no answer, an op may instead have been recorded and taken back by the
same batch sent again (`TakenBack`, section 5). A hard resync that is cut short and a
lock that expires are excepted, because they do lose ops.

Abstractions: any non-empty prefix of the queue may be a batch, and a flush or a
resync may start at any time, which covers RetryManager, FlushManager and the size
limits of a batch; compression keeps a change per op; attempts are counted to two;
a resync that should start automatically at the bound `MaxResyncs` is as if the
process had died there. Left out: several documents and files, blobs, comments and
tracked changes, updates of the project's structure, resyncs of the structure only,
answers that ask for a resync, bisection and single steps.

### ChunkStore

`pc` is the await a worker is at in importChanges, commitChanges, queueChanges,
persistBuffer, persistChanges or the chunk store, `work` its local variables. A
chunk is a record (`pending`, `active`, `closed`, `deleted`) together with the object
it names, which exists when `stored`. Redis is `head`, `persisted`, `buffer` and
`persistTime`, each Lua script one action. `config` is the deployed buffer level
with forcePersistBuffer, and `Downgrade` the way back that rollout.js asks for.
Requests may be sent late, again, and twice at once; at level 0 only with the
fault `overlap`, because project-history holds its lock there.

Abstractions: `InUse` stands for the day a chunk must be old before it is deleted;
a claim of a job lapses at any time; objects are reads and writes that do not fail
half-way. A call fails at any await (`CallFails`) and ends its task, or, while a buffer
is being forced out, is logged, and the changes are committed at the configured level
(`Throw`); `Crash` is the death of the process, which ends a task wherever it is. When
the configured level is 0 the changes are then written where those of the buffer belong.
`disputed`, a history variable, is the version from which this happened first, and
`AckedInHistory` and `BufferAgrees` speak of what is before it (`Settled`); the log is
implemented as long as there is none. Section 5 has what happens after it. Left out: levels 1 and 2
(their buffer repeats what is persisted), initializing, cloning and deleting
projects, the Postgres backend, reads at a version, and backups.

### AgentTurn

A turn is one sendMessage: read the user, reserve, record the message, start the
run, register the reservation, record the run. All turns are one user's.
`Reserve` is atomic because tryReserveQuota is synchronous. The callback of a run
bills, releases and records in three steps. A rollback finds the message, passes
the guard, reverts the project, reads what it keeps and pulls the rest. `clock`
orders createdAt. Left out: several web processes (reservations and their map are
in memory, one process is assumed), deleteConversation, the messages of the chat
service, the value of captureProjectVersion, and the tokens of a model call that
was aborted.

### AgentCompile

One `compile` call takes the lock and compiles, stores the result, releases the
lock; others poll. Time enters in three guards. A lock expires (4 minutes) under
a holder that is gone, or one that is slow. A waiter gives up (5 minutes) when the
lock it found is gone and no result is there. A result expires (1 minute) when
no caller can be between two polls (200 ms) since it could have read one.

## 3. The runs

| run | instance | question | result |
|---|---|---|---|
| `DocUpdater_faults` | 2 workers, 2 sessions with one op each, sent up to twice; 8 kinds of failure; MaxAge and DocOpsMax 1 | mutual exclusion, ShareJS never finds its data inconsistent, history and publications agree with the document, no op twice | holds, 2.1 million states |
| `DocUpdater_http` | 2 workers, 1 session with 2 ops, 2 requests of any of get, set, flush, delete; crashes, failing persistence and history | `DocOps` aligned and long enough, clean copies saved, copies current, `DocLog` implemented | holds, 4.9 million states |
| `DocUpdater_live` | 2 workers, 2 sessions, 1 request; no failure, fairness | every update queued is answered | holds |
| `ProjectBlock_one` | 3 documents, 1 migration, 2 stages; crashes, expiry | loaded documents are tracked; nothing is loaded while blocked | holds |
| `ProjectUnload_leave` | 1 project, 3 users on 2 processes, 2 flushers, failures, fairness | a project nobody is in has a request that will be honoured, unless the last one failed; it is unloaded in the end | holds |
| `DocFeed_feed` | 2 clients, one joinDoc call each under way, 2 ops; no trouble, lost ops, failing subscriptions, or delayed ops; fairness | the subscription follows the room, the room holds readers, early ops have a timer, every joinDoc is answered | holds, 733 000 states |
| `EditSession_merge` | 2 browsers, a text of 2 characters, 3 events (a character typed or erased, a connection that ends), 1 retry | no op twice, nothing refused, browsers show the document and their own ops, edits merge | holds, 1.6 million states |
| `ProjectHistory_queue` | 2 workers, 2 ops, 2 resyncs, one of seven rare events | ops are recorded once and in order, ignoring updates ends, each op is in the history or on its way to it | holds, 5.4 million states |
| `ChunkStore_import` | 2 workers, 4 requests, three of one change and one of two, 4 deployments, failing calls and deaths anywhere, chunks and batches of 2, 3 chunk ids | chunks contiguous and stored, acknowledged changes kept, buffer and chunks agree, `HistoryLog` implemented | holds, 1.9 million states |
| `AgentTurn_quota` | 2 turns, 2 kinds of limit, every failure | sums are the sum of the reservations; limits are kept | holds |
| `AgentTurn_rollback` | 2 turns, 1 rollback, failures of sendMessage, fairness | finished runs do not block a rollback, working ones do; reservations are given back | holds |
| `AgentCompile_lock` | 4 callers, slow compiles, deaths, failing Redis | holders keep their lock; whoever waits is answered unless the compile was lost | holds |

Why the bounds are enough. Two workers are needed for every race of the lock, a
third would wait like the second. A batch of 2 has an update behind a failing one;
lists of length 1 and 2 reach every boundary of trimming, ageing and missing ops;
two sessions, or a session and an external write, are needed for transformation
and for a resend behind a stranger's op. Of documents, three let one load, one be
removed and one stay; of users, three give a process with somebody left and one
without; two turns contend for one limit (3 tokens, 2 per run, so the second gets
a part). In `AgentCompile` four callers are a holder, its successor and a waiter
on each. In `DocFeed` one client keeps or empties the room the other one enters;
two ops let one come early and one late; `MaxPlans` of 2 has a call at work and one
chained behind it. In `EditSession` two
characters let deletes overlap, contain and touch each other and an insert fall inside
one; three events are an op in flight, one pending and one from the other browser, or
an op, the end of its connection and a second one; one retry is the one that may
double an op. In `ProjectHistory` two ops are one in a batch and one behind
it, or one on each side of a resync; two resyncs let one supersede the other; a
third worker would wait for the lock as the second does. In `ChunkStore` chunks of
2 make two one-change requests fill one and a two-change request overflow it,
`MaxPersisted` of 1 trims the buffer, and three ids are an old chunk, the active one
and the one that replaces it. `Bound` sends two requests of one change at level 3. At
level 4, and while its buffer is forced out, it sends two of one change, or the one of
two changes and two made to follow it: which is what it takes for a job to fill a chunk,
for a worker to be refused the rest of the buffer, and for a third request to be written
in the place of the second.
Symmetry is used in runs without liveness properties only. Deadlock is checked
where something can always happen (`DocFeed`, `ProjectHistory`, `ChunkStore`); the
other runs serve a bounded number of requests or edits and then rest. `TypeOK` is an
invariant of a run in `ChunkStore` and `ProjectHistory`; in `DocUpdater`, `ProjectBlock`,
`ProjectUnload`, `AgentTurn` and `AgentCompile` (`CompileTypeOK`) it is proved only.

Fairness. `DocUpdater_live` assumes that a worker that can take a step takes one
(Node runs its queue; Redis answers, for failures are off), that pushed
notifications arrive and that somebody pops them (each process runs dispatchers
for ever): weak fairness, none on clients or requests. `ProjectUnload_leave`
assumes that timers fire, requests are answered and flushers go on, all weakly;
only popping a given project is strongly fair, for ZRANGE gives the lowest
score, and a project queued later does not overtake it for ever.
`AgentTurn_rollback` assumes weakly that handlers and callbacks go on and runs
end (their steps are bounded, model calls time out). `DocFeed_feed` assumes weakly that
Redis answers and delivers, handlers go on, timers fire, and an op that is
published is written; opening, leaving and editing are up to the users. None is
assumed for failures, users or rollbacks.

Each property of a passing run has a mutant: a plausible slip in one definition
(a dropped guard, a swapped order, a forgotten error path) under which that run
finds the property violated.

## 4. What is proved

For any number of workers, clients, documents, users, turns and callers, every
value of the limits, and, unless said otherwise, every set of faults:

- `DocUpdater_proofs`: `TypeCorrect`; `LockExcludes` (two tasks are never under the
  lock together); `CopiesStayCurrent` (what a task read before an await is still
  true when it uses it); `CleanCopySaved` (what is not marked as modified is in
  Mongo); `NeverInternalError` (the version checks that "should never happen" do
  not fail); `RecentOpsAligned` (DocOps holds the last ops of the document, across
  evictions); `Refinement` (DocUpdater implements DocLog); `HistoryIsTheLog` (what
  project history is given is the document's ops, in order); `RecentOpsSuffice`
  (assuming `MaxAge <= DocOpsMax`, as in the code, and that `DocOps` does not expire:
  no update is refused for missing ops that is not too old); `PublishedIsInTheLog`
  (assuming no process dies); `OpsWrittenOnce` (an op that is sent again, at whatever
  point it or its answer was lost, is in the document once).
- `ProjectBlock_proofs`: `BlockTypes`, `TrackedWhenLoaded`, and, with one migrator,
  `BlockKeepsOut`.
- `ProjectUnload_proofs`: `UnloadRequestKept`, without late updates and external
  writes, and `UnloadTypes`, without late updates.
- `DocFeed_proofs`: `ChannelFollowsRoom` (however joins, leaves and Redis' answers
  interleave, the last planned call is what the room needs), `RoomHasReaders`
  (a joinDoc that was overtaken lets nobody into the room), `OpsNotStuck` (unless
  ops are delayed, an op that waits for a missing one has a timer).
- `ProjectHistory_proofs`: `ContentsTyped`; `RecordedOnce` (history-v1 records no op
  twice or out of order, whatever is sent again, late, or by two workers at once);
  `ResyncsCome` (unless the lock expires under a worker, updates are only ignored for
  a resync that is on the queue); `OpsKept` (whatever workers, resyncs, and failures and
  deaths in a resync that is not hard do, each op is in the content history-v1 has, on
  the queue itself or in a content there, or a hard resync is about to ask for one; after
  a flush that died or got no answer, the same except for ops that its batch, sent again,
  takes back). The events that `SkipEnds` and `NothingLost` except are the ones of
  section 5.
- `ChunkStore_proofs`: `StoreTyped`, `HistoryStored` (the object of every chunk of the
  history exists), `StoreContiguous` (the chunks have neither gaps nor overlaps);
  assuming `Quiet`: `AnswersKept` (an answered request is in the history at its
  version, and no version is ever disputed), `RedisAgrees` (the buffer and the chunks
  hold the same), `HistoryIsLog` (ChunkStore implements HistoryLog).
- `EditSession_proofs`, without the faults `stale` and `overtake`: `AppliedOnceAlways`
  (no op is in the document twice, however often and on whatever connections it was
  sent); `NoneForgottenAlways` (an op a browser no longer sends is in the document's
  history, in one place, at a version the browser has reached); `VersionsFitAlways` (no
  version is ever ahead of the one it is compared with); `OnceInvariant`, from which
  the three follow. And of the text type: `ComponentsConverge` (two concurrent
  components, applied in either order and the second over the first, give the same
  text and throw nothing) and `AppendJoins` (a component that append joins to the one
  before it gives what the two give in order, and throws where they throw), for texts
  and components of any length.
- `Agent_proofs`, for `AgentTurn`: `TypeCorrect`, `ReservationsFit`,
  `ReservationsNeverDrift` (what is counted as in flight is the sum of the reservations
  still to be released), `RollbackWaitsForTheRun`, and, with at most one rollback and no early or failing
  callback, `RollbackNotBlocked`.
- `Agent_proofs`, for `AgentCompile`: `CompileTypes`, `HolderKeepsLock`;
  `WaiterIsAnswered`, by `WaitInv`: when the lock a caller waits for is gone, it has run
  out, or its result could not be stored, or that result is there to read.

Assumptions are the named ASSUMEs on the constants, which TLC evaluates: bounds are
numbers, chunk ids are numbers and there is one, and `None` and `Bad` are none of the
values they stand in for.

`Quiet` excludes what section 5 shows to break these properties: two level 0 requests in
flight together, a buffer that expires while a request queues, and going back from
level 4 to level 0 by forcing the buffer out (a forced level 0 where some deployment
has level 4; forcing at other levels, which rollout.js does not ask for, is left out
too). Deaths, failing calls, jobs, late and repeated requests and deletions are within
it, and any one of the levels 0, 3 and 4. The run does go back from level 4, with three
requests and failing calls, and checks the properties up to the disputed version.

The argument for the updater. `IInv == TypeOK /\ LockHeld /\ CopyCurrent /\
CleanCopyIsSaved`. Mutual exclusion alone is not inductive: one has to know that
the lock *is* the task's from acquiring to releasing (`LockHeld`), which follows
because it is deleted only by compare-and-delete and expires only for a holder
that is gone. With it, a task's step changes Redis under no other task's feet, so
that `CopyCurrent` survives: the lines read are the document's, the lines about to
be written extend them by the one op applied. `CleanCopyIsSaved` is needed because
a flush that finds nothing to do may be followed by a removal, and then Mongo has
to be the document. From these, aligned `DocOps` follow by a step-by-step argument
on the lists (an op enters both together; removal leaves `DocOps` and makes Mongo
the document), and the refinement because each step of the pipeline accepts one
op, saves everything or changes neither. For the history queue one needs that the
op about to be queued is the log's last one and that all queued before are older
(`HistoryInv`); for published ops, that an op not yet in the log is the last message,
of the task under the lock (`PublishedInv`). That no op is written twice needs the
order of everything that is still to be applied (`OnceInv`): along the update being
applied, the rest of its batch and the queue, an update whose op is in the log, or
further ahead, says that it is a repetition and has the version of the first one; so
that `DocOps`, being aligned, has the op among those the repetition would be
transformed over, and ShareJS drops it. For the unload queue, the strengthening
is that a request being served belongs to somebody present (`RequestsPresent`);
for the channel, that one reply at most is on its way, and to a call that was carried
out (`OneReply`), and what Redis does before and after it (`Toggled`); for the room,
that a client with a current epoch has the document open or waits for it
(`EpochCurrent`). `RecordedOnce` does not need the lock: a request whose base is
still the end of the log was computed from that very log and has no op the log has
(`Valid`), and any other request is refused.

`SkipEnds` is not inductive: one has to know what the sync state a flush is *about to
set* waits for, that this is on the queue behind the batch the flush is about to
delete, and that the flush, or the worker that starts a resync, holds the lock
meanwhile (`SkipInv`). `NothingLost` rests on what a resync's content promises. On
the queue, contents are in order with all ops of the document between them
(`InQueue`); a batch is what the queue begins with, and one that is being sent holds
every op a content leaves out (`Batched`, `Dense`); what a request would record, also
one that comes late, takes nothing back but ops that were recorded (`Honest`), which
are in the content recorded with them (`InHistory`); and a hard resync finds no resync
ongoing (`Settled`). From these each op is `Covered` after every step: most of all when
a batch is deleted, since what it ignored was ignored for a content that is still to
come or follows in the batch (`Skipped`). `Covered` still counts an op that has been
recorded once. While no flush dies or goes unanswered, no batch is sent again, and then
the recorded content never goes back: a request is for a content beyond the last one
(`Beyond`), and a content on the queue before that has been recorded already and is
about to be deleted (`Forward`). So what was recorded is in the content, and otherwise
it was `TakenBack`. Folds over a batch are
unrolled one element at a time, by a least counterexample; for that, deletion is
written as the fold `Without`.

For the chunks, the invariant (`StructInv`) is that live chunks start at different
versions, do not overlap, are followed by one that starts where they end unless they
are active, and cover every version (`Ordered`), and that whatever a worker is about
to confirm still fits when its compare-and-set succeeds (`Proper`, `Distinct`):
a chunk that replaces the active one begins with that one's changes. Over it, the
history (`HistoryInv`): Redis has every change no chunk has, and claims as persisted
no change that is not in one (`RedisInv`); at level 0 one request is in flight, its
base is checked against the chunks, and Redis is empty; at other levels a worker's
changes are those of Redis at their versions, whatever it read and whenever. So each
step leaves the history or appends to it what belongs there, which is `HistoryLog`,
and an answered request stays. `HistoryStored` needs that the record
a worker is about to confirm names a stored object (`Uploads`), which deletion leaves
alone because it is in use. For the block, that a document between its removal and its deletion from the set
is in the set (`Tracked`); for rollbacks, that a run's reply, its mark or its
pending callback accounts for it; for the limits, that a reservation is never
larger than the headroom seen in the same step; for the sums, that what the map of
reservations has for a run is what its gate reserved, and that finitely many turns
hold one (`SumInv`). For the op that waits in a browser, that a
timer runs for the first one that was ahead, and that all ops still to come are later
ones (`Patient`): the op it waits for never comes, so that no other way of applying
it leaves a queue behind. This needs the ops on their way to be in order
(`OpsInOrder`), which delayed ops are not.

For the browsers, a client is related to the log and to no other client, so the
invariant (`OnceInv`) is one of the log and, for each client, one of its document, its
packets, its messages and the log (`ClientInv`); the lemmas take these as values, and a
step of the specification is one or two of theirs. An update sent again is recognised
by the connections it names. So: of the packets of one op, the first comes before all
others, and each names every connection on which an earlier one, or the log's op, came
(`Packets`); the client remembers these connections, as the one it has or among
`submitted` (`SourcesKept`), and forgets them only when the op is acknowledged. That it
is acknowledged only when it is in the log needs to be known of the messages: those that
are news to the client are, from its version on, the versions of the log, each in its
order, and to the connection it came from as an acknowledgement (`Follows`); while it
catches up they are the ops missed and then the versions after them (`Feed`). An
acknowledgement of a repeated update is never news. And an entry of the log past the
client's version that is its own is the op in flight, while every op that is not in
flight any more is at or before it (`Settled`). What the ops are does not matter to any
of this, so that transformation is left open. catchUp's fold is unrolled by a function
that exists for each length, by a least counterexample.

`ComponentsConverge` describes what is inserted or deleted by the characters of the
result (`Inserted`, `Deleted`), and compares these in each case transformComponent
tells apart: two inserts; a delete before, after or around an insert, when it falls
into two parts that append does not join again; two deletes apart, or overlapping,
when each order removes all that either removes. The folds of Apply and Compose are
over at most two components there and are written out. Both theorems assume what the
text type does: an insert is not beyond the end of the text and no component is
empty. The first assumes of a delete that its text is there; the second does not, and
shows that the joined delete throws when one of the two would. `Failed`, which stands
for an exception, is not a text.

Only model-checked: `NeverRefused` (of which `VersionsFitAlways` proves the part about
versions), `ViewsAgree` and `EditsMerge`. They rest on what the recursive transformX
computes for ops of any number of components: `ComponentsConverge` is one turn of its
loops, but all of them take an induction over data the prover cannot do, and TLC
evaluates the operators on texts of two characters. And all liveness (the prover has
no ENABLED).

## 5. Where code and comments disagree

These appear when a run is given other constants or an invariant is added; no run
is kept for them. The lengths given are those TLC prints: the initial state is step 1.

Document-updater and the agent:

- *Overrunning the lock*: "If it overruns the lock, it's ok, since all of our redis
  work is done" (UpdateManager.js:215). Redis work goes on after recordSnapshot: the
  rest of the batch, and the handler's own method. `DocUpdater` with `OverrunSpec`,
  2 workers, 1 session and 2 set requests violates `DocOpsAligned`.
- *Blocked by two*: "response indicates whether the project has been blocked"
  (HttpController.js:556). There is one key per project: a second migration that is
  refused, or is done, removes the first one's block. `ProjectBlock` with two
  migrations and 2 documents violates `BlockedIsBlocked`.
- *A late update*: "If there is activity we can expect a further flushAndDelete
  request" (DeleteQueueManager.js:26). An update still queued when its user's last
  request was made is newer than that request, which is dropped; nobody asks again.
  `ProjectUnload` with 1 project, 1 user and `"late"` violates `UnloadOwed`.
- *Rolling back mid-run*: "Server-side guard against rolling back mid-run"
  (LlmAgentController.mjs:680). The guard looks at lastRunId once: a run that is
  started but not recorded, an earlier one that is still at work, or one that starts
  after the check runs on while files are reverted. `AgentTurn` with 2 turns, 1
  rollback and no fault violates `NoRevertMidRun`.
- *A waiter returns the result before* (AgentCompileCoordinator.mjs:68): the first
  poll takes whatever result is stored, and RESULT_TTL_MS keeps the one of an
  earlier compile for a minute, though the comment is "wait for them to publish
  the result". In `AgentCompile_lock`, add
  `\A c \in Callers : got[c] \notin before[c] \ {holder[c]}`.
- *A callback before the response of startRun* (LlmAgentController.mjs:362): it
  finds no reservation to release, and the one registered afterwards stays. In
  `AgentTurn_quota`, add `callback[t] = "handled" => reservations[t] = None`.
- *A stale quota read* (LlmAgentController.mjs:258): the usage is read before an
  await and the reservations after it; a run billed and released in between is
  counted by neither, although bill and release are ordered so that a gate sees
  one of them.
- *A run without a reply* (LlmAgentController.mjs:883): a blank reply is answered
  with 400 and a failing recordMessage throws, the run is over and yet
  getActiveRunId names it, so that rollbacks are refused. `AgentTurn_rollback` with
  `"reply"` among the faults violates `NoGhostRun`.
- *Two rollbacks at once* (AgentConversationManager.mjs:253): the run kept as
  lastRunId was computed before the other one removed its reply. `AgentTurn_rollback`
  with two rollbacks violates `NoGhostRun`.
- *External writes* (DocumentManager.js:312): setDoc on a loaded document leaves it
  to "the usual flushing mechanism", but when nobody has the project open and its
  request is dropped for that very write, none follows. `ProjectUnload_leave` with
  `"external"` violates `UnloadOwed`.
- *Scan and pop* (RedisManager.js:534): the entry popped need not be the one found
  old; another process may have taken that one. The project is unloaded early and
  loaded again when used.
- *A migration overtaken by a load* (RedisManager.js:74): a document read from web
  before a migration may be put into Redis after it, with the old stage.
- DeleteQueueManager's comments say 5 minutes, its code 3 (line 137); when reading
  the timestamps fails, the whole pass ends and the popped request is lost
  (counted in `failed`).
- *A request that fails* (WebsocketController.js:187): the call that asks for the
  unloading of a project everybody has left may fail; the error is logged, and the
  project stays in Redis until somebody opens it and leaves again. `UnloadOwed` and
  `UnloadedInTheEnd` count it in `failed`; without that they are violated.

Real-time and the browser (`DocFeed`):

- *The channel before the document*: the room is joined so that the channel "is
  subscribed before sending the doc to the client, so that no events are missed"
  (WebsocketController.js:272). RoomManager lets a second client in at once while the
  first one's subscription is pending (RoomManager.js:58), and a failed subscription
  leaves its client in the room, so that later ones are let in with no subscription
  at all (line 65). `DocFeed_feed` with `ChannelBeforeDoc` finds the first in 5 steps.
  An op that overtakes the answer of joinDoc is dropped by the browser
  (document-container.ts:426), which then finds a gap and gives up.
- *A queue without a timer*: the browser sets "a timer so that we never leave
  messages in the queue indefinitely" (share-js-doc.ts:201). When the timer fires for
  an op that has been applied while a later one is queued, it is not reset, and no
  other is set as long as the queue is not empty. `QueueTimed` without its condition,
  with faults `{"delay", "loss"}`, one client and 4 ops, is violated in 22 steps.

The browser and the server together (`EditSession`):

- *A retry that outlives its op*: inflightSubmittedIds is kept "to make sure that when an
  op is resubmitted it doesn't end up getting applied twice" (sharejs.js:967). A retry
  that fires without a connection polls every 0.5 s in timeouts that the acknowledgement
  does not clear (share-js-doc.ts:444; only the first timer is cleared, line 455). The
  op may be acknowledged by catching up, the next one go in flight, and its connection
  end at once with it; when the poll finds a connection again, some op is in flight, so
  it sends the *first* one, with dupIfSource of the second: the server does not
  recognise it. `EditSession_merge` with one client, `Faults = {"stale"}` and
  `MaxEvents = 4` violates `AppliedOnce` in 15 steps.
- *An op that overtakes the ops missed*: catchUp gives each op the version the document
  has (share-js-doc.ts:310), whatever its own is. An op that is applied after the client
  has entered the room and before document-updater is asked for the ops missed comes
  twice, first alone and then among those; both times it is applied. If it is the
  client's own, the first time it is taken as acknowledged and the second time as
  somebody else's. `EditSession_merge` with `Faults = {"overtake"}` violates
  `ViewsAgree` in 8 steps.

project-history:

- *Discarding what was undone*: "discard updates already applied"
  (UpdatesProcessor.js:771). A batch
  holds the resync of the structure, the content of the document at version v, and
  op v+1. It is recorded and then not deleted, for the worker dies (or the answer
  comes too late), so the batch is sent again. Now expandSyncUpdates, which runs
  before _skipAlreadyAppliedUpdates (line 578), compares the content of the resync
  with a chunk that has op v+1 already, and makes a change that takes it back;
  op v+1 itself is discarded as applied. The history has lost it until the next
  resync. `NothingLost` excepts just these ops (`TakenBack`), and only after a death
  or a missing answer: without the exception it is violated in 27 steps.
  `ProjectHistory_queue` with `DiscardedIsApplied` is violated too.
- *Ignoring updates with nothing to wait for*: startResync lists the three ways a
  resync can go on after a failure (SyncManager.js:43-51). If its lock expires (360 s,
  as long as its request to web may take; it is never extended), another worker may
  flush or destroy the updates the sync state is then set for; setResyncState is not
  fenced, and all updates are ignored from then on. `SkipEnds` without its condition
  is violated in 13 steps.
- *Losing updates in a hard resync*: recordSyncStart comes after the queue has been
  destroyed, so a process that dies in between loses the queue with no resync
  recorded as due; and when web answers with an error, a flush that released the lock
  before may clear the failure record afterwards. When `NothingLost` asks every op to be
  `Kept` after `"hardCrash"` or `"hardWeb"` as well, it is violated in 7 and 8 steps;
  after `"expire"`, in 14.
- startResyncAndProcessUpdatesUnderLock (UpdatesProcessor.js:66-120) calls its callback
  without releasing the lock when an error occurs, and records no error, though
  SyncManager.js:90 says that the error will be recorded. Only a maintenance script
  calls it; it is not in the model.

history-v1 (`ChunkStore`):

- *A change with no persist time*: MAX_PERSIST_DELAY_MS is the "maximum amount of time
  before a change is persisted". close_job deletes the persist time (redis.js:758) of
  changes that were queued while the job was at work, if they came after its last
  read. `PersistOwed` with `Configs <- LevelFour` is violated.
- `Faults = {"overlap"}` violates `AckedInHistory`: at level 0 two requests in flight
  together, which project-history's lock excludes as long as it holds.
  `Faults = {"expiryRace"}` violates `BufferAgrees`: a buffer that expires between
  reading its head version and queueing. The expiry needs an hour without changes.
- *Going back from level 4*: "The forcePersistBuffer flag will ensure the buffer is fully
  persisted before any persist operation" (rollout.js:11). An error while the buffer
  is forced out is only logged (commit_changes.js:46), and the changes are then
  committed at the configured level. Let r1 be queued and answered at level 4, and
  level 0 be deployed with the flag. A late r2, made for the same version, forces the
  buffer out, and a call fails meanwhile; r2 is committed directly where r1 belongs, and
  the answered r1 is lost. A chunk's update compares end versions only, so that a job
  that has read r1 before may afterwards replace r2 as well. No call has to fail: with r1
  (of two changes) and r2 in the buffer, a job persists r1, whose chunk is then full,
  while a late r3, made for the version between them, forces the buffer out; that is
  refused, for the job has changed the chunk, and r3 is committed where the answered r2
  belongs. Both are in `ChunkStore_import`, and what they dispute is excepted: with
  `Settled(v) == TRUE` the run violates `AckedInHistory` and `BufferAgrees` in 14 steps,
  and, without `CallFails`, in 28.
- queueChangesFakeOnlyIfExists ignores the options it is given.

## 6. Not modelled, and the plan

`PROJECT.json` lists every component with the reason. In the order of their weight:

1. `ClsiLock` and `DocArchive`: lock expiry of compiles, archive and unarchive of
   documents while they are written.
2. `Ranges`, `AgentReplace`: tracked changes under transformation, and the agent's
   edits of a document under the same lock.
3. `RateLimiter`: document-updater's limit of concurrent work.
4. In `ProjectHistory`, several documents and structure updates; in `ChunkStore`,
   buffer levels 1 and 2 and the resync persistBuffer asks for.

Also known, and in no model: a notification that is not pushed although its update
was (DocumentUpdaterManager.js:136), the several calls of getPreviousDocOps between
which `DocOps` can expire (RedisManager.js:317), a callback of the agent that fails
and is not sent again (AgentManager.js:364), an llm-agent that restarts during a run
(AgentManager.js:100).

What could still be proved: `UnloadOwed` with late updates excused, and the induction
over the components of an op, of which `ComponentsConverge` and `AppendJoins` are the
steps, with a prover that has it.
