----------------------------- MODULE ChunkStore -----------------------------
(***************************************************************************)
(* history-v1: how imported changes become the stored history of a project.*)
(* A request (importChanges) is committed as the configured buffer level   *)
(* says: at level 0 persistChanges writes it to the chunk store, at levels *)
(* 3 and 4 queueChanges appends it to a buffer in Redis, from where        *)
(* persistBuffer moves it to the chunk store, in the same request (3) or   *)
(* in a job (4). A chunk is a record in Mongo and an object in storage; it *)
(* is never changed but replaced (update) or followed by another (create). *)
(* One action is what happens between two awaits of the code.              *)
(***************************************************************************)
EXTENDS Naturals, Sequences, FiniteSets

CONSTANTS Workers,          \* processes at work on the project
          Requests,         \* import requests; one may be sent many times
          Size,             \* how many changes a request has
          Configs,          \* the buffer configurations deployed
          MaxChunkChanges,  \* limits.maxChunkChanges
          PersistBatchSize, \* PERSIST_BATCH_SIZE
          MaxPersisted,     \* MAX_PERSISTED_CHANGES
          ChunkIds,         \* bound: records and objects at one time
          Faults,           \* which rare events may happen
          None

ASSUME BoundsAssumption ==
    /\ MaxChunkChanges \in Nat \ {0}
    /\ PersistBatchSize \in Nat \ {0}
    /\ MaxPersisted \in Nat
    /\ ChunkIds \subseteq Nat /\ ChunkIds # {}

ASSUME InputAssumption ==
    /\ Size \in [Requests -> Nat \ {0}]
    /\ Configs \subseteq [level : {0, 3, 4}, force : BOOLEAN]
    /\ None \notin Requests \cup Workers \cup Nat

VARIABLES config,           \* historyBufferLevel and forcePersistBuffer
          chunks,           \* Mongo's records, with the objects they name
          head,             \* Redis head-version, or None
          persisted,        \* Redis persisted-version, or None
          buffer,           \* Redis changes, the last one at head
          persistTime,      \* Redis persist-time: None, "due" or who claimed it
          pc,               \* where each worker is
          work,             \* the local variables of each worker
          version,          \* end_version of each request, or None
          acked,            \* the requests answered with 201
          disputed          \* history: the version after which a buffer that was
                            \* not forced out was passed over, or None

redis == <<head, persisted, buffer, persistTime>>
clients == <<version, acked, disputed>>
vars == <<config, chunks, redis, pc, work, clients>>

Changes(r) == [i \in 1..Size[r] |-> <<r, i>>]
Change == UNION {{<<r, i>> : i \in 1..Size[r]} : r \in Requests}

Least(S) == CHOOSE x \in S : \A y \in S : x <= y
Lesser(a, b) == IF a < b THEN a ELSE b
\* The first n elements of a sequence, and the others.
First(s, n) == SubSeq(s, 1, n)
Rest(s, n) == SubSeq(s, n + 1, Len(s))
\* The last n elements of a sequence that has as many: LTRIM -n -1.
LastOf(s, n) == IF n >= Len(s) THEN s ELSE SubSeq(s, Len(s) - n + 1, Len(s))

Free == [state |-> "none", start |-> 0, changes |-> <<>>, stored |-> FALSE]
EndOf(c) == c.start + Len(c.changes)

\* The chunks the history consists of, and the last of them.
Live == {k \in ChunkIds : chunks[k].state \in {"active", "closed"}}
Latest == CHOOSE k \in Live : \A j \in Live : chunks[j].start <= chunks[k].start
StoredEnd == EndOf(chunks[Latest])

\* getChunkForVersion: at a boundary the older chunk, unless preferNewer.
Containing(v) == {k \in Live : chunks[k].start <= v /\ v <= EndOf(chunks[k])}
Older(v) == CHOOSE k \in Containing(v) :
                \A j \in Containing(v) : chunks[k].start <= chunks[j].start
Newer(v) == CHOOSE k \in Containing(v) :
                \A j \in Containing(v) : chunks[j].start <= chunks[k].start

\* What get_non_persisted_changes finds in Redis after a version: nothing, an
\* error, or the changes from there on (at most max, if max is not 0).
BufferStart == IF persisted = None THEN head - Len(buffer) ELSE persisted
OutOfBounds(base) ==
    /\ head # None
    /\ base \notin BufferStart .. head \/ head - base > Len(buffer)
Unpersisted(base, max) ==
    IF head = None \/ OutOfBounds(base) THEN <<>>
    ELSE LET tail == Rest(buffer, Len(buffer) - (head - base))
         IN  IF max > 0 THEN First(tail, Lesser(max, Len(tail))) ELSE tail

\* The history as loadLatest reads it: the chunks and what Redis adds to them.
StoredHistory ==
    LET live == {chunks[k] : k \in Live}
        holding(v) == CHOOSE c \in live : c.start < v /\ v <= EndOf(c)
    IN [v \in 1..StoredEnd |-> holding(v).changes[v - holding(v).start]]
History == StoredHistory \o Unpersisted(StoredEnd, 0)

NoWork == [task |-> None, forcing |-> FALSE, at |-> 0, batch |-> <<>>,
           count |-> 0, any |-> FALSE, creating |-> FALSE, start |-> 0,
           changes |-> <<>>, old |-> 0, id |-> 0]

Init ==
    /\ config \in Configs
    \* initializeProject has stored an empty chunk.
    /\ chunks = [k \in ChunkIds |->
          IF k = Least(ChunkIds) THEN [Free EXCEPT !.state = "active", !.stored = TRUE]
                                 ELSE Free]
    /\ head = None /\ persisted = None /\ buffer = <<>> /\ persistTime = None
    /\ pc = [w \in Workers |-> "idle"]
    /\ work = [w \in Workers |-> NoWork]
    /\ version = [r \in Requests |-> None]
    /\ acked = {} /\ disputed = None
-----------------------------------------------------------------------------
\* Control.

Goto(w, label) == pc' = [pc EXCEPT ![w] = label]

Stop(w) == /\ Goto(w, "idle")
           /\ work' = [work EXCEPT ![w] = NoWork]

\* commitChanges, after the buffer has been forced out if it was to be.
ToCommit(w, r, v) ==
    /\ Goto(w, IF config.level = 0 THEN "load" ELSE "head")
    /\ work' = [work EXCEPT ![w] =
           [NoWork EXCEPT !.task = r, !.at = v, !.batch = Changes(r)]]

\* Redis has changes that no chunk has.
OnlyInRedis == head # None /\ StoredEnd < head

\* An exception: the task ends, but while the buffer is forced out commitChanges
\* only logs it and commits the changes all the same.
Throw(w) ==
    /\ IF work[w].forcing
       THEN /\ ToCommit(w, work[w].task, version[work[w].task])
            /\ disputed' = IF config.level = 0 /\ OnlyInRedis /\ disputed = None
                           THEN StoredEnd ELSE disputed
       ELSE Stop(w) /\ UNCHANGED disputed
    /\ UNCHANGED <<version, acked>>

\* The request is answered.
Answer(w) == /\ acked' = acked \cup {work[w].task}
             /\ UNCHANGED <<version, disputed>>
             /\ Stop(w)

\* persistBuffer returns: a job is closed, a buffer that was forced out can
\* expire, and a request of level 3 is done.
Return(w) == IF work[w].task = "job"
             THEN /\ Goto(w, "close")
                  /\ work' = [work EXCEPT ![w] = [NoWork EXCEPT !.task = "job"]]
                  /\ UNCHANGED clients
             ELSE IF work[w].forcing
                  THEN Goto(w, "expireAgain") /\ UNCHANGED <<work, clients>>
                  ELSE Answer(w)
-----------------------------------------------------------------------------
\* Requests.

\* project-history holds a lock while it sends its changes, so requests only
\* overlap when it has given one up; at level 0 that is a fault.
Alone(w) == \A u \in Workers \ {w} : work[u].task \notin Requests

\* A client reads the latest version and makes a request for it.
Ask(r) ==
    /\ version[r] = None
    /\ version' = [version EXCEPT ![r] = Len(History)]
    /\ UNCHANGED <<config, chunks, redis, pc, work, acked, disputed>>

\* importChanges, when the request arrives: late, again, or twice at once.
Send(w, r) ==
    /\ pc[w] = "idle" /\ version[r] # None
    /\ config.level > 0 \/ Alone(w) \/ "overlap" \in Faults
    /\ IF config.force
       THEN /\ Goto(w, "expire")
            /\ work' = [work EXCEPT ![w].task = r, ![w].forcing = TRUE]
       ELSE ToCommit(w, r, version[r])
    /\ UNCHANGED <<config, chunks, redis, clients>>

\* expire_project: only a buffer that is persisted is dropped.
Clean == head # None /\ persisted = head
Drop == /\ head' = None /\ persisted' = None
        /\ buffer' = <<>> /\ persistTime' = None

\* forcePersistBuffer: drop the buffer, or persist it and then drop it.
ForceExpire(w) ==
    /\ pc[w] \in {"expire", "expireAgain"}
    /\ IF Clean THEN Drop ELSE UNCHANGED redis
    /\ IF pc[w] = "expire" /\ head # None /\ ~Clean
       THEN Goto(w, "metadata") /\ UNCHANGED <<work, clients>>
       ELSE ToCommit(w, work[w].task, version[work[w].task]) /\ UNCHANGED clients
    /\ UNCHANGED <<config, chunks>>

\* queueChanges reads the head version from Redis ...
ReadHead(w) ==
    /\ pc[w] = "head"
    /\ IF head = None THEN Goto(w, "loadHead") /\ UNCHANGED <<work, clients>>
       ELSE IF head = work[w].at THEN Goto(w, "queue") /\ UNCHANGED <<work, clients>>
       ELSE Throw(w)
    /\ UNCHANGED <<config, chunks, redis>>

\* Mutant: the version of the latest chunk is not compared.
LoadNoHead(w) ==
    /\ pc[w] = "loadHead"
    /\ Goto(w, "queue")
    /\ UNCHANGED <<config, chunks, redis, work, clients>>

\* ... or else takes the version of the latest chunk ...
LoadHead(w) ==
    /\ pc[w] = "loadHead"
    /\ IF StoredEnd = work[w].at THEN Goto(w, "queue") /\ UNCHANGED <<work, clients>>
       ELSE Throw(w)
    /\ UNCHANGED <<config, chunks, redis>>

\* Mutant: the script trusts the version that was read before.
MayQueueAlways(v) == TRUE

\* The script queue_changes compares the version again, if there is one.
MayQueue(v) == head \in {None, v}

\* ... and appends the changes to the buffer.
Queue(w) ==
    /\ pc[w] = "queue"
    /\ IF MayQueue(work[w].at)
       THEN /\ buffer' = buffer \o work[w].batch
            /\ head' = work[w].at + Len(work[w].batch)
            /\ persistTime' = IF persistTime = None THEN "due" ELSE persistTime
            /\ UNCHANGED persisted
            /\ IF config.level = 4 THEN Answer(w)
               ELSE Goto(w, "metadata") /\ UNCHANGED <<work, clients>>
       ELSE Throw(w) /\ UNCHANGED redis
    /\ UNCHANGED <<config, chunks>>
-----------------------------------------------------------------------------
\* persistBuffer.

\* A job of persist_redis_chunks claims the project when its time has come; a
\* claim is only good for a while.
Claim(w) ==
    /\ pc[w] = "idle" /\ persistTime # None
    /\ persistTime' = w
    /\ Goto(w, "metadata")
    /\ work' = [work EXCEPT ![w].task = "job"]
    /\ UNCHANGED <<config, chunks, head, persisted, buffer, clients>>

\* getLatestChunkMetadata.
ReadMetadata(w) ==
    /\ pc[w] = "metadata"
    /\ work' = [work EXCEPT ![w].at = StoredEnd, ![w].any = FALSE]
    /\ Goto(w, "fetch")
    /\ UNCHANGED <<config, chunks, redis, clients>>

\* getNonPersistedChanges.
Fetch(w) ==
    LET batch == Unpersisted(work[w].at, PersistBatchSize) IN
    /\ pc[w] = "fetch"
    /\ IF OutOfBounds(work[w].at) THEN Throw(w)
       ELSE IF batch # <<>>
            THEN /\ work' = [work EXCEPT ![w].batch = batch]
                 /\ Goto(w, "load")
                 /\ UNCHANGED clients
       ELSE IF work[w].any THEN Return(w)
       ELSE Goto(w, "noChanges") /\ UNCHANGED <<work, clients>>
    /\ UNCHANGED <<config, chunks, redis>>

\* The script set_persisted_version, when it does set the version.
SetPersisted(v) ==
    /\ persisted' = v
    /\ persistTime' = IF v = head THEN None ELSE persistTime
    /\ buffer' = LastOf(buffer, head - v + MaxPersisted)
    /\ UNCHANGED head
TooLow(v) == persisted # None /\ persisted > v

\* After a batch: anything but 'ok' is an error.
SetVersion(w) ==
    LET v == work[w].at IN
    /\ pc[w] = "setVersion"
    /\ IF head = None \/ TooLow(v) \/ v > head
       THEN Throw(w) /\ UNCHANGED redis
       ELSE /\ SetPersisted(v)
            /\ IF work[w].count < PersistBatchSize THEN Return(w)
               ELSE /\ work' = [work EXCEPT ![w].any = TRUE]
                    /\ Goto(w, "fetch")
                    /\ UNCHANGED clients
    /\ UNCHANGED <<config, chunks>>

\* Without a batch: the version is set for a worker that failed to.
SetVersionAgain(w) ==
    LET v == work[w].at IN
    /\ pc[w] = "noChanges"
    /\ IF head # None /\ v > head /\ ~TooLow(v) THEN Throw(w) /\ UNCHANGED redis
       ELSE /\ IF head = None \/ TooLow(v) THEN UNCHANGED redis ELSE SetPersisted(v)
            /\ Return(w)
    /\ UNCHANGED <<config, chunks>>

\* close_job: the job's time is deleted if it is still the one of this claim.
CloseJob(w) ==
    /\ pc[w] = "close"
    /\ persistTime' = IF persistTime = w THEN None ELSE persistTime
    /\ Stop(w)
    /\ UNCHANGED <<config, chunks, head, persisted, buffer, clients>>
-----------------------------------------------------------------------------
\* persistChanges and the chunk store.

\* Mutant: fillChunk counts only the changes it adds.
RoomOfEmpty(c) == MaxChunkChanges

\* How many changes fillChunk may add to a chunk.
Room(c) == MaxChunkChanges - Len(c.changes)

\* loadLatestChunk and fillChunk: the latest chunk with as many of the changes
\* as it has room for.
Load(w) ==
    LET c == chunks[Latest]
        n == Lesser(Room(c), Len(work[w].batch))
    IN /\ pc[w] = "load"
       /\ IF ~c.stored \/ EndOf(c) # work[w].at THEN Throw(w)
          ELSE /\ work' = [work EXCEPT ![w].start = c.start,
                     ![w].changes = c.changes \o First(work[w].batch, n),
                     ![w].batch = Rest(work[w].batch, n),
                     ![w].count = Len(work[w].batch)]
               /\ Goto(w, IF n > 0 THEN "update" ELSE "create")
               /\ UNCHANGED clients
       /\ UNCHANGED <<config, chunks, redis>>

\* uploadChunk begins: a pending record. Nobody reads its versions before it is
\* activated, so the model fills them in then.
InsertPending(w, k, start, changes, rest, creating) ==
    LET unused == {id \in ChunkIds : chunks[id].state = "none"} IN
    /\ unused # {}
    /\ chunks' = [chunks EXCEPT ![Least(unused)].state = "pending"]
    /\ work' = [work EXCEPT ![w].old = k, ![w].id = Least(unused),
           ![w].start = start, ![w].changes = changes, ![w].batch = rest,
           ![w].creating = creating]
    /\ Goto(w, "store")
    /\ UNCHANGED clients

\* Mutant: update does not compare the end versions.
ReplacesAny(k, s, length) == chunks[k].start = s

\* update refuses a chunk that starts elsewhere, or that would lose changes.
Replaces(k, s, length) == chunks[k].start = s /\ EndOf(chunks[k]) <= s + length

\* update: the chunk to replace is looked up again.
Update(w) ==
    LET s == work[w].start
        k == Newer(s)
    IN /\ pc[w] = "update"
       /\ IF Containing(s) # {} /\ Replaces(k, s, Len(work[w].changes))
          THEN InsertPending(w, k, s, work[w].changes, work[w].batch, FALSE)
          ELSE Throw(w) /\ UNCHANGED chunks
       /\ UNCHANGED <<config, redis>>

\* createNewChunksAsNeeded and create: the changes left over go into a chunk
\* that follows the one that ends there.
Create(w) ==
    LET s == work[w].at
        k == Older(s)
        n == Lesser(MaxChunkChanges, Len(work[w].batch))
    IN /\ pc[w] = "create"
       /\ IF Containing(s) = {} \/ EndOf(chunks[k]) # s
          THEN Throw(w) /\ UNCHANGED chunks
          ELSE InsertPending(w, k, s, First(work[w].batch, n),
                             Rest(work[w].batch, n), TRUE)
       /\ UNCHANGED <<config, redis>>

\* Mutant: uploadChunk does not store the object before it confirms the record.
StoreLater(w) ==
    /\ pc[w] = "store"
    /\ Goto(w, "confirm")
    /\ UNCHANGED <<config, chunks, redis, work, clients>>

\* storeRaw.
Store(w) ==
    /\ pc[w] = "store"
    /\ chunks' = [chunks EXCEPT ![work[w].id].stored = TRUE]
    /\ Goto(w, "confirm")
    /\ UNCHANGED <<config, redis, work, clients>>

\* A request that persists its own changes, with no buffer.
Direct(w) == work[w].task \in Requests /\ config.level = 0 /\ ~work[w].forcing

\* Mutant: confirmCreate does not close the chunk that the new one follows.
SucceededOpen(c, creating) ==
    IF creating THEN c
    ELSE [Free EXCEPT !.state = "deleted", !.stored = c.stored]

\* What becomes of the chunk that was the active one.
Succeeded(c, creating) ==
    IF creating THEN [c EXCEPT !.state = "closed"]
    ELSE [Free EXCEPT !.state = "deleted", !.stored = c.stored]

\* The transaction of confirmUpdate and confirmCreate: the old chunk is still
\* active, the new one still pending, and its start version unique.
Confirm(w) ==
    LET k == work[w].old
        id == work[w].id
        kept == IF work[w].creating THEN Live ELSE Live \ {k}
    IN /\ pc[w] = "confirm"
       /\ IF /\ chunks[k].state = "active"
             /\ chunks[id].state = "pending"
             /\ \A j \in kept : chunks[j].start # work[w].start
          THEN /\ chunks' = [chunks EXCEPT ![k] = Succeeded(@, work[w].creating),
                     ![id] = [state |-> "active", start |-> work[w].start,
                              changes |-> work[w].changes, stored |-> @.stored]]
               /\ IF work[w].batch = <<>> /\ Direct(w) THEN Answer(w)
                  ELSE /\ Goto(w, IF work[w].batch = <<>> THEN "setVersion" ELSE "create")
                       /\ work' = [work EXCEPT
                              ![w].at = work[w].start + Len(work[w].changes),
                              ![w].start = 0, ![w].changes = <<>>,
                              ![w].old = 0, ![w].id = 0, ![w].creating = FALSE]
                       /\ UNCHANGED clients
          ELSE Throw(w) /\ UNCHANGED chunks
       /\ UNCHANGED <<config, redis>>
-----------------------------------------------------------------------------
\* The environment: old chunks, expiry, failures, deployments.

InUse == {work[w].id : w \in Workers} \cup {work[w].old : w \in Workers}

\* deleteOldChunksBatch removes the objects and then the records of deleted and
\* pending chunks. They are older than a day, so no worker uses them, and the
\* two calls are one step.
DeleteOldChunks ==
    LET old == {k \in ChunkIds \ InUse : chunks[k].state \in {"deleted", "pending"}} IN
    /\ old # {}
    /\ chunks' = [k \in ChunkIds |-> IF k \in old THEN Free ELSE chunks[k]]
    /\ UNCHANGED <<config, redis, pc, work, clients>>

\* expire_redis_chunks drops the buffer an hour after its last change: no
\* request is then between reading a head version and using it.
Expire ==
    /\ Clean
    /\ "expiryRace" \in Faults \/ \A w \in Workers : pc[w] # "queue"
    /\ Drop
    /\ UNCHANGED <<config, chunks, pc, work, clients>>

\* The process dies.
Crash(w) ==
    /\ pc[w] # "idle"
    /\ Stop(w)
    /\ UNCHANGED <<config, chunks, redis, clients>>

\* A call to Redis, Mongo or the storage fails: the job or the handler gives up, or
\* goes on if it was forcing the buffer out.
CallFails(w) ==
    /\ pc[w] # "idle"
    /\ Throw(w)
    /\ UNCHANGED <<config, chunks, redis>>

\* Level 4 is given up, with forcePersistBuffer set as rollout.js asks for.
Downgrade ==
    /\ config.level = 4
    /\ \A w \in Workers : pc[w] = "idle"
    /\ config' \in {c \in Configs : c.level = 0 /\ c.force}
    /\ UNCHANGED <<chunks, redis, pc, work, clients>>

Step(w) ==
    \/ \E r \in Requests : Send(w, r)
    \/ ForceExpire(w) \/ ReadHead(w) \/ LoadHead(w) \/ Queue(w)
    \/ Claim(w) \/ ReadMetadata(w) \/ Fetch(w) \/ SetVersion(w)
    \/ SetVersionAgain(w) \/ CloseJob(w)
    \/ Load(w) \/ Update(w) \/ Create(w) \/ Store(w) \/ Confirm(w)
    \/ Crash(w) \/ CallFails(w)

Next ==
    \/ \E r \in Requests : Ask(r)
    \/ \E w \in Workers : Step(w)
    \/ DeleteOldChunks \/ Expire \/ Downgrade

Spec == Init /\ [][Next]_vars
-----------------------------------------------------------------------------
PCs == {"idle", "expire", "expireAgain", "head", "loadHead", "queue", "metadata",
        "fetch", "load", "update", "create", "store", "confirm",
        "setVersion", "noChanges", "close"}
ChunkRecord == [state : {"none", "pending", "active", "closed", "deleted"},
                start : Nat, changes : Seq(Change), stored : BOOLEAN]

\* Type invariant. No chunk grows beyond maxChunkChanges.
TypeOK ==
    /\ config \in Configs
    /\ chunks \in [ChunkIds -> ChunkRecord]
    /\ \A k \in ChunkIds : Len(chunks[k].changes) <= MaxChunkChanges
    /\ head \in Nat \cup {None} /\ persisted \in Nat \cup {None}
    /\ buffer \in Seq(Change) /\ persistTime \in Workers \cup {"due", None}
    /\ pc \in [Workers -> PCs]
    /\ version \in [Requests -> Nat \cup {None}] 
    /\ acked \subseteq Requests /\ disputed \in Nat \cup {None}
    /\ work \in [Workers -> [task : Requests \cup {"job", None}, forcing : BOOLEAN,
           at : Nat, batch : Seq(Change), count : Nat, any : BOOLEAN,
           creating : BOOLEAN, start : Nat, changes : Seq(Change),
           old : Nat, id : Nat]]

\* The live chunks follow each other without gap or overlap, from version 0 on,
\* and only the last one can still be extended, whatever updates, creates and
\* crashes of concurrent persists have been.
ChunksContiguous ==
    /\ \E k \in Live : chunks[k].start = 0
    /\ \A k \in Live :
           IF k = Latest THEN chunks[k].state = "active"
           ELSE /\ chunks[k].state = "closed"
                /\ Cardinality({j \in Live : chunks[j].start = EndOf(chunks[k])}) = 1

\* The object of a chunk that is part of the history exists: it is stored
\* before the record is activated, and deleteOldChunks never removes it.
LiveChunksStored == \A k \in Live : chunks[k].stored

\* Where no buffer has been passed over.
Settled(v) == disputed = None \/ v <= disputed

\* Every request that was answered is in the history as a whole, at the version
\* it was made for, but after a version that is disputed: a failing call does not
\* keep commitChanges from writing other changes in the place of those in Redis.
AckedInHistory ==
    LET h == History IN
    \A r \in acked : Settled(version[r] + Size[r]) =>
        /\ version[r] + Size[r] <= Len(h)
        /\ SubSeq(h, version[r] + 1, version[r] + Size[r]) = Changes(r)

\* What Redis and the chunks both hold is the same, so clients that catch up
\* from the buffer (getChangesSinceVersion) see the history that is stored, but
\* after a version that is disputed; and Redis never claims to have persisted
\* what is not in a chunk.
BufferAgrees ==
    head # None =>
      LET first == head - Len(buffer)
          stored == StoredHistory
      IN /\ persisted # None => persisted <= Len(stored) /\ persisted <= head
         /\ \A v \in DOMAIN stored \cap (first+1 .. head) :
                Settled(v) => buffer[v - first] = stored[v]

\* MAX_PERSIST_DELAY_MS is the "maximum amount of time before a change is
\* persisted": so changes that are not persisted have a persist time, or a job
\* is at work on them.
PersistOwed ==
    head \notin {None, persisted} =>
        \/ persistTime # None
        \/ \E w \in Workers : work[w].task = "job"

\* history-v1 implements the log: whatever is lost, repeated or done by several
\* workers at once, the history only grows, by requests made for its version, as
\* long as no version is disputed. (A step that leaves the chunks, Redis and the
\* versions alone leaves the log alone; to say so only spares TLC the work.)
Abstract == INSTANCE HistoryLog WITH Request <- Requests, log <- History
ImplementsHistoryLog ==
    /\ Abstract!Init
    /\ [][\/ UNCHANGED <<chunks, redis, version>>
          \/ disputed' # None
          \/ Abstract!Next]_(Abstract!vars)
=============================================================================
