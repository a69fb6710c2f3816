-------------------------- MODULE ChunkStore_proofs --------------------------
(***************************************************************************)
(* Proofs about ChunkStore for any workers, requests, limits and faults:   *)
(* types, the chunks follow on each other without gaps and their objects   *)
(* exist; for any deployments and without the events that Quiet excludes:  *)
(* what was answered is kept, Redis and the chunks agree, and HistoryLog   *)
(* is implemented.                                                         *)
(***************************************************************************)
EXTENDS ChunkStore, TLAPS, WellFoundedInduction, FiniteSetTheorems

\* Only what the argument reads of the records.
Shape ==
  /\ DOMAIN chunks = ChunkIds
  /\ \A k \in ChunkIds : {"state", "stored"} \subseteq DOMAIN chunks[k]
  /\ DOMAIN pc = Workers /\ DOMAIN work = Workers
  /\ \A w \in Workers : {"id", "old"} \subseteq DOMAIN work[w]

Uploading(w) == pc[w] \in {"store", "confirm"}

\* The record a worker is about to confirm is one of the records, and names an
\* object that has been stored.
Uploads ==
  \A w \in Workers :
    /\ Uploading(w) => work[w].id \in ChunkIds
    /\ pc[w] = "confirm" => chunks[work[w].id].stored = TRUE

Stored == \A k \in Live : chunks[k].stored = TRUE

StoredInv == Shape /\ Uploads /\ Stored

LEMMA NatHasLeast ==
  ASSUME NEW S \in SUBSET Nat, S # {}
  PROVE  \E x \in S : \A y \in S : x <= y
<1> DEFINE R == OpToRel(<, Nat)
<1>1. PICK x \in S : \A y \in S : <<y, x>> \notin R
  <2> HIDE DEF R
  <2> QED
    BY WFMin, NatLessThanWellFounded DEF R
<1>2. \A y \in S : ~(y < x)
  BY <1>1 DEF OpToRel
<1> QED
  BY <1>2

LEMMA LeastIn ==
  ASSUME NEW S \in SUBSET ChunkIds, S # {}
  PROVE  Least(S) \in S
BY NatHasLeast, BoundsAssumption DEF Least

LEMMA InitStored == Init => StoredInv
BY DEF Init, StoredInv, Shape, Uploads, Uploading, Stored, Live, Free, NoWork

\* A worker goes on to something other than an upload.
LEMMA Elsewhere ==
  ASSUME StoredInv, NEW w \in Workers, chunks' = chunks,
         NEW label, label \notin {"store", "confirm"}, pc' = [pc EXCEPT ![w] = label],
         NEW r, {"id", "old"} \subseteq DOMAIN r, work' = [work EXCEPT ![w] = r]
  PROVE  StoredInv'
BY DEF StoredInv, Shape, Uploads, Uploading, Stored, Live

LEMMA ElsewhereSame ==
  ASSUME StoredInv, NEW w \in Workers, chunks' = chunks, work' = work,
         NEW label, label \notin {"store", "confirm"}, Goto(w, label)
  PROVE  StoredInv'
BY DEF StoredInv, Shape, Uploads, Uploading, Stored, Live, Goto

LEMMA Stops ==
  ASSUME StoredInv, NEW w \in Workers, chunks' = chunks, Stop(w)
  PROVE  StoredInv'
BY Elsewhere DEF Stop, Goto, NoWork

LEMMA Commits ==
  ASSUME StoredInv, NEW w \in Workers, chunks' = chunks, NEW r, NEW v, ToCommit(w, r, v)
  PROVE  StoredInv'
<1> DEFINE label == IF config.level = 0 THEN "load" ELSE "head"
           new == [NoWork EXCEPT !.task = r, !.at = v, !.batch = Changes(r)]
<1>1. pc' = [pc EXCEPT ![w] = label] /\ work' = [work EXCEPT ![w] = new]
  BY DEF ToCommit, Goto
<1>2. label \notin {"store", "confirm"} /\ {"id", "old"} \subseteq DOMAIN new
  BY DEF NoWork
<1> HIDE DEF label, new
<1> QED
  BY <1>1, <1>2, Elsewhere

LEMMA Throws ==
  ASSUME StoredInv, NEW w \in Workers, chunks' = chunks, Throw(w)
  PROVE  StoredInv'
BY Stops, Commits DEF Throw

LEMMA Returns ==
  ASSUME StoredInv, NEW w \in Workers, chunks' = chunks, Return(w)
  PROVE  StoredInv'
<1>1. CASE work[w].task = "job"
  <2> DEFINE new == [NoWork EXCEPT !.task = "job"]
  <2>1. pc' = [pc EXCEPT ![w] = "close"] /\ work' = [work EXCEPT ![w] = new]
    BY <1>1 DEF Return, Goto
  <2>2. {"id", "old"} \subseteq DOMAIN new
    BY DEF NoWork
  <2> HIDE DEF new
  <2> QED
    BY <2>1, <2>2, Elsewhere
<1>2. CASE work[w].task # "job" /\ work[w].forcing
  BY <1>2, ElsewhereSame DEF Return
<1>3. CASE work[w].task # "job" /\ ~work[w].forcing
  BY <1>3, Stops DEF Return, Answer
<1> QED
  BY <1>1, <1>2, <1>3

\* A pending record is made of a free one; its object does not exist yet.
LEMMA Inserts ==
  ASSUME StoredInv, NEW w \in Workers, NEW k, NEW start, NEW changes, NEW rest,
         NEW creating, InsertPending(w, k, start, changes, rest, creating)
  PROVE  StoredInv'
<1> DEFINE unused == {id \in ChunkIds : chunks[id].state = "none"}
           new == Least(unused)
<1>1. /\ unused # {}
      /\ chunks' = [chunks EXCEPT ![new].state = "pending"]
      /\ work' = [work EXCEPT ![w].old = k, ![w].id = new, ![w].start = start,
                ![w].changes = changes, ![w].batch = rest, ![w].creating = creating]
      /\ pc' = [pc EXCEPT ![w] = "store"]
  BY DEF InsertPending, Goto
<1>2. new \in ChunkIds /\ chunks[new].state = "none"
  <2>1. unused \in SUBSET ChunkIds
    OBVIOUS
  <2> QED
    BY <1>1, <2>1, LeastIn
<1> HIDE DEF new, unused
<1>3. /\ DOMAIN chunks' = ChunkIds
      /\ \A j \in ChunkIds : /\ {"state", "stored"} \subseteq DOMAIN chunks'[j]
                             /\ chunks'[j].stored = chunks[j].stored
                             /\ j # new => chunks'[j].state = chunks[j].state
      /\ chunks'[new].state = "pending"
  BY <1>1, <1>2 DEF StoredInv, Shape
<1>4. /\ DOMAIN work' = Workers /\ DOMAIN pc' = Workers
      /\ \A u \in Workers \ {w} : work'[u] = work[u] /\ pc'[u] = pc[u]
      /\ {"id", "old"} \subseteq DOMAIN work'[w] /\ work'[w].id = new /\ pc'[w] = "store"
  BY <1>1 DEF StoredInv, Shape
<1>5. Shape'
  BY <1>3, <1>4 DEF StoredInv, Shape
<1>6. Uploads'
  BY <1>2, <1>3, <1>4 DEF StoredInv, Uploads, Uploading
<1>7. Stored'
  BY <1>3 DEF StoredInv, Stored, Live
<1> QED
  BY <1>5, <1>6, <1>7 DEF StoredInv

LEMMA StoreStored == ASSUME StoredInv, NEW w \in Workers, Store(w) PROVE StoredInv'
<1>1. work[w].id \in ChunkIds /\ work' = work /\ pc' = [pc EXCEPT ![w] = "confirm"]
  BY DEF StoredInv, Uploads, Uploading, Store, Goto
<1>2. /\ DOMAIN chunks' = ChunkIds
      /\ \A j \in ChunkIds : /\ {"state", "stored"} \subseteq DOMAIN chunks'[j]
                             /\ chunks'[j].state = chunks[j].state
                             /\ j # work[w].id => chunks'[j].stored = chunks[j].stored
      /\ chunks'[work[w].id].stored = TRUE
  BY <1>1 DEF Store, StoredInv, Shape
<1>3. Shape'
  BY <1>1, <1>2 DEF StoredInv, Shape
<1>4. Uploads'
  BY <1>1, <1>2 DEF StoredInv, Shape, Uploads, Uploading
<1>5. Stored'
  BY <1>2 DEF StoredInv, Stored, Live
<1> QED
  BY <1>3, <1>4, <1>5 DEF StoredInv

\* The record confirmed becomes part of the history, in place of the one it
\* replaces or after it.
LEMMA ConfirmStored == ASSUME StoredInv, NEW w \in Workers, Confirm(w) PROVE StoredInv'
<1> DEFINE k == work[w].old
           id == work[w].id
           kept == IF work[w].creating THEN Live ELSE Live \ {k}
           confirmed == [state |-> "active", start |-> work[w].start,
                         changes |-> work[w].changes, stored |-> chunks[id].stored]
           after == [work[w] EXCEPT
                       !.at = work[w].start + Len(work[w].changes),
                       !.start = 0, !.changes = <<>>,
                       !.old = 0, !.id = 0, !.creating = FALSE]
           label == IF work[w].batch = <<>> THEN "setVersion" ELSE "create"
<1>1. CASE Throw(w) /\ UNCHANGED chunks
  BY <1>1, Throws
<1>2. ASSUME chunks[k].state = "active", chunks[id].state = "pending",
             chunks' = [chunks EXCEPT ![k] = Succeeded(@, work[w].creating),
                                      ![id] = confirmed],
             \/ Answer(w)
             \/ pc' = [pc EXCEPT ![w] = label] /\ work' = [work EXCEPT ![w] = after]
      PROVE  StoredInv'
  <2>1. id \in ChunkIds /\ chunks[id].stored = TRUE /\ pc[w] = "confirm" /\ k # id
    BY <1>2 DEF Confirm, StoredInv, Uploads, Uploading
  <2>2. k \in ChunkIds => k \in Live
    BY <1>2 DEF Live
  <2>3. /\ {"state", "stored"} \subseteq DOMAIN confirmed /\ confirmed.stored = TRUE
    BY <2>1
  <2>4. /\ k \in ChunkIds => {"state", "stored"} \subseteq DOMAIN Succeeded(chunks[k], work[w].creating)
        /\ k \in ChunkIds => Succeeded(chunks[k], work[w].creating).stored = chunks[k].stored
    BY DEF Succeeded, Free, StoredInv, Shape
  <2> DEFINE succeeded == Succeeded(chunks[k], work[w].creating)
  <2>5. chunks' = [chunks EXCEPT ![k] = succeeded, ![id] = confirmed]
    BY <1>2
  <2> HIDE DEF confirmed, succeeded
  <2>6. /\ DOMAIN chunks' = ChunkIds
        /\ \A j \in ChunkIds \ {k, id} : chunks'[j] = chunks[j]
        /\ k \in ChunkIds => chunks'[k] = succeeded
        /\ chunks'[id] = confirmed
    BY <2>1, <2>5 DEF StoredInv, Shape
  <2>7. \A j \in ChunkIds : /\ {"state", "stored"} \subseteq DOMAIN chunks'[j]
                            /\ chunks[j].stored = TRUE => chunks'[j].stored = TRUE
    BY <2>3, <2>4, <2>6 DEF StoredInv, Shape, succeeded
  <2>8. Stored'
    <3> SUFFICES ASSUME NEW j \in Live' PROVE chunks'[j].stored = TRUE
      BY DEF Stored
    <3>1. j \in ChunkIds
      BY DEF Live
    <3>2. CASE j \in {k, id}
      BY <2>1, <2>2, <2>7, <3>1, <3>2 DEF StoredInv, Stored
    <3>3. CASE j \notin {k, id}
      BY <2>6, <2>7, <3>1, <3>3 DEF StoredInv, Stored, Live
    <3> QED
      BY <3>2, <3>3
  <2>9. /\ DOMAIN work' = Workers /\ DOMAIN pc' = Workers
        /\ \A u \in Workers \ {w} : work'[u] = work[u] /\ pc'[u] = pc[u]
        /\ {"id", "old"} \subseteq DOMAIN work'[w]
        /\ pc'[w] \notin {"store", "confirm"}
    <3>1. CASE Answer(w)
      BY <3>1 DEF Answer, Stop, Goto, NoWork, StoredInv, Shape
    <3>2. CASE pc' = [pc EXCEPT ![w] = label] /\ work' = [work EXCEPT ![w] = after]
      <4>1. {"id", "old"} \subseteq DOMAIN after /\ label \notin {"store", "confirm"}
        BY DEF StoredInv, Shape
      <4> HIDE DEF after, label
      <4> QED
        BY <3>2, <4>1 DEF StoredInv, Shape
    <3> QED
      BY <1>2, <3>1, <3>2
  <2>10. Shape'
    BY <2>6, <2>7, <2>9 DEF StoredInv, Shape
  <2>11. Uploads'
    BY <2>7, <2>9 DEF StoredInv, Uploads, Uploading
  <2> QED
    BY <2>8, <2>10, <2>11 DEF StoredInv
<1> QED
  BY <1>1, <1>2 DEF Confirm, Goto

LEMMA DeleteStored == ASSUME StoredInv, DeleteOldChunks PROVE StoredInv'
<1> DEFINE old == {k \in ChunkIds \ InUse : chunks[k].state \in {"deleted", "pending"}}
<1>1. /\ chunks' = [k \in ChunkIds |-> IF k \in old THEN Free ELSE chunks[k]]
      /\ pc' = pc /\ work' = work
  BY DEF DeleteOldChunks
<1>2. \A w \in Workers : work[w].id \notin old
  BY DEF InUse
<1> HIDE DEF old
<1>3. {"state", "stored"} \subseteq DOMAIN Free /\ Free.state = "none"
  BY DEF Free
<1>4. Shape'
  BY <1>1, <1>3 DEF StoredInv, Shape
<1>5. Uploads'
  BY <1>1, <1>2 DEF StoredInv, Uploads, Uploading
<1>6. Stored'
  BY <1>1, <1>3 DEF StoredInv, Stored, Live
<1> QED
  BY <1>4, <1>5, <1>6 DEF StoredInv

\* Requests: nothing is uploaded.
LEMMA RequestStored ==
  ASSUME StoredInv, NEW w \in Workers,
         \/ \E r \in Requests : Send(w, r)
         \/ ForceExpire(w) \/ ReadHead(w) \/ LoadHead(w) \/ Queue(w)
         \/ Claim(w) \/ ReadMetadata(w) \/ CloseJob(w) \/ Crash(w) \/ CallFails(w)
  PROVE  StoredInv'
<1>1. ASSUME NEW r \in Requests, Send(w, r) PROVE StoredInv'
  <2> DEFINE new == [work[w] EXCEPT !.task = r, !.forcing = TRUE]
  <2>1. CASE config.force
    <3>1. pc' = [pc EXCEPT ![w] = "expire"] /\ work' = [work EXCEPT ![w] = new] /\ chunks' = chunks
      BY <1>1, <2>1 DEF Send, Goto
    <3>2. {"id", "old"} \subseteq DOMAIN new
      BY DEF StoredInv, Shape
    <3> HIDE DEF new
    <3> QED
      BY <3>1, <3>2, Elsewhere
  <2>2. CASE ~config.force
    BY <1>1, <2>2, Commits DEF Send
  <2> QED
    BY <2>1, <2>2
<1>2. CASE ForceExpire(w)
  <2>1. chunks' = chunks
    BY <1>2 DEF ForceExpire
  <2>2. CASE Goto(w, "metadata") /\ UNCHANGED <<work, clients>>
    BY <2>1, <2>2, ElsewhereSame
  <2>3. CASE ToCommit(w, work[w].task, version[work[w].task])
    BY <2>1, <2>3, Commits
  <2> QED
    BY <1>2, <2>2, <2>3 DEF ForceExpire
<1>3. CASE ReadHead(w)
  BY <1>3, ElsewhereSame, Throws DEF ReadHead
<1>4. CASE LoadHead(w)
  BY <1>4, ElsewhereSame, Throws DEF LoadHead
<1>5. CASE Queue(w)
  <2>1. chunks' = chunks
    BY <1>5 DEF Queue
  <2> QED
    BY <1>5, <2>1, ElsewhereSame, Throws, Stops DEF Queue, Answer
<1>6. CASE Claim(w)
  <2> DEFINE new == [work[w] EXCEPT !.task = "job"]
  <2>1. pc' = [pc EXCEPT ![w] = "metadata"] /\ work' = [work EXCEPT ![w] = new] /\ chunks' = chunks
    BY <1>6 DEF Claim, Goto
  <2>2. {"id", "old"} \subseteq DOMAIN new
    BY DEF StoredInv, Shape
  <2> HIDE DEF new
  <2> QED
    BY <2>1, <2>2, Elsewhere
<1>7. CASE ReadMetadata(w)
  <2> DEFINE new == [work[w] EXCEPT !.at = StoredEnd, !.any = FALSE]
  <2>1. pc' = [pc EXCEPT ![w] = "fetch"] /\ work' = [work EXCEPT ![w] = new] /\ chunks' = chunks
    BY <1>7 DEF ReadMetadata, Goto
  <2>2. {"id", "old"} \subseteq DOMAIN new
    BY DEF StoredInv, Shape
  <2> HIDE DEF new
  <2> QED
    BY <2>1, <2>2, Elsewhere
<1>8. CASE CloseJob(w) \/ Crash(w)
  BY <1>8, Stops DEF CloseJob, Crash
<1>9. CASE CallFails(w)
  BY <1>9, Throws DEF CallFails
<1> QED
  BY <1>1, <1>2, <1>3, <1>4, <1>5, <1>6, <1>7, <1>8, <1>9

\* Persisting: the steps before and after an upload.
LEMMA PersistStored ==
  ASSUME StoredInv, NEW w \in Workers,
         \/ Fetch(w) \/ SetVersion(w) \/ SetVersionAgain(w)
         \/ Load(w) \/ Update(w) \/ Create(w)
  PROVE  StoredInv'
<1>1. CASE Fetch(w)
  <2> DEFINE batch == Unpersisted(work[w].at, PersistBatchSize)
             new == [work[w] EXCEPT !.batch = batch]
  <2>1. chunks' = chunks
    BY <1>1 DEF Fetch
  <2>2. CASE work' = [work EXCEPT ![w] = new] /\ Goto(w, "load")
    <3>1. {"id", "old"} \subseteq DOMAIN new
      BY DEF StoredInv, Shape
    <3> HIDE DEF batch, new
    <3> QED
      BY <2>1, <2>2, <3>1, Elsewhere DEF Goto
  <2>3. CASE Throw(w) \/ Return(w)
    BY <2>1, <2>3, Throws, Returns
  <2>4. CASE Goto(w, "noChanges") /\ UNCHANGED <<work, clients>>
    BY <2>1, <2>4, ElsewhereSame
  <2> QED
    BY <1>1, <2>2, <2>3, <2>4 DEF Fetch
<1>2. CASE SetVersion(w)
  <2> DEFINE new == [work[w] EXCEPT !.any = TRUE]
  <2>1. chunks' = chunks
    BY <1>2 DEF SetVersion
  <2>2. CASE work' = [work EXCEPT ![w] = new] /\ Goto(w, "fetch")
    <3>1. {"id", "old"} \subseteq DOMAIN new
      BY DEF StoredInv, Shape
    <3> HIDE DEF new
    <3> QED
      BY <2>1, <2>2, <3>1, Elsewhere DEF Goto
  <2>3. CASE Throw(w) \/ Return(w)
    BY <2>1, <2>3, Throws, Returns
  <2> QED
    BY <1>2, <2>2, <2>3 DEF SetVersion
<1>3. CASE SetVersionAgain(w)
  <2>1. chunks' = chunks /\ (Throw(w) \/ Return(w))
    BY <1>3 DEF SetVersionAgain
  <2> QED
    BY <2>1, Throws, Returns
<1>4. CASE Load(w)
  <2> DEFINE c == chunks[Latest]
             n == Lesser(Room(c), Len(work[w].batch))
             new == [work[w] EXCEPT !.start = c.start,
                       !.changes = c.changes \o First(work[w].batch, n),
                       !.batch = Rest(work[w].batch, n),
                       !.count = Len(work[w].batch)]
             label == IF n > 0 THEN "update" ELSE "create"
  <2>1. chunks' = chunks
    BY <1>4 DEF Load
  <2>2. CASE work' = [work EXCEPT ![w] = new] /\ Goto(w, label)
    <3>1. {"id", "old"} \subseteq DOMAIN new /\ label \notin {"store", "confirm"}
      BY DEF StoredInv, Shape
    <3> HIDE DEF c, n, new, label
    <3> QED
      BY <2>1, <2>2, <3>1, Elsewhere DEF Goto
  <2>3. CASE Throw(w)
    BY <2>1, <2>3, Throws
  <2> QED
    BY <1>4, <2>2, <2>3 DEF Load
<1>5. CASE Update(w)
  BY <1>5, Inserts, Throws DEF Update
<1>6. CASE Create(w)
  BY <1>6, Inserts, Throws DEF Create
<1> QED
  BY <1>1, <1>2, <1>3, <1>4, <1>5, <1>6

LEMMA NextStored == StoredInv /\ [Next]_vars => StoredInv'
<1> SUFFICES ASSUME StoredInv, [Next]_vars PROVE StoredInv'
  OBVIOUS
<1>1. CASE \E w \in Workers : Step(w)
  BY <1>1, RequestStored, PersistStored, StoreStored, ConfirmStored DEF Step
<1>2. CASE DeleteOldChunks
  BY <1>2, DeleteStored
<1>3. CASE Expire \/ Downgrade \/ (\E r \in Requests : Ask(r)) \/ UNCHANGED vars
  <2>1. UNCHANGED <<chunks, pc, work>>
    BY <1>3 DEF Expire, Downgrade, Ask, vars
  <2> QED
    BY <2>1 DEF StoredInv, Shape, Uploads, Uploading, Stored, Live
<1> QED
  BY <1>1, <1>2, <1>3 DEF Next

\* The object of every chunk the history consists of exists, whatever workers
\* replace, crash in and delete at once: uploadChunk stores it before it confirms
\* the record, and deleteOldChunks leaves alone what is in use.
THEOREM HistoryStored == Spec => []LiveChunksStored
<1>1. StoredInv => LiveChunksStored
  BY DEF StoredInv, Stored, LiveChunksStored
<1> QED
  BY <1>1, InitStored, NextStored, PTL DEF Spec

-----------------------------------------------------------------------------
(* The live chunks follow each other. *)

Work == [task : Requests \cup {"job", None}, forcing : BOOLEAN,
         at : Nat, batch : Seq(Change), count : Nat, any : BOOLEAN,
         creating : BOOLEAN, start : Nat, changes : Seq(Change),
         old : Nat, id : Nat]

\* The types of everything but disputed.
Types ==
  /\ config \in Configs
  /\ chunks \in [ChunkIds -> ChunkRecord]
  /\ \A k \in ChunkIds : Len(chunks[k].changes) <= MaxChunkChanges
  /\ head \in Nat \cup {None} /\ persisted \in Nat \cup {None}
  /\ buffer \in Seq(Change) /\ persistTime \in Workers \cup {"due", None}
  /\ pc \in [Workers -> PCs] /\ work \in [Workers -> Work]
  /\ version \in [Requests -> Nat \cup {None}] /\ acked \subseteq Requests

\* One chunk is active, and it is the last; an empty one is the first; no two chunks
\* overlap, none is followed by a gap, and together they hold every version.
Ordered ==
  /\ \E a \in ChunkIds : chunks[a].state = "active"
  /\ \A a, b \in ChunkIds : chunks[a].state = "active" /\ chunks[b].state = "active" => a = b
  /\ \E k \in Live : chunks[k].start = 0
  /\ \A k \in Live : chunks[k].changes = <<>> => chunks[k].start = 0
  /\ \A j, k \in Live : chunks[j].start = chunks[k].start => j = k
  /\ \A j, k \in Live : chunks[j].start < chunks[k].start => EndOf(chunks[j]) <= chunks[k].start
  /\ \A k \in Live : chunks[k].state = "closed" =>
         \E j \in Live : chunks[j].start = EndOf(chunks[k])
  /\ \A a, k \in Live : chunks[a].state = "active" =>
         /\ chunks[k].start <= chunks[a].start
         /\ \A v \in 1..EndOf(chunks[a]) :
               \E j \in Live : chunks[j].start < v /\ v <= EndOf(chunks[j])

\* An upload is of a pending record, and if the record it is to replace or to follow
\* has not been replaced meanwhile, it is as the worker found it.
Replacing(x) ==
  /\ x.id \in ChunkIds /\ x.old \in ChunkIds
  /\ chunks[x.id].state = "pending"
  /\ chunks[x.old].state \in {"active", "closed", "deleted"}
  /\ chunks[x.old].state # "deleted" =>
       IF x.creating THEN EndOf(chunks[x.old]) = x.start /\ x.start >= 1
       ELSE chunks[x.old].start = x.start /\ EndOf(chunks[x.old]) <= x.start + Len(x.changes)

\* What a worker at p has in its variables x.
Proper(p, x) ==
  /\ p = "idle" => x = NoWork
  /\ x.forcing => x.task \in Requests /\ version[x.task] # None
  /\ p \in {"expire", "expireAgain"} => x.forcing
  /\ p \in {"head", "loadHead", "queue"} => x.task \in Requests
  /\ p # "idle" => x.task \in Requests \cup {"job"}
  /\ p \in {"load", "create"} => x.batch # <<>>
  /\ p = "create" => x.at >= 1
  /\ p \in {"update", "store", "confirm"} => x.changes # <<>> /\ Len(x.changes) <= MaxChunkChanges
  /\ p \in {"store", "confirm"} => Replacing(x)

\* No two workers upload the same record.
Distinct ==
  \A u, w \in Workers : Uploading(u) /\ Uploading(w) /\ work[u].id = work[w].id => u = w

StructInv ==
  /\ Types /\ Ordered
  /\ \A w \in Workers : Proper(pc[w], work[w])
  /\ Distinct

LEMMA LatestIs ==
  ASSUME Types, Ordered
  PROVE  /\ Latest \in Live /\ Latest \in ChunkIds
         /\ chunks[Latest] \in ChunkRecord
         /\ chunks[Latest].state = "active"
         /\ \A k \in ChunkIds : chunks[k].state = "active" => k = Latest
         /\ \A k \in Live : chunks[k].start <= chunks[Latest].start
         /\ StoredEnd \in Nat
<1>1. PICK a \in ChunkIds : chunks[a].state = "active"
  BY DEF Ordered
<1>2. a \in Live /\ \A j \in Live : chunks[j].start <= chunks[a].start
  BY <1>1 DEF Ordered, Live
<1>3. Latest \in Live /\ \A j \in Live : chunks[j].start <= chunks[Latest].start
  BY <1>2 DEF Latest
<1>4. \A k \in Live : k \in ChunkIds /\ chunks[k] \in ChunkRecord /\ chunks[k].start \in Nat
  BY DEF Live, Types, ChunkRecord
<1>5. chunks[Latest].start = chunks[a].start
  BY <1>2, <1>3, <1>4
<1>6. Latest = a
  BY <1>2, <1>3, <1>5 DEF Ordered
<1>7. StoredEnd \in Nat
  BY <1>3, <1>4 DEF StoredEnd, EndOf, ChunkRecord
<1> QED
  BY <1>1, <1>3, <1>4, <1>6, <1>7 DEF Ordered

LEMMA LatestActive ==
  Types /\ Ordered => Latest \in ChunkIds /\ chunks[Latest].state = "active"
BY LatestIs

\* The stored history is a sequence, and each chunk is a section of it.
StoredFacts ==
  /\ StoredHistory \in Seq(Change)
  /\ Len(StoredHistory) = StoredEnd /\ StoredEnd \in Nat
  /\ \A k \in Live : EndOf(chunks[k]) <= StoredEnd
  /\ \A k \in Live : \A i \in 1..Len(chunks[k].changes) :
        StoredHistory[chunks[k].start + i] = chunks[k].changes[i]
  /\ Latest \in Live
  /\ \A v \in 1..StoredEnd : \E k \in Live : chunks[k].start < v /\ v <= EndOf(chunks[k])

LEMMA StoredIs == Types /\ Ordered => StoredFacts
<1> SUFFICES ASSUME Types, Ordered PROVE StoredFacts
  OBVIOUS
<1> DEFINE live == {chunks[k] : k \in Live}
           In(c, v) == c.start < v /\ v <= EndOf(c)
           holding(v) == CHOOSE c \in live : In(c, v)
<1>1. \A k \in Live : /\ k \in ChunkIds /\ chunks[k] \in ChunkRecord
                      /\ chunks[k].start \in Nat /\ chunks[k].changes \in Seq(Change)
                      /\ EndOf(chunks[k]) = chunks[k].start + Len(chunks[k].changes)
                      /\ Len(chunks[k].changes) \in Nat
  BY DEF Live, Types, ChunkRecord, EndOf
<1>2. \A j, k \in Live : \A v \in Nat : In(chunks[j], v) /\ In(chunks[k], v) => j = k
  <2> SUFFICES ASSUME NEW j \in Live, NEW k \in Live, NEW v \in Nat,
                      In(chunks[j], v), In(chunks[k], v)
               PROVE  j = k
    OBVIOUS
  <2>1. ~(chunks[j].start < chunks[k].start) /\ ~(chunks[k].start < chunks[j].start)
    BY <1>1 DEF Ordered
  <2> QED
    BY <1>1, <2>1 DEF Ordered
<1>3. \A k \in Live : \A v \in Nat : In(chunks[k], v) => holding(v) = chunks[k]
  BY <1>2
<1>4. \A v \in 1..StoredEnd : \E k \in Live : In(chunks[k], v)
  BY LatestIs DEF StoredEnd, Ordered
<1>5. StoredHistory = [v \in 1..StoredEnd |-> holding(v).changes[v - holding(v).start]]
  BY DEF StoredHistory
<1>6. StoredEnd \in Nat
  BY LatestIs
<1>7. \A v \in 1..StoredEnd : holding(v).changes[v - holding(v).start] \in Change
  <2> SUFFICES ASSUME NEW v \in 1..StoredEnd
               PROVE  holding(v).changes[v - holding(v).start] \in Change
    OBVIOUS
  <2>1. PICK k \in Live : In(chunks[k], v)
    BY <1>4
  <2>2. holding(v) = chunks[k] /\ v \in Nat
    BY <1>3, <1>6, <2>1
  <2> HIDE DEF holding
  <2>3. v - chunks[k].start \in 1..Len(chunks[k].changes)
    BY <1>1, <2>1, <2>2
  <2> QED
    BY <1>1, <2>2, <2>3
<1>8. \A k \in Live : EndOf(chunks[k]) <= StoredEnd
  <2> SUFFICES ASSUME NEW k \in Live PROVE EndOf(chunks[k]) <= StoredEnd
    OBVIOUS
  <2>1. Latest \in Live /\ chunks[k].start <= chunks[Latest].start
    BY LatestIs
  <2>2. CASE chunks[k].start < chunks[Latest].start
    <3>1. EndOf(chunks[k]) <= chunks[Latest].start
      BY <2>1, <2>2 DEF Ordered
    <3> QED
      BY <1>1, <2>1, <3>1, SMTT(30) DEF StoredEnd
  <2>3. CASE chunks[k].start = chunks[Latest].start
    BY <1>1, <2>1, <2>3 DEF StoredEnd, Ordered
  <2> QED
    BY <1>1, <2>1, <2>2, <2>3
<1>9. \A k \in Live : \A i \in 1..Len(chunks[k].changes) :
         StoredHistory[chunks[k].start + i] = chunks[k].changes[i]
  <2> SUFFICES ASSUME NEW k \in Live, NEW i \in 1..Len(chunks[k].changes)
               PROVE  StoredHistory[chunks[k].start + i] = chunks[k].changes[i]
    OBVIOUS
  <2> DEFINE v == chunks[k].start + i
  <2>1. v \in Nat /\ In(chunks[k], v) /\ v \in 1..StoredEnd /\ v - chunks[k].start = i
    BY <1>1, <1>6, <1>8
  <2>2. holding(v) = chunks[k]
    BY <1>3, <2>1
  <2> HIDE DEF v, holding
  <2> QED
    BY <1>5, <2>1, <2>2 DEF v
<1> HIDE DEF holding
<1>10. StoredHistory \in [1..StoredEnd -> Change]
  BY <1>5, <1>7
<1>11. StoredHistory \in Seq(Change) /\ Len(StoredHistory) = StoredEnd
  BY <1>6, <1>10
<1> QED
  BY <1>4, <1>6, <1>8, <1>9, <1>11, LatestIs DEF StoredFacts

LEMMA UnpersistedTyped ==
  ASSUME Types, NEW base \in Nat, NEW max \in Nat
  PROVE  Unpersisted(base, max) \in Seq(Change)
<1> DEFINE tail == Rest(buffer, Len(buffer) - (head - base))
<1>1. CASE head = None \/ OutOfBounds(base)
  BY <1>1 DEF Unpersisted
<1>2. CASE ~(head = None \/ OutOfBounds(base))
  <2>1. /\ head \in Nat /\ head - base \in Nat /\ head - base <= Len(buffer)
        /\ buffer \in Seq(Change) /\ Len(buffer) \in Nat
    BY <1>2 DEF Types, OutOfBounds
  <2>2. tail \in Seq(Change) /\ Len(tail) \in Nat
    BY <2>1 DEF Rest
  <2>3. Unpersisted(base, max) = IF max > 0 THEN First(tail, Lesser(max, Len(tail))) ELSE tail
    BY <1>2 DEF Unpersisted
  <2> HIDE DEF tail
  <2>4. First(tail, Lesser(max, Len(tail))) \in Seq(Change)
    BY <2>2 DEF First, Lesser
  <2> QED
    BY <2>2, <2>3, <2>4
<1> QED
  BY <1>1, <1>2

LEMMA HistoryTyped == Types /\ Ordered => History \in Seq(Change) /\ Len(History) \in Nat
<1> SUFFICES ASSUME Types, Ordered PROVE History \in Seq(Change) /\ Len(History) \in Nat
  OBVIOUS
<1>1. Unpersisted(StoredEnd, 0) \in Seq(Change)
  BY LatestIs, UnpersistedTyped
<1>2. StoredHistory \in Seq(Change)
  BY StoredIs DEF StoredFacts
<1> QED
  BY <1>1, <1>2 DEF History

LEMMA ChangesTyped ==
  ASSUME NEW r \in Requests
  PROVE  /\ Changes(r) \in Seq(Change) /\ Len(Changes(r)) = Size[r] /\ Size[r] \in Nat \ {0}
         /\ \A i \in 1..Size[r] : Changes(r)[i] = <<r, i>>
<1>1. Size[r] \in Nat \ {0}
  BY InputAssumption
<1>2. \A i \in 1..Size[r] : <<r, i>> \in Change
  BY DEF Change
<1> QED
  BY <1>1, <1>2 DEF Changes

LEMMA NoWorkTyped == NoWork \in Work /\ ~NoWork.forcing /\ NoWork.task = None
  BY DEF NoWork, Work

LEMMA EmptyIsSeq == ASSUME NEW S PROVE <<>> \in Seq(S)
OBVIOUS

LEMMA InitStruct == Init => StructInv
<1> SUFFICES ASSUME Init PROVE StructInv
  OBVIOUS
<1> DEFINE a == Least(ChunkIds)
           first == [Free EXCEPT !.state = "active", !.stored = TRUE]
<1>1. a \in ChunkIds
  BY LeastIn, BoundsAssumption
<1>2. chunks = [k \in ChunkIds |-> IF k = a THEN first ELSE Free]
  BY DEF Init
<1> HIDE DEF a
<1>3. /\ Free \in ChunkRecord /\ Free.state = "none" /\ Free.changes = <<>>
      /\ first \in ChunkRecord /\ first.state = "active" /\ first.changes = <<>>
      /\ first.start = 0
  <2>1. <<>> \in Seq(Change)
    BY EmptyIsSeq
  <2>2. /\ Free \in ChunkRecord /\ Free.state = "none" /\ Free.changes = <<>>
        /\ Free.start = 0
    BY <2>1 DEF Free, ChunkRecord
  <2> QED
    BY <2>2 DEF ChunkRecord
<1> HIDE DEF first
<1>4. /\ chunks \in [ChunkIds -> ChunkRecord]
      /\ \A k \in ChunkIds : chunks[k].changes = <<>>
      /\ chunks[a].state = "active" /\ chunks[a].start = 0
      /\ \A k \in ChunkIds : k # a => chunks[k].state = "none"
  BY <1>1, <1>2, <1>3
<1>5. Live = {a}
  BY <1>1, <1>4 DEF Live
<1>6. EndOf(chunks[a]) = 0
  BY <1>1, <1>4 DEF EndOf
<1>7. Ordered
  BY <1>1, <1>4, <1>5, <1>6 DEF Ordered
<1>8. work \in [Workers -> Work] /\ \A w \in Workers : pc[w] = "idle" /\ work[w] = NoWork
  BY NoWorkTyped DEF Init
<1>9. Types
  BY <1>4, <1>8, BoundsAssumption, InputAssumption DEF Types, Work, Init, PCs
<1>10. \A w \in Workers : Proper(pc[w], work[w])
  BY <1>8, NoWorkTyped DEF Proper
<1>11. Distinct
  BY <1>8 DEF Distinct, Uploading
<1> QED
  BY <1>7, <1>9, <1>10, <1>11 DEF StructInv

\* A step of a worker that changes no chunk: what it has from then on is as it ought
\* to be, and it is not at the beginning of an upload.
LEMMA WorksOn ==
  ASSUME StructInv, NEW w \in Workers, NEW p \in PCs, NEW x \in Work,
         chunks' = chunks, config' \in Configs, version' = version,
         pc' = [pc EXCEPT ![w] = p], work' = [work EXCEPT ![w] = x],
         Proper(p, x), p \notin {"store", "confirm"},
         head' \in Nat \cup {None}, persisted' \in Nat \cup {None},
         buffer' \in Seq(Change), persistTime' \in Workers \cup {"due", None},
         acked' \subseteq Requests
  PROVE  StructInv'
<1>1. /\ pc \in [Workers -> PCs] /\ work \in [Workers -> Work]
      /\ pc' \in [Workers -> PCs] /\ work' \in [Workers -> Work]
  BY DEF StructInv, Types, Work
<1>2. Types'
  BY <1>1 DEF StructInv, Types, Work
<1>3. Ordered'
  BY DEF StructInv, Ordered, Live
<1>4. ASSUME NEW u \in Workers PROVE Proper(pc[u], work[u])'
  <2>1. Proper(pc'[u], work'[u])
    BY <1>1 DEF StructInv
  <2> QED
    BY <2>1 DEF Proper, Replacing
<1>5. Distinct'
  BY <1>1 DEF StructInv, Distinct, Uploading
<1> QED
  BY <1>2, <1>3, <1>4, <1>5 DEF StructInv

\* What the steps of workers do to the other variables.
Others ==
  /\ chunks' = chunks /\ version' = version
  /\ config' \in Configs
  /\ head' \in Nat \cup {None} /\ persisted' \in Nat \cup {None}
  /\ buffer' \in Seq(Change) /\ persistTime' \in Workers \cup {"due", None}

LEMMA StructMoves ==
  ASSUME StructInv, NEW w \in Workers, Others, acked' = acked, work' = work,
         NEW p \in PCs, Goto(w, p), Proper(p, work[w]), p \notin {"store", "confirm"}
  PROVE  StructInv'
<1>1. work[w] \in Work /\ work' = [work EXCEPT ![w] = work[w]]
  BY DEF StructInv, Types, Work
<1>2. acked' \subseteq Requests
  BY DEF StructInv, Types
<1> QED
  BY <1>1, <1>2, WorksOn DEF Others, Goto

LEMMA StructStops ==
  ASSUME StructInv, NEW w \in Workers, Others, acked' \subseteq Requests, Stop(w)
  PROVE  StructInv'
<1>1. Proper("idle", NoWork) /\ "idle" \in PCs
  BY NoWorkTyped DEF Proper, PCs
<1> QED
  BY <1>1, NoWorkTyped, WorksOn DEF Others, Stop, Goto

LEMMA StructCommits ==
  ASSUME StructInv, NEW w \in Workers, Others, acked' = acked,
         NEW r \in Requests, NEW v \in Nat, ToCommit(w, r, v)
  PROVE  StructInv'
<1> DEFINE p == IF config.level = 0 THEN "load" ELSE "head"
           x == [NoWork EXCEPT !.task = r, !.at = v, !.batch = Changes(r)]
<1>1. pc' = [pc EXCEPT ![w] = p] /\ work' = [work EXCEPT ![w] = x]
  BY DEF ToCommit, Goto
<1>2. Changes(r) \in Seq(Change) /\ Changes(r) # <<>>
  BY ChangesTyped
<1>3. x \in Work /\ x.task = r /\ x.batch = Changes(r) /\ ~x.forcing
  BY <1>2, NoWorkTyped DEF Work
<1> HIDE DEF x
<1>4. p \in PCs /\ p \in {"load", "head"}
  BY DEF PCs
<1>5. Proper(p, x)
  BY <1>2, <1>3, <1>4 DEF Proper
<1>6. acked' \subseteq Requests
  BY DEF StructInv, Types
<1> HIDE DEF p
<1> QED
  BY <1>1, <1>3, <1>4, <1>5, <1>6, WorksOn DEF Others

LEMMA StructThrows ==
  ASSUME StructInv, NEW w \in Workers, Others, Throw(w)
  PROVE  StructInv'
<1>1. acked' = acked /\ acked \subseteq Requests
  BY DEF Throw, StructInv, Types, clients
<1>2. CASE work[w].forcing
  <2>1. work[w].task \in Requests /\ version[work[w].task] \in Nat
    BY <1>2 DEF StructInv, Proper, Types
  <2> QED
    BY <1>1, <1>2, <2>1, StructCommits DEF Throw
<1>3. CASE ~work[w].forcing
  BY <1>1, <1>3, StructStops DEF Throw
<1> QED
  BY <1>2, <1>3

LEMMA StructAnswers ==
  ASSUME StructInv, NEW w \in Workers, Others, work[w].task \in Requests, Answer(w)
  PROVE  StructInv'
<1>1. acked' \subseteq Requests
  BY DEF Answer, StructInv, Types
<1> QED
  BY <1>1, StructStops DEF Answer

LEMMA StructReturns ==
  ASSUME StructInv, NEW w \in Workers, Others, pc[w] # "idle", Return(w)
  PROVE  StructInv'
<1>1. acked \subseteq Requests /\ work[w].task \in Requests \cup {"job"}
  BY DEF StructInv, Types, Proper
<1>2. CASE work[w].task = "job"
  <2> DEFINE x == [NoWork EXCEPT !.task = "job"]
  <2>1. pc' = [pc EXCEPT ![w] = "close"] /\ work' = [work EXCEPT ![w] = x] /\ acked' = acked
    BY <1>2 DEF Return, Goto, clients
  <2>2. x \in Work /\ x.task = "job" /\ ~x.forcing
    BY NoWorkTyped DEF Work
  <2> HIDE DEF x
  <2>3. Proper("close", x) /\ "close" \in PCs
    BY <2>2 DEF Proper, PCs
  <2> QED
    BY <1>1, <2>1, <2>2, <2>3, WorksOn DEF Others
<1>3. CASE work[w].task # "job" /\ work[w].forcing
  <2>1. Goto(w, "expireAgain") /\ work' = work /\ acked' = acked
    BY <1>3 DEF Return, clients
  <2>2. Proper("expireAgain", work[w]) /\ "expireAgain" \in PCs
    BY <1>1, <1>3 DEF StructInv, Proper, PCs
  <2> QED
    BY <2>1, <2>2, StructMoves
<1>4. CASE work[w].task # "job" /\ ~work[w].forcing
  BY <1>1, <1>4, StructAnswers DEF Return
<1> QED
  BY <1>2, <1>3, <1>4

\* Requests, jobs and crashes.
LEMMA StructRequests ==
  ASSUME StructInv, NEW w \in Workers,
         \/ \E r \in Requests : Send(w, r)
         \/ ForceExpire(w) \/ ReadHead(w) \/ LoadHead(w) \/ Queue(w)
         \/ Claim(w) \/ ReadMetadata(w) \/ CloseJob(w) \/ Crash(w) \/ CallFails(w)
  PROVE  StructInv'
<1> USE DEF redis, clients
<1>1. /\ Types /\ work[w] \in Work /\ Proper(pc[w], work[w])
      /\ config \in Configs /\ acked \subseteq Requests
      /\ head \in Nat \cup {None} /\ persisted \in Nat \cup {None}
      /\ buffer \in Seq(Change) /\ persistTime \in Workers \cup {"due", None}
  BY DEF StructInv, Types, Work
<1>2. ASSUME NEW r \in Requests, Send(w, r) PROVE StructInv'
  <2>1. Others /\ acked' = acked /\ version[r] \in Nat
    BY <1>1, <1>2 DEF Send, Others, Types
  <2>2. CASE config.force
    <3> DEFINE x == [work[w] EXCEPT !.task = r, !.forcing = TRUE]
    <3>1. pc' = [pc EXCEPT ![w] = "expire"] /\ work' = [work EXCEPT ![w] = x]
      BY <1>2, <2>2 DEF Send, Goto
    <3>2. x \in Work /\ x.task = r /\ x.forcing
      BY <1>1 DEF Work
    <3> HIDE DEF x
    <3>3. Proper("expire", x) /\ "expire" \in PCs
      BY <1>2, <3>2 DEF Proper, PCs, Send
    <3> QED
      BY <1>1, <2>1, <3>1, <3>2, <3>3, WorksOn DEF Others
  <2>3. CASE ~config.force
    BY <1>2, <2>1, <2>3, StructCommits DEF Send
  <2> QED
    BY <2>2, <2>3
<1>3. CASE ForceExpire(w)
  <2>1. Others /\ acked' = acked
    <3>1. CASE Clean
      BY <1>1, <1>3, <3>1, EmptyIsSeq DEF ForceExpire, Others, Drop, ToCommit
    <3>2. CASE ~Clean
      BY <1>1, <1>3, <3>2 DEF ForceExpire, Others
    <3> QED
      BY <3>1, <3>2
  <2>2. work[w].forcing /\ work[w].task \in Requests /\ version[work[w].task] \in Nat
    BY <1>1, <1>3 DEF ForceExpire, Proper, Types
  <2>3. CASE Goto(w, "metadata") /\ work' = work
    <3>1. Proper("metadata", work[w]) /\ "metadata" \in PCs
      BY <1>1, <2>2 DEF Proper, PCs
    <3> QED
      BY <2>1, <2>3, <3>1, StructMoves
  <2>4. CASE ToCommit(w, work[w].task, version[work[w].task])
    BY <2>1, <2>2, <2>4, StructCommits
  <2> QED
    BY <1>3, <2>3, <2>4 DEF ForceExpire
<1>4. CASE ReadHead(w) \/ LoadHead(w)
  <2>1. Others
    <3>1. config' = config /\ chunks' = chunks /\ version' = version /\ redis' = redis
      BY <1>4 DEF ReadHead, LoadHead, Throw
    <3> QED
      BY <1>1, <3>1 DEF Others
  <2>2. ASSUME NEW p \in {"loadHead", "queue"}, Goto(w, p), work' = work, acked' = acked
        PROVE  StructInv'
    <3>1. Proper(p, work[w]) /\ p \in PCs
      BY <1>1, <1>4, <2>2 DEF Proper, PCs, ReadHead, LoadHead
    <3> QED
      BY <2>1, <2>2, <3>1, StructMoves
  <2> QED
    BY <1>4, <2>1, <2>2, StructThrows DEF ReadHead, LoadHead
<1>5. CASE Queue(w)
  <2>1. work[w].task \in Requests /\ pc[w] = "queue"
    BY <1>1, <1>5 DEF Queue, Proper
  <2>2. CASE MayQueue(work[w].at)
    <3>1. Others
      <4>1. /\ config' = config /\ chunks' = chunks /\ version' = version
            /\ persisted' = persisted /\ persistTime' \in {persistTime, "due"}
            /\ buffer' = buffer \o work[w].batch /\ head' = work[w].at + Len(work[w].batch)
        BY <1>5, <2>2 DEF Queue, Answer
      <4>2. work[w].batch \in Seq(Change) /\ work[w].at \in Nat
        BY <1>1 DEF Work
      <4>3. buffer' \in Seq(Change) /\ head' \in Nat
        BY <1>1, <4>1, <4>2
      <4> QED
        BY <1>1, <4>1, <4>3 DEF Others
    <3>2. CASE Answer(w)
      BY <2>1, <3>1, <3>2, StructAnswers
    <3>3. CASE Goto(w, "metadata") /\ work' = work /\ acked' = acked
      <4>1. Proper("metadata", work[w]) /\ "metadata" \in PCs
        BY <1>1, <2>1 DEF Proper, PCs
      <4> QED
        BY <3>1, <3>3, <4>1, StructMoves
    <3> QED
      BY <1>5, <2>2, <3>2, <3>3 DEF Queue
  <2>3. CASE ~MayQueue(work[w].at)
    <3>1. Others /\ Throw(w)
      BY <1>1, <1>5, <2>3 DEF Queue, Others, Throw
    <3> QED
      BY <3>1, StructThrows
  <2> QED
    BY <2>2, <2>3
<1>6. CASE Claim(w)
  <2> DEFINE x == [work[w] EXCEPT !.task = "job"]
  <2>1. /\ pc' = [pc EXCEPT ![w] = "metadata"] /\ work' = [work EXCEPT ![w] = x]
        /\ Others /\ acked' = acked
    BY <1>1, <1>6 DEF Claim, Goto, Others
  <2>2. x \in Work /\ x.task = "job" /\ ~x.forcing
    BY <1>1, <1>6, NoWorkTyped DEF Work, Proper, Claim
  <2> HIDE DEF x
  <2>3. Proper("metadata", x) /\ "metadata" \in PCs
    BY <2>2 DEF Proper, PCs
  <2> QED
    BY <1>1, <2>1, <2>2, <2>3, WorksOn DEF Others
<1>7. CASE ReadMetadata(w)
  <2> DEFINE x == [work[w] EXCEPT !.at = StoredEnd, !.any = FALSE]
  <2>1. /\ pc' = [pc EXCEPT ![w] = "fetch"] /\ work' = [work EXCEPT ![w] = x]
        /\ Others /\ acked' = acked
    BY <1>1, <1>7 DEF ReadMetadata, Goto, Others
  <2>2. StoredEnd \in Nat
    BY LatestIs DEF StructInv
  <2>3. x \in Work /\ x.task = work[w].task /\ x.forcing = work[w].forcing
    BY <1>1, <2>2 DEF Work
  <2> HIDE DEF x
  <2>4. Proper("fetch", x) /\ "fetch" \in PCs
    BY <1>1, <1>7, <2>3 DEF Proper, PCs, ReadMetadata
  <2> QED
    BY <1>1, <2>1, <2>3, <2>4, WorksOn DEF Others
<1>8. CASE CloseJob(w) \/ Crash(w)
  <2>1. Others /\ acked' = acked /\ Stop(w)
    BY <1>1, <1>8 DEF CloseJob, Crash, Others
  <2> QED
    BY <1>1, <2>1, StructStops
<1>9. CASE CallFails(w)
  <2>1. Others /\ Throw(w)
    BY <1>1, <1>9 DEF CallFails, Throw, Others
  <2> QED
    BY <2>1, StructThrows
<1> QED
  BY <1>2, <1>3, <1>4, <1>5, <1>6, <1>7, <1>8, <1>9

LEMMA CutTyped ==
  ASSUME NEW S, NEW s \in Seq(S), NEW n \in Nat
  PROVE  /\ LastOf(s, n) \in Seq(S) /\ Len(LastOf(s, n)) = Lesser(n, Len(s))
         /\ n <= Len(s) =>
              /\ First(s, n) \in Seq(S) /\ Len(First(s, n)) = n
              /\ Rest(s, n) \in Seq(S) /\ Len(Rest(s, n)) = Len(s) - n
              /\ \A i \in 1..n : First(s, n)[i] = s[i]
              /\ \A i \in 1..Len(s) - n : Rest(s, n)[i] = s[n + i]
BY DEF LastOf, Lesser, First, Rest

LEMMA ConcatTyped ==
  ASSUME NEW S, NEW s \in Seq(S), NEW t \in Seq(S)
  PROVE  /\ s \o t \in Seq(S) /\ Len(s \o t) = Len(s) + Len(t)
         /\ \A i \in 1..Len(s) : (s \o t)[i] = s[i]
         /\ \A i \in 1..Len(t) : (s \o t)[Len(s) + i] = t[i]
OBVIOUS

LEMMA StructSets ==
  ASSUME StructInv, NEW v \in Nat, head # None, v <= head, SetPersisted(v),
         UNCHANGED <<config, chunks, version>>
  PROVE  Others
<1>1. /\ head \in Nat /\ buffer \in Seq(Change) /\ config \in Configs
      /\ persistTime \in Workers \cup {"due", None}
  BY DEF StructInv, Types
<1>2. head - v + MaxPersisted \in Nat
  BY <1>1, BoundsAssumption
<1>3. buffer' \in Seq(Change)
  BY <1>1, <1>2, CutTyped DEF SetPersisted
<1> QED
  BY <1>1, <1>3 DEF SetPersisted, Others

\* What Load computes.
LEMMA Loads ==
  ASSUME StructInv, NEW w \in Workers, Load(w), ~Throw(w)
  PROVE  LET c == chunks[Latest]
             n == Lesser(Room(c), Len(work[w].batch))
             x == work'[w]
             p == pc'[w]
         IN  /\ n \in Nat /\ n <= Len(work[w].batch)
             /\ c \in ChunkRecord /\ EndOf(c) = work[w].at
             /\ x = [work[w] EXCEPT !.start = c.start,
                        !.changes = c.changes \o First(work[w].batch, n),
                        !.batch = Rest(work[w].batch, n), !.count = Len(work[w].batch)]
             /\ x \in Work /\ work' = [work EXCEPT ![w] = x]
             /\ p \in {"update", "create"} /\ pc' = [pc EXCEPT ![w] = p]
             /\ (p = "create") = (n = 0)
             /\ Proper(p, x)
             /\ acked' = acked /\ Others
<1> DEFINE c == chunks[Latest]
           n == Lesser(Room(c), Len(work[w].batch))
           x == [work[w] EXCEPT !.start = c.start,
                    !.changes = c.changes \o First(work[w].batch, n),
                    !.batch = Rest(work[w].batch, n), !.count = Len(work[w].batch)]
           p == IF n > 0 THEN "update" ELSE "create"
<1>1. /\ work' = [work EXCEPT ![w] = x] /\ pc' = [pc EXCEPT ![w] = p]
      /\ EndOf(c) = work[w].at /\ UNCHANGED <<config, chunks, redis, clients>>
      /\ pc[w] = "load"
  BY DEF Load, Goto
<1>2. /\ work \in [Workers -> Work] /\ pc \in [Workers -> PCs] /\ Proper(pc[w], work[w])
      /\ work[w].batch \in Seq(Change) /\ work[w].batch # <<>>
      /\ work[w].at \in Nat
  BY <1>1 DEF StructInv, Types, Work, Proper
<1>3. /\ c \in ChunkRecord /\ c.changes \in Seq(Change) /\ c.start \in Nat
      /\ Len(c.changes) <= MaxChunkChanges
  BY LatestIs DEF StructInv, Types, ChunkRecord
<1> HIDE DEF c
<1>4. /\ Room(c) \in Nat /\ Room(c) = MaxChunkChanges - Len(c.changes)
      /\ Len(work[w].batch) \in Nat \ {0}
  BY <1>2, <1>3, BoundsAssumption DEF Room
<1>5. n \in Nat /\ n <= Len(work[w].batch) /\ n <= Room(c) /\ (n = 0 => Room(c) = 0)
  BY <1>4 DEF Lesser
<1> HIDE DEF n
<1>6. /\ First(work[w].batch, n) \in Seq(Change) /\ Len(First(work[w].batch, n)) = n
      /\ Rest(work[w].batch, n) \in Seq(Change)
      /\ Len(Rest(work[w].batch, n)) = Len(work[w].batch) - n
  BY <1>2, <1>5, CutTyped
<1>7. /\ c.changes \o First(work[w].batch, n) \in Seq(Change)
      /\ Len(c.changes \o First(work[w].batch, n)) = Len(c.changes) + n
  <2>1. \A t \in Seq(Change) : /\ c.changes \o t \in Seq(Change)
                               /\ Len(c.changes \o t) = Len(c.changes) + Len(t)
    BY <1>3, ConcatTyped
  <2> QED
    BY <1>6, <2>1
<1>8. x \in Work /\ x.task = work[w].task /\ x.forcing = work[w].forcing /\ x.at = work[w].at
      /\ x.changes = c.changes \o First(work[w].batch, n)
      /\ x.batch = Rest(work[w].batch, n)
  BY <1>2, <1>3, <1>4, <1>6, <1>7 DEF Work
<1>9. work'[w] = x /\ pc'[w] = p /\ p \in {"update", "create"} /\ (p = "create") = (n = 0)
  BY <1>1, <1>2, <1>5
<1>10. Proper(p, x)
  <2>1. CASE n > 0
    <3> HIDE DEF x
    <3>1. Len(x.changes) = Len(c.changes) + n
      BY <1>7, <1>8
    <3>2. x.changes # <<>> /\ Len(x.changes) <= MaxChunkChanges
      <4>1. Len(c.changes) \in Nat /\ MaxChunkChanges \in Nat
        BY <1>3, BoundsAssumption
      <4>2. Len(x.changes) > 0 /\ Len(x.changes) <= MaxChunkChanges
        BY <1>4, <1>5, <2>1, <3>1, <4>1
      <4> QED
        BY <4>2
    <3> QED
      BY <1>1, <1>2, <1>8, <2>1, <3>2 DEF Proper
  <2>2. CASE n = 0
    <3> HIDE DEF x
    <3>1. x.batch # <<>> /\ x.at >= 1
      <4>1. Len(x.batch) > 0
        BY <1>4, <1>6, <1>8, <2>2
      <4>2. Len(c.changes) = MaxChunkChanges /\ x.at = c.start + Len(c.changes)
        BY <1>1, <1>3, <1>4, <1>5, <1>8, <2>2, BoundsAssumption DEF EndOf
      <4> QED
        BY <1>3, <4>1, <4>2, BoundsAssumption
    <3> QED
      BY <1>1, <1>2, <1>8, <2>2, <3>1 DEF Proper
  <2> QED
    BY <1>5, <2>1, <2>2
<1>11. acked' = acked /\ Others
  BY <1>1 DEF Others, StructInv, Types, redis, clients
<1> QED
  BY <1>1, <1>3, <1>5, <1>8, <1>9, <1>10, <1>11 DEF n, c

LEMMA StructPersist ==
  ASSUME StructInv, NEW w \in Workers,
         Fetch(w) \/ SetVersion(w) \/ SetVersionAgain(w) \/ Load(w)
  PROVE  StructInv'
<1> USE DEF redis, clients
<1>1. /\ Types /\ work[w] \in Work /\ Proper(pc[w], work[w])
      /\ config \in Configs /\ acked \subseteq Requests /\ work[w].at \in Nat
      /\ head \in Nat \cup {None} /\ persisted \in Nat \cup {None}
      /\ buffer \in Seq(Change) /\ persistTime \in Workers \cup {"due", None}
  BY DEF StructInv, Types, Work
<1>2. UNCHANGED <<config, chunks, version>> /\ UNCHANGED redis => Others
  BY <1>1 DEF Others
<1>3. pc[w] # "idle" /\ Return(w) => acked' \subseteq Requests /\ version' = version
  BY <1>1 DEF Return, Answer, StructInv, Proper
<1>4. CASE Fetch(w)
  <2> DEFINE batch == Unpersisted(work[w].at, PersistBatchSize)
             x == [work[w] EXCEPT !.batch = batch]
  <2>1. pc[w] = "fetch" /\ UNCHANGED <<config, chunks, redis>>
    BY <1>4 DEF Fetch
  <2>2. CASE Throw(w)
    BY <1>2, <2>1, <2>2, StructThrows DEF Throw
  <2>3. CASE Return(w)
    BY <1>2, <1>3, <2>1, <2>3, StructReturns
  <2>4. CASE Goto(w, "noChanges") /\ UNCHANGED <<work, clients>>
    <3>1. Proper("noChanges", work[w]) /\ "noChanges" \in PCs
      BY <1>1, <2>1 DEF Proper, PCs
    <3> QED
      BY <1>2, <2>1, <2>4, <3>1, StructMoves
  <2>5. CASE batch # <<>> /\ work' = [work EXCEPT ![w] = x] /\ Goto(w, "load") /\ UNCHANGED clients
    <3>1. batch \in Seq(Change)
      BY <1>1, UnpersistedTyped, BoundsAssumption
    <3> HIDE DEF batch
    <3>2. x \in Work /\ x.task = work[w].task /\ x.forcing = work[w].forcing /\ x.batch = batch
      BY <1>1, <3>1 DEF Work
    <3>3. work' = [work EXCEPT ![w] = x]
      BY <2>5
    <3> HIDE DEF x
    <3>4. Proper("load", x) /\ "load" \in PCs
      BY <1>1, <2>1, <2>5, <3>2 DEF Proper, PCs
    <3> QED
      BY <1>1, <1>2, <2>1, <2>5, <3>2, <3>3, <3>4, WorksOn DEF Others, Goto
  <2> QED
    BY <1>4, <2>2, <2>3, <2>4, <2>5 DEF Fetch
<1>5. CASE SetVersion(w)
  <2> DEFINE v == work[w].at
             x == [work[w] EXCEPT !.any = TRUE]
  <2>1. pc[w] = "setVersion" /\ UNCHANGED <<config, chunks>>
    BY <1>5 DEF SetVersion
  <2>2. CASE Throw(w) /\ UNCHANGED redis
    BY <1>2, <2>1, <2>2, StructThrows DEF Throw
  <2>3. CASE ~(head = None \/ TooLow(v) \/ v > head)
    <3>1. head # None /\ v <= head /\ SetPersisted(v)
      BY <1>1, <1>5, <2>3 DEF SetVersion
    <3>2. CASE Return(w)
      BY <1>1, <1>3, <2>1, <3>1, <3>2, StructSets, StructReturns
    <3>3. CASE work' = [work EXCEPT ![w] = x] /\ Goto(w, "fetch") /\ UNCHANGED clients
      <4>1. Others
        BY <1>1, <2>1, <3>1, <3>3, StructSets
      <4>2. x \in Work /\ x.task = work[w].task /\ x.forcing = work[w].forcing
        BY <1>1 DEF Work
      <4>3. work' = [work EXCEPT ![w] = x]
        BY <3>3
      <4> HIDE DEF x
      <4>4. Proper("fetch", x) /\ "fetch" \in PCs
        BY <1>1, <2>1, <4>2 DEF Proper, PCs
      <4> QED
        BY <1>1, <3>3, <4>1, <4>2, <4>3, <4>4, WorksOn DEF Others, Goto
    <3> QED
      BY <1>5, <2>3, <3>2, <3>3 DEF SetVersion
  <2> QED
    BY <1>5, <2>2, <2>3 DEF SetVersion
<1>6. CASE SetVersionAgain(w)
  <2> DEFINE v == work[w].at
  <2>1. pc[w] = "noChanges" /\ UNCHANGED <<config, chunks>>
    BY <1>6 DEF SetVersionAgain
  <2>2. CASE Throw(w) /\ UNCHANGED redis
    BY <1>2, <2>1, <2>2, StructThrows DEF Throw
  <2>3. CASE Return(w) /\ UNCHANGED redis
    BY <1>2, <1>3, <2>1, <2>3, StructReturns
  <2>4. CASE Return(w) /\ head # None /\ ~TooLow(v) /\ v <= head /\ SetPersisted(v)
    BY <1>1, <1>3, <2>1, <2>4, StructSets, StructReturns
  <2> QED
    BY <1>1, <1>6, <2>2, <2>3, <2>4 DEF SetVersionAgain
<1>7. CASE Load(w)
  <2>1. CASE Throw(w)
    <3>1. UNCHANGED <<config, chunks, redis, version>>
      BY <1>7, <2>1 DEF Load, Throw
    <3> QED
      BY <1>2, <2>1, <3>1, StructThrows, SMTT(30)
  <2>2. CASE ~Throw(w)
    <3>1. PICK p \in {"update", "create"}, x \in Work :
             /\ work' = [work EXCEPT ![w] = x] /\ pc' = [pc EXCEPT ![w] = p]
             /\ Proper(p, x) /\ acked' = acked /\ Others
      BY <1>7, <2>2, Loads
    <3>2. p \in PCs
      BY DEF PCs
    <3> QED
      BY <1>1, <3>1, <3>2, WorksOn DEF Others
  <2> QED
    BY <2>1, <2>2
<1> QED
  BY <1>4, <1>5, <1>6, <1>7

\* Older and Newer find one of the live chunks.
LEMMA FoundIs ==
  ASSUME Types, NEW v \in Nat, Containing(v) # {}
  PROVE  Older(v) \in Live /\ Newer(v) \in Live
<1>1. Containing(v) \subseteq Live /\ \A k \in Live : k \in ChunkIds /\ chunks[k].start \in Nat
  BY DEF Containing, Live, Types, ChunkRecord
<1>2. Older(v) \in Containing(v)
  <2> DEFINE starts == {chunks[k].start : k \in Containing(v)}
  <2>1. starts \in SUBSET Nat /\ starts # {}
    BY <1>1
  <2>2. PICK x \in starts : \A y \in starts : x <= y
    BY <2>1, NatHasLeast
  <2>3. PICK k \in Containing(v) : x = chunks[k].start
    BY <2>2
  <2>4. \A j \in Containing(v) : chunks[k].start <= chunks[j].start
    BY <2>2, <2>3
  <2> QED
    BY <2>4 DEF Older
<1>3. Newer(v) \in Containing(v)
  <2> DEFINE before == {v - chunks[k].start : k \in Containing(v)}
  <2>1. before \in SUBSET Nat /\ before # {}
    BY <1>1 DEF Containing
  <2>2. PICK x \in before : \A y \in before : x <= y
    BY <2>1, NatHasLeast
  <2>3. PICK k \in Containing(v) : x = v - chunks[k].start
    BY <2>2
  <2>4. \A j \in Containing(v) : chunks[j].start <= chunks[k].start
    <3> SUFFICES ASSUME NEW j \in Containing(v) PROVE chunks[j].start <= chunks[k].start
      OBVIOUS
    <3>1. v - chunks[k].start <= v - chunks[j].start
      BY <2>2, <2>3
    <3> QED
      BY <1>1, <3>1
  <2> QED
    BY <2>4 DEF Newer
<1> QED
  BY <1>1, <1>2, <1>3

\* The live chunks stay the same.
LEMMA SameOrdered ==
  ASSUME Ordered,
         \A j \in ChunkIds : /\ chunks'[j].state = chunks[j].state
                                  \/ /\ chunks[j].state \notin {"active", "closed"}
                                     /\ chunks'[j].state \notin {"active", "closed"}
                             /\ chunks[j].state \in {"active", "closed"} =>
                                  /\ chunks'[j].start = chunks[j].start
                                  /\ chunks'[j].changes = chunks[j].changes
  PROVE  Ordered' /\ Live' = Live
<1>1. Live' = Live /\ \A j \in Live : j \in ChunkIds
  BY DEF Live
<1>2. \A j \in Live : /\ chunks'[j].start = chunks[j].start
                      /\ chunks'[j].changes = chunks[j].changes
                      /\ EndOf(chunks'[j]) = EndOf(chunks[j])
                      /\ chunks'[j].state = chunks[j].state
  BY DEF Live, EndOf
<1>3. \A j \in ChunkIds : (chunks'[j].state = "active") <=> (chunks[j].state = "active")
  OBVIOUS
<1> QED
  BY <1>1, <1>2, <1>3 DEF Ordered

LEMMA StructInserts ==
  ASSUME StructInv, NEW w \in Workers, NEW k \in Live, NEW start \in Nat,
         NEW s \in Seq(Change), NEW rest \in Seq(Change), NEW creating \in BOOLEAN,
         InsertPending(w, k, start, s, rest, creating),
         pc[w] # "idle", s # <<>>, Len(s) <= MaxChunkChanges,
         IF creating THEN EndOf(chunks[k]) = start /\ start >= 1
         ELSE chunks[k].start = start /\ EndOf(chunks[k]) <= start + Len(s),
         UNCHANGED <<config, redis>>
  PROVE  StructInv' /\ acked' = acked
<1> DEFINE unused == {id \in ChunkIds : chunks[id].state = "none"}
           new == Least(unused)
           x == [work[w] EXCEPT !.old = k, !.id = new, !.start = start, !.changes = s,
                                !.batch = rest, !.creating = creating]
<1>1. /\ unused # {}
      /\ chunks' = [chunks EXCEPT ![new].state = "pending"]
      /\ work' = [work EXCEPT ![w] = x] /\ pc' = [pc EXCEPT ![w] = "store"]
      /\ UNCHANGED clients
  BY DEF InsertPending, Goto
<1>2. new \in ChunkIds /\ chunks[new].state = "none"
  <2>1. unused \in SUBSET ChunkIds
    OBVIOUS
  <2> QED
    BY <1>1, <2>1, LeastIn
<1> HIDE DEF new, unused
<1>3. /\ chunks \in [ChunkIds -> ChunkRecord] /\ work \in [Workers -> Work]
      /\ pc \in [Workers -> PCs] /\ k \in ChunkIds /\ new \in Nat /\ k \in Nat
      /\ chunks[k].state \in {"active", "closed"}
  BY <1>2, BoundsAssumption DEF StructInv, Types, Work, Live
<1>4. /\ chunks' \in [ChunkIds -> ChunkRecord]
      /\ \A j \in ChunkIds : /\ chunks'[j].start = chunks[j].start
                             /\ chunks'[j].changes = chunks[j].changes
                             /\ j # new => chunks'[j] = chunks[j]
      /\ chunks'[new].state = "pending"
  BY <1>1, <1>2, <1>3 DEF ChunkRecord
<1>5. /\ x \in Work /\ x.id = new /\ x.old = k /\ x.start = start /\ x.changes = s
      /\ x.creating = creating /\ x.task = work[w].task /\ x.forcing = work[w].forcing
  BY <1>3 DEF Work
<1> HIDE DEF x
<1>6. Ordered' /\ Live' = Live
  BY <1>2, <1>4, SameOrdered DEF StructInv
<1>7. /\ work' \in [Workers -> Work] /\ pc' \in [Workers -> PCs]
      /\ work'[w] = x /\ pc'[w] = "store"
      /\ \A u \in Workers \ {w} : work'[u] = work[u] /\ pc'[u] = pc[u]
  BY <1>1, <1>3, <1>5 DEF PCs
<1>8. Types'
  BY <1>1, <1>4, <1>7 DEF StructInv, Types, Work, redis, clients
<1>9. version' = version /\ acked' = acked
  BY <1>1 DEF clients
<1>10. \A j \in ChunkIds : EndOf(chunks'[j]) = EndOf(chunks[j])
  BY <1>4 DEF EndOf
<1>11. Replacing(work[w])'
  <2>1. /\ work'[w].id = new /\ work'[w].old = k /\ work'[w].start = start
        /\ work'[w].changes = s /\ work'[w].creating = creating
    BY <1>5, <1>7
  <2>2. chunks'[k].state = chunks[k].state
    BY <1>2, <1>3, <1>4
  <2> QED
    BY <1>2, <1>3, <1>4, <1>10, <2>1, <2>2 DEF Replacing
<1>12. ASSUME NEW u \in Workers PROVE Proper(pc[u], work[u])'
  <2>1. CASE u = w
    <3>1. Proper(pc[w], work[w])
      BY DEF StructInv
    <3>2. /\ work'[w].task = work[w].task /\ work'[w].forcing = work[w].forcing
          /\ work'[w].changes = s /\ pc'[w] = "store"
      BY <1>5, <1>7
    <3> QED
      BY <1>9, <1>11, <2>1, <3>1, <3>2 DEF Proper
  <2>2. CASE u # w
    <3>1. Proper(pc[u], work[u]) /\ pc'[u] = pc[u] /\ work'[u] = work[u]
      BY <1>7, <2>2 DEF StructInv
    <3>2. Replacing(work[u]) => Replacing(work[u])'
      BY <1>2, <1>4, <1>10, <3>1 DEF Replacing
    <3> QED
      BY <1>9, <3>1, <3>2 DEF Proper
  <2> QED
    BY <2>1, <2>2
<1>13. Distinct'
  <2>1. \A u \in Workers : Uploading(u) => chunks[work[u].id].state = "pending"
    BY DEF StructInv, Proper, Replacing, Uploading
  <2> QED
    BY <1>2, <1>5, <1>7, <2>1 DEF StructInv, Distinct, Uploading
<1> QED
  BY <1>6, <1>8, <1>9, <1>12, <1>13 DEF StructInv

LEMMA StructStore == ASSUME StructInv, NEW w \in Workers, Store(w) PROVE StructInv'
<1> DEFINE id == work[w].id
<1>1. /\ pc[w] = "store" /\ chunks' = [chunks EXCEPT ![id].stored = TRUE]
      /\ pc' = [pc EXCEPT ![w] = "confirm"]
      /\ UNCHANGED <<config, redis, work, clients>>
  BY DEF Store, Goto
<1>2. Replacing(work[w]) /\ id \in ChunkIds
  BY <1>1 DEF StructInv, Proper, Replacing
<1>3. chunks \in [ChunkIds -> ChunkRecord] /\ work \in [Workers -> Work] /\ pc \in [Workers -> PCs]
  BY DEF StructInv, Types, Work
<1>4. /\ chunks' \in [ChunkIds -> ChunkRecord]
      /\ \A j \in ChunkIds : /\ chunks'[j].state = chunks[j].state
                             /\ chunks'[j].start = chunks[j].start
                             /\ chunks'[j].changes = chunks[j].changes
  BY <1>1, <1>2, <1>3 DEF ChunkRecord
<1>5. Ordered'
  BY <1>4, SameOrdered DEF StructInv
<1>6. pc' \in [Workers -> PCs] /\ \A u \in Workers : u # w => pc'[u] = pc[u]
  BY <1>1, <1>3 DEF PCs
<1>7. Types'
  BY <1>1, <1>4, <1>6 DEF StructInv, Types, redis, clients
<1>8. \A j \in ChunkIds : EndOf(chunks'[j]) = EndOf(chunks[j])
  BY <1>4 DEF EndOf
<1>9. ASSUME NEW u \in Workers PROVE Proper(pc[u], work[u])'
  <2>1. Proper(pc[u], work[u]) /\ work'[u] = work[u] /\ version' = version
    BY <1>1 DEF StructInv, clients
  <2>2. Replacing(work[u]) => Replacing(work[u])'
    BY <1>4, <1>8, <2>1 DEF Replacing
  <2>3. pc'[u] = pc[u] \/ (pc[u] = "store" /\ pc'[u] = "confirm")
    BY <1>1, <1>3, <1>6
  <2> QED
    BY <2>1, <2>2, <2>3 DEF Proper
<1>10. Distinct'
  BY <1>1, <1>3, <1>6 DEF StructInv, Distinct, Uploading
<1> QED
  BY <1>5, <1>7, <1>9, <1>10 DEF StructInv

LEMMA StructDeletes == ASSUME StructInv, DeleteOldChunks PROVE StructInv'
<1> DEFINE old == {k \in ChunkIds \ InUse : chunks[k].state \in {"deleted", "pending"}}
<1>1. /\ chunks' = [k \in ChunkIds |-> IF k \in old THEN Free ELSE chunks[k]]
      /\ UNCHANGED <<config, redis, pc, work, clients>>
  BY DEF DeleteOldChunks
<1>2. Free \in ChunkRecord /\ Free.state = "none" /\ Free.changes = <<>>
  BY EmptyIsSeq DEF Free, ChunkRecord
<1>3. \A w \in Workers : work[w].id \notin old /\ work[w].old \notin old
  BY DEF InUse
<1>4. chunks' \in [ChunkIds -> ChunkRecord] /\ chunks \in [ChunkIds -> ChunkRecord]
  BY <1>1, <1>2 DEF StructInv, Types
<1>5. \A j \in ChunkIds \ old : chunks'[j] = chunks[j]
  BY <1>1
<1>6. \A j \in old : chunks'[j] = Free /\ chunks[j].state \in {"deleted", "pending"}
  BY <1>1
<1> HIDE DEF old
<1>7. Ordered'
  BY <1>2, <1>5, <1>6, SameOrdered DEF StructInv
<1>8. Types'
  <2>1. Len(Free.changes) = 0 /\ 0 <= MaxChunkChanges
    BY <1>2, BoundsAssumption
  <2>2. \A k \in old : Len(chunks'[k].changes) <= MaxChunkChanges
    BY <1>6, <2>1
  <2>3. \A k \in ChunkIds \ old : Len(chunks'[k].changes) <= MaxChunkChanges
    BY <1>5 DEF StructInv, Types
  <2> QED
    BY <1>1, <1>4, <2>2, <2>3 DEF StructInv, Types, redis, clients
<1>9. ASSUME NEW u \in Workers PROVE Proper(pc[u], work[u])'
  <2>1. Proper(pc[u], work[u]) /\ work'[u] = work[u] /\ pc'[u] = pc[u] /\ version' = version
    BY <1>1 DEF StructInv, clients
  <2>2. Replacing(work[u]) => Replacing(work[u])'
    BY <1>3, <1>5, <2>1 DEF Replacing
  <2> QED
    BY <2>1, <2>2 DEF Proper
<1>10. Distinct'
  BY <1>1 DEF StructInv, Distinct, Uploading
<1> QED
  BY <1>7, <1>8, <1>9, <1>10 DEF StructInv

\* The transaction of confirmUpdate and confirmCreate succeeds.
Kept(x) == IF x.creating THEN Live ELSE Live \ {x.old}
Confirmable(x) ==
  /\ chunks[x.old].state = "active" /\ chunks[x.id].state = "pending"
  /\ \A j \in Kept(x) : chunks[j].start # x.start

\* What the worker has to do next.
Confirmed(x) == [x EXCEPT !.at = x.start + Len(x.changes), !.start = 0, !.changes = <<>>,
                          !.old = 0, !.id = 0, !.creating = FALSE]

LEMMA Confirms ==
  ASSUME StructInv, NEW w \in Workers, Confirm(w), Confirmable(work[w])
  PROVE  LET x == work[w]
             k == x.old
             id == x.id
         IN /\ x \in Work /\ k \in ChunkIds /\ id \in ChunkIds /\ k # id
            /\ k = Latest /\ k \in Live /\ id \notin Live
            /\ x.changes # <<>> /\ Len(x.changes) <= MaxChunkChanges
            /\ IF x.creating THEN EndOf(chunks[k]) = x.start /\ x.start >= 1
               ELSE chunks[k].start = x.start /\ EndOf(chunks[k]) <= x.start + Len(x.changes)
            /\ Kept(x) \subseteq Live
            /\ \A j \in Kept(x) : /\ j \in ChunkIds /\ j # id
                                  /\ chunks'[j].start = chunks[j].start
                                  /\ chunks'[j].changes = chunks[j].changes
                                  /\ EndOf(chunks'[j]) = EndOf(chunks[j])
                                  /\ chunks[j].start # x.start
                                  /\ chunks'[j].state = IF j = k THEN "closed" ELSE chunks[j].state
            /\ Live' = Kept(x) \cup {id}
            /\ chunks'[id].state = "active" /\ chunks'[id].start = x.start
            /\ chunks'[id].changes = x.changes /\ EndOf(chunks'[id]) = x.start + Len(x.changes)
            /\ chunks'[k].state \in {"closed", "deleted"}
            /\ \A j \in ChunkIds \ {k, id} : chunks'[j] = chunks[j]
            /\ chunks' \in [ChunkIds -> ChunkRecord]
            /\ \A j \in ChunkIds : Len(chunks'[j].changes) <= MaxChunkChanges
            /\ x.creating => EndOf(chunks'[k]) = EndOf(chunks[k])
<1> DEFINE x == work[w]
           k == x.old
           id == x.id
           new == [state |-> "active", start |-> x.start, changes |-> x.changes,
                   stored |-> chunks[id].stored]
           old == Succeeded(chunks[k], x.creating)
<1>1. pc[w] = "confirm" /\ chunks' = [chunks EXCEPT ![k] = old, ![id] = new]
  <2>1. chunks[k].state = "active" /\ chunks[id].state = "pending"
    BY DEF Confirmable
  <2>2. \A j \in (IF x.creating THEN Live ELSE Live \ {k}) : chunks[j].start # x.start
    BY DEF Confirmable, Kept
  <2>3. k # id
    BY <2>1
  <2>4. chunks' = [chunks EXCEPT ![k] = Succeeded(@, x.creating),
                     ![id] = [state |-> "active", start |-> x.start,
                              changes |-> x.changes, stored |-> @.stored]]
    BY <2>1, <2>2 DEF Confirm
  <2> QED
    BY <2>3, <2>4 DEF Confirm
<1>2. /\ x \in Work /\ Replacing(x) /\ x.changes # <<>> /\ Len(x.changes) <= MaxChunkChanges
      /\ x.creating \in BOOLEAN /\ x.start \in Nat /\ x.changes \in Seq(Change)
  BY <1>1 DEF StructInv, Proper, Types, Work
<1>3. /\ k \in ChunkIds /\ id \in ChunkIds /\ chunks[k].state = "active"
      /\ chunks[id].state = "pending"
      /\ \A j \in Kept(x) : chunks[j].start # x.start
  BY <1>2 DEF Confirmable, Replacing
<1>4. k = Latest /\ k \in Live /\ id \notin Live /\ k # id
  BY <1>3, LatestIs DEF StructInv, Live
<1>5. /\ chunks \in [ChunkIds -> ChunkRecord] /\ chunks[k] \in ChunkRecord
      /\ chunks[id] \in ChunkRecord
      /\ \A j \in ChunkIds : Len(chunks[j].changes) <= MaxChunkChanges
  BY <1>3 DEF StructInv, Types
<1>6. /\ old \in ChunkRecord /\ old.state = IF x.creating THEN "closed" ELSE "deleted"
      /\ x.creating => old.start = chunks[k].start /\ old.changes = chunks[k].changes
      /\ ~x.creating => old.changes = <<>>
  <2>1. CASE x.creating
    BY <1>5, <2>1 DEF Succeeded, ChunkRecord
  <2>2. CASE ~x.creating
    <3>1. <<>> \in Seq(Change) /\ chunks[k].stored \in BOOLEAN
      BY <1>5, EmptyIsSeq DEF ChunkRecord
    <3>2. old = [state |-> "deleted", start |-> 0, changes |-> <<>>, stored |-> chunks[k].stored]
      BY <2>2 DEF Succeeded, Free
    <3> QED
      BY <2>2, <3>1, <3>2 DEF ChunkRecord
  <2> QED
    BY <2>1, <2>2
<1>7. new \in ChunkRecord
  BY <1>2, <1>5 DEF ChunkRecord
<1>8. /\ new.state = "active" /\ new.start = x.start /\ new.changes = x.changes
  OBVIOUS
<1> HIDE DEF old, new, x
<1>9. /\ chunks' \in [ChunkIds -> ChunkRecord] /\ chunks'[k] = old /\ chunks'[id] = new
      /\ \A j \in ChunkIds \ {k, id} : chunks'[j] = chunks[j]
  BY <1>1, <1>3, <1>4, <1>5, <1>6, <1>7
<1>10. Kept(x) \subseteq Live /\ (k \in Kept(x) <=> x.creating)
  BY <1>4 DEF Kept
<1>11. \A j \in Kept(x) : /\ j \in ChunkIds /\ j # id
                          /\ chunks'[j].start = chunks[j].start
                          /\ chunks'[j].changes = chunks[j].changes
                          /\ chunks'[j].state = IF j = k THEN "closed" ELSE chunks[j].state
  BY <1>4, <1>6, <1>9, <1>10 DEF Live
<1>12. Live' = Kept(x) \cup {id}
  <2>1. \A j \in ChunkIds \ {k, id} : j \in Live' <=> j \in Live
    BY <1>9 DEF Live
  <2>2. id \in Live' /\ (k \in Live' <=> x.creating)
    BY <1>2, <1>3, <1>6, <1>8, <1>9 DEF Live
  <2>3. \A j \in ChunkIds \ {k, id} : j \in Kept(x) <=> j \in Live
    BY DEF Kept
  <2>4. Live' \subseteq ChunkIds /\ Live \subseteq ChunkIds
    BY DEF Live
  <2> QED
    BY <1>4, <1>10, <2>1, <2>2, <2>3, <2>4
<1>13. \A j \in ChunkIds : Len(chunks'[j].changes) <= MaxChunkChanges
  <2>1. Len(<<>>) = 0 /\ 0 <= MaxChunkChanges
    BY BoundsAssumption
  <2>2. Len(old.changes) <= MaxChunkChanges
    BY <1>2, <1>5, <1>6, <1>3, <2>1
  <2> QED
    BY <1>2, <1>5, <1>8, <1>9, <2>2
<1>14. \A j \in Kept(x) : EndOf(chunks'[j]) = EndOf(chunks[j])
  BY <1>11 DEF EndOf
<1>15. EndOf(chunks'[id]) = x.start + Len(x.changes)
  BY <1>8, <1>9 DEF EndOf
<1>16. IF x.creating THEN EndOf(chunks[k]) = x.start /\ x.start >= 1
       ELSE chunks[k].start = x.start /\ EndOf(chunks[k]) <= x.start + Len(x.changes)
  BY <1>2, <1>3 DEF Replacing
<1> QED
  BY <1>2, <1>3, <1>4, <1>6, <1>8, <1>9, <1>10, <1>11, <1>12, <1>13, <1>14, <1>15, <1>16 DEF x

LEMMA ConfirmOrdered ==
  ASSUME StructInv, NEW w \in Workers, Confirm(w), Confirmable(work[w])
  PROVE  Ordered' /\ \A a \in ChunkIds : chunks'[a].state = "active" => a = work[w].id
<1> DEFINE x == work[w]
           k == x.old
           id == x.id
<1>1. /\ k \in ChunkIds /\ id \in ChunkIds /\ k # id /\ k = Latest /\ k \in Live
      /\ x.changes # <<>> /\ x.start \in Nat /\ Len(x.changes) \in Nat
      /\ IF x.creating THEN EndOf(chunks[k]) = x.start /\ x.start >= 1
         ELSE chunks[k].start = x.start /\ EndOf(chunks[k]) <= x.start + Len(x.changes)
      /\ Live' = Kept(x) \cup {id} /\ id \notin Kept(x)
      /\ Kept(x) = IF x.creating THEN Live ELSE Live \ {k}
  BY Confirms DEF Work, Kept
<1>2. /\ chunks'[id].state = "active" /\ chunks'[id].start = x.start
      /\ chunks'[id].changes = x.changes /\ EndOf(chunks'[id]) = x.start + Len(x.changes)
      /\ chunks'[k].state \in {"closed", "deleted"}
      /\ \A j \in ChunkIds \ {k, id} : chunks'[j] = chunks[j]
  BY Confirms
<1>3. \A j \in Kept(x) : /\ j \in ChunkIds /\ j # id /\ j \in Live
                         /\ chunks'[j].start = chunks[j].start
                         /\ chunks'[j].changes = chunks[j].changes
                         /\ EndOf(chunks'[j]) = EndOf(chunks[j])
                         /\ chunks[j].start # x.start
                         /\ chunks'[j].state = IF j = k THEN "closed" ELSE chunks[j].state
  BY Confirms
<1>4. \A j \in Live : /\ chunks[j].start \in Nat /\ EndOf(chunks[j]) \in Nat
                      /\ chunks[j].start <= EndOf(chunks[j])
                      /\ chunks[j].start <= chunks[k].start
  <2>1. \A j \in Live : j \in ChunkIds /\ chunks[j] \in ChunkRecord
    BY DEF Live, StructInv, Types
  <2>2. \A j \in Live : chunks[j].start \in Nat /\ Len(chunks[j].changes) \in Nat
    BY <2>1 DEF ChunkRecord
  <2>3. \A j \in Live : chunks[j].start <= chunks[k].start
    BY <1>1, LatestIs DEF StructInv
  <2> QED
    BY <2>2, <2>3 DEF EndOf
<1>5. \A j \in ChunkIds : chunks[j].state = "active" => j = k
  BY <1>1, LatestIs DEF StructInv
<1>6. \A a \in ChunkIds : chunks'[a].state = "active" => a = id
  BY <1>2, <1>5
<1> DEFINE kept == Kept(x)
<1>7. kept \subseteq Live /\ \A j \in Live : j = k \/ j \in kept
  BY <1>1, <1>3
<1> HIDE DEF x, kept
<1>8. \A j \in kept : EndOf(chunks[j]) <= x.start /\ chunks[j].start < x.start
  <2> SUFFICES ASSUME NEW j \in kept
               PROVE  EndOf(chunks[j]) <= x.start /\ chunks[j].start < x.start
    OBVIOUS
  <2>1. j \in Live /\ chunks[j].start # x.start
    BY <1>3, <1>7 DEF kept
  <2>2. CASE j = k
    <3>1. x.creating
      BY <1>1, <2>2 DEF kept
    <3> QED
      BY <1>1, <1>4, <2>1, <2>2, <3>1
  <2>3. CASE j # k
    <3>1. chunks[j].start # chunks[k].start
      BY <1>1, <2>1, <2>3 DEF StructInv, Ordered
    <3>2. chunks[j].start < chunks[k].start
      BY <1>1, <1>4, <2>1, <3>1
    <3>3. EndOf(chunks[j]) <= chunks[k].start
      BY <1>1, <2>1, <3>2 DEF StructInv, Ordered
    <3>4. chunks[k].start <= x.start
      BY <1>1, <1>4
    <3> QED
      BY <1>1, <1>4, <2>1, <3>2, <3>3, <3>4
  <2> QED
    BY <2>2, <2>3
<1>9. \E j \in Live' : chunks'[j].start = 0
  <2>1. PICK j \in Live : chunks[j].start = 0
    BY DEF StructInv, Ordered
  <2>2. CASE j \in kept
    BY <1>1, <1>3, <2>1, <2>2 DEF kept
  <2>3. CASE j \notin kept
    <3>1. j = k /\ ~x.creating
      BY <1>1, <1>7, <2>3 DEF kept
    <3> QED
      BY <1>1, <1>2, <2>1, <3>1
  <2> QED
    BY <2>2, <2>3
<1>10. \A j \in Live' : chunks'[j].changes = <<>> => chunks'[j].start = 0
  BY <1>1, <1>2, <1>3 DEF StructInv, Ordered, kept
<1>11. \A i, j \in Live' : chunks'[i].start = chunks'[j].start => i = j
  BY <1>1, <1>2, <1>3 DEF StructInv, Ordered, kept
<1>12. \A i, j \in Live' : chunks'[i].start < chunks'[j].start =>
                              EndOf(chunks'[i]) <= chunks'[j].start
  <2> SUFFICES ASSUME NEW i \in Live', NEW j \in Live', chunks'[i].start < chunks'[j].start
               PROVE  EndOf(chunks'[i]) <= chunks'[j].start
    OBVIOUS
  <2>1. CASE i \in kept /\ j \in kept
    BY <1>3, <2>1 DEF StructInv, Ordered, kept
  <2>2. CASE i \in kept /\ j = id
    BY <1>2, <1>3, <1>8, <2>2 DEF kept
  <2>3. CASE i = id /\ j \in kept
    <3>1. x.start < chunks[j].start /\ chunks[j].start < x.start
      BY <1>2, <1>3, <1>8, <2>3 DEF kept
    <3> QED
      BY <1>1, <1>4, <1>7, <2>3, <3>1
  <2>4. CASE i = id /\ j = id
    BY <1>1, <1>2, <2>4
  <2> QED
    BY <1>1, <2>1, <2>2, <2>3, <2>4 DEF kept
<1>13. \A j \in Live' : chunks'[j].state = "closed" =>
           \E i \in Live' : chunks'[i].start = EndOf(chunks'[j])
  <2> SUFFICES ASSUME NEW j \in Live', chunks'[j].state = "closed"
               PROVE  \E i \in Live' : chunks'[i].start = EndOf(chunks'[j])
    OBVIOUS
  <2>1. j \in kept
    BY <1>1, <1>2 DEF kept
  <2>2. CASE j = k
    <3>1. x.creating
      BY <1>1, <2>1, <2>2 DEF kept
    <3> QED
      BY <1>1, <1>2, <1>3, <2>1, <2>2, <3>1 DEF kept
  <2>3. CASE j # k
    <3>1. chunks[j].state = "closed" /\ j \in Live /\ EndOf(chunks'[j]) = EndOf(chunks[j])
      BY <1>3, <2>1, <2>3 DEF kept
    <3>2. PICK i \in Live : chunks[i].start = EndOf(chunks[j])
      BY <3>1 DEF StructInv, Ordered
    <3>3. CASE i \in kept
      BY <1>1, <1>3, <3>1, <3>2, <3>3 DEF kept
    <3>4. CASE i \notin kept
      <4>1. i = k /\ ~x.creating
        BY <1>1, <1>7, <3>4 DEF kept
      <4> QED
        BY <1>1, <1>2, <3>1, <3>2, <4>1
    <3> QED
      BY <3>3, <3>4
  <2> QED
    BY <2>2, <2>3
<1>14. \A v \in 1..EndOf(chunks'[id]) :
           \E j \in Live' : chunks'[j].start < v /\ v <= EndOf(chunks'[j])
  <2> SUFFICES ASSUME NEW v \in 1..EndOf(chunks'[id])
               PROVE  \E j \in Live' : chunks'[j].start < v /\ v <= EndOf(chunks'[j])
    OBVIOUS
  <2>1. v \in Nat /\ 1 <= v /\ v <= x.start + Len(x.changes)
    BY <1>1, <1>2
  <2>2. CASE x.start < v
    BY <1>1, <1>2, <2>1, <2>2
  <2>3. CASE v <= x.start
    <3>1. x.start <= EndOf(chunks[k])
      BY <1>1, <1>4
    <3>2. v \in 1..EndOf(chunks[k])
      BY <1>1, <1>4, <2>1, <2>3, <3>1
    <3>3. PICK j \in Live : chunks[j].start < v /\ v <= EndOf(chunks[j])
      <4>1. chunks[k].state = "active"
        BY <1>1, LatestIs DEF StructInv
      <4> QED
        BY <1>1, <3>2, <4>1 DEF StructInv, Ordered
    <3>4. CASE j \in kept
      BY <1>1, <1>3, <3>3, <3>4 DEF kept
    <3>5. CASE j \notin kept
      <4>1. chunks[j].start = x.start
        BY <1>1, <1>7, <3>5 DEF kept
      <4> QED
        BY <1>1, <2>1, <2>3, <3>3, <4>1
    <3> QED
      BY <3>4, <3>5
  <2> QED
    BY <1>1, <2>1, <2>2, <2>3
<1>15. \A j \in Live' : chunks'[j].start <= chunks'[id].start
  BY <1>1, <1>2, <1>3, <1>4, <1>8 DEF kept
<1>16. \E a \in ChunkIds : chunks'[a].state = "active"
  BY <1>1, <1>2
<1>17. \A a \in Live' : chunks'[a].state = "active" => a = id
  BY <1>6 DEF Live
<1>18. \A a, b \in ChunkIds : chunks'[a].state = "active" /\ chunks'[b].state = "active" => a = b
  BY <1>6
<1>19. \A a, j \in Live' : chunks'[a].state = "active" =>
         /\ chunks'[j].start <= chunks'[a].start
         /\ \A v \in 1..EndOf(chunks'[a]) :
               \E i \in Live' : chunks'[i].start < v /\ v <= EndOf(chunks'[i])
  BY <1>14, <1>15, <1>17
<1>20. Ordered'
  BY <1>9, <1>10, <1>11, <1>12, <1>13, <1>16, <1>18, <1>19 DEF Ordered
<1> QED
  BY <1>6, <1>20 DEF x

LEMMA StructConfirm ==
  ASSUME StructInv, NEW w \in Workers, Confirm(w), Confirmable(work[w])
  PROVE  StructInv'
<1> DEFINE x == work[w]
           label == IF x.batch = <<>> THEN "setVersion" ELSE "create"
<1>1. /\ pc[w] = "confirm" /\ UNCHANGED <<config, redis>>
      /\ IF x.batch = <<>> /\ Direct(w) THEN Answer(w)
         ELSE /\ Goto(w, label) /\ work' = [work EXCEPT ![w] = Confirmed(x)]
              /\ UNCHANGED clients
  BY DEF Confirm, Confirmable, Kept, Confirmed
<1>2. /\ x \in Work /\ x.old \in ChunkIds /\ x.id \in ChunkIds /\ x.old # x.id
      /\ chunks' \in [ChunkIds -> ChunkRecord]
      /\ \A j \in ChunkIds : Len(chunks'[j].changes) <= MaxChunkChanges
      /\ chunks'[x.old].state \in {"closed", "deleted"}
      /\ \A j \in ChunkIds \ {x.old, x.id} : chunks'[j] = chunks[j]
      /\ x.old \in Live /\ Live \subseteq ChunkIds
      /\ x.creating => /\ chunks'[x.old].start = chunks[x.old].start
                       /\ EndOf(chunks'[x.old]) = EndOf(chunks[x.old])
      /\ ~x.creating => chunks'[x.old].state = "deleted"
      /\ x.creating => chunks'[x.old].state = "closed"
      /\ Len(x.changes) >= 1
  <2>1. x.old \in Live /\ Live' = Kept(x) \cup {x.id} /\ x.old # x.id /\ x.old \in ChunkIds
    BY Confirms
  <2>2. x.creating => x.old \in Kept(x)
    BY <2>1 DEF Kept
  <2>3. x.creating => /\ chunks'[x.old].start = chunks[x.old].start
                      /\ EndOf(chunks'[x.old]) = EndOf(chunks[x.old])
                      /\ chunks'[x.old].state = "closed"
    BY <2>2, Confirms
  <2>4. ~x.creating => x.old \notin Live'
    BY <2>1 DEF Kept
  <2>5. ~x.creating => chunks'[x.old].state = "deleted"
    BY <2>1, <2>4, Confirms DEF Live
  <2>6. x \in Work /\ x.changes # <<>>
    BY Confirms
  <2>7. Len(x.changes) >= 1
    BY <2>6 DEF Work
  <2> QED
    BY <2>3, <2>5, <2>7, Confirms DEF Live
<1>3. \A u \in Workers \ {w} : Replacing(work[u]) /\ Uploading(u) => Replacing(work[u])'
  <2> SUFFICES ASSUME NEW u \in Workers \ {w}, Replacing(work[u]), Uploading(u)
               PROVE  work'[u] = work[u] /\ Replacing(work[u])'
    OBVIOUS
  <2> DEFINE y == work[u]
  <2>1. work'[u] = y
    <3>1. work \in [Workers -> Work]
      BY DEF StructInv, Types, Work
    <3> QED
      BY <1>1, <3>1 DEF Answer, Stop, Confirmed
  <2>2. y.id # x.id /\ y.id # x.old
    <3>1. Uploading(w)
      BY <1>1 DEF Uploading
    <3>2. chunks[x.old].state = "active" /\ chunks[y.id].state = "pending"
      BY DEF Confirmable, Replacing
    <3> QED
      BY <3>1, <3>2 DEF StructInv, Distinct
  <2>3. chunks'[y.id] = chunks[y.id] /\ y.id \in ChunkIds /\ y.old \in ChunkIds /\ y.old # x.id
    BY <1>2, <2>2 DEF Replacing, Confirmable
  <2>4. CASE y.old = x.old
    <3>1. chunks[x.old].state = "active"
      BY DEF Confirmable
    <3>2. \/ /\ EndOf(chunks'[y.old]) = EndOf(chunks[y.old])
             /\ chunks'[y.old].start = chunks[y.old].start
          \/ chunks'[y.old].state = "deleted"
      BY <1>2, <2>4
    <3> QED
      BY <1>2, <2>1, <2>3, <2>4, <3>1, <3>2 DEF Replacing
  <2>5. CASE y.old # x.old
    <3>1. chunks'[y.old] = chunks[y.old]
      BY <1>2, <2>3, <2>5
    <3> QED
      BY <2>1, <2>3, <3>1 DEF Replacing
  <2> QED
    BY <2>1, <2>4, <2>5
<1>4. PICK p \in {"idle", "setVersion", "create"}, z \in Work :
         /\ pc' = [pc EXCEPT ![w] = p] /\ work' = [work EXCEPT ![w] = z]
         /\ version' = version /\ acked' \subseteq Requests
         /\ Proper(p, z)
  <2>1. /\ acked \subseteq Requests /\ x.task \in Requests \cup {"job"}
        /\ x.forcing => x.task \in Requests /\ version[x.task] # None
    BY <1>1 DEF StructInv, Types, Proper
  <2>2. CASE x.batch = <<>> /\ Direct(w)
    <3>1. Answer(w) /\ x.task \in Requests
      BY <1>1, <2>2 DEF Direct
    <3>2. Proper("idle", NoWork)
      BY NoWorkTyped DEF Proper
    <3> QED
      BY <2>1, <3>1, <3>2, NoWorkTyped DEF Answer, Stop, Goto
  <2>3. CASE ~(x.batch = <<>> /\ Direct(w))
    <3> DEFINE z == Confirmed(x)
    <3>1. /\ z \in Work /\ z.task = x.task /\ z.forcing = x.forcing /\ z.batch = x.batch
          /\ z.at = x.start + Len(x.changes) /\ z.at >= 1
      <4>1. /\ x.start \in Nat /\ Len(x.changes) \in Nat
            /\ x.start + Len(x.changes) \in Nat /\ x.start + Len(x.changes) >= 1
        BY <1>2 DEF Work
      <4>2. <<>> \in Seq(Change)
        BY EmptyIsSeq
      <4> QED
        BY <1>2, <4>1, <4>2 DEF Confirmed, Work
    <3>2. pc' = [pc EXCEPT ![w] = label] /\ work' = [work EXCEPT ![w] = z]
          /\ version' = version /\ acked' = acked
      BY <1>1, <2>3 DEF Goto, clients
    <3> HIDE DEF z
    <3>3. Proper(label, z) /\ label \in {"setVersion", "create"}
      BY <2>1, <3>1 DEF Proper
    <3> QED
      BY <2>1, <3>1, <3>2, <3>3
  <2> QED
    BY <2>2, <2>3
<1>5. pc \in [Workers -> PCs] /\ work \in [Workers -> Work] /\ p \in PCs
  BY DEF StructInv, Types, Work, PCs
<1>6. /\ pc' \in [Workers -> PCs] /\ work' \in [Workers -> Work]
      /\ pc'[w] = p /\ work'[w] = z
      /\ \A u \in Workers \ {w} : pc'[u] = pc[u] /\ work'[u] = work[u]
  BY <1>4, <1>5
<1>7. Types'
  BY <1>1, <1>2, <1>4, <1>6 DEF StructInv, Types, Work, redis
<1>8. ASSUME NEW u \in Workers PROVE Proper(pc[u], work[u])'
  <2>1. CASE u = w
    BY <1>4, <1>6, <2>1 DEF Proper
  <2>2. CASE u # w
    <3>1. Proper(pc[u], work[u]) /\ pc'[u] = pc[u] /\ work'[u] = work[u]
      BY <1>6, <2>2 DEF StructInv
    <3>2. Uploading(u) => Replacing(work[u])'
      BY <1>3, <2>2, <3>1 DEF Proper, Uploading
    <3> QED
      BY <1>4, <3>1, <3>2 DEF Proper, Uploading
  <2> QED
    BY <2>1, <2>2
<1>9. Distinct'
  BY <1>4, <1>6 DEF StructInv, Distinct, Uploading
<1> QED
  BY <1>7, <1>8, <1>9, ConfirmOrdered DEF StructInv

LEMMA StructUploads ==
  ASSUME StructInv, NEW w \in Workers, Update(w) \/ Create(w) \/ Confirm(w)
  PROVE  StructInv'
<1>1. /\ work[w] \in Work /\ Proper(pc[w], work[w]) /\ Types
      /\ work[w].start \in Nat /\ work[w].at \in Nat
      /\ work[w].changes \in Seq(Change) /\ work[w].batch \in Seq(Change)
  BY DEF StructInv, Types, Work
<1>2. Throw(w) /\ UNCHANGED chunks /\ UNCHANGED <<config, redis>> => StructInv'
  BY StructThrows DEF Others, Throw, clients, redis, StructInv, Types
<1>3. CASE Update(w)
  <2> DEFINE s == work[w].start
             k == Newer(s)
  <2>1. pc[w] = "update" /\ UNCHANGED <<config, redis>>
    BY <1>3 DEF Update
  <2>2. CASE /\ Containing(s) # {} /\ Replaces(k, s, Len(work[w].changes))
             /\ InsertPending(w, k, s, work[w].changes, work[w].batch, FALSE)
    <3>1. k \in Live
      BY <1>1, <2>2, FoundIs
    <3>2. chunks[k].start = s /\ EndOf(chunks[k]) <= s + Len(work[w].changes)
      BY <2>2 DEF Replaces
    <3>3. work[w].changes # <<>> /\ Len(work[w].changes) <= MaxChunkChanges
      BY <1>1, <2>1 DEF Proper
    <3> HIDE DEF k
    <3> QED
      BY <1>1, <2>1, <2>2, <3>1, <3>2, <3>3, StructInserts
  <2> QED
    BY <1>2, <1>3, <2>1, <2>2 DEF Update
<1>4. CASE Create(w)
  <2> DEFINE s == work[w].at
             k == Older(s)
             n == Lesser(MaxChunkChanges, Len(work[w].batch))
             first == First(work[w].batch, n)
             rest == Rest(work[w].batch, n)
  <2>1. pc[w] = "create" /\ UNCHANGED <<config, redis>>
    BY <1>4 DEF Create
  <2>2. CASE /\ Containing(s) # {} /\ EndOf(chunks[k]) = s
             /\ InsertPending(w, k, s, first, rest, TRUE)
    <3>1. k \in Live
      BY <1>1, <2>2, FoundIs
    <3>2. work[w].batch # <<>> /\ s >= 1
      BY <1>1, <2>1 DEF Proper
    <3>3. n \in Nat \ {0} /\ n <= Len(work[w].batch) /\ n <= MaxChunkChanges
      <4>1. Len(work[w].batch) \in Nat \ {0}
        BY <1>1, <3>2
      <4> QED
        BY <4>1, BoundsAssumption DEF Lesser
    <3> HIDE DEF n
    <3>4. first \in Seq(Change) /\ Len(first) = n /\ rest \in Seq(Change)
      <4>1. n \in Nat /\ n <= Len(work[w].batch) /\ work[w].batch \in Seq(Change)
        BY <1>1, <3>3
      <4> QED
        BY <4>1, CutTyped
    <3>5. first # <<>> /\ Len(first) <= MaxChunkChanges
      BY <3>3, <3>4
    <3> HIDE DEF k, first, rest
    <3> QED
      BY <1>1, <2>1, <2>2, <3>1, <3>2, <3>4, <3>5, StructInserts
  <2> QED
    BY <1>2, <1>4, <2>1, <2>2 DEF Create
<1>5. CASE Confirm(w)
  <2>1. CASE Confirmable(work[w])
    BY <1>5, <2>1, StructConfirm
  <2>2. CASE ~Confirmable(work[w])
    BY <1>2, <1>5, <2>2 DEF Confirm, Confirmable, Kept
  <2> QED
    BY <2>1, <2>2
<1> QED
  BY <1>3, <1>4, <1>5

\* A step that leaves the chunks and the workers alone.
LEMMA StructKeeps ==
  ASSUME StructInv, UNCHANGED <<chunks, pc, work, acked>>,
         config' \in Configs, head' \in Nat \cup {None}, persisted' \in Nat \cup {None},
         buffer' \in Seq(Change), persistTime' \in Workers \cup {"due", None},
         version' \in [Requests -> Nat \cup {None}],
         \A r \in Requests : version[r] # None => version'[r] = version[r]
  PROVE  StructInv'
<1>1. Types'
  BY DEF StructInv, Types
<1>2. Ordered'
  BY DEF StructInv, Ordered, Live
<1>3. ASSUME NEW w \in Workers PROVE Proper(pc[w], work[w])'
  <2>1. Proper(pc[w], work[w])
    BY DEF StructInv
  <2>2. work[w].forcing => version'[work[w].task] # None
    BY <2>1 DEF Proper
  <2> QED
    BY <2>1, <2>2 DEF Proper, Replacing
<1>4. Distinct'
  BY DEF StructInv, Distinct, Uploading
<1> QED
  BY <1>1, <1>2, <1>3, <1>4 DEF StructInv

LEMMA StructAround ==
  ASSUME StructInv, (\E r \in Requests : Ask(r)) \/ Expire \/ Downgrade \/ UNCHANGED vars
  PROVE  StructInv'
<1> USE DEF redis, clients
<1>1. /\ config \in Configs /\ head \in Nat \cup {None} /\ persisted \in Nat \cup {None}
      /\ buffer \in Seq(Change) /\ persistTime \in Workers \cup {"due", None}
      /\ version \in [Requests -> Nat \cup {None}]
  BY DEF StructInv, Types
<1>2. CASE \E r \in Requests : Ask(r)
  <2> PICK r \in Requests : Ask(r)
    BY <1>2
  <2>1. Len(History) \in Nat
    BY HistoryTyped DEF StructInv
  <2>2. /\ version' = [version EXCEPT ![r] = Len(History)] /\ version[r] = None
        /\ UNCHANGED <<config, chunks, redis, pc, work, acked>>
    BY DEF Ask
  <2>3. version' \in [Requests -> Nat \cup {None}]
    BY <1>1, <2>1, <2>2
  <2>4. \A q \in Requests : version[q] # None => version'[q] = version[q]
    BY <1>1, <2>2
  <2> QED
    BY <1>1, <2>2, <2>3, <2>4, StructKeeps
<1>3. CASE Expire
  BY <1>1, <1>3, EmptyIsSeq, StructKeeps DEF Expire, Drop
<1>4. CASE Downgrade
  BY <1>1, <1>4, StructKeeps DEF Downgrade
<1>5. CASE UNCHANGED vars
  BY <1>1, <1>5, StructKeeps DEF vars
<1> QED
  BY <1>2, <1>3, <1>4, <1>5

LEMMA NextStruct == StructInv /\ [Next]_vars => StructInv'
<1> SUFFICES ASSUME StructInv, [Next]_vars PROVE StructInv'
  OBVIOUS
<1>1. CASE \E w \in Workers : Step(w)
  BY <1>1, StructRequests, StructPersist, StructUploads, StructStore DEF Step
<1> QED
  BY <1>1, StructAround, StructDeletes DEF Next

\* Only an exception makes versions disputed.
LEMMA StepDisputes ==
  ASSUME NEW w \in Workers, Step(w)
  PROVE  disputed' = disputed \/ Throw(w)
<1> USE DEF clients
<1>1. CASE \/ \E r \in Requests : Send(w, r)
           \/ ForceExpire(w) \/ ReadHead(w) \/ LoadHead(w) \/ Queue(w)
           \/ Claim(w) \/ ReadMetadata(w) \/ CloseJob(w) \/ Crash(w) \/ CallFails(w)
  BY <1>1 DEF Send, ForceExpire, ReadHead, LoadHead, Queue, Claim, ReadMetadata,
              CloseJob, Crash, CallFails, Answer
<1>2. CASE Fetch(w) \/ SetVersion(w) \/ SetVersionAgain(w)
  <2>1. Return(w) => disputed' = disputed
    BY DEF Return, Answer
  <2> QED
    BY <1>2, <2>1 DEF Fetch, SetVersion, SetVersionAgain
<1>3. CASE Load(w) \/ Update(w) \/ Create(w) \/ Store(w) \/ Confirm(w)
  BY <1>3 DEF Load, Update, Create, InsertPending, Store, Confirm, Answer
<1> QED
  BY <1>1, <1>2, <1>3 DEF Step

LEMMA NextDisputed ==
  ASSUME StructInv, disputed \in Nat \cup {None}, [Next]_vars
  PROVE  disputed' \in Nat \cup {None}
<1>1. StoredEnd \in Nat
  BY StoredIs DEF StructInv, StoredFacts
<1>2. CASE \E w \in Workers : Step(w)
  <2> PICK w \in Workers : Step(w)
    BY <1>2
  <2>1. disputed' = disputed \/ Throw(w)
    BY StepDisputes
  <2> QED
    BY <1>1, <2>1 DEF Throw
<1>3. CASE \/ \E r \in Requests : Ask(r)
           \/ DeleteOldChunks \/ Expire \/ Downgrade \/ UNCHANGED vars
  BY <1>3 DEF Ask, DeleteOldChunks, Expire, Downgrade, vars, clients
<1> QED
  BY <1>2, <1>3 DEF Next

\* The state of the chunk store and of Redis has its types whatever goes wrong, and no
\* chunk ever holds more changes than limits.maxChunkChanges, though fillChunk looks at
\* a chunk that other workers replace meanwhile.
THEOREM StoreTyped == Spec => []TypeOK
<1> DEFINE Inv == StructInv /\ disputed \in Nat \cup {None}
<1>1. Init => Inv
  BY InitStruct DEF Init
<1>2. Inv /\ [Next]_vars => Inv'
  BY NextStruct, NextDisputed
<1>3. Inv => TypeOK
  BY DEF StructInv, Types, TypeOK, Work
<1> QED
  BY <1>1, <1>2, <1>3, PTL DEF Spec

\* The chunks of a project follow each other without gap or overlap from version 0 on,
\* and only the last can be extended: for any number of workers, any configurations,
\* overlapping requests, late jobs, crashes and a buffer that expires under a request.
THEOREM StoreContiguous == Spec => []ChunksContiguous
<1>1. StructInv => ChunksContiguous
  <2> SUFFICES ASSUME StructInv PROVE ChunksContiguous
    OBVIOUS
  <2>1. \E k \in Live : chunks[k].start = 0
    BY DEF StructInv, Ordered
  <2>2. chunks[Latest].state = "active"
    BY LatestIs DEF StructInv
  <2>3. ASSUME NEW k \in Live, k # Latest
        PROVE  /\ chunks[k].state = "closed"
               /\ Cardinality({j \in Live : chunks[j].start = EndOf(chunks[k])}) = 1
    <3>1. chunks[k].state = "closed"
      BY <2>3, LatestIs DEF StructInv, Live
    <3>2. PICK j \in Live : chunks[j].start = EndOf(chunks[k])
      BY <3>1 DEF StructInv, Ordered
    <3>3. {i \in Live : chunks[i].start = EndOf(chunks[k])} = {j}
      BY <3>2 DEF StructInv, Ordered
    <3> QED
      BY <3>1, <3>3, FS_Singleton
  <2> QED
    BY <2>1, <2>2, <2>3 DEF ChunksContiguous
<1> QED
  BY <1>1, InitStruct, NextStruct, PTL DEF Spec

-----------------------------------------------------------------------------
(* The history only grows, and keeps what was answered. *)

\* No two requests at level 0 at once, no buffer that expires under a request, and a
\* buffer is forced out only by a deployment of level 0 that does not follow level 4:
\* what level 4 has answered is lost when forcing its buffer out fails.
Quiet ==
  /\ "overlap" \notin Faults /\ "expiryRace" \notin Faults
  /\ \A c \in Configs : c.force => c.level = 0 /\ \A d \in Configs : d.level # 4

\* A sequence is where a log has it, or is an earlier state of the log.
Agrees(log, at, s) == at + Len(s) <= Len(log) /\ \A i \in 1..Len(s) : s[i] = log[at + i]
Grown(s, t) == Len(s) <= Len(t) /\ \A i \in 1..Len(s) : t[i] = s[i]

\* Redis has all changes that are not in chunks, and claims no more than is.
RedisInv ==
  /\ head = None => persisted = None /\ buffer = <<>>
  /\ head # None =>
       /\ Len(buffer) <= head
       /\ head - Len(buffer) <= StoredEnd /\ StoredEnd <= head
       /\ persisted # None => persisted <= StoredEnd
       /\ \A v \in head - Len(buffer) + 1 .. StoredEnd :
             buffer[v - (head - Len(buffer))] = StoredHistory[v]

\* What History then is.
HistoryFacts ==
  /\ History \in Seq(Change)
  /\ Len(History) = IF head = None THEN StoredEnd ELSE head
  /\ StoredEnd \in Nat /\ StoredEnd <= Len(History)
  /\ \A v \in 1..StoredEnd : History[v] = StoredHistory[v]
  /\ head # None => \A v \in head - Len(buffer) + 1 .. head :
                       History[v] = buffer[v - (head - Len(buffer))]

LEMMA TailIs ==
  ASSUME NEW S, NEW s \in Seq(S), NEW n \in Nat, NEW t, t = LastOf(s, n)
  PROVE  /\ t \in Seq(S) /\ Len(t) = Lesser(n, Len(s))
         /\ \A i \in 1..Len(t) : t[i] = s[Len(s) - Len(t) + i]
<1>1. CASE n >= Len(s)
  <2>1. t = s /\ Lesser(n, Len(s)) = Len(s) /\ Len(s) \in Nat
    BY <1>1 DEF LastOf, Lesser
  <2>2. ASSUME NEW i \in 1..Len(t) PROVE t[i] = s[Len(s) - Len(t) + i]
    <3>1. Len(s) - Len(t) + i = i
      BY <2>1
    <3> QED
      BY <2>1, <3>1
  <2> QED
    BY <2>1, <2>2
<1>2. CASE n < Len(s)
  <2>1. t \in Seq(S) /\ Len(t) = n /\ Lesser(n, Len(s)) = n
    BY <1>2, CutTyped DEF Lesser
  <2>2. ASSUME NEW i \in 1..n PROVE t[i] = s[Len(s) - n + i]
    <3>1. t = SubSeq(s, Len(s) - n + 1, Len(s))
      BY <1>2 DEF LastOf
    <3>2. SubSeq(s, Len(s) - n + 1, Len(s))[i] = s[Len(s) - n + i]
      <4>1. /\ Len(s) - n + 1 \in 1..Len(s) /\ Len(s) - (Len(s) - n + 1) + 1 = n
            /\ (Len(s) - n + 1) + i - 1 = Len(s) - n + i
        BY <1>2
      <4> QED
        BY <4>1
    <3> QED
      BY <3>1, <3>2
  <2> QED
    BY <2>1, <2>2
<1> QED
  BY <1>1, <1>2

\* The last elements are those that are not before them.
LEMMA RestIsLast ==
  ASSUME NEW S, NEW s \in Seq(S), NEW n \in Nat, n <= Len(s)
  PROVE  Rest(s, Len(s) - n) = LastOf(s, n)
<1>1. CASE n = Len(s)
  BY <1>1 DEF Rest, LastOf
<1>2. CASE n # Len(s)
  BY <1>2 DEF Rest, LastOf
<1> QED
  BY <1>1, <1>2

LEMMA TailOfBuffer ==
  \A b \in Seq(Change), k \in Nat :
     /\ LastOf(b, k) \in Seq(Change) /\ Len(LastOf(b, k)) = Lesser(k, Len(b))
     /\ \A i \in 1..Len(LastOf(b, k)) :
          LastOf(b, k)[i] = b[Len(b) - Len(LastOf(b, k)) + i]
<1> TAKE b \in Seq(Change), k \in Nat
<1> DEFINE C == Change  u == LastOf(b, k)
<1>1. b \in Seq(C) /\ k \in Nat /\ u = LastOf(b, k) /\ Lesser(k, Len(b)) \in Nat
  BY DEF Lesser
<1> HIDE DEF C, u
<1>2. /\ u \in Seq(C) /\ Len(u) = Lesser(k, Len(b))
      /\ \A i \in 1..Len(u) : u[i] = b[Len(b) - Len(u) + i]
  BY ONLY <1>1, TailIs
<1> QED
  BY <1>2 DEF C, u

LEMMA HistoryIs == Types /\ Ordered /\ RedisInv => HistoryFacts
<1> SUFFICES ASSUME Types, Ordered, RedisInv PROVE HistoryFacts
  OBVIOUS
<1>1. /\ StoredHistory \in Seq(Change) /\ Len(StoredHistory) = StoredEnd /\ StoredEnd \in Nat
      /\ head \in Nat \cup {None} /\ buffer \in Seq(Change) /\ Len(buffer) \in Nat
      /\ persisted \in Nat \cup {None} /\ None \notin Nat
  BY StoredIs, InputAssumption DEF StoredFacts, Types
<1> DEFINE tail == Unpersisted(StoredEnd, 0)
<1>2. CASE head = None
  <2>1. tail = <<>> /\ History = StoredHistory \o tail
    BY <1>2 DEF Unpersisted, History
  <2>2. History = StoredHistory
    BY <1>1, <2>1
  <2> QED
    BY <1>1, <1>2, <2>2 DEF HistoryFacts
<1>3. CASE head # None
  <2>1. /\ head \in Nat /\ Len(buffer) <= head /\ head - Len(buffer) <= StoredEnd
        /\ StoredEnd <= head /\ head - StoredEnd \in Nat /\ head - StoredEnd <= Len(buffer)
        /\ persisted # None => persisted <= StoredEnd
    BY <1>1, <1>3 DEF RedisInv
  <2>2. ~OutOfBounds(StoredEnd)
    BY <1>1, <2>1 DEF OutOfBounds, BufferStart
  <2>3. /\ tail \in Seq(Change) /\ Len(tail) = head - StoredEnd
        /\ \A i \in 1..Len(tail) : tail[i] = buffer[Len(buffer) - Len(tail) + i]
    <3>1. tail = Rest(buffer, Len(buffer) - (head - StoredEnd))
      BY <1>3, <2>2 DEF Unpersisted
    <3>2. Rest(buffer, Len(buffer) - (head - StoredEnd)) = LastOf(buffer, head - StoredEnd)
      BY <1>1, <2>1, RestIsLast
    <3> HIDE DEF tail
    <3>3. Lesser(head - StoredEnd, Len(buffer)) = head - StoredEnd
      BY <1>1, <2>1 DEF Lesser
    <3>4. head - StoredEnd \in Nat /\ buffer \in Seq(Change) /\ tail = LastOf(buffer, head - StoredEnd)
      BY <1>1, <2>1, <3>1, <3>2
    <3> QED
      BY <3>3, <3>4, TailIs
  <2>4. History = StoredHistory \o tail
    BY DEF History
  <2> HIDE DEF tail
  <2>5. /\ History \in Seq(Change) /\ Len(History) = head
        /\ \A v \in 1..StoredEnd : History[v] = StoredHistory[v]
        /\ \A i \in 1..Len(tail) : History[StoredEnd + i] = tail[i]
    <3>1. StoredEnd + (head - StoredEnd) = head
      BY <1>1, <2>1
    <3>2. \A s, t \in Seq(Change) :
             /\ s \o t \in Seq(Change) /\ Len(s \o t) = Len(s) + Len(t)
             /\ \A i \in 1..Len(s) : (s \o t)[i] = s[i]
             /\ \A i \in 1..Len(t) : (s \o t)[Len(s) + i] = t[i]
      BY ConcatTyped
    <3> QED
      BY <1>1, <2>3, <2>4, <3>1, <3>2
  <2>6. ASSUME NEW v \in head - Len(buffer) + 1 .. head
        PROVE  History[v] = buffer[v - (head - Len(buffer))]
    <3>1. CASE v <= StoredEnd
      <4>1. v \in 1..StoredEnd /\ v \in head - Len(buffer) + 1 .. StoredEnd
        BY <1>1, <2>1, <3>1
      <4> QED
        BY <1>3, <2>5, <4>1 DEF RedisInv
    <3>2. CASE v > StoredEnd
      <4>1. v - StoredEnd \in 1..Len(tail) /\ StoredEnd + (v - StoredEnd) = v
            /\ Len(buffer) - Len(tail) + (v - StoredEnd) = v - (head - Len(buffer))
        BY <1>1, <2>1, <2>3, <3>2
      <4>2. /\ History[StoredEnd + (v - StoredEnd)] = tail[v - StoredEnd]
            /\ tail[v - StoredEnd] = buffer[Len(buffer) - Len(tail) + (v - StoredEnd)]
        BY <2>3, <2>5, <4>1
      <4> QED
        BY <4>1, <4>2
    <3> QED
      BY <1>1, <2>1, <3>1, <3>2
  <2> QED
    BY <1>1, <1>3, <2>1, <2>5, <2>6 DEF HistoryFacts
<1> QED
  BY <1>2, <1>3

\* A sequence is known by its length and its elements.
LEMMA SameSeq ==
  ASSUME NEW S, NEW s \in Seq(S), NEW t \in Seq(S), Len(s) = Len(t),
         \A i \in 1..Len(s) : s[i] = t[i]
  PROVE  s = t
OBVIOUS

\* What get_non_persisted_changes returns is a section of the history.
LEMMA UnpersistedAgrees ==
  ASSUME Types, Ordered, RedisInv, NEW base \in Nat, NEW max \in Nat,
         ~OutOfBounds(base), Unpersisted(base, max) # <<>>
  PROVE  Agrees(History, base, Unpersisted(base, max))
<1> DEFINE tail == LastOf(buffer, head - base)
           s == Unpersisted(base, max)
<1>1. HistoryFacts
  BY HistoryIs
<1>2. head # None
  BY DEF Unpersisted
<1>3. /\ head \in Nat /\ base <= head /\ head - base \in Nat /\ head - base <= Len(buffer)
      /\ buffer \in Seq(Change) /\ Len(buffer) \in Nat
  BY <1>2 DEF OutOfBounds, Types
<1>4. /\ tail \in Seq(Change) /\ Len(tail) = head - base
      /\ \A i \in 1..Len(tail) : tail[i] = buffer[Len(buffer) - Len(tail) + i]
  <2>1. Lesser(head - base, Len(buffer)) = head - base
    BY <1>3 DEF Lesser
  <2>2. tail = LastOf(buffer, head - base)
    OBVIOUS
  <2> HIDE DEF tail
  <2>3. head - base \in Nat /\ buffer \in Seq(Change)
    BY <1>3
  <2> QED
    BY <2>1, <2>2, <2>3, TailIs, SMTT(30)
<1>5. s = IF max > 0 THEN First(tail, Lesser(max, Len(tail))) ELSE tail
  <2>1. Rest(buffer, Len(buffer) - (head - base)) = tail
    BY <1>3, RestIsLast
  <2> QED
    BY <1>2, <2>1 DEF Unpersisted
<1> HIDE DEF tail, s
<1>6. Len(s) <= Len(tail) /\ Len(s) \in Nat /\ \A i \in 1..Len(s) : s[i] = tail[i]
  <2>1. CASE max > 0
    <3>1. /\ Lesser(max, Len(tail)) \in Nat /\ Lesser(max, Len(tail)) <= Len(tail)
      BY <1>3, <1>4 DEF Lesser
    <3>2. s = First(tail, Lesser(max, Len(tail)))
      BY <1>5, <2>1
    <3>3. \A m \in Nat : m <= Len(tail) =>
             Len(First(tail, m)) = m /\ \A i \in 1..m : First(tail, m)[i] = tail[i]
      BY <1>4, CutTyped
    <3> QED
      BY <3>1, <3>2, <3>3
  <2>2. CASE ~(max > 0)
    BY <1>4, <1>5, <2>2
  <2> QED
    BY <2>1, <2>2
<1>7. ASSUME NEW i \in 1..Len(s) PROVE s[i] = History[base + i]
  <2>1. /\ base + i \in head - Len(buffer) + 1 .. head /\ i \in 1..Len(tail)
        /\ Len(buffer) - Len(tail) + i = base + i - (head - Len(buffer))
    BY <1>3, <1>4, <1>6
  <2>2. s[i] = tail[i] /\ tail[i] = buffer[Len(buffer) - Len(tail) + i]
    BY <1>4, <1>6, <2>1
  <2>3. History[base + i] = buffer[base + i - (head - Len(buffer))]
    BY <1>1, <1>2, <2>1 DEF HistoryFacts
  <2> QED
    BY <2>1, <2>2, <2>3
<1>8. base + Len(s) <= Len(History)
  BY <1>1, <1>2, <1>3, <1>4, <1>6 DEF HistoryFacts
<1> QED
  BY <1>7, <1>8 DEF Agrees, s

\* The chunks, but for records that are not part of the history, stay the same.
LEMMA StoredSame ==
  ASSUME StructInv, StructInv', Live' = Live,
         \A k \in Live : chunks'[k].start = chunks[k].start /\ chunks'[k].changes = chunks[k].changes
  PROVE  StoredEnd' = StoredEnd /\ StoredHistory' = StoredHistory
<1>1. StoredFacts /\ StoredFacts'
  <2>1. Types /\ Ordered /\ Types' /\ Ordered'
    BY DEF StructInv
  <2> QED
    BY <2>1, StoredIs, PTL
<1>2. \A k \in Live : EndOf(chunks'[k]) = EndOf(chunks[k])
  BY DEF EndOf
<1>3. StoredEnd' = StoredEnd
  <2>1. /\ Latest \in Live /\ Latest' \in Live
        /\ StoredEnd = EndOf(chunks[Latest]) /\ StoredEnd' = EndOf(chunks'[Latest'])
    BY <1>1 DEF StoredFacts, StoredEnd
  <2>2. EndOf(chunks[Latest']) <= StoredEnd /\ EndOf(chunks'[Latest]) <= StoredEnd'
    BY <1>1, <2>1 DEF StoredFacts
  <2> QED
    BY <1>1, <1>2, <2>1, <2>2 DEF StoredFacts
<1>4. \A k \in Live : chunks[k].start \in Nat /\ EndOf(chunks[k]) = chunks[k].start + Len(chunks[k].changes)
                      /\ Len(chunks[k].changes) \in Nat
  BY DEF StructInv, Types, Live, ChunkRecord, EndOf
<1>5. ASSUME NEW v \in 1..StoredEnd PROVE StoredHistory'[v] = StoredHistory[v]
  <2>1. PICK k \in Live : chunks[k].start < v /\ v <= EndOf(chunks[k])
    BY <1>1 DEF StoredFacts
  <2>2. v - chunks[k].start \in 1..Len(chunks[k].changes)
        /\ chunks[k].start + (v - chunks[k].start) = v
    BY <1>1, <1>4, <2>1 DEF StoredFacts
  <2>3. StoredHistory[chunks[k].start + (v - chunks[k].start)] = chunks[k].changes[v - chunks[k].start]
    BY <1>1, <2>2 DEF StoredFacts
  <2>4. StoredHistory'[chunks'[k].start + (v - chunks[k].start)] = chunks'[k].changes[v - chunks[k].start]
    BY <1>1, <2>2 DEF StoredFacts
  <2> QED
    BY <2>1, <2>2, <2>3, <2>4
<1>6. /\ StoredHistory \in Seq(Change) /\ StoredHistory' \in Seq(Change)
      /\ Len(StoredHistory) = StoredEnd /\ Len(StoredHistory') = StoredEnd
  BY <1>1, <1>3 DEF StoredFacts
<1>7. StoredHistory' = StoredHistory
  BY <1>5, <1>6, SameSeq
<1> QED
  BY <1>3, <1>7

\* A confirmed chunk writes its changes after the version it starts at.
LEMMA StoredGrows ==
  ASSUME StructInv, StructInv', NEW w \in Workers, Confirm(w), Confirmable(work[w])
  PROVE  LET x == work[w]
         IN  /\ StoredEnd' = x.start + Len(x.changes)
             /\ StoredEnd <= StoredEnd' /\ x.start <= StoredEnd
             /\ \A v \in 1..x.start : StoredHistory'[v] = StoredHistory[v]
             /\ \A i \in 1..Len(x.changes) : StoredHistory'[x.start + i] = x.changes[i]
<1> DEFINE x == work[w]
           k == x.old
           id == x.id
<1>1. StoredFacts /\ StoredFacts'
  <2>1. Types /\ Ordered /\ Types' /\ Ordered'
    BY DEF StructInv
  <2> QED
    BY <2>1, StoredIs, PTL
<1>2. /\ x \in Work /\ k \in ChunkIds /\ id \in ChunkIds /\ k = Latest /\ k \in Live
      /\ IF x.creating THEN EndOf(chunks[k]) = x.start
         ELSE chunks[k].start = x.start /\ EndOf(chunks[k]) <= x.start + Len(x.changes)
      /\ Live' = Kept(x) \cup {id} /\ Kept(x) \subseteq Live
      /\ \A j \in Kept(x) : /\ chunks'[j].start = chunks[j].start
                            /\ chunks'[j].changes = chunks[j].changes
                            /\ EndOf(chunks'[j]) = EndOf(chunks[j])
      /\ chunks'[id].start = x.start
      /\ chunks'[id].changes = x.changes /\ EndOf(chunks'[id]) = x.start + Len(x.changes)
      /\ chunks'[id].state = "active"
  BY Confirms
<1>3. /\ x.start \in Nat /\ x.changes \in Seq(Change) /\ Len(x.changes) \in Nat
      /\ \A j \in Live : /\ chunks[j].start \in Nat /\ Len(chunks[j].changes) \in Nat
                         /\ EndOf(chunks[j]) = chunks[j].start + Len(chunks[j].changes)
  <2>1. x.start \in Nat /\ x.changes \in Seq(Change)
    BY <1>2 DEF Work
  <2>2. \A j \in Live : chunks[j] \in ChunkRecord
    BY DEF StructInv, Types, Live
  <2>3. \A j \in Live : chunks[j].start \in Nat /\ Len(chunks[j].changes) \in Nat
    BY <2>2 DEF ChunkRecord
  <2> QED
    BY <2>1, <2>3 DEF EndOf
<1>4. StoredEnd = EndOf(chunks[k]) /\ StoredEnd \in Nat /\ StoredEnd' \in Nat
  BY <1>1, <1>2 DEF StoredEnd, StoredFacts
<1>5. StoredEnd' = x.start + Len(x.changes)
  <2>1. Latest' = id
    <3>1. \A a \in ChunkIds : chunks'[a].state = "active" => a = id
      BY ConfirmOrdered
    <3>2. (Latest \in ChunkIds /\ chunks[Latest].state = "active")'
      <4>1. Types' /\ Ordered'
        BY DEF StructInv
      <4> QED
        BY <4>1, LatestActive, PTL
    <3> QED
      BY <3>1, <3>2
  <2> QED
    BY <1>2, <2>1 DEF StoredEnd
<1>6. StoredEnd <= StoredEnd' /\ x.start <= StoredEnd
  BY <1>2, <1>3, <1>4, <1>5
<1>7. ASSUME NEW v \in 1..x.start PROVE StoredHistory'[v] = StoredHistory[v]
  <2>1. PICK j \in Live' : chunks'[j].start < v /\ v <= EndOf(chunks'[j])
    <3>1. v \in 1..StoredEnd'
      BY <1>3, <1>4, <1>6
    <3> QED
      BY <1>1, <3>1 DEF StoredFacts
  <2>2. j \in Kept(x)
    BY <1>2, <1>3, <2>1
  <2>3. j \in Live /\ chunks[j].start < v /\ v <= EndOf(chunks[j])
    BY <1>2, <2>1, <2>2
  <2>4. v - chunks[j].start \in 1..Len(chunks[j].changes)
        /\ chunks[j].start + (v - chunks[j].start) = v
    BY <1>3, <2>3
  <2>5. StoredHistory[chunks[j].start + (v - chunks[j].start)] = chunks[j].changes[v - chunks[j].start]
    BY <1>1, <2>3, <2>4 DEF StoredFacts
  <2>6. chunks'[j].start = chunks[j].start /\ chunks'[j].changes = chunks[j].changes
    BY <1>2, <2>2
  <2>7. StoredHistory'[chunks'[j].start + (v - chunks[j].start)] = chunks'[j].changes[v - chunks[j].start]
    BY <1>1, <2>1, <2>4, <2>6 DEF StoredFacts
  <2> QED
    BY <2>4, <2>5, <2>6, <2>7
<1>8. ASSUME NEW i \in 1..Len(x.changes) PROVE StoredHistory'[x.start + i] = x.changes[i]
  <2>1. id \in Live' /\ i \in 1..Len(chunks'[id].changes)
    BY <1>2
  <2>2. StoredHistory'[chunks'[id].start + i] = chunks'[id].changes[i]
    BY <1>1, <2>1 DEF StoredFacts
  <2> QED
    BY <1>2, <2>2
<1> QED
  BY <1>5, <1>6, <1>7, <1>8

InHistory(r) == version[r] # None /\ Agrees(History, version[r], Changes(r))

\* A worker at p, with the variables x, on its way through the buffer: what it is to
\* write to a chunk is in the history, at the version it will be written to.
FromBuffer(p, x) ==
  /\ ~x.forcing /\ p \notin {"expire", "expireAgain"}
  /\ p \in {"head", "loadHead", "queue"} =>
       version[x.task] # None /\ x.batch = Changes(x.task) /\ x.at = version[x.task]
  /\ p = "queue" /\ head = None => x.at = StoredEnd
  /\ p \in {"fetch", "noChanges", "setVersion"} => x.at <= StoredEnd
  /\ p \notin {"idle", "head", "loadHead", "queue"} /\ x.task # "job" => InHistory(x.task)
  /\ p \in {"load", "create"} => Agrees(History, x.at, x.batch)
  /\ p \in {"update", "store", "confirm"} =>
       /\ Agrees(History, x.start, x.changes)
       /\ Agrees(History, x.start + Len(x.changes), x.batch)

\* At level 0: the history as it will be when the worker is done.
Target(x) == First(History, version[x.task]) \o Changes(x.task)
\* Where a worker at p will write its first change, and all of them.
Directly(p, x) ==
  /\ p \in {"idle", "expire", "load", "update", "create", "store", "confirm"}
  /\ p # "idle" => x.task \in Requests /\ version[x.task] # None
  /\ p \notin {"idle", "expire"} => ~x.forcing
  /\ p = "load" => x.at = version[x.task] /\ x.batch = Changes(x.task)
  /\ p \in {"update", "create", "store", "confirm"} => Grown(StoredHistory, Target(x))
  /\ p = "create" => /\ Agrees(Target(x), x.at, x.batch)
                     /\ x.at + Len(x.batch) = Len(Target(x))
  /\ p \in {"update", "store", "confirm"} =>
       /\ Agrees(Target(x), x.start, x.changes)
       /\ Agrees(Target(x), x.start + Len(x.changes), x.batch)
       /\ x.start + Len(x.changes) + Len(x.batch) = Len(Target(x))

BufferedInv == /\ ~config.force
               /\ \A w \in Workers : FromBuffer(pc[w], work[w])

DirectInv ==
  /\ head = None /\ persistTime = None
  /\ \A w \in Workers : Directly(pc[w], work[w])
  /\ \A u, w \in Workers : pc[u] # "idle" /\ pc[w] # "idle" => u = w

HistoryInv ==
  /\ StructInv /\ RedisInv
  /\ \A r \in Requests : version[r] # None => version[r] <= Len(History)
  /\ \A r \in acked : InHistory(r)
  /\ IF config.level = 0 THEN DirectInv ELSE BufferedInv

\* The history stays or grows, and requests keep their versions.
Follows ==
  /\ \A r \in Requests : version[r] # None => version'[r] = version[r]
  /\ Grown(History, History') /\ StoredEnd <= StoredEnd'

LEMMA AgreesGrown ==
  ASSUME NEW S, NEW s \in Seq(S), NEW t \in Seq(S), Grown(s, t),
         NEW at \in Nat, NEW z \in Seq(S), Agrees(s, at, z)
  PROVE  Agrees(t, at, z)
<1>1. Len(s) \in Nat /\ Len(t) \in Nat /\ Len(z) \in Nat /\ at + Len(z) <= Len(t)
  BY DEF Grown, Agrees
<1>2. ASSUME NEW i \in 1..Len(z) PROVE z[i] = t[at + i]
  <2>1. at + i \in 1..Len(s)
    BY <1>1 DEF Agrees
  <2> QED
    BY <2>1 DEF Agrees, Grown
<1> QED
  BY <1>1, <1>2 DEF Agrees

LEMMA FactsHold == HistoryInv => HistoryFacts
BY HistoryIs DEF HistoryInv, StructInv

LEMMA FactsHoldNext ==
  ASSUME StructInv', RedisInv' PROVE HistoryFacts'
<1>1. Types' /\ Ordered' /\ RedisInv'
  BY DEF StructInv
<1> QED
  BY <1>1, HistoryIs, PTL

\* What is in the history stays in it.
LEMMA InHistoryStays ==
  ASSUME HistoryInv, StructInv', RedisInv', Follows, NEW r \in Requests, InHistory(r)
  PROVE  InHistory(r)'
<1>1. /\ version'[r] = version[r] /\ version[r] \in Nat /\ version[r] # None
      /\ Changes(r) \in Seq(Change)
      /\ History \in Seq(Change) /\ History' \in Seq(Change)
  BY FactsHold, FactsHoldNext, ChangesTyped
     DEF InHistory, Follows, HistoryInv, StructInv, Types, HistoryFacts
<1>2. Agrees(History', version[r], Changes(r))
  BY <1>1, AgreesGrown DEF InHistory, Follows
<1> QED
  BY <1>1, <1>2 DEF InHistory

LEMMA BufferStays ==
  ASSUME HistoryInv, StructInv', RedisInv', Follows, NEW u \in Workers,
         FromBuffer(pc'[u], work'[u]),
         pc'[u] = "queue" /\ head' = None => head = None /\ StoredEnd' = StoredEnd
  PROVE  FromBuffer(pc[u], work[u])'
<1> DEFINE p == pc'[u]
           x == work'[u]
<1>1. /\ x \in Work /\ Proper(pc[u], work[u])'
      /\ x.at \in Nat /\ x.start \in Nat /\ x.changes \in Seq(Change) /\ x.batch \in Seq(Change)
      /\ x.start + Len(x.changes) \in Nat
  <2>1. x \in Work /\ Proper(pc[u], work[u])'
    BY DEF StructInv, Types, Work
  <2> QED
    BY <2>1 DEF Work
<1>2. /\ p \in {"head", "loadHead", "queue"} => x.task \in Requests
      /\ p # "idle" => x.task \in Requests \cup {"job"}
  BY <1>1 DEF Proper
<1>3. /\ History \in Seq(Change) /\ History' \in Seq(Change) /\ Grown(History, History')
      /\ StoredEnd \in Nat /\ StoredEnd' \in Nat
  BY FactsHold, FactsHoldNext DEF HistoryFacts, Follows
<1>4. \A at \in Nat : \A z \in Seq(Change) : Agrees(History, at, z) => Agrees(History', at, z)
  BY <1>3, AgreesGrown
<1>5. \A r \in Requests : InHistory(r) => InHistory(r)'
  BY InHistoryStays
<1>6. \A r \in Requests : version[r] # None => version'[r] = version[r]
  BY DEF Follows
<1>7. p \notin {"idle", "head", "loadHead", "queue"} /\ x.task # "job" => InHistory(x.task)
  BY DEF FromBuffer
<1>8. p \notin {"idle", "head", "loadHead", "queue"} /\ x.task # "job" => InHistory(work[u].task)'
  BY <1>2, <1>5, <1>7
<1>9. p \in {"fetch", "noChanges", "setVersion"} => x.at <= StoredEnd'
  BY <1>1, <1>3 DEF FromBuffer, Follows
<1>10. p \in {"head", "loadHead", "queue"} =>
         version'[x.task] # None /\ x.batch = Changes(x.task) /\ x.at = version'[x.task]
  BY <1>2, <1>6 DEF FromBuffer
<1>11. /\ p \in {"load", "create"} => Agrees(History', x.at, x.batch)
       /\ p \in {"update", "store", "confirm"} =>
            /\ Agrees(History', x.start, x.changes)
            /\ Agrees(History', x.start + Len(x.changes), x.batch)
  BY <1>1, <1>4 DEF FromBuffer
<1>12. /\ ~x.forcing /\ p \notin {"expire", "expireAgain"}
       /\ p = "queue" /\ head' = None => x.at = StoredEnd'
  BY DEF FromBuffer
<1> QED
  BY <1>8, <1>9, <1>10, <1>11, <1>12 DEF FromBuffer

LEMMA BufferedFollows ==
  ASSUME HistoryInv, StructInv', RedisInv', Follows, config.level # 0, config' = config,
         \A u \in Workers :
            /\ FromBuffer(pc'[u], work'[u]) \/ FromBuffer(pc[u], work[u])'
            /\ pc'[u] = "queue" /\ head' = None => head = None /\ StoredEnd' = StoredEnd,
         \A r \in Requests : version'[r] # None => version[r] # None \/ version'[r] <= Len(History'),
         \A r \in acked' : r \in acked \/ InHistory(r)'
  PROVE  HistoryInv'
<1>1. \A u \in Workers : FromBuffer(pc[u], work[u])'
  BY BufferStays
<1>2. \A r \in acked' : InHistory(r)'
  <2>1. \A r \in acked : r \in Requests /\ InHistory(r)
    BY DEF HistoryInv, StructInv, Types
  <2> QED
    BY <2>1, InHistoryStays
<1>3. \A r \in Requests : version'[r] # None => version'[r] <= Len(History')
  <2> SUFFICES ASSUME NEW r \in Requests, version'[r] # None, version[r] # None
               PROVE  version'[r] <= Len(History')
    OBVIOUS
  <2>1. version'[r] = version[r] /\ version[r] <= Len(History) /\ version[r] \in Nat
    BY DEF Follows, HistoryInv, StructInv, Types
  <2>2. Len(History) <= Len(History') /\ Len(History) \in Nat /\ Len(History') \in Nat
    BY FactsHold, FactsHoldNext DEF Follows, Grown, HistoryFacts
  <2> QED
    BY <2>1, <2>2
<1>4. BufferedInv'
  BY <1>1 DEF BufferedInv, HistoryInv
<1> QED
  BY <1>2, <1>3, <1>4 DEF HistoryInv

\* What a step is in the log that history-v1 implements.
LogStep == [Abstract!Next]_<<History, version>>

\* A step that leaves the history as it is.
HistoryStill ==
  /\ History' = History /\ StoredEnd' = StoredEnd /\ RedisInv'
  /\ config' = config /\ version' = version
  /\ head' = None => head = None

LEMMA StillFollows == ASSUME HistoryInv, HistoryStill PROVE Follows /\ LogStep
<1>1. History \in Seq(Change) /\ StoredEnd \in Nat
  BY FactsHold DEF HistoryFacts
<1>2. Grown(History, History')
  BY <1>1 DEF HistoryStill, Grown
<1> QED
  BY <1>1, <1>2 DEF HistoryStill, Follows, LogStep

LEMMA BufferedStill ==
  ASSUME HistoryInv, StructInv', HistoryStill, config.level # 0,
         NEW w \in Workers, NEW p \in PCs, NEW x \in Work,
         pc' = [pc EXCEPT ![w] = p], work' = [work EXCEPT ![w] = x], FromBuffer(p, x),
         \A r \in acked' : r \in acked \/ (r \in Requests /\ InHistory(r))
  PROVE  HistoryInv' /\ LogStep
<1>1. pc \in [Workers -> PCs] /\ work \in [Workers -> Work]
  BY DEF HistoryInv, StructInv, Types, Work
<1>2. ASSUME NEW u \in Workers
      PROVE  /\ FromBuffer(pc'[u], work'[u])
             /\ pc'[u] = "queue" /\ head' = None => head = None /\ StoredEnd' = StoredEnd
  <2>1. CASE u = w
    BY <1>1, <2>1 DEF HistoryStill
  <2>2. CASE u # w
    <3>1. pc'[u] = pc[u] /\ work'[u] = work[u] /\ FromBuffer(pc[u], work[u])
      BY <1>1, <2>2 DEF HistoryInv, BufferedInv
    <3> QED
      BY <3>1 DEF HistoryStill
  <2> QED
    BY <2>1, <2>2
<1>3. \A r \in acked' : r \in acked \/ InHistory(r)'
  BY StillFollows, InHistoryStays DEF HistoryStill
<1>4. \A r \in Requests : version'[r] # None => version[r] # None
  BY DEF HistoryStill
<1>5. RedisInv' /\ config' = config
  BY DEF HistoryStill
<1> QED
  BY <1>2, <1>3, <1>4, <1>5, StillFollows, BufferedFollows

\* The steps that leave chunks and Redis alone, or only records nobody reads.
LEMMA ChunksStay ==
  ASSUME chunks' = chunks PROVE StoredEnd' = StoredEnd /\ StoredHistory' = StoredHistory
BY DEF StoredEnd, StoredHistory, Latest, Live

LEMMA RedisStays ==
  ASSUME HistoryInv, StoredEnd' = StoredEnd, StoredHistory' = StoredHistory,
         config' = config, version' = version,
         head' = head, persisted' = persisted, buffer' = buffer
  PROVE  HistoryStill
<1>1. Unpersisted(StoredEnd, 0)' = Unpersisted(StoredEnd, 0)
  BY DEF Unpersisted, OutOfBounds, BufferStart
<1>2. History' = History
  BY <1>1 DEF History
<1>3. RedisInv'
  BY DEF HistoryInv, RedisInv
<1> QED
  BY <1>2, <1>3 DEF HistoryStill

LEMMA SetsStill ==
  ASSUME HistoryInv, StructInv', NEW v \in Nat, head # None, v <= StoredEnd,
         SetPersisted(v), UNCHANGED <<config, chunks, version>>
  PROVE  HistoryStill
<1> DEFINE n == head - v + MaxPersisted
<1>1. /\ head \in Nat /\ buffer \in Seq(Change) /\ Len(buffer) \in Nat
      /\ Len(buffer) <= head /\ head - Len(buffer) <= StoredEnd /\ StoredEnd <= head
      /\ \A i \in head - Len(buffer) + 1 .. StoredEnd :
            buffer[i - (head - Len(buffer))] = StoredHistory[i]
  <2>1. head \in Nat /\ buffer \in Seq(Change) /\ Len(buffer) \in Nat
    BY DEF HistoryInv, StructInv, Types
  <2>2. RedisInv
    BY DEF HistoryInv
  <2> QED
    BY <2>1, <2>2 DEF RedisInv
<1>2. HistoryFacts /\ StoredEnd' = StoredEnd /\ StoredHistory' = StoredHistory
  BY FactsHold, ChunksStay
<1>3. n \in Nat /\ MaxPersisted \in Nat /\ StoredEnd \in Nat
  BY <1>1, <1>2, BoundsAssumption DEF HistoryFacts
<1>4. head' = head /\ persisted' = v /\ buffer' = LastOf(buffer, n)
  BY DEF SetPersisted
<1>5. /\ buffer' \in Seq(Change) /\ Len(buffer') = Lesser(n, Len(buffer)) /\ Len(buffer') \in Nat
      /\ \A i \in 1..Len(buffer') : buffer'[i] = buffer[Len(buffer) - Len(buffer') + i]
  <2>1. buffer' \in Seq(Change) /\ Len(buffer') = Lesser(n, Len(buffer))
        /\ \A i \in 1..Len(buffer') : buffer'[i] = buffer[Len(buffer) - Len(buffer') + i]
    <3>1. n \in Nat /\ buffer \in Seq(Change) /\ buffer' = LastOf(buffer, n)
      BY <1>1, <1>3, <1>4
    <3> HIDE DEF n
    <3> QED
      BY <3>1, TailOfBuffer, Zenon
  <2> QED
    BY <2>1
<1>6. Len(buffer') <= Len(buffer) /\ head - Len(buffer') <= StoredEnd
  BY <1>1, <1>3, <1>5 DEF Lesser
<1>7. ASSUME NEW i \in head - Len(buffer') + 1 .. head
      PROVE  /\ i \in head - Len(buffer) + 1 .. head
             /\ buffer'[i - (head - Len(buffer'))] = buffer[i - (head - Len(buffer))]
  <2>1. /\ i - (head - Len(buffer')) \in 1..Len(buffer') /\ i \in head - Len(buffer) + 1 .. head
        /\ Len(buffer) - Len(buffer') + (i - (head - Len(buffer'))) = i - (head - Len(buffer))
    BY <1>1, <1>5, <1>6
  <2>2. buffer'[i - (head - Len(buffer'))]
          = buffer[Len(buffer) - Len(buffer') + (i - (head - Len(buffer')))]
    BY <1>5, <2>1
  <2> QED
    BY <2>1, <2>2
<1>8. RedisInv'
  <2>1. ASSUME NEW i \in head - Len(buffer') + 1 .. StoredEnd
        PROVE  buffer'[i - (head - Len(buffer'))] = StoredHistory'[i]
    <3>1. i \in head - Len(buffer') + 1 .. head
      BY <1>1, <1>3, <1>5
    <3>2. i \in head - Len(buffer) + 1 .. StoredEnd
      BY <1>1, <1>3, <1>5, <1>6
    <3> QED
      BY <1>1, <1>2, <1>7, <3>1, <3>2
  <2>2. Len(buffer') <= head
    BY <1>1, <1>5, <1>6
  <2>3. head' # None
    BY <1>4
  <2> QED
    BY <1>1, <1>2, <1>4, <1>6, <2>1, <2>2, <2>3 DEF RedisInv
<1>9. HistoryFacts'
  BY <1>8, FactsHoldNext
<1>10. History' = History
  <2>1. /\ History \in Seq(Change) /\ History' \in Seq(Change)
        /\ Len(History) = head /\ Len(History') = head
    BY <1>2, <1>4, <1>9 DEF HistoryFacts
  <2>2. ASSUME NEW i \in 1..head PROVE History[i] = History'[i]
    <3>1. CASE i <= StoredEnd
      <4>1. i \in 1..StoredEnd
        BY <1>1, <1>3, <3>1
      <4>2. History[i] = StoredHistory[i] /\ History'[i] = StoredHistory'[i]
        BY <1>2, <1>9, <4>1 DEF HistoryFacts
      <4> QED
        BY <1>2, <4>2
    <3>2. CASE i > StoredEnd
      <4>1. i \in head - Len(buffer') + 1 .. head
        BY <1>1, <1>3, <1>5, <1>6, <3>2
      <4>2. History'[i] = buffer'[i - (head - Len(buffer'))]
        BY <1>4, <1>9, <4>1 DEF HistoryFacts
      <4>3. History[i] = buffer[i - (head - Len(buffer))]
        BY <1>2, <1>7, <4>1 DEF HistoryFacts
      <4> QED
        BY <1>7, <4>1, <4>2, <4>3
    <3> QED
      BY <1>1, <1>3, <3>1, <3>2
  <2> QED
    BY <2>1, <2>2, SameSeq
<1> QED
  BY <1>2, <1>4, <1>8, <1>10 DEF HistoryStill

\* A buffer that is persisted can be dropped.
LEMMA DropSame ==
  ASSUME HistoryInv, StructInv', Clean, Drop, chunks' = chunks
  PROVE  History' = History /\ StoredEnd' = StoredEnd /\ RedisInv'
<1>1. HistoryFacts /\ StoredEnd' = StoredEnd /\ StoredHistory' = StoredHistory
  BY FactsHold, ChunksStay
<1>2. head' = None /\ persisted' = None /\ buffer' = <<>>
  BY DEF Drop
<1>3. RedisInv'
  BY <1>2 DEF RedisInv
<1>4. HistoryFacts'
  BY <1>3, FactsHoldNext
<1>5. head \in Nat /\ head # None /\ head = StoredEnd
  BY <1>1 DEF Clean, HistoryInv, RedisInv, StructInv, Types, HistoryFacts
<1>6. /\ History \in Seq(Change) /\ History' \in Seq(Change)
      /\ Len(History) = StoredEnd /\ Len(History') = StoredEnd
  BY <1>1, <1>2, <1>4, <1>5 DEF HistoryFacts
<1>7. \A i \in 1..StoredEnd : History[i] = History'[i]
  BY <1>1, <1>4 DEF HistoryFacts
<1>8. History' = History
  BY <1>6, <1>7, SameSeq
<1> QED
  BY <1>1, <1>3, <1>8

\* A history that grows by changes of one request, after the version it is for, is a
\* step of the log.
LEMMA LogGrows ==
  ASSUME HistoryFacts, HistoryFacts', Grown(History, History'), version' = version,
         NEW r \in Requests, version[r] \in Nat, version[r] <= Len(History),
         NEW T \in Seq(Change), Grown(History', T), Len(T) = version[r] + Size[r],
         \A i \in 1..Size[r] : T[version[r] + i] = <<r, i>>
  PROVE  LogStep
<1>1. /\ History \in Seq(Change) /\ History' \in Seq(Change)
      /\ Len(History) \in Nat /\ Len(History') \in Nat /\ Size[r] \in Nat
      /\ Len(History) <= Len(History') /\ Len(History') <= Len(T)
      /\ None \notin Nat
  BY InputAssumption DEF HistoryFacts, Grown
<1>2. CASE Len(History') = Len(History)
  <2>1. History' = History
    BY <1>1, <1>2, SameSeq DEF Grown
  <2> QED
    BY <2>1 DEF LogStep
<1>3. CASE Len(History') > Len(History)
  <2>1. SubSeq(History', 1, Len(History)) = History
    <3> DEFINE s == SubSeq(History', 1, Len(History))
    <3>1. First(History', Len(History)) \in Seq(Change)
          /\ Len(First(History', Len(History))) = Len(History)
          /\ \A i \in 1..Len(History) : First(History', Len(History))[i] = History'[i]
      BY <1>1, CutTyped, ZenonT(40)
    <3>2. s \in Seq(Change) /\ Len(s) = Len(History) /\ \A i \in 1..Len(s) : s[i] = History[i]
      BY <3>1 DEF First, Grown
    <3> HIDE DEF s
    <3>3. s = History
      BY <1>1, <3>2, SameSeq
    <3> QED
      BY <3>3 DEF s
  <2>2. ASSUME NEW i \in Len(History)+1 .. Len(History')
        PROVE  Abstract!Fits(History'[i], i)
    <3>1. /\ i - version[r] \in 1..Size[r] /\ version[r] + (i - version[r]) = i
          /\ i \in 1..Len(History')
      BY <1>1
    <3>2. History'[i] = T[i] /\ T[version[r] + (i - version[r])] = <<r, i - version[r]>>
      BY <3>1 DEF Grown
    <3>3. History'[i] = <<r, i - version[r]>>
      BY <3>1, <3>2
    <3> QED
      BY <1>1, <3>1, <3>3 DEF Abstract!Fits
  <2> QED
    BY <1>3, <2>1, <2>2 DEF LogStep, Abstract!Next, Abstract!Commit
<1> QED
  BY <1>1, <1>2, <1>3

\* Changes are appended to the buffer at the version the history has reached.
LEMMA BufferAppends ==
  ASSUME HistoryInv, StructInv', chunks' = chunks, NEW v \in Nat, NEW s \in Seq(Change),
         head = None => v = StoredEnd, head # None => head = v,
         buffer' = buffer \o s, head' = v + Len(s), persisted' = persisted
  PROVE  /\ RedisInv' /\ StoredEnd' = StoredEnd /\ head' # None
         /\ Len(History) = v /\ Len(History') = v + Len(s)
         /\ Grown(History, History') /\ Agrees(History', v, s)
<1>1. /\ HistoryFacts /\ StoredEnd' = StoredEnd /\ StoredHistory' = StoredHistory
      /\ StoredEnd \in Nat /\ buffer \in Seq(Change) /\ Len(buffer) \in Nat
      /\ head \in Nat \cup {None} /\ persisted \in Nat \cup {None} /\ None \notin Nat
  <2>1. HistoryFacts /\ StoredEnd' = StoredEnd /\ StoredHistory' = StoredHistory
    BY FactsHold, ChunksStay
  <2> QED
    BY <2>1, InputAssumption DEF HistoryFacts, Types, HistoryInv, StructInv
<1> PICK size \in Nat : size = Len(s)
  OBVIOUS
<1> PICK first \in Int : first = v - Len(buffer)
  BY <1>1, SMTT(30)
<1>2. /\ buffer' \in Seq(Change) /\ Len(buffer') = Len(buffer) + size
      /\ \A i \in 1..Len(buffer) : buffer'[i] = buffer[i]
      /\ \A i \in 1..size : buffer'[Len(buffer) + i] = s[i]
  <2>1. \A a, b \in Seq(Change) :
             /\ a \o b \in Seq(Change) /\ Len(a \o b) = Len(a) + Len(b)
             /\ \A i \in 1..Len(a) : (a \o b)[i] = a[i]
             /\ \A i \in 1..Len(b) : (a \o b)[Len(a) + i] = b[i]
    BY ConcatTyped
  <2> QED
    BY <1>1, <2>1
<1>3. /\ Len(History) = v /\ StoredEnd <= v /\ first <= StoredEnd /\ Len(buffer) <= v
      /\ head = None => buffer = <<>> /\ persisted = None
  <2>1. CASE head = None
    <3>1. buffer = <<>> /\ Len(buffer) = 0 /\ persisted = None
      BY <2>1 DEF HistoryInv, RedisInv
    <3>2. Len(History) = StoredEnd /\ StoredEnd = v
      BY <1>1, <2>1 DEF HistoryFacts
    <3> QED
      BY <1>1, <2>1, <3>1, <3>2
  <2>2. CASE head # None
    <3>1. Len(buffer) <= head /\ head - Len(buffer) <= StoredEnd /\ StoredEnd <= head
      BY <2>2 DEF HistoryInv, RedisInv
    <3>2. Len(History) = head /\ head = v
      BY <1>1, <2>2 DEF HistoryFacts
    <3> QED
      BY <1>1, <2>2, <3>1, <3>2
  <2> QED
    BY <2>1, <2>2
<1>4. /\ head' = v + size /\ head' \in Nat /\ head' # None
      /\ head' - Len(buffer') = first /\ Len(buffer') <= head' /\ StoredEnd <= head'
  BY <1>1, <1>2, <1>3
<1>5. ASSUME NEW i \in first + 1 .. v
      PROVE  buffer'[i - first] = buffer[i - first] /\ History[i] = buffer[i - first]
  <2>1. i - first \in 1..Len(buffer)
    BY <1>1
  <2>2. head # None
    <3>1. Len(buffer) # 0
      BY <1>1, <2>1
    <3> QED
      BY <1>3, <3>1
  <2>3. head - Len(buffer) = first /\ i \in head - Len(buffer) + 1 .. head
    BY <2>2
  <2>4. History[i] = buffer[i - (head - Len(buffer))]
    BY <1>1, <2>2, <2>3 DEF HistoryFacts
  <2> QED
    BY <1>2, <2>1, <2>3, <2>4
<1>6. RedisInv'
  <2>1. ASSUME NEW i \in first + 1 .. StoredEnd PROVE buffer'[i - first] = StoredHistory'[i]
    <3>1. i \in first + 1 .. v
      BY <1>1, <1>3
    <3>2. i \in 1..StoredEnd
      BY <1>1, <1>3
    <3>3. History[i] = StoredHistory[i]
      BY <1>1, <3>2 DEF HistoryFacts
    <3>4. buffer'[i - first] = History[i]
      BY <1>5, <3>1
    <3> QED
      BY <1>1, <3>3, <3>4
  <2>2. persisted' # None => persisted' <= StoredEnd'
    BY <1>1, <1>3 DEF HistoryInv, RedisInv
  <2> QED
    BY <1>1, <1>3, <1>4, <2>1, <2>2 DEF RedisInv
<1>7. HistoryFacts' /\ Len(History') = v + size
  <2>1. HistoryFacts'
    BY <1>6, FactsHoldNext
  <2> QED
    BY <1>4, <2>1 DEF HistoryFacts
<1>8. \A i \in first + 1 .. v + size : History'[i] = buffer'[i - first]
  BY <1>4, <1>7 DEF HistoryFacts
<1>9. ASSUME NEW i \in 1..v PROVE History'[i] = History[i]
  <2>1. CASE i <= StoredEnd
    <3>1. i \in 1..StoredEnd
      BY <1>1, <2>1
    <3>2. History[i] = StoredHistory[i] /\ History'[i] = StoredHistory'[i]
      BY <1>1, <1>7, <3>1 DEF HistoryFacts
    <3> QED
      BY <1>1, <3>2
  <2>2. CASE i > StoredEnd
    <3>1. i \in first + 1 .. v /\ i \in first + 1 .. v + size
      BY <1>1, <1>3, <1>4, <2>2
    <3>2. History'[i] = buffer'[i - first] /\ buffer'[i - first] = buffer[i - first]
      BY <1>5, <1>8, <3>1
    <3>3. History[i] = buffer[i - first]
      BY <1>5, <3>1
    <3> QED
      BY <3>2, <3>3
  <2> QED
    BY <1>1, <2>1, <2>2
<1>10. Grown(History, History')
  BY <1>3, <1>7, <1>9 DEF Grown
<1>11. ASSUME NEW i \in 1..size PROVE s[i] = History'[v + i]
  <2>1. v + i \in first + 1 .. v + size /\ v + i - first = Len(buffer) + i
    <3>1. Len(buffer) \in Nat
      BY <1>1
    <3>2. v + i - first = Len(buffer) + i
      BY <3>1
    <3>3. v + i \in first + 1 .. v + size
      BY <3>1
    <3> QED
      BY <3>1, <3>2, <3>3
  <2>2. History'[v + i] = buffer'[v + i - first]
    <3> PICK j \in first + 1 .. v + size : j = v + i
      BY <2>1
    <3>1. History'[j] = buffer'[j - first]
      BY <1>8
    <3> QED
      BY <3>1, SMTT(30)
  <2>3. buffer'[Len(buffer) + i] = s[i]
    BY <1>2
  <2> QED
    BY <2>1, <2>2, <2>3
<1>12. Agrees(History', v, s)
  BY <1>7, <1>11 DEF Agrees
<1> QED
  BY <1>1, <1>3, <1>4, <1>6, <1>7, <1>10, <1>12

\* queue_changes.
LEMMA QueueKeeps ==
  ASSUME HistoryInv, StructInv', config.level # 0, NEW w \in Workers, Queue(w)
  PROVE  HistoryInv' /\ LogStep
<1>1. /\ Types /\ pc[w] = "queue" /\ work[w] \in Work /\ Proper(pc[w], work[w])
      /\ FromBuffer(pc[w], work[w]) /\ ~config.force
      /\ pc \in [Workers -> PCs] /\ work \in [Workers -> Work]
      /\ config' = config /\ chunks' = chunks /\ acked \subseteq Requests
      /\ HistoryFacts
  BY FactsHold DEF HistoryInv, BufferedInv, StructInv, Types, Work, Queue
<1>2. PICK r \in Requests, v \in Nat :
         /\ r = work[w].task /\ v = work[w].at /\ v = version[r] /\ version[r] # None
         /\ work[w].batch = Changes(r) /\ ~work[w].forcing
         /\ head = None => v = StoredEnd
  BY <1>1 DEF Proper, FromBuffer, Work
<1>3. /\ Changes(r) \in Seq(Change) /\ Len(Changes(r)) = Size[r] /\ Size[r] \in Nat
      /\ \A i \in 1..Size[r] : Changes(r)[i] = <<r, i>>
  BY ChangesTyped
<1>4. CASE ~MayQueue(v)
  <2>1. /\ pc' = [pc EXCEPT ![w] = "idle"] /\ work' = [work EXCEPT ![w] = NoWork]
        /\ UNCHANGED redis /\ acked' = acked /\ version' = version
    BY <1>2, <1>4 DEF Queue, Throw, Stop, Goto, clients
  <2>2. HistoryStill
    BY <1>1, <2>1, ChunksStay, RedisStays DEF redis
  <2>3. FromBuffer("idle", NoWork) /\ "idle" \in PCs
    BY NoWorkTyped DEF FromBuffer, PCs
  <2>4. \A q \in acked' : q \in acked
    BY <2>1
  <2>5. NoWork \in Work
    BY NoWorkTyped
  <2> QED
    BY <2>1, <2>2, <2>3, <2>4, <2>5, BufferedStill
<1>5. CASE MayQueue(v)
  <2>1. /\ buffer' = buffer \o Changes(r) /\ head' = v + Len(Changes(r))
        /\ persisted' = persisted /\ version' = version
        /\ \/ Answer(w)
           \/ Goto(w, "metadata") /\ UNCHANGED <<work, acked>>
    BY <1>2, <1>5 DEF Queue, Answer, clients
  <2>2. /\ RedisInv' /\ StoredEnd' = StoredEnd /\ head' # None
        /\ Len(History) = v /\ Len(History') = v + Len(Changes(r))
        /\ Grown(History, History') /\ Agrees(History', v, Changes(r))
    BY <1>1, <1>2, <1>3, <1>5, <2>1, BufferAppends DEF MayQueue
  <2>3. HistoryFacts'
    BY <2>2, FactsHoldNext
  <2>4. InHistory(r)'
    BY <1>2, <2>1, <2>2 DEF InHistory
  <2>5. Follows
    <3>1. StoredEnd \in Nat
      BY <1>1 DEF HistoryFacts
    <3> QED
      BY <2>1, <2>2, <3>1 DEF Follows
  <2>6. ASSUME NEW u \in Workers
        PROVE  FromBuffer(pc'[u], work'[u]) \/ FromBuffer(pc[u], work[u])'
    <3>1. CASE u = w
      <4>1. CASE Answer(w)
        <5>1. pc'[w] = "idle" /\ work'[w] = NoWork
          BY <1>1, <4>1 DEF Answer, Stop, Goto
        <5> QED
          BY <3>1, <5>1, NoWorkTyped DEF FromBuffer
      <4>2. CASE Goto(w, "metadata") /\ UNCHANGED work
        <5>1. pc'[w] = "metadata" /\ work'[w] = work[w]
          BY <1>1, <4>2 DEF Goto
        <5> QED
          BY <1>2, <2>4, <3>1, <5>1 DEF FromBuffer
      <4> QED
        BY <2>1, <4>1, <4>2
    <3>2. CASE u # w
      <4>1. pc'[u] = pc[u] /\ work'[u] = work[u]
        BY <1>1, <2>1, <3>2 DEF Answer, Stop, Goto
      <4> QED
        BY <1>1, <4>1 DEF HistoryInv, BufferedInv
    <3> QED
      BY <3>1, <3>2
  <2>7. \A q \in acked' : q \in acked \/ InHistory(q)'
    BY <1>2, <2>1, <2>4 DEF Answer
  <2>8. HistoryInv'
    BY <1>1, <2>1, <2>2, <2>5, <2>6, <2>7, BufferedFollows
  <2>9. LogStep
    <3>1. Grown(History', History') /\ History' \in Seq(Change)
      BY <2>3 DEF Grown, HistoryFacts
    <3>2. Len(History') = version[r] + Size[r] /\ version[r] \in Nat /\ version[r] <= Len(History)
      BY <1>2, <1>3, <2>2
    <3>3. \A i \in 1..Size[r] : History'[version[r] + i] = <<r, i>>
      BY <1>2, <1>3, <2>2 DEF Agrees
    <3> QED
      BY <1>1, <2>1, <2>2, <2>3, <3>1, <3>2, <3>3, LogGrows
  <2> QED
    BY <2>8, <2>9
<1> QED
  BY <1>4, <1>5

\* Workers that stop, and workers that go on with what they have.
LEMMA BufferedStops ==
  ASSUME HistoryInv, StructInv', HistoryStill, config.level # 0, NEW w \in Workers, Stop(w),
         \A r \in acked' : r \in acked \/ (r \in Requests /\ InHistory(r))
  PROVE  HistoryInv' /\ LogStep
<1>1. pc' = [pc EXCEPT ![w] = "idle"] /\ work' = [work EXCEPT ![w] = NoWork]
  BY DEF Stop, Goto
<1>2. FromBuffer("idle", NoWork) /\ "idle" \in PCs /\ NoWork \in Work
  BY NoWorkTyped DEF FromBuffer, PCs
<1> QED
  BY <1>1, <1>2, BufferedStill

LEMMA BufferedThrows ==
  ASSUME HistoryInv, StructInv', HistoryStill, config.level # 0, NEW w \in Workers, Throw(w)
  PROVE  HistoryInv' /\ LogStep
<1>1. ~work[w].forcing
  BY DEF HistoryInv, BufferedInv, FromBuffer
<1> QED
  BY <1>1, BufferedStops DEF Throw, clients

LEMMA BufferedMoves ==
  ASSUME HistoryInv, StructInv', HistoryStill, config.level # 0, NEW w \in Workers,
         NEW p \in PCs, Goto(w, p), work' = work, acked' = acked, FromBuffer(p, work[w])
  PROVE  HistoryInv' /\ LogStep
<1>1. work[w] \in Work /\ work' = [work EXCEPT ![w] = work[w]]
  BY DEF HistoryInv, StructInv, Types, Work
<1> QED
  BY <1>1, BufferedStill DEF Goto

LEMMA BufferedReturns ==
  ASSUME HistoryInv, StructInv', HistoryStill, config.level # 0, NEW w \in Workers,
         pc[w] \in {"fetch", "noChanges", "setVersion"}, Return(w)
  PROVE  HistoryInv' /\ LogStep
<1>1. FromBuffer(pc[w], work[w]) /\ Proper(pc[w], work[w])
  BY DEF HistoryInv, StructInv, BufferedInv
<1>2. CASE work[w].task = "job"
  <2> DEFINE x == [NoWork EXCEPT !.task = "job"]
  <2>1. pc' = [pc EXCEPT ![w] = "close"] /\ work' = [work EXCEPT ![w] = x] /\ acked' = acked
    BY <1>2 DEF Return, Goto, clients
  <2>2. x \in Work /\ x.task = "job" /\ ~x.forcing
    BY NoWorkTyped DEF Work
  <2> HIDE DEF x
  <2>3. FromBuffer("close", x) /\ "close" \in PCs
    BY <2>2 DEF FromBuffer, PCs
  <2> QED
    BY <2>1, <2>2, <2>3, BufferedStill
<1>3. CASE work[w].task # "job"
  <2>1. ~work[w].forcing /\ InHistory(work[w].task) /\ work[w].task \in Requests
    BY <1>1, <1>3 DEF FromBuffer, Proper
  <2>2. Stop(w) /\ acked' = acked \cup {work[w].task}
    BY <1>3, <2>1 DEF Return, Answer
  <2>3. \A r \in acked' : r \in acked \/ (r \in Requests /\ InHistory(r))
    BY <2>1, <2>2
  <2> QED
    BY <2>2, <2>3, BufferedStops
<1> QED
  BY <1>2, <1>3

LEMMA BufferedRequests ==
  ASSUME HistoryInv, StructInv', config.level # 0, NEW w \in Workers,
         \/ \E r \in Requests : Send(w, r)
         \/ ForceExpire(w) \/ ReadHead(w) \/ LoadHead(w)
         \/ Claim(w) \/ ReadMetadata(w) \/ CloseJob(w) \/ Crash(w) \/ CallFails(w)
  PROVE  HistoryInv' /\ LogStep
<1> USE DEF redis, clients
<1>1. /\ Types /\ work[w] \in Work /\ Proper(pc[w], work[w]) /\ FromBuffer(pc[w], work[w])
      /\ ~config.force /\ StoredEnd \in Nat
  BY FactsHold DEF HistoryInv, BufferedInv, StructInv, Types, Work, HistoryFacts
<1>2. /\ chunks' = chunks /\ config' = config /\ version' = version
      /\ head' = head /\ persisted' = persisted /\ buffer' = buffer
      => HistoryStill
  BY ChunksStay, RedisStays
<1>3. ASSUME NEW r \in Requests, Send(w, r) PROVE HistoryInv' /\ LogStep
  <2> DEFINE x == [NoWork EXCEPT !.task = r, !.at = version[r], !.batch = Changes(r)]
  <2>1. /\ pc' = [pc EXCEPT ![w] = "head"] /\ work' = [work EXCEPT ![w] = x]
        /\ version[r] # None
        /\ UNCHANGED <<config, chunks, redis, clients>>
    BY <1>1, <1>3 DEF Send, ToCommit, Goto
  <2>2. version[r] \in Nat /\ Changes(r) \in Seq(Change)
    BY <1>1, <2>1, ChangesTyped DEF Types
  <2>3. /\ x \in Work /\ x.task = r /\ ~x.forcing /\ x.at = version[r] /\ x.batch = Changes(r)
    BY <2>2, NoWorkTyped DEF Work
  <2> HIDE DEF x
  <2>4. FromBuffer("head", x) /\ "head" \in PCs
    BY <2>1, <2>3 DEF FromBuffer, PCs
  <2>5. \A q \in acked' : q \in acked
    BY <2>1
  <2> QED
    BY <1>2, <2>1, <2>3, <2>4, <2>5, BufferedStill
<1>4. CASE ForceExpire(w)
  BY <1>1, <1>4 DEF ForceExpire, FromBuffer
<1>5. CASE ReadHead(w)
  <2>1. pc[w] = "head" /\ UNCHANGED <<config, chunks, redis>>
    BY <1>5 DEF ReadHead
  <2>2. CASE Goto(w, "loadHead") /\ UNCHANGED <<work, clients>>
    <3>1. FromBuffer("loadHead", work[w]) /\ "loadHead" \in PCs
      BY <1>1, <2>1 DEF FromBuffer, PCs
    <3> QED
      BY <1>2, <2>1, <2>2, <3>1, BufferedMoves
  <2>3. CASE head # None /\ Goto(w, "queue") /\ UNCHANGED <<work, clients>>
    <3>1. FromBuffer("queue", work[w]) /\ "queue" \in PCs
      BY <1>1, <2>1, <2>3 DEF FromBuffer, PCs
    <3> QED
      BY <1>2, <2>1, <2>3, <3>1, BufferedMoves
  <2>4. CASE Throw(w)
    BY <1>2, <2>1, <2>4, BufferedThrows DEF Throw
  <2> QED
    BY <1>5, <2>2, <2>3, <2>4 DEF ReadHead
<1>6. CASE LoadHead(w)
  <2>1. pc[w] = "loadHead" /\ UNCHANGED <<config, chunks, redis>>
    BY <1>6 DEF LoadHead
  <2>2. CASE StoredEnd = work[w].at /\ Goto(w, "queue") /\ UNCHANGED <<work, clients>>
    <3>1. FromBuffer("queue", work[w]) /\ "queue" \in PCs
      BY <1>1, <2>1, <2>2 DEF FromBuffer, PCs
    <3> QED
      BY <1>2, <2>1, <2>2, <3>1, BufferedMoves
  <2>3. CASE Throw(w)
    BY <1>2, <2>1, <2>3, BufferedThrows DEF Throw
  <2> QED
    BY <1>6, <2>2, <2>3 DEF LoadHead
<1>7. CASE Claim(w)
  <2> DEFINE x == [work[w] EXCEPT !.task = "job"]
  <2>1. /\ pc' = [pc EXCEPT ![w] = "metadata"] /\ work' = [work EXCEPT ![w] = x]
        /\ UNCHANGED <<config, chunks, head, persisted, buffer, clients>>
    BY <1>7 DEF Claim, Goto
  <2>2. x \in Work /\ x.task = "job" /\ ~x.forcing
    BY <1>1 DEF Work, FromBuffer
  <2> HIDE DEF x
  <2>3. FromBuffer("metadata", x) /\ "metadata" \in PCs
    BY <2>2 DEF FromBuffer, PCs
  <2>4. \A q \in acked' : q \in acked
    BY <2>1
  <2> QED
    BY <1>2, <2>1, <2>2, <2>3, <2>4, BufferedStill
<1>8. CASE ReadMetadata(w)
  <2> DEFINE x == [work[w] EXCEPT !.at = StoredEnd, !.any = FALSE]
  <2>1. /\ pc[w] = "metadata"
        /\ pc' = [pc EXCEPT ![w] = "fetch"] /\ work' = [work EXCEPT ![w] = x]
        /\ UNCHANGED <<config, chunks, redis, clients>>
    BY <1>8 DEF ReadMetadata, Goto
  <2>2. x \in Work /\ x.task = work[w].task /\ x.forcing = work[w].forcing /\ x.at = StoredEnd
    BY <1>1 DEF Work
  <2> HIDE DEF x
  <2>3. FromBuffer("fetch", x) /\ "fetch" \in PCs
    BY <1>1, <2>1, <2>2 DEF FromBuffer, PCs
  <2>4. \A q \in acked' : q \in acked
    BY <2>1
  <2> QED
    BY <1>2, <2>1, <2>2, <2>3, <2>4, BufferedStill
<1>9. CASE CloseJob(w)
  BY <1>2, <1>9, BufferedStops DEF CloseJob
<1>10. CASE Crash(w)
  BY <1>2, <1>10, BufferedStops DEF Crash
<1>11. CASE CallFails(w)
  <2>1. HistoryStill /\ Throw(w)
    BY <1>11, ChunksStay, RedisStays DEF CallFails, Throw, HistoryStill
  <2> QED
    BY <2>1, BufferedThrows
<1> QED
  BY <1>3, <1>4, <1>5, <1>6, <1>7, <1>8, <1>9, <1>10, <1>11

LEMMA AgreesSplits ==
  ASSUME NEW S, NEW T \in Seq(S), NEW s \in Seq(S), NEW at \in Nat, Agrees(T, at, s),
         NEW n \in Nat, n <= Len(s)
  PROVE  Agrees(T, at, First(s, n)) /\ Agrees(T, at + n, Rest(s, n))
<1> PICK l \in Nat : l = Len(s)
  OBVIOUS
<1>1. /\ Len(First(s, n)) = n /\ Len(Rest(s, n)) = l - n
      /\ \A i \in 1..n : First(s, n)[i] = s[i]
      /\ \A i \in 1..l - n : Rest(s, n)[i] = s[n + i]
  BY CutTyped
<1>2. at + l <= Len(T) /\ \A i \in 1..l : s[i] = T[at + i]
  BY DEF Agrees
<1>3. Len(T) \in Nat
  OBVIOUS
<1>4. \A i \in 1..n : First(s, n)[i] = T[at + i]
  BY <1>1, <1>2
<1>5. ASSUME NEW i \in 1..l - n PROVE Rest(s, n)[i] = T[at + n + i]
  <2> PICK j \in 1..l : j = n + i
    OBVIOUS
  <2>1. s[j] = T[at + j] /\ at + j = at + n + i
    BY <1>2
  <2>2. Rest(s, n)[i] = s[j]
    BY <1>1
  <2> QED
    BY <2>1, <2>2
<1>6. at + n <= Len(T) /\ at + n + (l - n) <= Len(T)
  BY <1>2, <1>3
<1> QED
  BY <1>1, <1>4, <1>5, <1>6 DEF Agrees

LEMMA AgreesJoins ==
  ASSUME NEW S, NEW T \in Seq(S), NEW s \in Seq(S), NEW t \in Seq(S), NEW at \in Nat,
         Agrees(T, at, s), Agrees(T, at + Len(s), t)
  PROVE  Agrees(T, at, s \o t)
<1> PICK l \in Nat : l = Len(s)
  OBVIOUS
<1> PICK m \in Nat : m = Len(t)
  OBVIOUS
<1>1. /\ Len(s \o t) = l + m
      /\ \A i \in 1..l : (s \o t)[i] = s[i]
      /\ \A i \in 1..m : (s \o t)[l + i] = t[i]
  BY ConcatTyped
<1>2. /\ \A i \in 1..l : s[i] = T[at + i]
      /\ at + l + m <= Len(T) /\ \A i \in 1..m : t[i] = T[at + l + i]
  BY DEF Agrees
<1>3. ASSUME NEW i \in 1..l + m PROVE (s \o t)[i] = T[at + i]
  <2>1. CASE i <= l
    BY <1>1, <1>2, <2>1
  <2>2. CASE i > l
    <3> PICK j \in 1..m : i = l + j
      <4>1. i - l \in 1..m /\ i = l + (i - l)
        BY <2>2
      <4> QED
        BY <4>1
    <3>1. at + l + j = at + i /\ (s \o t)[l + j] = t[j] /\ t[j] = T[at + l + j]
      BY <1>1, <1>2
    <3> QED
      BY <3>1
  <2> QED
    BY <2>1, <2>2
<1>4. at + (l + m) <= Len(T)
  BY <1>2
<1> QED
  BY <1>1, <1>3, <1>4 DEF Agrees

LEMMA ChunkAgrees ==
  ASSUME StructInv, NEW T \in Seq(Change), Grown(StoredHistory, T), NEW k \in Live
  PROVE  Agrees(T, chunks[k].start, chunks[k].changes)
<1>1. StoredFacts
  BY StoredIs DEF StructInv
<1> PICK at \in Nat, s \in Seq(Change) : at = chunks[k].start /\ s = chunks[k].changes
  BY DEF StructInv, Types, Live, ChunkRecord
<1> PICK l \in Nat : l = Len(s)
  OBVIOUS
<1>2. at + l <= Len(StoredHistory) /\ Len(StoredHistory) \in Nat
  BY <1>1 DEF StoredFacts, EndOf
<1>3. Len(StoredHistory) <= Len(T) /\ Len(T) \in Nat
  BY DEF Grown
<1>4. ASSUME NEW i \in 1..l PROVE s[i] = T[at + i]
  <2>1. StoredHistory[at + i] = s[i]
    BY <1>1 DEF StoredFacts
  <2>2. at + i \in 1..Len(StoredHistory)
    BY <1>2, SMTT(30)
  <2>3. T[at + i] = StoredHistory[at + i]
    BY <2>2 DEF Grown
  <2> QED
    BY <2>1, <2>3
<1>5. at + l <= Len(T)
  BY <1>2, <1>3
<1> QED
  BY <1>4, <1>5 DEF Agrees

\* fillChunk keeps every change at its version.
LEMMA LoadAgrees ==
  ASSUME StructInv, NEW w \in Workers, Load(w), ~Throw(w),
         NEW T \in Seq(Change), Grown(StoredHistory, T),
         Agrees(T, work[w].at, work[w].batch)
  PROVE  LET y == work'[w]
         IN  /\ Agrees(T, y.start, y.changes)
             /\ Agrees(T, y.start + Len(y.changes), y.batch)
             /\ pc'[w] = "create" => Agrees(T, y.at, y.batch) /\ y.at = y.start + Len(y.changes)
             /\ y.start + Len(y.changes) + Len(y.batch) = work[w].at + Len(work[w].batch)
             /\ y.task = work[w].task /\ y.forcing = work[w].forcing
             /\ pc' = [pc EXCEPT ![w] = pc'[w]] /\ pc'[w] \in {"update", "create"}
             /\ y \in Work /\ work' = [work EXCEPT ![w] = y]
             /\ acked' = acked
<1> DEFINE c == chunks[Latest]
           m == Lesser(Room(c), Len(work[w].batch))
           y == work'[w]
<1>1. /\ m \in Nat /\ m <= Len(work[w].batch)
      /\ c \in ChunkRecord /\ EndOf(c) = work[w].at
      /\ y = [work[w] EXCEPT !.start = c.start,
                 !.changes = c.changes \o First(work[w].batch, m),
                 !.batch = Rest(work[w].batch, m), !.count = Len(work[w].batch)]
      /\ y \in Work /\ work' = [work EXCEPT ![w] = y]
      /\ pc'[w] \in {"update", "create"} /\ pc' = [pc EXCEPT ![w] = pc'[w]]
      /\ (pc'[w] = "create") = (m = 0) /\ acked' = acked
  BY Loads
<1>2. PICK at \in Nat, s \in Seq(Change), b \in Seq(Change), n \in Nat :
         at = c.start /\ s = c.changes /\ b = work[w].batch /\ n = m
  <2>1. c.start \in Nat /\ c.changes \in Seq(Change)
    BY <1>1 DEF ChunkRecord
  <2>2. work[w].batch \in Seq(Change)
    BY DEF StructInv, Types, Work
  <2> QED
    BY <1>1, <2>1, <2>2
<1>3. /\ y.start = at /\ y.changes = s \o First(b, n) /\ y.batch = Rest(b, n)
      /\ y.at = work[w].at /\ y.task = work[w].task /\ y.forcing = work[w].forcing
  <2>1. work[w] \in Work
    BY DEF StructInv, Types, Work
  <2> HIDE DEF c, m, y
  <2> QED
    BY <1>1, <1>2, <2>1 DEF Work
<1>4. Agrees(T, at, s)
  <2>1. Latest \in Live
    BY LatestIs DEF StructInv
  <2> QED
    BY <1>2, <2>1, ChunkAgrees
<1>5. work[w].at = at + Len(s) /\ Agrees(T, at + Len(s), b) /\ n <= Len(b)
  BY <1>1, <1>2 DEF EndOf
<1> HIDE DEF c, m, y
<1> PICK l \in Nat : l = Len(s)
  OBVIOUS
<1> PICK z \in Nat : z = Len(b)
  OBVIOUS
<1>6. /\ First(b, n) \in Seq(Change) /\ Len(First(b, n)) = n
      /\ Rest(b, n) \in Seq(Change) /\ Len(Rest(b, n)) = z - n
  BY <1>5, CutTyped, ZenonT(40)
<1>7. Agrees(T, at + l, First(b, n)) /\ Agrees(T, at + l + n, Rest(b, n))
  BY <1>5, AgreesSplits
<1>8. Agrees(T, at, s \o First(b, n)) /\ Len(s \o First(b, n)) = l + n
  <2> PICK f \in Seq(Change) : f = First(b, n)
    BY <1>6
  <2>1. Agrees(T, at, s \o f) /\ Len(s \o f) = Len(s) + Len(f)
    BY <1>4, <1>7, AgreesJoins
  <2> QED
    BY <1>6, <2>1
<1>9. Len(y.changes) = l + n /\ Len(y.batch) = z - n /\ y.start + Len(y.changes) = at + l + n
  BY <1>3, <1>6, <1>8
<1>10. Agrees(T, y.start, y.changes) /\ Agrees(T, y.start + Len(y.changes), y.batch)
  BY <1>3, <1>7, <1>8, <1>9
<1>11. ASSUME pc'[w] = "create"
       PROVE  Agrees(T, y.at, y.batch) /\ y.at = y.start + Len(y.changes)
  <2>1. n = 0
    BY <1>1, <1>2, <1>11
  <2>2. y.at = y.start + Len(y.changes)
    BY <1>3, <1>5, <1>9, <2>1
  <2> QED
    BY <1>10, <2>2
<1>12. y.start + Len(y.changes) + Len(y.batch) = work[w].at + Len(work[w].batch)
  <2>1. Len(work[w].batch) = z /\ work[w].at = at + l
    BY <1>2, <1>5
  <2>2. at + l + n + (z - n) = at + l + z
    OBVIOUS
  <2> QED
    BY <1>9, <2>1, <2>2
<1> QED
  BY <1>1, <1>3, <1>10, <1>11, <1>12 DEF y

LEMMA BufferedPersist ==
  ASSUME HistoryInv, StructInv', config.level # 0, NEW w \in Workers,
         Fetch(w) \/ SetVersion(w) \/ SetVersionAgain(w) \/ Load(w)
  PROVE  HistoryInv' /\ LogStep
<1> USE DEF redis, clients
<1>1. /\ Types /\ Ordered /\ RedisInv /\ StructInv /\ work[w] \in Work
      /\ Proper(pc[w], work[w]) /\ FromBuffer(pc[w], work[w])
      /\ work[w].at \in Nat /\ head \in Nat \cup {None} /\ HistoryFacts
  BY FactsHold DEF HistoryInv, BufferedInv, StructInv, Types, Work
<1>2. /\ chunks' = chunks /\ config' = config /\ version' = version
      /\ head' = head /\ persisted' = persisted /\ buffer' = buffer
      => HistoryStill
  BY ChunksStay, RedisStays
<1>3. pc[w] # "idle" /\ Return(w) => version' = version
  BY <1>1 DEF Return, Answer
<1>4. CASE Fetch(w)
  <2> DEFINE batch == Unpersisted(work[w].at, PersistBatchSize)
             x == [work[w] EXCEPT !.batch = batch]
  <2>1. pc[w] = "fetch" /\ UNCHANGED <<config, chunks, redis>>
    BY <1>4 DEF Fetch
  <2>2. CASE Throw(w)
    BY <1>2, <2>1, <2>2, BufferedThrows DEF Throw
  <2>3. CASE Return(w)
    BY <1>2, <1>3, <2>1, <2>3, BufferedReturns
  <2>4. CASE Goto(w, "noChanges") /\ UNCHANGED <<work, clients>>
    <3>1. FromBuffer("noChanges", work[w]) /\ "noChanges" \in PCs
      BY <1>1, <2>1 DEF FromBuffer, PCs
    <3> QED
      BY <1>2, <2>1, <2>4, <3>1, BufferedMoves
  <2>5. CASE /\ ~OutOfBounds(work[w].at) /\ batch # <<>>
             /\ work' = [work EXCEPT ![w] = x] /\ Goto(w, "load") /\ UNCHANGED clients
    <3>1. batch \in Seq(Change)
      BY <1>1, UnpersistedTyped, BoundsAssumption
    <3>2. Agrees(History, work[w].at, batch)
      BY <1>1, <2>5, UnpersistedAgrees, BoundsAssumption
    <3> HIDE DEF batch
    <3>3. /\ x \in Work /\ x.task = work[w].task /\ x.forcing = work[w].forcing
          /\ x.batch = batch /\ x.at = work[w].at
      BY <1>1, <3>1 DEF Work
    <3>4. work' = [work EXCEPT ![w] = x] /\ pc' = [pc EXCEPT ![w] = "load"] /\ acked' = acked
      BY <2>5 DEF Goto
    <3> HIDE DEF x
    <3>5. FromBuffer("load", x) /\ "load" \in PCs
      BY <1>1, <2>1, <3>2, <3>3 DEF FromBuffer, PCs
    <3>6. \A q \in acked' : q \in acked
      BY <3>4
    <3>7. HistoryStill
      BY <1>2, <2>1, <2>5
    <3> QED
      BY <3>3, <3>4, <3>5, <3>6, <3>7, BufferedStill
  <2> QED
    BY <1>4, <2>2, <2>3, <2>4, <2>5 DEF Fetch
<1>5. CASE SetVersion(w)
  <2> DEFINE v == work[w].at
             x == [work[w] EXCEPT !.any = TRUE]
  <2>1. pc[w] = "setVersion" /\ UNCHANGED <<config, chunks>> /\ v <= StoredEnd
    BY <1>1, <1>5 DEF SetVersion, FromBuffer
  <2>2. CASE Throw(w) /\ UNCHANGED redis
    BY <1>2, <2>1, <2>2, BufferedThrows DEF Throw
  <2>3. CASE ~(head = None \/ TooLow(v) \/ v > head)
    <3>1. head # None /\ SetPersisted(v)
      BY <1>1, <1>5, <2>3 DEF SetVersion
    <3>2. CASE Return(w)
      BY <1>1, <1>3, <2>1, <3>1, <3>2, SetsStill, BufferedReturns
    <3>3. CASE work' = [work EXCEPT ![w] = x] /\ Goto(w, "fetch") /\ UNCHANGED clients
      <4>1. HistoryStill
        BY <1>1, <2>1, <3>1, <3>3, SetsStill
      <4>2. x \in Work /\ x.task = work[w].task /\ x.forcing = work[w].forcing /\ x.at = v
        BY <1>1 DEF Work
      <4>3. work' = [work EXCEPT ![w] = x] /\ pc' = [pc EXCEPT ![w] = "fetch"] /\ acked' = acked
        BY <3>3 DEF Goto
      <4> HIDE DEF x
      <4>4. FromBuffer("fetch", x) /\ "fetch" \in PCs
        BY <1>1, <2>1, <4>2 DEF FromBuffer, PCs
      <4>5. \A q \in acked' : q \in acked
        BY <4>3
      <4> QED
        BY <4>1, <4>2, <4>3, <4>4, <4>5, BufferedStill
    <3> QED
      BY <1>5, <2>3, <3>2, <3>3 DEF SetVersion
  <2> QED
    BY <1>5, <2>2, <2>3 DEF SetVersion
<1>6. CASE SetVersionAgain(w)
  <2> DEFINE v == work[w].at
  <2>1. pc[w] = "noChanges" /\ UNCHANGED <<config, chunks>> /\ v <= StoredEnd
    BY <1>1, <1>6 DEF SetVersionAgain, FromBuffer
  <2>2. CASE Throw(w) /\ UNCHANGED redis
    BY <1>2, <2>1, <2>2, BufferedThrows DEF Throw
  <2>3. CASE Return(w) /\ UNCHANGED redis
    BY <1>2, <1>3, <2>1, <2>3, BufferedReturns
  <2>4. CASE Return(w) /\ head # None /\ SetPersisted(v)
    BY <1>1, <1>3, <2>1, <2>4, SetsStill, BufferedReturns
  <2> QED
    BY <1>1, <1>6, <2>2, <2>3, <2>4 DEF SetVersionAgain
<1>7. CASE Load(w)
  <2>1. pc[w] = "load" /\ UNCHANGED <<config, chunks, redis>>
    BY <1>7 DEF Load
  <2>2. CASE Throw(w)
    BY <1>2, <2>1, <2>2, BufferedThrows DEF Throw
  <2>3. CASE ~Throw(w)
    <3> DEFINE y == work'[w]
               p == pc'[w]
    <3>1. Agrees(History, work[w].at, work[w].batch) /\ History \in Seq(Change)
          /\ Grown(StoredHistory, History)
      <4>1. StoredFacts
        BY <1>1, StoredIs
      <4> QED
        BY <1>1, <2>1, <4>1 DEF FromBuffer, HistoryFacts, StoredFacts, Grown
    <3>2. /\ Agrees(History, y.start, y.changes)
          /\ Agrees(History, y.start + Len(y.changes), y.batch)
          /\ p = "create" => Agrees(History, y.at, y.batch)
          /\ y.task = work[w].task /\ y.forcing = work[w].forcing
          /\ pc' = [pc EXCEPT ![w] = p] /\ p \in {"update", "create"}
          /\ y \in Work /\ work' = [work EXCEPT ![w] = y] /\ acked' = acked
      BY <1>1, <1>7, <2>3, <3>1, LoadAgrees, SMTT(30)
    <3>3. version' = version
      BY <1>7, <2>3 DEF Load
    <3>4. HistoryStill
      BY <1>2, <2>1, <3>3
    <3> HIDE DEF y, p
    <3>5. FromBuffer(p, y) /\ p \in PCs
      BY <1>1, <2>1, <3>2 DEF FromBuffer, PCs
    <3>6. \A q \in acked' : q \in acked
      BY <3>2
    <3> QED
      BY <3>2, <3>4, <3>5, <3>6, BufferedStill
  <2> QED
    BY <2>2, <2>3, SMTT(30)
<1> QED
  BY <1>4, <1>5, <1>6, <1>7

\* The steps of an upload before it is confirmed, and deleteOldChunks, leave the
\* chunks of the history alone.
LEMMA InsertSame ==
  ASSUME StructInv, StructInv', NEW w \in Workers, NEW k \in Live, NEW start \in Nat,
         NEW s \in Seq(Change), NEW rest \in Seq(Change), NEW creating \in BOOLEAN,
         InsertPending(w, k, start, s, rest, creating)
  PROVE  /\ StoredEnd' = StoredEnd /\ StoredHistory' = StoredHistory
         /\ work'[w] \in Work /\ work' = [work EXCEPT ![w] = work'[w]]
         /\ work'[w].start = start /\ work'[w].changes = s /\ work'[w].batch = rest
         /\ work'[w].task = work[w].task /\ work'[w].forcing = work[w].forcing
         /\ pc' = [pc EXCEPT ![w] = "store"] /\ acked' = acked /\ version' = version
<1> DEFINE unused == {id \in ChunkIds : chunks[id].state = "none"}
           new == Least(unused)
           x == [work[w] EXCEPT !.old = k, !.id = new, !.start = start, !.changes = s,
                                !.batch = rest, !.creating = creating]
<1>1. /\ unused # {} /\ chunks' = [chunks EXCEPT ![new].state = "pending"]
      /\ work' = [work EXCEPT ![w] = x] /\ pc' = [pc EXCEPT ![w] = "store"]
      /\ UNCHANGED clients
  BY DEF InsertPending, Goto
<1>2. new \in ChunkIds /\ chunks[new].state = "none"
  <2>1. unused \in SUBSET ChunkIds
    OBVIOUS
  <2> QED
    BY <1>1, <2>1, LeastIn
<1> HIDE DEF new, unused
<1>3. chunks \in [ChunkIds -> ChunkRecord] /\ work[w] \in Work /\ new \in Nat /\ k \in Nat
  BY <1>2, BoundsAssumption DEF StructInv, Types, Work, Live
<1>4. /\ \A j \in ChunkIds \ {new} : chunks'[j] = chunks[j]
      /\ chunks'[new].state = "pending"
  BY <1>1, <1>2, <1>3 DEF ChunkRecord
<1>5. Live' = Live /\ new \notin Live
  BY <1>2, <1>4 DEF Live
<1>6. \A j \in Live : chunks'[j] = chunks[j]
  BY <1>4, <1>5 DEF Live
<1>7. /\ x \in Work /\ x.start = start /\ x.changes = s /\ x.batch = rest
      /\ x.task = work[w].task /\ x.forcing = work[w].forcing
  BY <1>3 DEF Work
<1> HIDE DEF x
<1>8. work'[w] = x /\ work' = [work EXCEPT ![w] = work'[w]]
  BY <1>1 DEF StructInv, Types
<1>9. acked' = acked /\ version' = version
  BY <1>1 DEF clients
<1> QED
  BY <1>1, <1>5, <1>6, <1>7, <1>8, <1>9, StoredSame

LEMMA StoreSame ==
  ASSUME StructInv, StructInv', NEW w \in Workers, Store(w)
  PROVE  StoredEnd' = StoredEnd /\ StoredHistory' = StoredHistory
<1> DEFINE id == work[w].id
<1>1. pc[w] = "store" /\ chunks' = [chunks EXCEPT ![id].stored = TRUE]
  BY DEF Store
<1>2. /\ chunks \in [ChunkIds -> ChunkRecord] /\ id \in ChunkIds
  BY <1>1 DEF StructInv, Types, Proper, Replacing
<1>3. \A j \in ChunkIds : /\ chunks'[j].state = chunks[j].state
                          /\ chunks'[j].start = chunks[j].start
                          /\ chunks'[j].changes = chunks[j].changes
  BY <1>1, <1>2 DEF ChunkRecord
<1>4. Live' = Live /\ Live \subseteq ChunkIds
  BY <1>3 DEF Live
<1> QED
  BY <1>3, <1>4, StoredSame

LEMMA DeleteSame ==
  ASSUME StructInv, StructInv', DeleteOldChunks
  PROVE  StoredEnd' = StoredEnd /\ StoredHistory' = StoredHistory
<1> DEFINE old == {k \in ChunkIds \ InUse : chunks[k].state \in {"deleted", "pending"}}
<1>1. chunks' = [k \in ChunkIds |-> IF k \in old THEN Free ELSE chunks[k]]
  BY DEF DeleteOldChunks
<1>2. \A j \in old : j \in ChunkIds /\ chunks[j].state \in {"deleted", "pending"}
  OBVIOUS
<1> HIDE DEF old
<1>3. \A j \in ChunkIds \ old : chunks'[j] = chunks[j]
  BY <1>1
<1>4. \A j \in old : chunks'[j].state = "none"
  BY <1>1, <1>2 DEF Free
<1>5. Live' = Live /\ \A j \in Live : j \in ChunkIds \ old
  BY <1>2, <1>3, <1>4 DEF Live
<1> QED
  BY <1>3, <1>5, StoredSame

\* What Update and Create do: they throw, or insert a record.
LEMMA UploadsBegin ==
  ASSUME StructInv, StructInv', NEW w \in Workers, Update(w) \/ Create(w), ~Throw(w)
  PROVE  LET y == work'[w]
         IN  /\ StoredEnd' = StoredEnd /\ StoredHistory' = StoredHistory
             /\ config' = config /\ UNCHANGED redis /\ acked' = acked /\ version' = version
             /\ pc' = [pc EXCEPT ![w] = "store"]
             /\ y \in Work /\ work' = [work EXCEPT ![w] = y]
             /\ y.task = work[w].task /\ y.forcing = work[w].forcing
             /\ pc[w] \in {"update", "create"}
             /\ pc[w] = "update" => /\ y.start = work[w].start /\ y.changes = work[w].changes
                                    /\ y.batch = work[w].batch
             /\ pc[w] = "create" =>
                  /\ y.start = work[w].at
                  /\ \E n \in Nat : /\ n <= Len(work[w].batch)
                                    /\ y.changes = First(work[w].batch, n)
                                    /\ y.batch = Rest(work[w].batch, n)
<1>1. /\ Types /\ work[w].start \in Nat /\ work[w].at \in Nat
      /\ work[w].changes \in Seq(Change) /\ work[w].batch \in Seq(Change)
  BY DEF StructInv, Types, Work
<1>2. CASE Update(w)
  <2> DEFINE s == work[w].start
             k == Newer(s)
  <2>1. /\ pc[w] = "update" /\ Containing(s) # {} /\ config' = config /\ UNCHANGED redis
        /\ InsertPending(w, k, s, work[w].changes, work[w].batch, FALSE)
    BY <1>2 DEF Update
  <2>2. k \in Live
    BY <1>1, <2>1, FoundIs
  <2> DEFINE changes == work[w].changes
             rest == work[w].batch
  <2> HIDE DEF k, s, changes, rest
  <2>3. /\ s \in Nat /\ changes \in Seq(Change) /\ rest \in Seq(Change)
        /\ InsertPending(w, k, s, changes, rest, FALSE)
    BY <1>1, <2>1 DEF s, changes, rest
  <2>4. /\ StoredEnd' = StoredEnd /\ StoredHistory' = StoredHistory
        /\ work'[w] \in Work /\ work' = [work EXCEPT ![w] = work'[w]]
        /\ work'[w].start = s /\ work'[w].changes = changes /\ work'[w].batch = rest
        /\ work'[w].task = work[w].task /\ work'[w].forcing = work[w].forcing
        /\ pc' = [pc EXCEPT ![w] = "store"] /\ acked' = acked /\ version' = version
    BY <2>2, <2>3, InsertSame
  <2> QED
    BY <2>1, <2>4 DEF s, changes, rest
<1>3. CASE Create(w)
  <2> DEFINE s == work[w].at
             k == Older(s)
             n == Lesser(MaxChunkChanges, Len(work[w].batch))
             first == First(work[w].batch, n)
             rest == Rest(work[w].batch, n)
  <2>1. /\ pc[w] = "create" /\ Containing(s) # {} /\ config' = config /\ UNCHANGED redis
        /\ InsertPending(w, k, s, first, rest, TRUE)
    BY <1>3 DEF Create
  <2>2. k \in Live
    BY <1>1, <2>1, FoundIs
  <2>3. n \in Nat /\ n <= Len(work[w].batch)
    BY <1>1, BoundsAssumption DEF Lesser
  <2> HIDE DEF n
  <2>4. first \in Seq(Change) /\ rest \in Seq(Change)
    BY <1>1, <2>3, CutTyped
  <2> HIDE DEF k, first, rest
  <2>5. /\ StoredEnd' = StoredEnd /\ StoredHistory' = StoredHistory
        /\ work'[w] \in Work /\ work' = [work EXCEPT ![w] = work'[w]]
        /\ work'[w].start = s /\ work'[w].changes = first /\ work'[w].batch = rest
        /\ work'[w].task = work[w].task /\ work'[w].forcing = work[w].forcing
        /\ pc' = [pc EXCEPT ![w] = "store"] /\ acked' = acked /\ version' = version
    BY <1>1, <2>1, <2>2, <2>4, InsertSame
  <2>6. \E i \in Nat : /\ i <= Len(work[w].batch)
                      /\ work'[w].changes = First(work[w].batch, i)
                      /\ work'[w].batch = Rest(work[w].batch, i)
    BY <2>3, <2>5 DEF first, rest
  <2> QED
    BY <2>1, <2>5, <2>6
<1> QED
  BY <1>2, <1>3

\* A chunk that is confirmed holds what the history has there.
LEMMA ChunkFits ==
  ASSUME HistoryInv, StructInv', NEW w \in Workers, Confirm(w), Confirmable(work[w]),
         NEW T \in Seq(Change), Grown(StoredHistory, T),
         Agrees(T, work[w].start, work[w].changes)
  PROVE  /\ Grown(StoredHistory', T) /\ Grown(StoredHistory, StoredHistory')
         /\ StoredEnd' = work[w].start + Len(work[w].changes)
<1> PICK s \in Nat, z \in Seq(Change) : s = work[w].start /\ z = work[w].changes
  BY DEF HistoryInv, StructInv, Types, Work
<1> PICK l \in Nat : l = Len(z)
  OBVIOUS
<1>1. /\ StructInv /\ StoredEnd' = s + l /\ StoredEnd <= s + l /\ s <= StoredEnd
      /\ \A v \in 1..s : StoredHistory'[v] = StoredHistory[v]
      /\ \A i \in 1..l : StoredHistory'[s + i] = z[i]
  <2>1. StructInv
    BY DEF HistoryInv
  <2> QED
    BY <2>1, StoredGrows
<1>2. StoredFacts /\ StoredFacts'
  <2>1. Types /\ Ordered /\ Types' /\ Ordered'
    BY DEF HistoryInv, StructInv
  <2> QED
    BY <2>1, StoredIs, PTL
<1>3. /\ Len(StoredHistory) = StoredEnd /\ Len(StoredHistory') = s + l /\ StoredEnd \in Nat
      /\ Len(T) \in Nat
  BY <1>1, <1>2 DEF StoredFacts
<1>4. /\ s + l <= Len(T) /\ \A i \in 1..l : z[i] = T[s + i]
      /\ \A v \in 1..StoredEnd : T[v] = StoredHistory[v]
  BY <1>3 DEF Agrees, Grown
<1>5. ASSUME NEW v \in 1..s + l PROVE T[v] = StoredHistory'[v]
  <2>1. CASE v <= s
    <3>1. v \in 1..s /\ v \in 1..StoredEnd
      BY <1>1, <1>3, <2>1
    <3> QED
      BY <1>1, <1>4, <3>1
  <2>2. CASE v > s
    <3> PICK i \in 1..l : v = s + i
      <4>1. v - s \in 1..l /\ v = s + (v - s)
        BY <2>2
      <4> QED
        BY <4>1
    <3>1. StoredHistory'[s + i] = z[i] /\ z[i] = T[s + i]
      BY <1>1, <1>4
    <3> QED
      BY <3>1
  <2> QED
    BY <2>1, <2>2
<1>6. ASSUME NEW v \in 1..StoredEnd PROVE StoredHistory'[v] = StoredHistory[v]
  <2>1. v \in 1..s + l
    BY <1>1, <1>3
  <2> QED
    BY <1>4, <1>5, <2>1
<1>7. Grown(StoredHistory', T)
  BY <1>3, <1>4, <1>5 DEF Grown
<1>8. Grown(StoredHistory, StoredHistory')
  BY <1>1, <1>3, <1>6 DEF Grown
<1> QED
  BY <1>1, <1>7, <1>8

\* Chunks that hold more of the history take nothing from it.
LEMMA StoredFits ==
  ASSUME HistoryInv, StructInv', Grown(StoredHistory', History), StoredEnd <= StoredEnd',
         head' = head, persisted' = persisted, buffer' = buffer
  PROVE  RedisInv' /\ History' = History /\ (head = None => StoredEnd' = StoredEnd)
<1>1. HistoryFacts /\ StoredFacts /\ StoredFacts'
  <2>1. Types /\ Ordered /\ Types' /\ Ordered'
    BY DEF HistoryInv, StructInv
  <2> QED
    BY <2>1, StoredIs, FactsHold, PTL
<1>2. /\ StoredEnd \in Nat /\ StoredEnd' \in Nat /\ StoredEnd' <= Len(History)
      /\ Len(History) \in Nat /\ \A v \in 1..StoredEnd' : History[v] = StoredHistory'[v]
  BY <1>1 DEF StoredFacts, HistoryFacts, Grown
<1>3. head = None => StoredEnd' = StoredEnd /\ persisted = None /\ buffer = <<>>
  BY <1>1, <1>2 DEF HistoryFacts, HistoryInv, RedisInv
<1>4. ASSUME head # None
      PROVE  /\ head \in Nat /\ Len(buffer) \in Nat /\ Len(History) = head
             /\ Len(buffer) <= head /\ head - Len(buffer) <= StoredEnd
             /\ persisted # None => persisted <= StoredEnd'
             /\ \A v \in head - Len(buffer) + 1 .. head :
                   History[v] = buffer[v - (head - Len(buffer))]
  BY <1>1, <1>2, <1>4, SMTT(30) DEF HistoryFacts, HistoryInv, RedisInv, StructInv, Types
<1>5. RedisInv'
  <2>1. ASSUME head # None, NEW v \in head - Len(buffer) + 1 .. StoredEnd'
        PROVE  buffer[v - (head - Len(buffer))] = StoredHistory'[v]
    <3>1. v \in 1..StoredEnd' /\ v \in head - Len(buffer) + 1 .. head
      BY <1>2, <1>4, <2>1
    <3> QED
      BY <1>2, <1>4, <2>1, <3>1
  <2>2. head # None => head - Len(buffer) <= StoredEnd'
    BY <1>2, <1>4
  <2> QED
    BY <1>2, <1>3, <1>4, <2>1, <2>2 DEF RedisInv
<1>6. HistoryFacts'
  BY <1>5, FactsHoldNext
<1>7. Len(History') = Len(History) /\ History \in Seq(Change) /\ History' \in Seq(Change)
  BY <1>1, <1>3, <1>6 DEF HistoryFacts
<1>8. ASSUME NEW v \in 1..Len(History) PROVE History[v] = History'[v]
  <2>1. CASE v <= StoredEnd'
    <3>1. v \in 1..StoredEnd'
      BY <1>2, <2>1
    <3> QED
      BY <1>2, <1>6, <3>1 DEF HistoryFacts
  <2>2. CASE v > StoredEnd'
    <3>1. head # None
      BY <1>1, <1>2, <1>3, <2>2 DEF HistoryFacts
    <3>2. v \in head - Len(buffer) + 1 .. head
      BY <1>2, <1>4, <2>2, <3>1
    <3>3. History'[v] = buffer[v - (head - Len(buffer))]
      BY <1>6, <3>1, <3>2 DEF HistoryFacts
    <3> QED
      BY <1>4, <3>1, <3>2, <3>3
  <2> QED
    BY <1>2, <2>1, <2>2
<1>9. History' = History
  BY <1>7, <1>8, SameSeq
<1> QED
  BY <1>3, <1>5, <1>9

LEMMA BufferedConfirms ==
  ASSUME HistoryInv, StructInv', config.level # 0, NEW w \in Workers, Confirm(w),
         Confirmable(work[w])
  PROVE  HistoryInv' /\ LogStep
<1> DEFINE x == work[w]
           p == IF x.batch = <<>> THEN "setVersion" ELSE "create"
           y == [x EXCEPT !.at = x.start + Len(x.changes), !.start = 0, !.changes = <<>>,
                          !.old = 0, !.id = 0, !.creating = FALSE]
<1>1. /\ pc[w] = "confirm" /\ x \in Work /\ FromBuffer("confirm", x) /\ Proper("confirm", x)
      /\ HistoryFacts /\ x.start \in Nat /\ x.changes \in Seq(Change) /\ x.batch \in Seq(Change)
      /\ pc \in [Workers -> PCs] /\ work \in [Workers -> Work]
  BY FactsHold DEF HistoryInv, BufferedInv, StructInv, Types, Work, Confirm
<1>2. /\ pc' = [pc EXCEPT ![w] = p] /\ work' = [work EXCEPT ![w] = y]
      /\ acked' = acked /\ version' = version /\ config' = config
      /\ head' = head /\ persisted' = persisted /\ buffer' = buffer
  BY DEF Confirm, Confirmable, Kept, Direct, Goto, redis, clients
<1>3. Grown(StoredHistory, History) /\ Agrees(History, x.start, x.changes)
      /\ Agrees(History, x.start + Len(x.changes), x.batch)
  <2>1. StoredFacts
    BY StoredIs DEF HistoryInv, StructInv
  <2> QED
    BY <1>1, <2>1 DEF FromBuffer, HistoryFacts, StoredFacts, Grown
<1>4. /\ Grown(StoredHistory', History) /\ StoredEnd' = x.start + Len(x.changes)
      /\ Grown(StoredHistory, StoredHistory')
  BY <1>1, <1>3, ChunkFits DEF HistoryFacts
<1>5. StoredEnd \in Nat /\ StoredEnd <= StoredEnd' /\ StoredEnd' \in Nat
  <2>1. StoredFacts /\ StoredFacts'
    <3>1. Types /\ Ordered /\ Types' /\ Ordered'
      BY DEF HistoryInv, StructInv
    <3> QED
      BY <3>1, StoredIs, PTL
  <2> QED
    BY <1>4, <2>1 DEF StoredFacts, Grown
<1>6. RedisInv' /\ History' = History /\ (head = None => StoredEnd' = StoredEnd)
  BY <1>2, <1>4, <1>5, StoredFits
<1>7. Follows /\ LogStep
  BY <1>1, <1>2, <1>5, <1>6 DEF Follows, Grown, HistoryFacts, LogStep
<1>8. /\ y \in Work /\ y.task = x.task /\ y.forcing = x.forcing /\ y.batch = x.batch
      /\ y.at = x.start + Len(x.changes)
  <2>1. x.start + Len(x.changes) \in Nat
    BY <1>1
  <2> QED
    BY <1>1, <2>1, EmptyIsSeq DEF Work
<1>9. pc'[w] = p /\ work'[w] = y /\ \A u \in Workers \ {w} : pc'[u] = pc[u] /\ work'[u] = work[u]
  BY <1>1, <1>2, <1>8 DEF PCs
<1> HIDE DEF x, y
<1>10. FromBuffer(pc[w], work[w])'
  <2>1. x.task # "job" => InHistory(x.task) /\ x.task \in Requests
    BY <1>1 DEF FromBuffer, Proper
  <2>2. x.task # "job" => InHistory(work[w].task)'
    <3>1. \A r \in Requests : InHistory(r) => InHistory(r)'
      BY <1>6, <1>7, InHistoryStays
    <3> QED
      BY <1>8, <1>9, <2>1, <3>1
  <2>3. ~x.forcing
    BY <1>1 DEF FromBuffer
  <2>4. y.at <= StoredEnd' /\ Agrees(History', y.at, y.batch)
    BY <1>3, <1>4, <1>5, <1>6, <1>8
  <2> QED
    BY <1>8, <1>9, <2>2, <2>3, <2>4 DEF FromBuffer
<1>11. ASSUME NEW u \in Workers
       PROVE  /\ FromBuffer(pc'[u], work'[u]) \/ FromBuffer(pc[u], work[u])'
              /\ pc'[u] = "queue" /\ head' = None => head = None /\ StoredEnd' = StoredEnd
  <2>1. u # w => FromBuffer(pc'[u], work'[u])
    BY <1>9 DEF HistoryInv, BufferedInv
  <2> QED
    BY <1>2, <1>6, <1>10, <2>1
<1>12. \A r \in Requests : version'[r] # None => version[r] # None
  BY <1>2
<1>13. \A r \in acked' : r \in acked
  BY <1>2
<1>14. HistoryInv'
  BY <1>2, <1>6, <1>7, <1>11, <1>12, <1>13, BufferedFollows
<1> QED
  BY <1>7, <1>14

LEMMA BufferedUploads ==
  ASSUME HistoryInv, StructInv', config.level # 0, NEW w \in Workers,
         Update(w) \/ Create(w) \/ Store(w) \/ Confirm(w)
  PROVE  HistoryInv' /\ LogStep
<1> USE DEF redis, clients
<1>1. /\ StructInv /\ work[w] \in Work /\ FromBuffer(pc[w], work[w]) /\ HistoryFacts
      /\ work[w].at \in Nat /\ work[w].batch \in Seq(Change) /\ History \in Seq(Change)
  BY FactsHold DEF HistoryInv, BufferedInv, StructInv, Types, Work, HistoryFacts
<1>2. ASSUME Throw(w), UNCHANGED <<config, chunks, redis>> PROVE HistoryInv' /\ LogStep
  <2>1. HistoryStill
    BY <1>2, ChunksStay, RedisStays DEF Throw
  <2> QED
    BY <1>2, <2>1, BufferedThrows
<1>3. CASE Update(w) \/ Create(w)
  <2>1. CASE Throw(w)
    <3>1. pc \in [Workers -> PCs]
      BY DEF HistoryInv, StructInv, Types
    <3>2. pc'[w] # "store"
      BY <2>1, <3>1 DEF Throw, ToCommit, Stop, Goto
    <3>3. ASSUME NEW k, NEW start, NEW t, NEW rest, NEW creating,
                 InsertPending(w, k, start, t, rest, creating)
          PROVE  FALSE
      <4>1. pc' = [pc EXCEPT ![w] = "store"]
        BY <3>3 DEF InsertPending, Goto
      <4> QED
        BY <3>1, <3>2, <4>1
    <3>4. UNCHANGED <<config, redis>> /\ UNCHANGED chunks
      BY <1>3, <3>2, <3>3 DEF Update, Create
    <3> QED
      BY <1>2, <2>1, <3>4
  <2>2. CASE ~Throw(w)
    <3> DEFINE y == work'[w]
    <3>1. /\ StoredEnd' = StoredEnd /\ StoredHistory' = StoredHistory
          /\ config' = config /\ UNCHANGED redis /\ acked' = acked /\ version' = version
          /\ pc' = [pc EXCEPT ![w] = "store"]
          /\ y \in Work /\ work' = [work EXCEPT ![w] = y]
          /\ y.task = work[w].task /\ y.forcing = work[w].forcing
          /\ pc[w] \in {"update", "create"}
          /\ pc[w] = "update" => /\ y.start = work[w].start /\ y.changes = work[w].changes
                                 /\ y.batch = work[w].batch
          /\ pc[w] = "create" =>
               /\ y.start = work[w].at
               /\ \E n \in Nat : /\ n <= Len(work[w].batch)
                                 /\ y.changes = First(work[w].batch, n)
                                 /\ y.batch = Rest(work[w].batch, n)
      BY <1>1, <1>3, <2>2, UploadsBegin
    <3>2. HistoryStill
      BY <3>1, RedisStays
    <3> HIDE DEF y
    <3>3. /\ Agrees(History, y.start, y.changes)
          /\ Agrees(History, y.start + Len(y.changes), y.batch)
      <4>1. CASE pc[w] = "update"
        BY <1>1, <3>1, <4>1 DEF FromBuffer
      <4>2. CASE pc[w] = "create"
        <5> PICK at \in Nat, b \in Seq(Change) : at = work[w].at /\ b = work[w].batch
          BY <1>1
        <5>1. PICK n \in Nat : n <= Len(b) /\ y.changes = First(b, n) /\ y.batch = Rest(b, n)
          BY <3>1, <4>2
        <5>2. Agrees(History, at, b)
          BY <1>1, <4>2 DEF FromBuffer
        <5>3. Agrees(History, at, First(b, n)) /\ Agrees(History, at + n, Rest(b, n))
          BY <1>1, <5>1, <5>2, AgreesSplits
        <5>4. Len(First(b, n)) = n
          BY <5>1, CutTyped
        <5> QED
          BY <3>1, <4>2, <5>1, <5>3, <5>4
      <4> QED
        BY <3>1, <4>1, <4>2
    <3>4. FromBuffer("store", y) /\ "store" \in PCs
      BY <1>1, <3>1, <3>3 DEF FromBuffer, PCs
    <3>5. \A q \in acked' : q \in acked
      BY <3>1
    <3>6. /\ y \in Work /\ work' = [work EXCEPT ![w] = y]
          /\ pc' = [pc EXCEPT ![w] = "store"]
      BY <3>1
    <3> HIDE DEF redis, clients
    <3> QED
      BY <3>2, <3>4, <3>5, <3>6, BufferedStill
  <2> QED
    BY <2>1, <2>2, Zenon
<1>4. CASE Store(w)
  <2>1. /\ pc[w] = "store" /\ Goto(w, "confirm") /\ work' = work /\ acked' = acked
        /\ UNCHANGED <<config, redis, version>>
    BY <1>4 DEF Store
  <2>2. HistoryStill
    BY <1>1, <1>4, <2>1, StoreSame, RedisStays
  <2>3. FromBuffer("confirm", work[w]) /\ "confirm" \in PCs
    BY <1>1, <2>1 DEF FromBuffer, PCs
  <2> QED
    BY <2>1, <2>2, <2>3, BufferedMoves
<1>5. CASE Confirm(w) /\ Confirmable(work[w])
  BY <1>5, BufferedConfirms, SMTT(30)
<1>6. CASE Confirm(w) /\ ~Confirmable(work[w])
  BY <1>2, <1>6 DEF Confirm, Confirmable, Kept
<1> QED
  BY <1>3, <1>4, <1>5, <1>6

LEMMA BufferedAround ==
  ASSUME Quiet, HistoryInv, StructInv', config.level # 0,
         DeleteOldChunks \/ Expire \/ Downgrade \/ UNCHANGED vars
  PROVE  HistoryInv' /\ LogStep
<1> USE DEF redis, clients
<1>1. /\ History' = History /\ StoredEnd' = StoredEnd /\ RedisInv'
      /\ config' = config /\ version' = version /\ pc' = pc /\ work' = work /\ acked' = acked
      /\ \A u \in Workers : pc[u] = "queue" => head' = head
  <2>1. CASE DeleteOldChunks
    <3>1. StructInv
      BY DEF HistoryInv
    <3>2. HistoryStill
      BY <2>1, <3>1, DeleteSame, RedisStays DEF DeleteOldChunks
    <3> QED
      BY <2>1, <3>2 DEF DeleteOldChunks, HistoryStill
  <2>2. CASE Expire
    <3>1. /\ Clean /\ Drop /\ \A u \in Workers : pc[u] # "queue"
          /\ UNCHANGED <<config, chunks, pc, work, clients>>
      BY <2>2 DEF Expire, Quiet
    <3>2. History' = History /\ StoredEnd' = StoredEnd /\ RedisInv'
      BY <3>1, DropSame
    <3> QED
      BY <3>1, <3>2
  <2>3. CASE Downgrade
    <3>1. config.level = 4 /\ config' \in Configs /\ config'.force /\ config \in Configs
      BY <2>3 DEF Downgrade, HistoryInv, StructInv, Types
    <3> QED
      BY <3>1 DEF Quiet
  <2>4. CASE UNCHANGED vars
    <3>1. HistoryStill /\ UNCHANGED vars
      BY <2>4, ChunksStay, RedisStays DEF vars
    <3> QED
      BY <3>1 DEF HistoryStill, vars
  <2> QED
    BY <2>1, <2>2, <2>3, <2>4
<1>2. Follows /\ LogStep
  <2>1. HistoryFacts
    BY FactsHold
  <2> QED
    BY <1>1, <2>1 DEF Follows, Grown, HistoryFacts, LogStep
<1>3. ASSUME NEW u \in Workers
      PROVE  /\ FromBuffer(pc'[u], work'[u])
             /\ pc'[u] = "queue" /\ head' = None => head = None /\ StoredEnd' = StoredEnd
  <2>1. FromBuffer(pc[u], work[u])
    BY DEF HistoryInv, BufferedInv
  <2> QED
    BY <1>1, <2>1
<1>4. \A r \in Requests : version'[r] # None => version[r] # None
  BY <1>1
<1>5. \A r \in acked' : r \in acked
  BY <1>1
<1> QED
  BY <1>1, <1>2, <1>3, <1>4, <1>5, BufferedFollows

LEMMA FirstStays ==
  ASSUME NEW S, NEW s \in Seq(S), NEW t \in Seq(S), Grown(s, t), NEW n \in Nat, n <= Len(s)
  PROVE  First(t, n) = First(s, n)
<1>1. /\ First(s, n) \in Seq(S) /\ Len(First(s, n)) = n /\ \A i \in 1..n : First(s, n)[i] = s[i]
  BY CutTyped
<1>2. n <= Len(t) /\ \A i \in 1..n : s[i] = t[i]
  BY DEF Grown
<1>3. /\ First(t, n) \in Seq(S) /\ Len(First(t, n)) = n /\ \A i \in 1..n : First(t, n)[i] = t[i]
  BY <1>2, CutTyped
<1>4. \A i \in 1..n : First(t, n)[i] = First(s, n)[i]
  BY <1>1, <1>2, <1>3
<1> QED
  BY <1>1, <1>3, <1>4, SameSeq

\* Without a buffer the history is what the chunks hold.
LEMMA StoredIsHistory == HistoryFacts /\ StoredFacts /\ head = None => History = StoredHistory
<1> SUFFICES ASSUME HistoryFacts, StoredFacts, head = None PROVE History = StoredHistory
  OBVIOUS
<1>1. /\ History \in Seq(Change) /\ StoredHistory \in Seq(Change)
      /\ Len(History) = Len(StoredHistory)
      /\ \A v \in 1..Len(History) : History[v] = StoredHistory[v]
  BY DEF HistoryFacts, StoredFacts
<1> QED
  BY <1>1, SameSeq

LEMMA FirstThen ==
  ASSUME NEW S, NEW h \in Seq(S), NEW c \in Seq(S), NEW n \in Nat, n <= Len(h)
  PROVE  /\ First(h, n) \o c \in Seq(S) /\ Len(First(h, n) \o c) = n + Len(c)
         /\ \A i \in 1..n : (First(h, n) \o c)[i] = h[i]
         /\ \A i \in 1..Len(c) : (First(h, n) \o c)[n + i] = c[i]
         /\ Agrees(First(h, n) \o c, n, c)
<1> DEFINE f == First(h, n)
<1>1. f \in Seq(S) /\ Len(f) = n /\ \A i \in 1..n : f[i] = h[i]
  BY CutTyped
<1> HIDE DEF f
<1>2. /\ f \o c \in Seq(S) /\ Len(f \o c) = n + Len(c)
      /\ \A i \in 1..n : (f \o c)[i] = f[i]
      /\ \A i \in 1..Len(c) : (f \o c)[n + i] = c[i]
  <2>1. \A a, b \in Seq(S) :
           /\ a \o b \in Seq(S) /\ Len(a \o b) = Len(a) + Len(b)
           /\ \A i \in 1..Len(a) : (a \o b)[i] = a[i]
           /\ \A i \in 1..Len(b) : (a \o b)[Len(a) + i] = b[i]
    BY ConcatTyped
  <2> QED
    BY <1>1, <2>1
<1>3. \A i \in 1..n : (f \o c)[i] = h[i]
  BY <1>1, <1>2
<1>4. Agrees(f \o c, n, c)
  BY <1>2 DEF Agrees
<1> QED
  BY <1>2, <1>3, <1>4 DEF f

LEMMA TargetIs ==
  ASSUME HistoryInv, NEW x \in Work, NEW r \in Requests, r = x.task, version[r] # None
  PROVE  /\ Target(x) \in Seq(Change) /\ version[r] \in Nat /\ version[r] <= Len(History)
         /\ Len(Target(x)) = version[r] + Size[r] /\ Size[r] \in Nat
         /\ \A i \in 1..version[r] : Target(x)[i] = History[i]
         /\ \A i \in 1..Size[r] : Target(x)[version[r] + i] = <<r, i>>
         /\ Agrees(Target(x), version[r], Changes(r))
<1>1. /\ version[r] \in Nat /\ version[r] <= Len(History) /\ History \in Seq(Change)
  BY FactsHold DEF HistoryInv, StructInv, Types, HistoryFacts
<1>2. /\ Changes(r) \in Seq(Change) /\ Len(Changes(r)) = Size[r] /\ Size[r] \in Nat
      /\ \A i \in 1..Size[r] : Changes(r)[i] = <<r, i>>
  BY ChangesTyped
<1> DEFINE T == First(History, version[r]) \o Changes(r)
<1>3. /\ T \in Seq(Change) /\ Len(T) = version[r] + Len(Changes(r))
      /\ \A i \in 1..version[r] : T[i] = History[i]
      /\ \A i \in 1..Len(Changes(r)) : T[version[r] + i] = Changes(r)[i]
      /\ Agrees(T, version[r], Changes(r))
  BY <1>1, <1>2, FirstThen
<1>4. Target(x) = T
  BY DEF Target
<1> HIDE DEF T
<1> QED
  BY <1>1, <1>2, <1>3, <1>4

\* A worker moves on, and nobody else is at work.
LEMMA DirectMoves ==
  ASSUME HistoryInv, StructInv', config.level = 0, NEW w \in Workers,
         UNCHANGED <<config, redis, version>>,
         \A u \in Workers \ {w} : pc[u] = "idle",
         NEW p \in PCs, NEW x \in Work,
         pc' = [pc EXCEPT ![w] = p], work' = [work EXCEPT ![w] = x], Directly(p, x),
         Grown(StoredHistory, StoredHistory'),
         p \in {"update", "create", "store", "confirm"} => Grown(StoredHistory', Target(x)),
         \A r \in acked' : r \in acked \/ InHistory(r)'
  PROVE  /\ HistoryInv' /\ HistoryFacts' /\ History' = StoredHistory'
         /\ (StoredHistory' = StoredHistory => LogStep)
<1>1. /\ head = None /\ persistTime = None /\ head' = None /\ persistTime' = None
      /\ RedisInv' /\ version' = version /\ config' = config
  BY DEF HistoryInv, DirectInv, RedisInv, redis
<1>2. HistoryFacts /\ HistoryFacts' /\ StoredFacts /\ StoredFacts'
  <2>1. Types /\ Ordered /\ Types' /\ Ordered'
    BY DEF HistoryInv, StructInv
  <2>2. HistoryFacts /\ HistoryFacts'
    BY <1>1, FactsHold, FactsHoldNext
  <2> QED
    BY <2>1, <2>2, StoredIs, PTL
<1>3. History = StoredHistory /\ History' = StoredHistory'
  <2>1. History = StoredHistory
    BY <1>1, <1>2, StoredIsHistory
  <2>2. History' = StoredHistory'
    <3>1. (HistoryFacts /\ StoredFacts /\ head = None)'
      BY <1>1, <1>2
    <3>2. (History = StoredHistory)'
      BY <3>1, StoredIsHistory, PTL
    <3> QED
      BY <3>2
  <2> QED
    BY <2>1, <2>2
<1>4. Follows
  BY <1>1, <1>2, <1>3 DEF Follows, StoredFacts, Grown
<1>5. pc'[w] = p /\ work'[w] = x /\ \A u \in Workers \ {w} : pc'[u] = "idle"
  BY DEF HistoryInv, StructInv, Types, Work
<1>6. Directly(pc[w], work[w])'
  <2>1. CASE p = "idle"
    BY <1>5, <2>1 DEF Directly
  <2>2. CASE p # "idle"
    <3>1. x.task \in Requests /\ version[x.task] # None
      BY <2>2 DEF Directly
    <3>2. First(History', version[x.task]) = First(History, version[x.task])
      <4>1. version[x.task] \in Nat /\ version[x.task] <= Len(History)
        BY <3>1 DEF HistoryInv, StructInv, Types
      <4> QED
        BY <1>2, <1>4, <4>1, FirstStays DEF HistoryFacts, Follows
    <3>3. Target(work[w])' = Target(x)
      BY <1>1, <1>5, <3>2 DEF Target
    <3> HIDE DEF Target
    <3> QED
      BY <1>1, <1>5, <3>3 DEF Directly
  <2> QED
    BY <2>1, <2>2
<1>7. DirectInv'
  <2>1. \A u \in Workers \ {w} : Directly(pc[u], work[u])'
    BY <1>5 DEF Directly
  <2> QED
    BY <1>1, <1>5, <1>6, <2>1 DEF DirectInv
<1>8. \A r \in acked' : InHistory(r)'
  <2>1. \A r \in acked : r \in Requests /\ InHistory(r)
    BY DEF HistoryInv, StructInv, Types
  <2> QED
    BY <1>1, <1>4, <2>1, InHistoryStays
<1>9. \A r \in Requests : version'[r] # None => version'[r] <= Len(History')
  <2> SUFFICES ASSUME NEW r \in Requests, version[r] # None PROVE version[r] <= Len(History')
    BY <1>1
  <2>1. version[r] <= Len(History) /\ version[r] \in Nat
    BY DEF HistoryInv, StructInv, Types
  <2>2. Len(History) <= Len(History') /\ Len(History) \in Nat /\ Len(History') \in Nat
    BY <1>2, <1>4 DEF Follows, Grown, HistoryFacts
  <2> QED
    BY <2>1, <2>2
<1>10. HistoryInv'
  BY <1>1, <1>7, <1>8, <1>9 DEF HistoryInv
<1>11. StoredHistory' = StoredHistory => LogStep
  BY <1>1, <1>3 DEF LogStep
<1> QED
  BY <1>2, <1>3, <1>10, <1>11

\* The worker that is at work is the only one.
LEMMA DirectAlone ==
  ASSUME HistoryInv, config.level = 0, NEW w \in Workers, pc[w] # "idle"
  PROVE  /\ \A u \in Workers \ {w} : pc[u] = "idle"
         /\ Directly(pc[w], work[w]) /\ work[w] \in Work /\ StructInv
         /\ head = None /\ persistTime = None
BY DEF HistoryInv, StructInv, Types, Work, DirectInv

LEMMA ChunksGrow == ASSUME StructInv, StoredHistory' = StoredHistory
                    PROVE  Grown(StoredHistory, StoredHistory')
<1>1. StoredFacts
  BY StoredIs DEF StructInv
<1> QED
  BY <1>1 DEF StoredFacts, Grown

LEMMA DirectStops ==
  ASSUME HistoryInv, StructInv', config.level = 0, NEW w \in Workers, pc[w] # "idle",
         Stop(w), UNCHANGED <<config, redis, version, acked>>, StoredHistory' = StoredHistory
  PROVE  HistoryInv' /\ LogStep
<1>1. pc' = [pc EXCEPT ![w] = "idle"] /\ work' = [work EXCEPT ![w] = NoWork]
  BY DEF Stop, Goto
<1>2. Directly("idle", NoWork) /\ "idle" \in PCs /\ NoWork \in Work
  BY NoWorkTyped DEF Directly, PCs
<1>3. \A u \in Workers \ {w} : pc[u] = "idle"
  BY DirectAlone
<1>4. Grown(StoredHistory, StoredHistory')
  BY ChunksGrow DEF HistoryInv
<1>5. UNCHANGED <<config, redis, version>> /\ \A r \in acked' : r \in acked
  OBVIOUS
<1> QED
  BY <1>1, <1>2, <1>3, <1>4, <1>5, DirectMoves

LEMMA DirectThrows ==
  ASSUME HistoryInv, StructInv', config.level = 0, NEW w \in Workers,
         pc[w] \notin {"idle", "expire"}, Throw(w),
         UNCHANGED <<config, redis>>, StoredHistory' = StoredHistory
  PROVE  HistoryInv' /\ LogStep
<1>1. ~work[w].forcing
  BY DirectAlone DEF Directly
<1> QED
  BY <1>1, DirectStops DEF Throw, clients

LEMMA DirectCommits ==
  ASSUME HistoryInv, StructInv', config.level = 0, NEW w \in Workers,
         \A u \in Workers \ {w} : pc[u] = "idle",
         NEW r \in Requests, version[r] # None, ToCommit(w, r, version[r]),
         UNCHANGED <<config, chunks, redis, version, acked>>
  PROVE  HistoryInv' /\ LogStep
<1> DEFINE x == [NoWork EXCEPT !.task = r, !.at = version[r], !.batch = Changes(r)]
<1>1. pc' = [pc EXCEPT ![w] = "load"] /\ work' = [work EXCEPT ![w] = x]
  BY DEF ToCommit, Goto
<1>2. version[r] \in Nat /\ Changes(r) \in Seq(Change)
  BY ChangesTyped DEF HistoryInv, StructInv, Types
<1>3. /\ x \in Work /\ x.task = r /\ x.at = version[r] /\ x.batch = Changes(r) /\ ~x.forcing
  BY <1>2, NoWorkTyped DEF Work
<1> HIDE DEF x
<1>4. Directly("load", x) /\ "load" \in PCs
  BY <1>3 DEF Directly, PCs
<1>5. StoredHistory' = StoredHistory /\ Grown(StoredHistory, StoredHistory')
  BY ChunksStay, ChunksGrow DEF HistoryInv
<1>6. UNCHANGED <<config, redis, version>> /\ \A q \in acked' : q \in acked
  OBVIOUS
<1> QED
  BY <1>1, <1>3, <1>4, <1>5, <1>6, DirectMoves

LEMMA DirectRequests ==
  ASSUME Quiet, HistoryInv, StructInv', config.level = 0, NEW w \in Workers,
         (\E r \in Requests : Send(w, r)) \/ ForceExpire(w) \/ Claim(w) \/ Crash(w)
         \/ CallFails(w)
  PROVE  HistoryInv' /\ LogStep
<1> USE DEF clients
<1>1. /\ HistoryInv /\ Types /\ \A u \in Workers : Directly(pc[u], work[u]) /\ Proper(pc[u], work[u])
      /\ head = None /\ persistTime = None
  BY DEF HistoryInv, StructInv, DirectInv
<1>2. CASE \E r \in Requests : Send(w, r)
  <2> PICK r \in Requests : Send(w, r)
    BY <1>2
  <2>1. /\ pc[w] = "idle" /\ version[r] # None /\ Alone(w)
        /\ UNCHANGED <<config, chunks, redis, version, acked>>
    BY DEF Send, Quiet
  <2>2. \A u \in Workers \ {w} : pc[u] = "idle"
    BY <1>1, <2>1 DEF Alone, Directly
  <2>3. CASE ~config.force
    BY <2>1, <2>2, <2>3, DirectCommits DEF Send
  <2>4. CASE config.force
    <3> DEFINE x == [work[w] EXCEPT !.task = r, !.forcing = TRUE]
    <3>1. work[w] \in Work
      BY <1>1 DEF Types, Work
    <3>2. pc' = [pc EXCEPT ![w] = "expire"] /\ work' = [work EXCEPT ![w] = x]
      <4>1. work' = [work EXCEPT ![w].task = r, ![w].forcing = TRUE]
            /\ pc' = [pc EXCEPT ![w] = "expire"]
        BY <2>4 DEF Send, Goto
      <4> QED
        BY <1>1, <3>1, <4>1 DEF Types
    <3>3. x \in Work /\ x.task = r
      BY <3>1 DEF Work
    <3> HIDE DEF x
    <3>4. Directly("expire", x) /\ "expire" \in PCs
      BY <2>1, <3>3 DEF Directly, PCs
    <3>5. StoredHistory' = StoredHistory /\ Grown(StoredHistory, StoredHistory')
      BY <2>1, ChunksStay, ChunksGrow DEF HistoryInv
    <3>6. UNCHANGED <<config, redis, version>> /\ \A q \in acked' : q \in acked
      BY <2>1
    <3> QED
      BY <2>2, <3>2, <3>3, <3>4, <3>5, <3>6, DirectMoves
  <2> QED
    BY <2>3, <2>4
<1>3. CASE ForceExpire(w)
  <2>1. pc[w] = "expire"
    BY <1>1, <1>3 DEF ForceExpire, Directly
  <2>2. /\ ToCommit(w, work[w].task, version[work[w].task])
        /\ UNCHANGED <<config, chunks, redis, version, acked>>
    BY <1>1, <1>3 DEF ForceExpire, Clean
  <2>3. work[w].task \in Requests /\ version[work[w].task] # None
    BY <1>1, <2>1 DEF Directly
  <2> QED
    BY <2>1, <2>2, <2>3, DirectAlone, DirectCommits
<1>4. CASE Claim(w)
  BY <1>1, <1>4 DEF Claim
<1>5. CASE Crash(w)
  BY <1>5, ChunksStay, DirectStops DEF Crash
<1>6. CASE CallFails(w)
  <2>1. /\ pc[w] # "idle" /\ Throw(w) /\ StoredHistory' = StoredHistory
        /\ UNCHANGED <<config, chunks, redis, version, acked>>
    BY <1>6, ChunksStay DEF CallFails, Throw
  <2>2. CASE pc[w] # "expire"
    BY <1>1, <2>1, <2>2, DirectThrows
  <2>3. CASE pc[w] = "expire"
    <3>1. /\ work[w].forcing /\ work[w].task \in Requests /\ version[work[w].task] # None
      BY <1>1, <2>3 DEF Directly, Proper
    <3>2. ToCommit(w, work[w].task, version[work[w].task])
      BY <2>1, <3>1 DEF Throw
    <3> QED
      BY <2>1, <3>1, <3>2, DirectAlone, DirectCommits
  <2> QED
    BY <2>2, <2>3
<1> QED
  BY <1>2, <1>3, <1>4, <1>5, <1>6

LEMMA DirectLoads ==
  ASSUME HistoryInv, StructInv', config.level = 0, NEW w \in Workers, Load(w)
  PROVE  HistoryInv' /\ LogStep
<1>1. /\ pc[w] = "load" /\ UNCHANGED <<config, chunks, redis>>
      /\ StoredHistory' = StoredHistory /\ Grown(StoredHistory, StoredHistory')
  BY ChunksStay, ChunksGrow DEF HistoryInv, Load
<1>2. CASE Throw(w)
  BY <1>1, <1>2, DirectThrows
<1>3. CASE ~Throw(w)
  <2> DEFINE y == work'[w]
             p == pc'[w]
             T == Target(work[w])
  <2>1. /\ Directly("load", work[w]) /\ work[w] \in Work /\ StructInv /\ HistoryFacts
        /\ StoredFacts /\ head = None
    BY <1>1, DirectAlone, FactsHold, StoredIs DEF StructInv
  <2>2. PICK r \in Requests : /\ r = work[w].task /\ version[r] # None
                              /\ work[w].at = version[r] /\ work[w].batch = Changes(r)
                              /\ ~work[w].forcing
    BY <2>1 DEF Directly
  <2>3. /\ T \in Seq(Change) /\ version[r] \in Nat /\ version[r] <= Len(History)
        /\ Len(T) = version[r] + Size[r] /\ Size[r] \in Nat
        /\ \A i \in 1..version[r] : T[i] = History[i]
        /\ Agrees(T, version[r], Changes(r))
    BY <2>1, <2>2, TargetIs
  <2>4. StoredEnd = version[r]
    BY <1>3, <2>1, <2>2, Loads DEF StoredEnd
  <2>5. Grown(StoredHistory, T)
    BY <2>1, <2>3, <2>4 DEF Grown, StoredFacts, HistoryFacts
  <2> HIDE DEF T
  <2>6. Len(Changes(r)) = Size[r]
    BY ChangesTyped
  <2>7. /\ Agrees(T, y.start, y.changes)
        /\ Agrees(T, y.start + Len(y.changes), y.batch)
        /\ p = "create" => Agrees(T, y.at, y.batch) /\ y.at = y.start + Len(y.changes)
        /\ y.start + Len(y.changes) + Len(y.batch) = work[w].at + Len(work[w].batch)
        /\ y.task = work[w].task /\ y.forcing = work[w].forcing
        /\ pc' = [pc EXCEPT ![w] = p] /\ p \in {"update", "create"}
        /\ y \in Work /\ work' = [work EXCEPT ![w] = y]
        /\ acked' = acked
    BY <1>3, <2>1, <2>2, <2>3, <2>5, LoadAgrees
  <2> HIDE DEF y, p
  <2>8. Target(y) = T
    BY <2>7 DEF Target, T
  <2>9. Directly(p, y) /\ p \in PCs
    <3>1. y.start + Len(y.changes) + Len(y.batch) = Len(T)
      BY <2>2, <2>3, <2>6, <2>7
    <3> QED
      BY <2>2, <2>5, <2>7, <2>8, <3>1 DEF Directly, PCs
  <2>10. \A u \in Workers \ {w} : pc[u] = "idle"
    BY <1>1, DirectAlone, SMTT(30)
  <2>11. UNCHANGED <<config, redis, version>> /\ \A q \in acked' : q \in acked
    BY <1>1, <1>3, <2>7 DEF Load, clients
  <2>12. Grown(StoredHistory', Target(y))
    BY <1>1, <2>5, <2>8
  <2> QED
    BY <1>1, <2>7, <2>9, <2>10, <2>11, <2>12, DirectMoves
<1> QED
  BY <1>2, <1>3

LEMMA DirectUploads ==
  ASSUME HistoryInv, StructInv', config.level = 0, NEW w \in Workers,
         Update(w) \/ Create(w) \/ Store(w)
  PROVE  HistoryInv' /\ LogStep
<1> USE DEF clients
<1>1. /\ pc[w] \in {"update", "create", "store"}
      /\ Directly(pc[w], work[w]) /\ work[w] \in Work /\ StructInv
      /\ \A u \in Workers \ {w} : pc[u] = "idle"
  <2>1. pc[w] \in {"update", "create", "store"}
    BY DEF Update, Create, Store
  <2> QED
    BY <2>1, DirectAlone
<1> DEFINE T == Target(work[w])
<1>2. /\ T \in Seq(Change) /\ Grown(StoredHistory, T)
      /\ work[w].at \in Nat /\ work[w].batch \in Seq(Change)
  <2>1. work[w].task \in Requests /\ version[work[w].task] # None
    BY <1>1 DEF Directly
  <2> QED
    BY <1>1, <2>1, TargetIs DEF Directly, Work
<1> HIDE DEF T
<1>3. CASE Store(w)
  <2>1. /\ pc[w] = "store" /\ pc' = [pc EXCEPT ![w] = "confirm"] /\ work' = work
        /\ UNCHANGED <<config, redis, version>> /\ \A q \in acked' : q \in acked
    BY <1>3 DEF Store, Goto
  <2>2. StoredHistory' = StoredHistory /\ Grown(StoredHistory, StoredHistory')
    BY <1>1, <1>3, StoreSame, ChunksGrow
  <2>3. Directly("confirm", work[w]) /\ "confirm" \in PCs
        /\ Grown(StoredHistory', Target(work[w]))
    BY <1>1, <1>2, <2>1, <2>2 DEF Directly, PCs, T
  <2>4. work' = [work EXCEPT ![w] = work[w]]
    BY <2>1 DEF HistoryInv, StructInv, Types
  <2> QED
    BY <1>1, <2>1, <2>2, <2>3, <2>4, DirectMoves
<1>4. CASE Update(w) \/ Create(w)
  <2>1. CASE Throw(w)
    <3>1. pc \in [Workers -> PCs]
      BY DEF HistoryInv, StructInv, Types
    <3>2. pc'[w] # "store"
      BY <2>1, <3>1 DEF Throw, ToCommit, Stop, Goto
    <3>3. ASSUME NEW k, NEW start, NEW t, NEW rest, NEW creating,
                 InsertPending(w, k, start, t, rest, creating)
          PROVE  FALSE
      <4>1. pc' = [pc EXCEPT ![w] = "store"]
        BY <3>3 DEF InsertPending, Goto
      <4> QED
        BY <3>1, <3>2, <4>1
    <3>4. UNCHANGED <<config, redis>> /\ UNCHANGED chunks
      BY <1>4, <3>2, <3>3 DEF Update, Create
    <3>5. pc[w] \notin {"idle", "expire"} /\ StoredHistory' = StoredHistory
      BY <1>1, <3>4, ChunksStay
    <3>6. UNCHANGED <<config, redis>>
      BY <3>4
    <3> QED
      BY <2>1, <3>5, <3>6, DirectThrows
  <2>2. CASE ~Throw(w)
    <3> DEFINE y == work'[w]
    <3>1. /\ StoredHistory' = StoredHistory
          /\ config' = config /\ UNCHANGED redis /\ acked' = acked /\ version' = version
          /\ pc' = [pc EXCEPT ![w] = "store"]
          /\ y \in Work /\ work' = [work EXCEPT ![w] = y]
          /\ y.task = work[w].task /\ y.forcing = work[w].forcing
          /\ pc[w] \in {"update", "create"}
          /\ pc[w] = "update" => /\ y.start = work[w].start /\ y.changes = work[w].changes
                                 /\ y.batch = work[w].batch
          /\ pc[w] = "create" =>
               /\ y.start = work[w].at
               /\ \E n \in Nat : /\ n <= Len(work[w].batch)
                                 /\ y.changes = First(work[w].batch, n)
                                 /\ y.batch = Rest(work[w].batch, n)
      BY <1>1, <1>4, <2>2, UploadsBegin
    <3> HIDE DEF y
    <3>2. Target(y) = T /\ y.task \in Requests /\ version[y.task] # None /\ ~y.forcing
      BY <1>1, <3>1 DEF Target, T, Directly
    <3>3. /\ Agrees(T, y.start, y.changes)
          /\ Agrees(T, y.start + Len(y.changes), y.batch)
          /\ y.start + Len(y.changes) + Len(y.batch) = Len(T)
      <4>1. CASE pc[w] = "update"
        BY <1>1, <3>1, <4>1 DEF Directly, T
      <4>2. CASE pc[w] = "create"
        <5> PICK at \in Nat, b \in Seq(Change) : at = work[w].at /\ b = work[w].batch
          BY <1>2
        <5>1. PICK n \in Nat : n <= Len(b) /\ y.changes = First(b, n) /\ y.batch = Rest(b, n)
          BY <3>1, <4>2
        <5>2. Agrees(T, at, b) /\ at + Len(b) = Len(T)
          BY <1>1, <4>2 DEF Directly, T
        <5>3. Agrees(T, at, First(b, n)) /\ Agrees(T, at + n, Rest(b, n))
          BY <1>2, <5>1, <5>2, AgreesSplits
        <5>4. Len(First(b, n)) = n
          BY <5>1, CutTyped
        <5>5. Len(Rest(b, n)) = Len(b) - n
          BY <5>1, CutTyped
        <5>6. at + n + (Len(b) - n) = Len(T)
          BY <5>2, SMTT(30)
        <5> QED
          BY <3>1, <4>2, <5>1, <5>3, <5>4, <5>5, <5>6
      <4> QED
        BY <3>1, <4>1, <4>2
    <3>4. Directly("store", y) /\ "store" \in PCs
      BY <1>2, <3>2, <3>3 DEF Directly, PCs
    <3>5. Grown(StoredHistory', Target(y)) /\ Grown(StoredHistory, StoredHistory')
      BY <1>1, <1>2, <3>1, <3>2, ChunksGrow
    <3>6. UNCHANGED <<config, redis, version>> /\ \A q \in acked' : q \in acked
      BY <3>1
    <3> QED
      BY <1>1, <3>1, <3>4, <3>5, <3>6, DirectMoves
  <2> QED
    BY <2>1, <2>2
<1> QED
  BY <1>3, <1>4

LEMMA DirectConfirms ==
  ASSUME HistoryInv, StructInv', config.level = 0, NEW w \in Workers, Confirm(w)
  PROVE  HistoryInv' /\ LogStep
<1> USE DEF clients
<1> DEFINE x == work[w]
           T == Target(x)
           y == [x EXCEPT !.at = x.start + Len(x.changes), !.start = 0, !.changes = <<>>,
                          !.old = 0, !.id = 0, !.creating = FALSE]
<1>1. /\ pc[w] = "confirm" /\ Directly("confirm", x) /\ x \in Work /\ StructInv /\ HistoryFacts
      /\ \A u \in Workers \ {w} : pc[u] = "idle"
      /\ StoredFacts /\ head = None /\ UNCHANGED <<config, redis>>
  <2>1. pc[w] = "confirm" /\ UNCHANGED <<config, redis>>
    BY DEF Confirm
  <2> QED
    BY <2>1, DirectAlone, FactsHold, StoredIs DEF StructInv
<1>2. CASE ~Confirmable(x)
  <2>1. Throw(w) /\ chunks' = chunks
    BY <1>2 DEF Confirm, Confirmable, Kept
  <2>2. pc[w] \notin {"idle", "expire"} /\ StoredHistory' = StoredHistory
    BY <1>1, <2>1, ChunksStay
  <2> QED
    BY <1>1, <2>1, <2>2, DirectThrows
<1>3. CASE Confirmable(x)
  <2>1. PICK r \in Requests : r = x.task /\ version[r] # None /\ ~x.forcing
    BY <1>1 DEF Directly
  <2>2. /\ T \in Seq(Change) /\ version[r] \in Nat /\ version[r] <= Len(History)
        /\ Len(T) = version[r] + Size[r] /\ Size[r] \in Nat
        /\ \A i \in 1..Size[r] : T[version[r] + i] = <<r, i>>
        /\ Agrees(T, version[r], Changes(r))
    BY <1>1, <2>1, TargetIs
  <2>3. /\ Grown(StoredHistory, T) /\ Agrees(T, x.start, x.changes)
        /\ Agrees(T, x.start + Len(x.changes), x.batch)
        /\ x.start + Len(x.changes) + Len(x.batch) = Len(T)
        /\ x.start \in Nat /\ x.changes \in Seq(Change) /\ x.batch \in Seq(Change)
    BY <1>1 DEF Directly, Work
  <2> HIDE DEF T
  <2>4. /\ Grown(StoredHistory', T) /\ StoredEnd' = x.start + Len(x.changes)
        /\ Grown(StoredHistory, StoredHistory')
    BY <1>3, <2>2, <2>3, ChunkFits
  <2>5. ASSUME HistoryInv', HistoryFacts', History' = StoredHistory', version' = version
        PROVE  LogStep
    <3>1. Grown(History, History') /\ Grown(History', T)
      BY <1>1, <2>4, <2>5, StoredIsHistory
    <3> QED
      BY <1>1, <2>2, <2>5, <3>1, LogGrows
  <2>6. CASE x.batch = <<>>
    <3>1. Answer(w)
      BY <1>3, <2>1, <2>6 DEF Confirm, Confirmable, Kept, Direct
    <3>2. /\ pc' = [pc EXCEPT ![w] = "idle"] /\ work' = [work EXCEPT ![w] = NoWork]
          /\ acked' = acked \cup {r} /\ version' = version
      BY <2>1, <3>1 DEF Answer, Stop, Goto
    <3>3. Directly("idle", NoWork) /\ "idle" \in PCs /\ NoWork \in Work
      BY NoWorkTyped DEF Directly, PCs
    <3>4. InHistory(r)'
      <4>1. (HistoryFacts /\ StoredFacts /\ head = None)' /\ StoredFacts'
        <5>1. Types' /\ Ordered' /\ (head = None)' /\ head' = None
          BY <1>1 DEF StructInv, redis
        <5>2. StoredFacts'
          BY <5>1, StoredIs, PTL
        <5>3. RedisInv'
          BY <1>1, <5>1 DEF RedisInv, HistoryInv, redis
        <5>4. HistoryFacts'
          BY <5>3, FactsHoldNext
        <5> QED
          BY <5>1, <5>2, <5>4
      <4>2. (History = StoredHistory)'
        BY <4>1, StoredIsHistory, PTL
      <4>3. Len(StoredHistory') = Len(T) /\ StoredHistory' \in Seq(Change)
        <5>1. Len(x.batch) = 0 /\ Len(x.changes) \in Nat
          BY <2>3, <2>6
        <5> QED
          BY <2>3, <2>4, <4>1, <5>1 DEF StoredFacts
      <4>4. History' = T
        BY <2>2, <2>4, <4>2, <4>3, SameSeq DEF Grown
      <4> QED
        BY <2>1, <2>2, <3>2, <4>4 DEF InHistory
    <3>5. \A q \in acked' : q \in acked \/ InHistory(q)'
      BY <3>2, <3>4
    <3>6. UNCHANGED <<config, redis, version>>
      BY <1>1, <3>2
    <3>7. HistoryInv' /\ HistoryFacts' /\ History' = StoredHistory'
      BY <1>1, <2>4, <3>2, <3>3, <3>5, <3>6, DirectMoves
    <3> QED
      BY <2>5, <3>2, <3>7
  <2>7. CASE x.batch # <<>>
    <3>1. /\ pc' = [pc EXCEPT ![w] = "create"] /\ work' = [work EXCEPT ![w] = y]
          /\ UNCHANGED <<config, redis, version>> /\ acked' = acked
      BY <1>1, <1>3, <2>7 DEF Confirm, Confirmable, Kept, Goto
    <3>2. /\ y \in Work /\ y.task = x.task /\ y.forcing = x.forcing /\ y.batch = x.batch
          /\ y.at = x.start + Len(x.changes)
      <4>1. x.start + Len(x.changes) \in Nat
        BY <2>3
      <4> QED
        BY <1>1, <4>1, EmptyIsSeq DEF Work
    <3> HIDE DEF y
    <3>3. Target(y) = T
      BY <3>2 DEF Target, T
    <3> HIDE DEF x
    <3>4. Grown(StoredHistory', Target(y)) /\ Grown(StoredHistory, Target(y))
      BY <2>3, <2>4, <3>3
    <3>5. Directly("create", y) /\ "create" \in PCs
      BY <2>1, <2>3, <3>2, <3>3, <3>4 DEF Directly, PCs
    <3>6. \A q \in acked' : q \in acked
      BY <3>1
    <3>7. HistoryInv' /\ HistoryFacts' /\ History' = StoredHistory'
      BY <1>1, <2>4, <3>1, <3>2, <3>4, <3>5, <3>6, DirectMoves
    <3> QED
      BY <2>5, <3>1, <3>7
  <2> QED
    BY <2>6, <2>7
<1> QED
  BY <1>2, <1>3

\* What leaves the workers alone.
LEMMA DirectAround ==
  ASSUME HistoryInv, StructInv', config.level = 0,
         DeleteOldChunks \/ Expire \/ Downgrade \/ UNCHANGED vars
  PROVE  HistoryInv' /\ LogStep
<1> USE DEF redis, clients
<1>1. head = None /\ StructInv
  BY DEF HistoryInv, DirectInv
<1>2. /\ StoredHistory' = StoredHistory /\ StoredEnd' = StoredEnd
      /\ UNCHANGED <<config, redis, pc, work, version, acked>>
  <2>1. CASE DeleteOldChunks
    BY <1>1, <2>1, DeleteSame DEF DeleteOldChunks
  <2>2. CASE UNCHANGED vars
    BY <2>2, ChunksStay DEF vars
  <2> QED
    BY <1>1, <2>1, <2>2 DEF Expire, Clean, Downgrade
<1>3. HistoryStill
  BY <1>2, RedisStays
<1>4. History' = History
  BY <1>3 DEF HistoryStill
<1>5. \A u \in Workers : Directly(pc[u], work[u])'
  <2>1. \A u \in Workers : Directly(pc[u], work[u])
    BY DEF HistoryInv, DirectInv
  <2> QED
    BY <1>2, <1>4, <2>1 DEF Directly, Target
<1>6. DirectInv'
  BY <1>2, <1>5 DEF HistoryInv, DirectInv
<1>7. \A r \in acked' : InHistory(r)'
  BY <1>2, <1>4 DEF HistoryInv, InHistory
<1>8. \A r \in Requests : version'[r] # None => version'[r] <= Len(History')
  BY <1>2, <1>4 DEF HistoryInv
<1>9. HistoryInv'
  BY <1>2, <1>3, <1>6, <1>7, <1>8 DEF HistoryInv, HistoryStill
<1> QED
  BY <1>2, <1>4, <1>9 DEF LogStep

LEMMA AskKeeps ==
  ASSUME HistoryInv, StructInv', NEW r \in Requests, Ask(r)
  PROVE  HistoryInv' /\ LogStep
<1> USE DEF redis
<1>1. /\ version[r] = None /\ version' = [version EXCEPT ![r] = Len(History)]
      /\ UNCHANGED <<config, chunks, redis, pc, work, acked>>
      /\ version \in [Requests -> Nat \cup {None}]
  BY DEF Ask, HistoryInv, StructInv, Types
<1>2. /\ \A q \in Requests : version[q] # None => version'[q] = version[q]
      /\ \A q \in Requests : version[q] # None \/ version'[q] = version[q] \/ version'[q] = Len(History)
  BY <1>1
<1>3. StoredEnd' = StoredEnd /\ StoredHistory' = StoredHistory
  BY <1>1, ChunksStay
<1>4. History' = History
  <2>1. Unpersisted(StoredEnd, 0)' = Unpersisted(StoredEnd, 0)
    BY <1>1, <1>3 DEF Unpersisted, OutOfBounds, BufferStart
  <2> QED
    BY <1>3, <2>1 DEF History
<1>5. RedisInv'
  BY <1>1, <1>3 DEF HistoryInv, RedisInv
<1>6. Follows
  <2>1. HistoryFacts
    BY FactsHold
  <2> QED
    BY <1>2, <1>3, <1>4, <2>1 DEF Follows, Grown, HistoryFacts
<1>7. \A q \in Requests : version'[q] # None => version[q] # None \/ version'[q] <= Len(History')
  <2>1. Len(History) \in Nat /\ None \notin Nat
    BY FactsHold, InputAssumption DEF HistoryFacts
  <2> QED
    BY <1>2, <1>4, <2>1
<1>8. LogStep
  <2>1. Abstract!Ask
    BY <1>1, <1>4 DEF Abstract!Ask
  <2> QED
    BY <2>1 DEF LogStep, Abstract!Next
<1>9. CASE config.level # 0
  <2>1. \A u \in Workers :
           /\ FromBuffer(pc'[u], work'[u]) \/ FromBuffer(pc[u], work[u])'
           /\ pc'[u] = "queue" /\ head' = None => head = None /\ StoredEnd' = StoredEnd
    <3> SUFFICES ASSUME NEW u \in Workers
                 PROVE  /\ FromBuffer(pc'[u], work'[u])
                        /\ head' = None => head = None /\ StoredEnd' = StoredEnd
      OBVIOUS
    <3> QED
      BY <1>1, <1>3, <1>9 DEF HistoryInv, BufferedInv
  <2>2. \A q \in acked' : q \in acked \/ InHistory(q)'
    BY <1>1
  <2>3. config' = config
    BY <1>1
  <2> QED
    BY <1>5, <1>6, <1>7, <1>9, <1>8, <2>1, <2>2, <2>3, BufferedFollows
<1>10. CASE config.level = 0
  <2>1. \A u \in Workers : Directly(pc[u], work[u])'
    <3> SUFFICES ASSUME NEW u \in Workers PROVE Directly(pc[u], work[u])'
      OBVIOUS
    <3>1. Directly(pc[u], work[u])
      BY <1>10 DEF HistoryInv, DirectInv
    <3>2. CASE pc[u] = "idle"
      BY <1>1, <3>2 DEF Directly
    <3>3. CASE pc[u] # "idle"
      <4>1. version'[work[u].task] = version[work[u].task] /\ version[work[u].task] # None
            /\ work[u].task \in Requests
        BY <1>2, <3>1, <3>3 DEF Directly
      <4>2. Target(work[u])' = Target(work[u])
        BY <1>1, <1>4, <4>1 DEF Target
      <4> HIDE DEF Target
      <4> QED
        BY <1>1, <1>3, <3>1, <4>1, <4>2 DEF Directly
    <3> QED
      BY <3>2, <3>3
  <2>2. DirectInv'
    BY <1>1, <1>10, <2>1 DEF HistoryInv, DirectInv
  <2>3. \A q \in acked' : InHistory(q)'
    <3>1. \A q \in acked : q \in Requests /\ InHistory(q)
      BY DEF HistoryInv, StructInv, Types
    <3> QED
      BY <1>1, <1>2, <1>4, <3>1 DEF InHistory
  <2>4. \A q \in Requests : version'[q] # None => version'[q] <= Len(History')
    BY <1>2, <1>4, <1>7 DEF HistoryInv
  <2>5. config'.level = 0 /\ StructInv'
    BY <1>1, <1>10
  <2> HIDE DEF redis
  <2> QED
    BY <1>5, <1>8, <2>2, <2>3, <2>4, <2>5 DEF HistoryInv
<1> QED
  BY <1>9, <1>10

LEMMA StepKeeps ==
  ASSUME Quiet, HistoryInv, StructInv', NEW w \in Workers, Step(w)
  PROVE  HistoryInv' /\ LogStep
<1>1. CASE config.level # 0
  BY <1>1, BufferedRequests, QueueKeeps, BufferedPersist, BufferedUploads DEF Step
<1>2. CASE config.level = 0
  <2>1. ~(ReadHead(w) \/ LoadHead(w) \/ Queue(w) \/ ReadMetadata(w) \/ Fetch(w)
          \/ SetVersion(w) \/ SetVersionAgain(w) \/ CloseJob(w))
    <3>1. Directly(pc[w], work[w])
      BY <1>2 DEF HistoryInv, DirectInv
    <3>2. pc[w] \in {"idle", "expire", "load", "update", "create", "store", "confirm"}
      BY <3>1 DEF Directly
    <3> QED
      BY <3>2 DEF ReadHead, LoadHead, Queue, ReadMetadata, Fetch, SetVersion,
                  SetVersionAgain, CloseJob
  <2> QED
    BY <1>2, <2>1, DirectRequests, DirectLoads, DirectUploads, DirectConfirms DEF Step
<1> QED
  BY <1>1, <1>2

LEMMA NextHistory == Quiet /\ HistoryInv /\ [Next]_vars => HistoryInv' /\ LogStep
<1> SUFFICES ASSUME Quiet, HistoryInv, [Next]_vars PROVE HistoryInv' /\ LogStep
  OBVIOUS
<1>1. StructInv'
  BY NextStruct DEF HistoryInv
<1>2. CASE \E r \in Requests : Ask(r)
  BY <1>1, <1>2, AskKeeps
<1>3. CASE \E w \in Workers : Step(w)
  BY <1>1, <1>3, StepKeeps
<1>4. CASE DeleteOldChunks \/ Expire \/ Downgrade \/ UNCHANGED vars
  <2>1. CASE config.level # 0
    BY <1>1, <1>4, <2>1, BufferedAround
  <2>2. CASE config.level = 0
    BY <1>1, <1>4, <2>2, DirectAround
  <2> QED
    BY <2>1, <2>2
<1> QED
  BY <1>2, <1>3, <1>4 DEF Next

LEMMA InitHistory == Quiet /\ Init => HistoryInv /\ Abstract!Init
<1> SUFFICES ASSUME Quiet, Init PROVE HistoryInv /\ Abstract!Init
  OBVIOUS
<1>1. StructInv
  BY InitStruct
<1>2. /\ head = None /\ persisted = None /\ buffer = <<>> /\ persistTime = None
      /\ \A w \in Workers : pc[w] = "idle" /\ work[w] = NoWork
      /\ version = [r \in Requests |-> None] /\ acked = {} /\ config \in Configs
  BY DEF Init
<1>3. RedisInv
  BY <1>2 DEF RedisInv
<1>4. \A w \in Workers : Directly(pc[w], work[w]) /\ FromBuffer(pc[w], work[w])
  BY <1>2, NoWorkTyped DEF Directly, FromBuffer
<1>5. HistoryInv
  BY <1>1, <1>2, <1>3, <1>4 DEF HistoryInv, DirectInv, BufferedInv, Quiet
<1>6. HistoryFacts /\ StoredFacts
  BY <1>1, <1>5, FactsHold, StoredIs DEF StructInv
<1>7. History = <<>>
  <2>1. StoredEnd = 0
    <3>1. /\ Latest \in ChunkIds /\ chunks[Latest].state = "active"
      BY <1>1, LatestActive DEF StructInv
    <3>2. chunks[Latest] = [Free EXCEPT !.state = "active", !.stored = TRUE]
      BY <3>1 DEF Init, Free
    <3>3. chunks[Latest].start = 0 /\ chunks[Latest].changes = <<>>
      BY <3>2 DEF Free
    <3> QED
      BY <3>3 DEF StoredEnd, EndOf
  <2>2. History \in Seq(Change) /\ Len(History) = 0
    BY <1>2, <1>6, <2>1 DEF HistoryFacts
  <2> QED
    BY <2>2
<1> QED
  BY <1>2, <1>5, <1>7 DEF Abstract!Init

\* When nothing that level 4 answered is forced out, no version is ever disputed.
LEMMA NothingDisputed ==
  ASSUME HistoryInv, disputed = None, [Next]_vars
  PROVE  disputed' = None
<1>1. CASE \E w \in Workers : Step(w)
  <2> PICK w \in Workers : Step(w)
    BY <1>1
  <2>1. disputed' = disputed \/ Throw(w)
    BY StepDisputes
  <2>2. config.level = 0 => head = None
    BY DEF HistoryInv, DirectInv
  <2> QED
    BY <2>1, <2>2 DEF Throw, OnlyInRedis
<1>2. CASE \/ \E r \in Requests : Ask(r)
           \/ DeleteOldChunks \/ Expire \/ Downgrade \/ UNCHANGED vars
  BY <1>2 DEF Ask, DeleteOldChunks, Expire, Downgrade, vars, clients
<1> QED
  BY <1>1, <1>2 DEF Next

\* Every request that was answered is in the history as a whole, at the version it was
\* made for, and no version is disputed, however persists, retries, failing calls,
\* crashes and expiry interleave: at one buffer level, or between levels 0 and 3, when
\* requests at level 0 do not overlap and no buffer expires under a request.
THEOREM AnswersKept == ASSUME Quiet PROVE Spec => [](AckedInHistory /\ disputed = None)
<1>1. HistoryInv => AckedInHistory
  <2> SUFFICES ASSUME HistoryInv, NEW r \in acked
               PROVE  /\ version[r] + Size[r] <= Len(History)
                      /\ SubSeq(History, version[r] + 1, version[r] + Size[r]) = Changes(r)
    BY DEF AckedInHistory
  <2>1. /\ r \in Requests /\ InHistory(r) /\ version[r] \in Nat
        /\ Changes(r) \in Seq(Change) /\ Len(Changes(r)) = Size[r] /\ Size[r] \in Nat
        /\ History \in Seq(Change)
    BY FactsHold, ChangesTyped DEF HistoryInv, StructInv, Types, InHistory, HistoryFacts
  <2>2. Agrees(History, version[r], Changes(r))
    BY <2>1 DEF InHistory
  <2>3. ASSUME NEW h \in Seq(Change), NEW c \in Seq(Change), NEW v \in Nat, NEW n \in Nat,
               n = Len(c), Agrees(h, v, c)
        PROVE  SubSeq(h, v + 1, v + n) = c
    <3> DEFINE s == SubSeq(h, v + 1, v + n)
    <3>1. s \in Seq(Change) /\ Len(s) = n /\ \A i \in 1..n : s[i] = h[v + i]
      BY <2>3 DEF Agrees
    <3>2. \A i \in 1..n : c[i] = s[i]
      BY <2>3, <3>1 DEF Agrees
    <3> HIDE DEF s
    <3>3. s = c
      BY <2>3, <3>1, <3>2, SameSeq
    <3> QED
      BY <3>3 DEF s
  <2> QED
    BY <2>1, <2>2, <2>3 DEF Agrees
<1> DEFINE Inv == HistoryInv /\ disputed = None
<1>2. Init => Inv
  BY InitHistory DEF Init
<1>3. Inv /\ [Next]_vars => Inv'
  BY NextHistory, NothingDisputed
<1>4. Inv => AckedInHistory /\ disputed = None
  BY <1>1
<1> QED
  BY <1>2, <1>3, <1>4, PTL DEF Spec

\* What Redis and the chunks both hold is the same, and Redis never claims to have
\* persisted what is in no chunk, whichever worker persists, under the same conditions.
THEOREM RedisAgrees == ASSUME Quiet PROVE Spec => []BufferAgrees
<1>1. HistoryInv => BufferAgrees
  <2> SUFFICES ASSUME HistoryInv, head # None
               PROVE  /\ persisted # None => persisted <= Len(StoredHistory) /\ persisted <= head
                      /\ \A v \in DOMAIN StoredHistory \cap (head - Len(buffer) + 1 .. head) :
                            buffer[v - (head - Len(buffer))] = StoredHistory[v]
    BY DEF BufferAgrees
  <2>1. /\ StoredFacts /\ RedisInv /\ head \in Nat /\ persisted \in Nat \cup {None}
        /\ Len(buffer) \in Nat
    BY StoredIs DEF HistoryInv, StructInv, Types
  <2>2. Len(StoredHistory) = StoredEnd /\ DOMAIN StoredHistory = 1..StoredEnd /\ StoredEnd \in Nat
    BY <2>1 DEF StoredFacts
  <2> QED
    BY <2>1, <2>2 DEF RedisInv
<1> QED
  BY <1>1, InitHistory, NextHistory, PTL DEF Spec

\* history-v1 implements the log: what it stores only grows, by changes of requests made
\* for exactly that version, under the same conditions.
THEOREM HistoryIsLog == ASSUME Quiet PROVE Spec => ImplementsHistoryLog
<1>1. HistoryInv /\ [Next]_vars =>
        [\/ UNCHANGED <<chunks, redis, version>>
         \/ disputed' # None
         \/ Abstract!Next]_(Abstract!vars)
  BY NextHistory DEF LogStep, Abstract!vars
<1> QED
  BY <1>1, InitHistory, NextHistory, PTL DEF Spec, ImplementsHistoryLog, Abstract!Spec
=============================================================================
