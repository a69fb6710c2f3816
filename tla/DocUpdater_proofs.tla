-------------------------- MODULE DocUpdater_proofs --------------------------
(***************************************************************************)
(* Proofs about DocUpdater for any number of workers, clients, updates and *)
(* requests, and for any set of faults, crashes included.                  *)
(***************************************************************************)
EXTENDS DocUpdater, SequenceTheorems, TLAPS

-----------------------------------------------------------------------------
(* Types *)

LEMMA AdvanceType ==
  ASSUME TypeOK, NEW w \in Workers, NEW batch \in Seq(Updates), Advance(w, batch)
  PROVE  pc' \in [Workers -> PCs] /\ job' \in [Workers -> Jobs]
<1> DEFINE j == [job[w] EXCEPT !.snap = <<>>, !.ops = <<>>, !.upd = None, !.batch = <<>>]
<1>0. job[w] \in Jobs
  BY DEF TypeOK
<1>a. <<>> \in Seq(Updates) /\ <<>> \in Seq(Ids) /\ <<>> \in Seq(Ops)
  OBVIOUS
<1>1. j \in Jobs
  BY <1>0, <1>a DEF Jobs
<1>2. CASE batch # <<>>
  <2>1. Head(batch) \in Updates /\ Tail(batch) \in Seq(Updates)
    BY <1>2
  <2>2. [j EXCEPT !.upd = Head(batch), !.batch = Tail(batch)] \in Jobs
    BY <1>1, <2>1 DEF Jobs
  <2> QED
    BY <1>2, <2>2 DEF Advance, Goto, TypeOK, PCs, Crit
<1>3. CASE batch = <<>>
  <2>1. [j EXCEPT !.own = TRUE] \in Jobs
    BY <1>1 DEF Jobs
  <2> QED
    BY <1>1, <1>3, <2>1 DEF Advance, Goto, TypeOK, PCs, Crit
<1> QED
  BY <1>2, <1>3

LEMMA HaveDocType ==
  ASSUME TypeOK, NEW w \in Workers, NEW text \in Seq(Ids), NEW hit \in BOOLEAN,
         HaveDoc(w, text, hit)
  PROVE  pc' \in [Workers -> PCs] /\ job' \in [Workers -> Jobs]
<1> DEFINE j == job[w]
           k == [j EXCEPT !.snap = <<>>, !.was = hit]
           u == [id |-> <<"http", j.req>>, src |-> "http", v |-> Len(text), dup |-> FALSE]
<1>1. j \in Jobs
  BY DEF TypeOK
<1>2. <<>> \in Seq(Ids)
  OBVIOUS
<1>3. [j EXCEPT !.snap = text] \in Jobs /\ [j EXCEPT !.snap = <<>>] \in Jobs
  BY <1>1, <1>2 DEF Jobs
<1>4. k \in Jobs
  BY <1>1, <1>2 DEF Jobs
<1>5. u \in Updates
  <2>1. <<"http", j.req>> \in Ids
    BY <1>1 DEF Jobs, Ids
  <2> QED
    BY <2>1 DEF Updates
<1>6. [k EXCEPT !.upd = u] \in Jobs
  BY <1>4, <1>5 DEF Jobs
<1>7. [j EXCEPT !.snap = <<>>, !.was = hit, !.upd = u] = [k EXCEPT !.upd = u]
  OBVIOUS
<1> QED
  BY <1>3, <1>4, <1>6, <1>7 DEF HaveDoc, Goto, TypeOK, PCs, Crit

LEMMA FailType ==
  ASSUME TypeOK, NEW w \in Workers, Fail(w)
  PROVE  /\ pc' \in [Workers -> PCs] /\ job' \in [Workers -> Jobs]
         /\ published' \in Seq(Messages)
<1>1. NoJob \in Jobs
  <2>1. <<>> \in Seq(Updates) /\ <<>> \in Seq(Ids) /\ <<>> \in Seq(Ops)
    OBVIOUS
  <2>2. 0 \in 0..MaxHttp
    BY DocUpdaterAssumption
  <2> QED
    BY <2>1, <2>2 DEF NoJob, Jobs, Tasks
<1>2. ErrorMessage \in Messages
  BY DEF ErrorMessage, Messages
<1> QED
  BY <1>1, <1>2 DEF Fail, Goto, TypeOK, PCs, Crit

LEMMA NoJobType == NoJob \in Jobs
<1>1. <<>> \in Seq(Updates) /\ <<>> \in Seq(Ids) /\ <<>> \in Seq(Ops)
  OBVIOUS
<1>2. 0 \in 0..MaxHttp
  BY DocUpdaterAssumption
<1> QED
  BY <1>1, <1>2 DEF NoJob, Jobs, Tasks

LEMMA AfterFlushType ==
  ASSUME TypeOK, NEW w \in Workers, AfterFlush(w)
  PROVE  pc' \in [Workers -> PCs] /\ job' \in [Workers -> Jobs]
<1>1. job[w] \in Jobs /\ <<>> \in Seq(Ids)
  BY DEF TypeOK
<1>2. [job[w] EXCEPT !.snap = <<>>] \in Jobs
  BY <1>1 DEF Jobs
<1> QED
  BY <1>2 DEF AfterFlush, Goto, TypeOK, PCs, Crit

LEMMA AppendLength ==
  ASSUME NEW S, NEW s \in Seq(S), NEW e, Append(s, e) \in Seq(S)
  PROVE  Len(Append(s, e)) = Len(s) + 1
OBVIOUS

LEMMA SubSeqLength ==
  ASSUME NEW S, NEW s \in Seq(S), NEW m \in 1..Len(s)
  PROVE  Len(SubSeq(s, m, Len(s))) = (Len(s) - m) + 1
OBVIOUS

LEMMA ConcatLength ==
  ASSUME NEW S, NEW s \in Seq(S), NEW t \in Seq(S)
  PROVE  Len(s \o t) = Len(s) + Len(t)
OBVIOUS

\* A concatenation with a sequence of one element.
LEMMA AppendOne ==
  ASSUME NEW S, NEW s \in Seq(S), NEW t \in Seq(S), Len(t) = 1
  PROVE  /\ Len(s \o t) = Len(s) + 1 /\ (s \o t)[Len(s) + 1] = t[1]
         /\ \A i \in 1..Len(s) : (s \o t)[i] = s[i]
<1> DEFINE n == Len(s)
           c == s \o t
<1>1. n \in Nat
  OBVIOUS
<1>2. Len(c) = n + 1
  BY ConcatProperties
<1>5. \A i \in 1..(n + 1) : c[i] = IF i <= n THEN s[i] ELSE t[i - n]
  <2>1. \A i \in 1..(Len(s) + Len(t)) :
          (s \o t)[i] = IF i <= Len(s) THEN s[i] ELSE t[i - Len(s)]
    BY ConcatProperties
  <2> QED
    BY <2>1
<1> HIDE DEF n, c
<1>3. c[n + 1] = t[1]
  <2>1. n + 1 \in 1..(n + 1) /\ ~(n + 1 <= n) /\ (n + 1) - n = 1
    BY <1>1
  <2>2. c[n + 1] = t[(n + 1) - n]
    BY <1>5, <2>1
  <2> QED
    BY <2>1, <2>2
<1>4. \A i \in 1..n : c[i] = s[i]
  BY <1>1, <1>5
<1> QED
  BY <1>2, <1>3, <1>4 DEF n, c

LEMMA LastEntriesType ==
  ASSUME NEW s \in Seq(Ops), NEW n \in Nat
  PROVE  /\ LastEntries(s, n) \in Seq(Ops)
         /\ Len(LastEntries(s, n)) = Lesser(n, Len(s))
         /\ \A i \in 1..Lesser(n, Len(s)) :
              LastEntries(s, n)[i] = s[i + (Len(s) - Lesser(n, Len(s)))]
<1> DEFINE k == Lesser(n, Len(s))
<1>1. Len(s) \in Nat /\ k \in 0..Len(s)
  BY DEF Lesser
<1>2. LastEntries(s, n) = SubSeq(s, (Len(s) - k) + 1, Len(s))
  BY DEF LastEntries
<1> HIDE DEF k
<1>3. /\ SubSeq(s, (Len(s) - k) + 1, Len(s)) \in Seq(Ops)
      /\ Len(SubSeq(s, (Len(s) - k) + 1, Len(s))) = k
      /\ \A i \in 1..k : SubSeq(s, (Len(s) - k) + 1, Len(s))[i] = s[i + (Len(s) - k)]
  BY <1>1
<1> QED
  BY <1>2, <1>3 DEF k

-----------------------------------------------------------------------------
(* The actions of the sessions and of Redis keep the types *)

LEMMA KnownVersionsType ==
  ASSUME TypeOK
  PROVE  KnownVersions \subseteq Nat
<1>1. ASSUME NEW i \in DOMAIN published PROVE published[i].v \in Nat
  <2>1. published[i] \in Messages
    BY DEF TypeOK
  <2> QED
    BY <2>1 DEF Messages
<1>2. Log \in Seq(Ids)
  BY DEF TypeOK, Log
<1> QED
  BY <1>1, <1>2 DEF KnownVersions

LEMMA PushType ==
  ASSUME TypeOK, NEW u \in Updates, Push(u)
  PROVE  pending' \in Seq(Updates) /\ unnotified' \in Nat /\ notes' \in Nat
BY DEF Push, TypeOK

LEMMA ClientType ==
  ASSUME TypeOK, NEW c \in Clients, Client(c)
  PROVE  TypeOK'
<1> DEFINE s == session[c]
<1>0. s \in Sessions
  BY DEF TypeOK
<1>1. CASE ClientSend(c)
  <2>1. PICK v \in KnownVersions :
          /\ Push([id |-> <<c, s.n + 1>>, src |-> c, v |-> v, dup |-> FALSE])
          /\ session' = [session EXCEPT ![c] =
               [st |-> "waiting", n |-> s.n + 1, base |-> v, sends |-> 1]]
    BY <1>1 DEF ClientSend
  <2>2. [id |-> <<c, s.n + 1>>, src |-> c, v |-> v, dup |-> FALSE] \in Updates
    BY <1>0, <1>1, KnownVersionsType, DocUpdaterAssumption
    DEF ClientSend, Updates, Ids, Sessions
  <2>3. pending' \in Seq(Updates) /\ unnotified' \in Nat /\ notes' \in Nat
    BY <2>1, <2>2, PushType
  <2>4. [st |-> "waiting", n |-> s.n + 1, base |-> v, sends |-> 1] \in Sessions
    BY <1>0, <1>1, KnownVersionsType, DocUpdaterAssumption DEF ClientSend, Sessions
  <2>5. session' \in [Clients -> Sessions]
    BY <2>1, <2>4 DEF TypeOK
  <2> QED
    BY <1>1, <2>3, <2>5 DEF ClientSend, TypeOK, redisVars, outVars, workerVars
<1>2. CASE ClientResend(c)
  <2>1. Push([id |-> <<c, s.n>>, src |-> c, v |-> s.base, dup |-> TRUE])
    BY <1>2 DEF ClientResend
  <2>2. [id |-> <<c, s.n>>, src |-> c, v |-> s.base, dup |-> TRUE] \in Updates
    BY <1>0 DEF Updates, Ids, Sessions
  <2>3. pending' \in Seq(Updates) /\ unnotified' \in Nat /\ notes' \in Nat
    BY <2>1, <2>2, PushType
  <2>4. [s EXCEPT !.sends = @ + 1] \in Sessions
    BY <1>0, <1>2, DocUpdaterAssumption DEF ClientResend, Sessions
  <2>5. session' \in [Clients -> Sessions]
    BY <1>2, <2>4 DEF ClientResend, TypeOK
  <2> QED
    BY <1>2, <2>3, <2>5 DEF ClientResend, TypeOK, redisVars, outVars, workerVars
<1>3. CASE ClientAck(c)
  <2>1. PICK i \in DOMAIN published :
          session' = [session EXCEPT ![c] =
            [st |-> "ready", n |-> s.n, base |-> published[i].v + 1, sends |-> 0]]
    BY <1>3 DEF ClientAck
  <2>2. published[i] \in Messages /\ published[i].v \in Nat
    <3>1. published[i] \in Messages
      BY DEF TypeOK
    <3> QED
      BY <3>1 DEF Messages
  <2>3. [st |-> "ready", n |-> s.n, base |-> published[i].v + 1, sends |-> 0] \in Sessions
    BY <1>0, <2>2, DocUpdaterAssumption DEF Sessions
  <2>4. session' \in [Clients -> Sessions]
    BY <2>1, <2>3 DEF TypeOK
  <2> QED
    BY <1>3, <2>4 DEF ClientAck, TypeOK, queueVars, redisVars, outVars, workerVars
<1>4. CASE ClientGone(c)
  <2>1. [s EXCEPT !.st = "gone"] \in Sessions
    BY <1>0 DEF Sessions
  <2>2. session' \in [Clients -> Sessions]
    BY <1>4, <2>1 DEF ClientGone, TypeOK
  <2> QED
    BY <1>4, <2>2 DEF ClientGone, TypeOK, queueVars, redisVars, outVars, workerVars
<1> QED
  BY <1>1, <1>2, <1>3, <1>4 DEF Client

-----------------------------------------------------------------------------
(* So do the steps of a worker *)

LEMMA WorkerType ==
  ASSUME TypeOK, NEW w \in Workers,
         pc[w] = "shareJs" => job[w].upd # None,
         TakeNotification(w) \/ HttpRequest(w) \/ Step(w) \/ Failure(w)
  PROVE  TypeOK'
<1> DEFINE j == job[w]
<1> USE DEF queueVars, redisVars, outVars, workerVars
<1>0. /\ j \in Jobs /\ NoJob \in Jobs
      /\ j.snap \in Seq(Ids) /\ j.ops \in Seq(Ops) /\ j.batch \in Seq(Updates)
      /\ j.upd \in Updates \cup {None}
  <2>1. j \in Jobs
    BY DEF TypeOK
  <2> QED
    BY <2>1, NoJobType DEF Jobs
<1>1. CASE TakeNotification(w)
  <2>1. [j EXCEPT !.task = "dispatch"] \in Jobs
    BY <1>0 DEF Jobs, Tasks
  <2> QED
    BY <1>1, <2>1 DEF TakeNotification, TypeOK, Goto, PCs
<1>2. CASE HttpRequest(w)
  <2>1. PICK m \in Methods :
          job' = [job EXCEPT ![w] = [j EXCEPT !.task = m, !.req = requests + 1]]
    BY <1>2 DEF HttpRequest
  <2>2. requests + 1 \in 0..MaxHttp
    <3>1. requests \in 0..MaxHttp /\ requests < MaxHttp
      BY <1>2 DEF HttpRequest, TypeOK
    <3> QED
      BY <3>1, DocUpdaterAssumption
  <2>3. [j EXCEPT !.task = m, !.req = requests + 1] \in Jobs
    BY <1>0, <2>2 DEF Jobs, Tasks
  <2>4. job' \in [Workers -> Jobs]
    BY <2>1, <2>3 DEF TypeOK
  <2> QED
    BY <1>2, <2>2, <2>4 DEF HttpRequest, TypeOK, Goto, PCs
<1>3. CASE Acquire(w) \/ AcquireSlowly(w) \/ FreeSlowLock(w) \/ GiveUpLock(w) \/ Crash(w)
  BY <1>0, <1>3
  DEF Acquire, AcquireSlowly, FreeSlowLock, GiveUpLock, Crash, TypeOK, Goto, PCs, Crit
<1>4. CASE Fetch(w)
  <2> DEFINE n == Lesser(BatchMax, Len(pending))
  <2>1. /\ SubSeq(pending, 1, n) \in Seq(Updates)
        /\ SubSeq(pending, n + 1, Len(pending)) \in Seq(Updates)
    BY DocUpdaterAssumption DEF TypeOK, Lesser
  <2>2. pc' \in [Workers -> PCs] /\ job' \in [Workers -> Jobs]
    BY <1>4, <2>1, AdvanceType DEF Fetch
  <2> QED
    BY <1>4, <2>1, <2>2 DEF Fetch, TypeOK
<1>5. CASE ReadDoc(w)
  <2>1. CASE loaded
    <3>1. HaveDoc(w, lines, TRUE)
      BY <1>5, <2>1 DEF ReadDoc
    <3>2. pc' \in [Workers -> PCs] /\ job' \in [Workers -> Jobs]
      BY <3>1, HaveDocType DEF TypeOK
    <3> QED
      BY <1>5, <3>2 DEF ReadDoc, TypeOK
  <2>2. CASE ~loaded
    BY <1>5, <2>2 DEF ReadDoc, TypeOK, Goto, PCs, Crit
  <2> QED
    BY <2>1, <2>2
<1>6. CASE LoadDoc(w)
  <2>1. [j EXCEPT !.snap = mongo] \in Jobs
    BY <1>0 DEF Jobs, TypeOK
  <2> QED
    BY <1>6, <2>1 DEF LoadDoc, TypeOK, Goto, PCs, Crit
<1>7. CASE PutDoc(w)
  <2>1. HaveDoc(w, j.snap, FALSE)
    BY <1>7 DEF PutDoc
  <2>2. pc' \in [Workers -> PCs] /\ job' \in [Workers -> Jobs]
    BY <1>0, <2>1, HaveDocType
  <2> QED
    BY <1>0, <1>7, <2>2 DEF PutDoc, TypeOK
<1>8. CASE ReadFails(w) \/ Reject(w) \/ CheckFails(w) \/ SnapshotFails(w) \/ PersistFails(w)
  <2>1. Fail(w)
    BY <1>8 DEF ReadFails, Reject, CheckFails, SnapshotFails, PersistFails
  <2>2. /\ pc' \in [Workers -> PCs] /\ job' \in [Workers -> Jobs]
        /\ published' \in Seq(Messages)
    BY <2>1, FailType
  <2> QED
    BY <1>8, <2>2 DEF ReadFails, Reject, CheckFails, SnapshotFails, PersistFails, TypeOK
<1>9. CASE Duplicate(w) \/ Apply(w) \/ ApplyFails(w)
  <2>1. j.upd \in Updates
    BY <1>0, <1>9 DEF Duplicate, Apply, ApplyFails
  <2>2. j.upd.id \in Ids /\ j.upd.src \in Clients \cup {"http"} /\ j.upd.v \in Nat
    BY <2>1 DEF Updates
  <2>3. published \in Seq(Messages)
    BY DEF TypeOK
  <2>4. CASE Duplicate(w)
    <3>1. PICK i \in DOMAIN OpsSince(j.upd.v) :
            published' = Append(published,
                           [kind |-> "dup", id |-> j.upd.id, v |-> j.upd.v + i - 1])
      BY <2>4 DEF Duplicate
    <3>2. i \in Nat \ {0}
      BY <3>1 DEF OpsSince, FirstVersion, TypeOK
    <3>3. [kind |-> "dup", id |-> j.upd.id, v |-> j.upd.v + i - 1] \in Messages
      BY <2>2, <3>2 DEF Messages
    <3>4. published' \in Seq(Messages)
      BY <2>3, <3>1, <3>3
    <3> QED
      BY <2>4, <3>4 DEF Duplicate, TypeOK, Goto, PCs, Crit
  <2>5. CASE Apply(w)
    <3> DEFINE v == Len(j.snap)
               op == [id |-> j.upd.id, src |-> j.upd.src, v |-> v]
    <3>1. v \in Nat
      BY <1>0
    <3>2. [kind |-> "op", id |-> j.upd.id, v |-> v] \in Messages
      BY <2>2, <3>1 DEF Messages
    <3>3. published' \in Seq(Messages)
      BY <2>3, <2>5, <3>2 DEF Apply
    <3>4. op \in Ops
      BY <2>2, <3>1 DEF Ops
    <3>5. <<op>> \in Seq(Ops) /\ Append(j.snap, j.upd.id) \in Seq(Ids)
      BY <1>0, <2>2, <3>4
    <3>6. [j EXCEPT !.snap = Append(@, j.upd.id), !.ops = <<op>>] \in Jobs
      BY <1>0, <3>5 DEF Jobs
    <3>7. job' \in [Workers -> Jobs]
      BY <2>5, <3>6 DEF Apply, TypeOK
    <3> QED
      BY <2>5, <3>3, <3>7 DEF Apply, TypeOK, Goto, PCs, Crit
  <2>6. CASE ApplyFails(w)
    <3>1. [kind |-> "op", id |-> j.upd.id, v |-> Len(j.snap)] \in Messages
      BY <1>0, <2>2 DEF Messages
    <3>2. ErrorMessage \in Messages
      BY DEF ErrorMessage, Messages
    <3>3. published' \in Seq(Messages)
      BY <2>3, <2>6, <3>1, <3>2 DEF ApplyFails
    <3> QED
      BY <1>0, <2>6, <3>3 DEF ApplyFails, TypeOK, Goto, PCs, Crit
  <2> QED
    BY <1>9, <2>4, <2>5, <2>6
<1>11. CASE Check(w)
  BY <1>11 DEF Check, TypeOK, Goto, PCs, Crit
<1>12. CASE Write(w)
  <2>1. LastEntries(docOps, DocOpsMax) \o j.ops \in Seq(Ops)
    <3>1. docOps \in Seq(Ops)
      BY DEF TypeOK
    <3>2. LastEntries(docOps, DocOpsMax) \in Seq(Ops)
      BY <3>1, LastEntriesType, DocUpdaterAssumption
    <3> QED
      BY <1>0, <3>2
  <2>2. pc' \in [Workers -> PCs] /\ job' \in [Workers -> Jobs]
    <3>1. CASE j.ops = <<>>
      BY <1>0, <1>12, <3>1, AdvanceType DEF Write
    <3>2. CASE j.ops # <<>>
      BY <1>12, <3>2 DEF Write, TypeOK, Goto, PCs, Crit
    <3> QED
      BY <3>1, <3>2
  <2> QED
    BY <1>0, <1>12, <2>1, <2>2 DEF Write, TypeOK
<1>13. CASE QueueOps(w)
  <2>1. history' \in Seq(Ops)
    <3>1. history \in Seq(Ops)
      BY DEF TypeOK
    <3>2. history \o j.ops \in Seq(Ops)
      BY <1>0, <3>1
    <3> QED
      BY <1>13, <3>1, <3>2 DEF QueueOps
  <2>2. pc' \in [Workers -> PCs] /\ job' \in [Workers -> Jobs]
    <3>1. CASE Advance(w, j.batch)
      BY <1>0, <3>1, AdvanceType
    <3>2. CASE Goto(w, "snapshot") /\ UNCHANGED job
      BY <3>2 DEF TypeOK, Goto, PCs, Crit
    <3> QED
      BY <1>13, <3>1, <3>2 DEF QueueOps
  <2> QED
    BY <1>13, <2>1, <2>2 DEF QueueOps, TypeOK
<1>14. CASE Snapshot(w)
  <2>1. pc' \in [Workers -> PCs] /\ job' \in [Workers -> Jobs]
    BY <1>0, <1>14, AdvanceType DEF Snapshot
  <2> QED
    BY <1>14, <2>1 DEF Snapshot, TypeOK
<1>15. CASE Flush(w)
  <2>1. [j EXCEPT !.snap = lines] \in Jobs
    BY <1>0 DEF Jobs, TypeOK
  <2>2. pc' \in [Workers -> PCs] /\ job' \in [Workers -> Jobs]
    <3>1. CASE loaded /\ unflushed
      BY <1>15, <2>1, <3>1 DEF Flush, TypeOK, Goto, PCs, Crit
    <3>2. CASE ~(loaded /\ unflushed)
      BY <1>15, <3>2, AfterFlushType DEF Flush
    <3> QED
      BY <3>1, <3>2
  <2> QED
    BY <1>15, <2>2 DEF Flush, TypeOK
<1>16. CASE Persist(w)
  BY <1>0, <1>16 DEF Persist, TypeOK, Goto, PCs, Crit
<1>17. CASE ClearUnflushed(w)
  <2>1. pc' \in [Workers -> PCs] /\ job' \in [Workers -> Jobs]
    BY <1>17, AfterFlushType DEF ClearUnflushed
  <2> QED
    BY <1>17, <2>1 DEF ClearUnflushed, TypeOK
<1>18. CASE Remove(w)
  <2>1. lines' \in Seq(Ids)
    BY <1>18 DEF Remove
  <2> QED
    BY <1>18, <2>1 DEF Remove, TypeOK, Goto, PCs, Crit
<1>19. CASE Release(w)
  BY <1>0, <1>19 DEF Release, TypeOK, Goto, PCs, Crit
<1>20. CASE LookAgain(w)
  <2>1. [j EXCEPT !.task = "dispatch"] \in Jobs
    BY <1>0 DEF Jobs, Tasks
  <2> QED
    BY <1>20, <2>1 DEF LookAgain, TypeOK, Goto, PCs
<1> QED
  BY <1>1, <1>2, <1>3, <1>4, <1>5, <1>6, <1>7, <1>8, <1>9, <1>11, <1>12, <1>13,
     <1>14, <1>15, <1>16, <1>17, <1>18, <1>19, <1>20
  DEF Step, Failure

-----------------------------------------------------------------------------
(* The lock *)

\* The steps a worker takes inside the locked section, the release excepted.
LockedStep(w) ==
  \/ Fetch(w) \/ ReadDoc(w) \/ LoadDoc(w) \/ PutDoc(w) \/ ReadFails(w)
  \/ Reject(w) \/ Duplicate(w) \/ Apply(w) \/ ApplyFails(w)
  \/ Check(w) \/ CheckFails(w) \/ Write(w) \/ QueueOps(w)
  \/ Snapshot(w) \/ SnapshotFails(w)
  \/ Flush(w) \/ Persist(w) \/ PersistFails(w) \/ ClearUnflushed(w) \/ Remove(w)

\* The steps outside it, the release included.
FreeStep(w) ==
  \/ TakeNotification(w) \/ HttpRequest(w) \/ Acquire(w) \/ AcquireSlowly(w)
  \/ FreeSlowLock(w) \/ GiveUpLock(w) \/ Release(w) \/ LookAgain(w) \/ Crash(w)

LEMMA NextCases ==
  ASSUME Next
  PROVE  \/ \E c \in Clients : Client(c)
         \/ Notify \/ LockExpires \/ DocOpsExpire
         \/ \E w \in Workers : LockedStep(w) \/ FreeStep(w)
BY DEF Next, Step, Failure, LockedStep, FreeStep

\* A locked step leaves its worker in the section and the lock alone.
LEMMA LockedStepStays ==
  ASSUME NEW w \in Workers, LockedStep(w)
  PROVE  /\ InCrit(w) /\ lock' = lock
         /\ \E p \in Crit : pc' = [pc EXCEPT ![w] = p]
<1> USE DEF Goto, Crit, InCrit
<1>1. ASSUME NEW b, Advance(w, b)
      PROVE  \E p \in Crit : pc' = [pc EXCEPT ![w] = p]
  BY <1>1 DEF Advance
<1>2. ASSUME NEW t, NEW h, HaveDoc(w, t, h)
      PROVE  \E p \in Crit : pc' = [pc EXCEPT ![w] = p]
  BY <1>2 DEF HaveDoc
<1>3. Fail(w) => \E p \in Crit : pc' = [pc EXCEPT ![w] = p]
  BY DEF Fail
<1>4. AfterFlush(w) => \E p \in Crit : pc' = [pc EXCEPT ![w] = p]
  BY DEF AfterFlush
<1>5. CASE Fetch(w) \/ Snapshot(w)
  BY <1>1, <1>5 DEF Fetch, Snapshot
<1>6. CASE ReadDoc(w) \/ PutDoc(w)
  BY <1>2, <1>6 DEF ReadDoc, PutDoc
<1>7. CASE ReadFails(w) \/ Reject(w) \/ CheckFails(w) \/ SnapshotFails(w) \/ PersistFails(w)
  BY <1>3, <1>7 DEF ReadFails, Reject, CheckFails, SnapshotFails, PersistFails
<1>8. CASE LoadDoc(w) \/ Duplicate(w) \/ Apply(w) \/ ApplyFails(w) \/ Check(w)
           \/ Persist(w) \/ Remove(w)
  BY <1>8 DEF LoadDoc, Duplicate, Apply, ApplyFails, Check, Persist, Remove
<1>9. CASE Write(w) \/ QueueOps(w)
  BY <1>1, <1>9 DEF Write, QueueOps
<1>10. CASE Flush(w) \/ ClearUnflushed(w)
  BY <1>4, <1>10 DEF Flush, ClearUnflushed
<1> QED
  BY <1>5, <1>6, <1>7, <1>8, <1>9, <1>10 DEF LockedStep

LEMMA LockStep ==
  ASSUME TypeOK, LockHeld, [Next]_vars
  PROVE  LockHeld'
<1> USE DEF LockHeld
<1>1. CASE UNCHANGED vars
  BY <1>1 DEF vars, workerVars
<1>2. CASE \/ \E c \in Clients : Client(c)
           \/ Notify \/ DocOpsExpire
  <2>1. UNCHANGED <<lock, pc>>
    BY <1>2 DEF Client, ClientSend, ClientResend, ClientAck, ClientGone, Notify,
                DocOpsExpire, workerVars
  <2> QED
    BY <2>1
<1>3. CASE LockExpires
  BY <1>3, DocUpdaterAssumption DEF LockExpires, workerVars, TypeOK
<1>4. ASSUME NEW w \in Workers, LockedStep(w)
      PROVE  LockHeld'
  <2>1. InCrit(w) /\ lock' = lock
    BY <1>4, LockedStepStays
  <2>2. PICK p \in Crit : pc' = [pc EXCEPT ![w] = p]
    BY <1>4, LockedStepStays
  <2>3. lock = w
    BY <2>1 DEF InCrit
  <2> QED
    BY <2>1, <2>2, <2>3 DEF TypeOK
<1>5. ASSUME NEW w \in Workers, FreeStep(w)
      PROVE  LockHeld'
  <2> USE DEF Goto, TypeOK
  <2>1. CASE Acquire(w) \/ AcquireSlowly(w)
    BY <2>1, DocUpdaterAssumption DEF Acquire, AcquireSlowly, Crit
  <2>2. CASE FreeSlowLock(w) \/ Release(w)
    BY <2>2, DocUpdaterAssumption DEF FreeSlowLock, Release, Crit
  <2>3. CASE TakeNotification(w) \/ HttpRequest(w) \/ GiveUpLock(w) \/ LookAgain(w) \/ Crash(w)
    BY <2>3 DEF TakeNotification, HttpRequest, GiveUpLock, LookAgain, Crash, Crit
  <2> QED
    BY <1>5, <2>1, <2>2, <2>3 DEF FreeStep
<1> QED
  BY <1>1, <1>2, <1>3, <1>4, <1>5, NextCases

-----------------------------------------------------------------------------
(* The copies of the document a task works with *)

\* The places where CopyCurrent says something of a worker.
Using == {"getDoc", "load", "put", "shareJs", "check", "write", "persist", "clear", "remove"}

LEMMA NotUsing ==
  ASSUME NEW w \in Workers, pc'[w] \notin Using
  PROVE  CopyCurrentOf(w)'
BY DEF CopyCurrentOf, Using

LEMMA CopyUntouched ==
  ASSUME NEW w \in Workers, CopyCurrentOf(w), UNCHANGED <<loaded, lines, mongo>>,
         pc'[w] = pc[w], job'[w] = job[w]
  PROVE  CopyCurrentOf(w)'
BY DEF CopyCurrentOf

\* While one worker is in the locked section the others are not.
LEMMA OthersOut ==
  ASSUME TypeOK, LockHeld, NEW w \in Workers, LockedStep(w)
  PROVE  \A x \in Workers \ {w} : pc'[x] \notin Crit
<1>1. InCrit(w)
  BY LockedStepStays
<1>2. PICK p \in Crit : pc' = [pc EXCEPT ![w] = p]
  BY LockedStepStays
<1>3. ASSUME NEW x \in Workers \ {w} PROVE pc'[x] = pc[x]
  BY <1>2 DEF TypeOK
<1> QED
  BY <1>1, <1>3 DEF LockHeld, InCrit

\* After an update, a worker reads the document again, flushes it or releases.
LEMMA AdvanceLeaves ==
  ASSUME TypeOK, NEW w \in Workers, NEW b, Advance(w, b)
  PROVE  CopyCurrentOf(w)'
<1>1. pc'[w] \in {"getDoc", "flush", "release"}
  BY DEF Advance, Goto, TypeOK
<1> DEFINE j == [job[w] EXCEPT !.snap = <<>>, !.ops = <<>>, !.upd = None, !.batch = <<>>]
<1>0. job[w] \in Jobs
  BY DEF TypeOK
<1>a. j.ops = <<>> /\ DOMAIN j = DOMAIN job[w] /\ "ops" \in DOMAIN j
  BY <1>0 DEF Jobs
<1>b. \/ job' = [job EXCEPT ![w] = [j EXCEPT !.upd = Head(b), !.batch = Tail(b)]]
      \/ job' = [job EXCEPT ![w] = [j EXCEPT !.own = TRUE]]
      \/ job' = [job EXCEPT ![w] = j]
  BY DEF Advance
<1>c. \/ job'[w] = [j EXCEPT !.upd = Head(b), !.batch = Tail(b)]
      \/ job'[w] = [j EXCEPT !.own = TRUE]
      \/ job'[w] = j
  BY <1>b DEF TypeOK
<1> HIDE DEF j
<1>2. job'[w].ops = <<>>
  BY <1>a, <1>c
<1> QED
  BY <1>1, <1>2 DEF CopyCurrentOf

LEMMA FailLeaves ==
  ASSUME TypeOK, NEW w \in Workers, Fail(w)
  PROVE  CopyCurrentOf(w)'
<1>1. pc'[w] = "releaseErr"
  BY DEF Fail, Goto, TypeOK
<1> QED
  BY <1>1 DEF CopyCurrentOf

LEMMA HaveDocCurrent ==
  ASSUME TypeOK, NEW w \in Workers, NEW text, NEW hit, HaveDoc(w, text, hit),
         loaded', lines' = text, job[w].ops = <<>>
  PROVE  CopyCurrentOf(w)'
<1>0. job'[w].ops = <<>>
  BY DEF HaveDoc, TypeOK, Jobs
<1>1. CASE pc'[w] = "shareJs"
  <2>1. job[w].upd # None /\ job' = [job EXCEPT ![w].snap = text]
    BY <1>1 DEF HaveDoc, Goto, TypeOK
  <2>2. job'[w].snap = text /\ job'[w].upd = job[w].upd
    BY <2>1 DEF TypeOK, Jobs
  <2> QED
    BY <1>0, <1>1, <2>1, <2>2 DEF CopyCurrentOf
<1>2. CASE pc'[w] # "shareJs"
  <2>1. pc'[w] \in {"release", "flush", "getDoc"}
    BY <1>2 DEF HaveDoc, Goto, TypeOK
  <2> QED
    BY <1>0, <2>1 DEF CopyCurrentOf
<1> QED
  BY <1>1, <1>2

LEMMA AfterFlushCurrent ==
  ASSUME TypeOK, NEW w \in Workers, AfterFlush(w), loaded' => mongo' = lines'
  PROVE  CopyCurrentOf(w)'
<1>1. pc'[w] \in {"remove", "release"}
  BY DEF AfterFlush, Goto, TypeOK
<1> QED
  BY <1>1 DEF CopyCurrentOf

LEMMA LockedStepCurrent ==
  ASSUME TypeOK, CleanCopyIsSaved, NEW w \in Workers, CopyCurrentOf(w), LockedStep(w)
  PROVE  CopyCurrentOf(w)' /\ CleanCopyIsSaved'
<1> DEFINE j == job[w]
<1> USE DEF queueVars, redisVars, outVars, workerVars
<1>0. j \in Jobs /\ pc \in [Workers -> PCs]
  BY DEF TypeOK
<1>1. CASE Fetch(w) \/ Snapshot(w) \/ QueueOps(w)
  <2>1. CopyCurrentOf(w)'
    <3>1. CASE \E b : Advance(w, b)
      BY <3>1, AdvanceLeaves
    <3>2. CASE Goto(w, "snapshot")
      BY <1>0, <3>2 DEF Goto, CopyCurrentOf
    <3> QED
      BY <1>1, <3>1, <3>2 DEF Fetch, Snapshot, QueueOps
  <2>2. UNCHANGED <<loaded, lines, unflushed, mongo>>
    BY <1>1 DEF Fetch, Snapshot, QueueOps
  <2> QED
    BY <2>1, <2>2 DEF CleanCopyIsSaved
<1>2. CASE ReadDoc(w)
  <2>1. UNCHANGED <<loaded, lines, unflushed, mongo>>
    BY <1>2 DEF ReadDoc
  <2>2. CASE loaded
    <3>1. HaveDoc(w, lines, TRUE) /\ j.ops = <<>>
      BY <1>2, <2>2 DEF ReadDoc, CopyCurrentOf
    <3>2. CopyCurrentOf(w)'
      BY <2>1, <2>2, <3>1, HaveDocCurrent
    <3> QED
      BY <2>1, <3>2 DEF CleanCopyIsSaved
  <2>3. CASE ~loaded
    <3>1. pc[w] = "getDoc" /\ pc'[w] = "load" /\ job' = job
      BY <1>0, <1>2, <2>3 DEF ReadDoc, Goto
    <3> QED
      BY <2>1, <2>3, <3>1 DEF CopyCurrentOf, CleanCopyIsSaved
  <2> QED
    BY <2>2, <2>3
<1>3. CASE LoadDoc(w)
  <2>1. /\ pc'[w] = "put" /\ ~loaded
        /\ job'[w].snap = mongo /\ job'[w].ops = <<>>
    BY <1>0, <1>3 DEF LoadDoc, Goto, CopyCurrentOf, Jobs, TypeOK
  <2> QED
    BY <1>3, <2>1 DEF LoadDoc, CopyCurrentOf, CleanCopyIsSaved
<1>4. CASE PutDoc(w)
  <2>1. lines' = mongo' /\ loaded' /\ j.ops = <<>>
    BY <1>4 DEF PutDoc, CopyCurrentOf
  <2>2. CopyCurrentOf(w)'
    BY <1>4, <2>1, HaveDocCurrent DEF PutDoc
  <2> QED
    BY <2>1, <2>2 DEF CleanCopyIsSaved
<1>5. CASE ReadFails(w) \/ Reject(w) \/ CheckFails(w) \/ SnapshotFails(w) \/ PersistFails(w)
  <2>1. Fail(w) /\ UNCHANGED <<loaded, lines, unflushed, mongo>>
    BY <1>5 DEF ReadFails, Reject, CheckFails, SnapshotFails, PersistFails
  <2> QED
    BY <2>1, FailLeaves DEF CleanCopyIsSaved
<1>6. CASE Duplicate(w)
  <2>1. /\ pc[w] = "shareJs" /\ pc'[w] = "check" /\ j.ops = <<>>
        /\ UNCHANGED <<job, loaded, lines, unflushed, mongo>>
    BY <1>0, <1>6 DEF Duplicate, Goto, CopyCurrentOf
  <2> QED
    BY <2>1 DEF CopyCurrentOf, CleanCopyIsSaved
<1>7. CASE Apply(w)
  <2> DEFINE op == [id |-> j.upd.id, src |-> j.upd.src, v |-> Len(j.snap)]
  <2>1. /\ pc[w] = "shareJs" /\ pc'[w] = "check"
        /\ UNCHANGED <<loaded, lines, unflushed, mongo>>
    BY <1>0, <1>7 DEF Apply, Goto
  <2>2. /\ job'[w].snap = Append(j.snap, j.upd.id)
        /\ job'[w].ops = <<op>>
    BY <1>0, <1>7 DEF Apply, TypeOK, Jobs
  <2>3. loaded /\ j.snap = lines
    BY <2>1 DEF CopyCurrentOf
  <2> QED
    BY <2>1, <2>2, <2>3 DEF CopyCurrentOf, CleanCopyIsSaved
<1>8. CASE ApplyFails(w)
  <2>1. pc'[w] = "releaseErr" /\ UNCHANGED <<loaded, lines, unflushed, mongo>>
    BY <1>0, <1>8 DEF ApplyFails, Goto
  <2> QED
    BY <2>1 DEF CopyCurrentOf, CleanCopyIsSaved
<1>9. CASE Check(w)
  <2>1. pc[w] = "check" /\ pc'[w] = "write" /\ UNCHANGED <<job, loaded, lines, unflushed, mongo>>
    BY <1>0, <1>9 DEF Check, Goto
  <2> QED
    BY <2>1 DEF CopyCurrentOf, CleanCopyIsSaved
<1>10. CASE Write(w)
  <2>1. unflushed'
    BY <1>10 DEF Write
  <2>2. CopyCurrentOf(w)'
    <3>1. CASE Advance(w, j.batch)
      BY <3>1, AdvanceLeaves
    <3>2. CASE Goto(w, "queueOps")
      BY <1>0, <3>2 DEF Goto, CopyCurrentOf
    <3> QED
      BY <1>10, <3>1, <3>2 DEF Write
  <2> QED
    BY <2>1, <2>2 DEF CleanCopyIsSaved
<1>11. CASE Flush(w)
  <2>1. UNCHANGED <<loaded, lines, unflushed, mongo>>
    BY <1>11 DEF Flush
  <2>2. CASE loaded /\ unflushed
    <3>1. pc'[w] = "persist" /\ job'[w].snap = lines
      BY <1>0, <1>11, <2>2 DEF Flush, Goto, TypeOK, Jobs
    <3> QED
      BY <2>1, <2>2, <3>1 DEF CopyCurrentOf, CleanCopyIsSaved
  <2>3. CASE ~(loaded /\ unflushed)
    <3>1. AfterFlush(w) /\ (loaded' => mongo' = lines')
      BY <1>11, <2>1, <2>3 DEF Flush, CleanCopyIsSaved
    <3> QED
      BY <2>1, <3>1, AfterFlushCurrent DEF CleanCopyIsSaved
  <2> QED
    BY <2>2, <2>3
<1>12. CASE Persist(w)
  <2>1. pc'[w] = "clear" /\ loaded' /\ mongo' = lines'
    BY <1>0, <1>12 DEF Persist, Goto, CopyCurrentOf
  <2> QED
    BY <2>1 DEF CopyCurrentOf, CleanCopyIsSaved
<1>13. CASE ClearUnflushed(w)
  <2>1. loaded' /\ mongo' = lines'
    BY <1>13 DEF ClearUnflushed, CopyCurrentOf
  <2> QED
    BY <1>13, <2>1, AfterFlushCurrent DEF ClearUnflushed, CleanCopyIsSaved
<1>14. CASE Remove(w)
  <2>1. pc'[w] = "release" /\ ~loaded'
    BY <1>0, <1>14 DEF Remove, Goto
  <2> QED
    BY <2>1 DEF CopyCurrentOf, CleanCopyIsSaved
<1> QED
  BY <1>1, <1>2, <1>3, <1>4, <1>5, <1>6, <1>7, <1>8, <1>9, <1>10, <1>11, <1>12,
     <1>13, <1>14 DEF LockedStep

LEMMA CopyStep ==
  ASSUME TypeOK, LockHeld, CopyCurrent, CleanCopyIsSaved, [Next]_vars
  PROVE  CopyCurrent' /\ CleanCopyIsSaved'
<1> USE DEF queueVars, redisVars, outVars, workerVars
<1>1. ASSUME UNCHANGED <<loaded, lines, mongo, pc, job>>, loaded' /\ ~unflushed' => ~unflushed
      PROVE  CopyCurrent' /\ CleanCopyIsSaved'
  BY <1>1, CopyUntouched DEF CopyCurrent, CleanCopyIsSaved
<1>2. CASE UNCHANGED vars
  BY <1>1, <1>2 DEF vars
<1>3. CASE (\E c \in Clients : Client(c)) \/ Notify \/ LockExpires \/ DocOpsExpire
  BY <1>1, <1>3 DEF Client, ClientSend, ClientResend, ClientAck, ClientGone, Notify,
                    LockExpires, DocOpsExpire
<1>4. ASSUME NEW w \in Workers, LockedStep(w)
      PROVE  CopyCurrent' /\ CleanCopyIsSaved'
  <2>1. CopyCurrentOf(w)' /\ CleanCopyIsSaved'
    BY <1>4, LockedStepCurrent DEF CopyCurrent
  <2>2. ASSUME NEW x \in Workers \ {w}
        PROVE  CopyCurrentOf(x)'
    <3>1. pc'[x] \notin Using
      BY <1>4, OthersOut DEF Using, Crit
    <3> QED
      BY <3>1, NotUsing
  <2> QED
    BY <2>1, <2>2 DEF CopyCurrent
<1>5. ASSUME NEW w \in Workers, FreeStep(w)
      PROVE  CopyCurrent' /\ CleanCopyIsSaved'
  <2>1. UNCHANGED <<loaded, lines, unflushed, mongo>>
    BY <1>5 DEF FreeStep, TakeNotification, HttpRequest, Acquire, AcquireSlowly,
                FreeSlowLock, GiveUpLock, Release, LookAgain, Crash
  <2>2. PICK p \in PCs \ Using : pc' = [pc EXCEPT ![w] = p]
    BY <1>5 DEF FreeStep, TakeNotification, HttpRequest, Acquire, AcquireSlowly,
                FreeSlowLock, GiveUpLock, Release, LookAgain, Crash, Goto, PCs, Crit, Using
  <2>3. \A x \in Workers \ {w} : job'[x] = job[x] /\ pc'[x] = pc[x]
    BY <1>5, <2>2 DEF FreeStep, TakeNotification, HttpRequest, Acquire, AcquireSlowly,
                FreeSlowLock, GiveUpLock, Release, LookAgain, Crash, TypeOK
  <2>4. CopyCurrentOf(w)'
    BY <2>2, NotUsing DEF TypeOK
  <2>5. \A x \in Workers \ {w} : CopyCurrentOf(x)'
    BY <2>1, <2>3, CopyUntouched DEF CopyCurrent
  <2> QED
    BY <2>1, <2>4, <2>5 DEF CopyCurrent, CleanCopyIsSaved
<1> QED
  BY <1>2, <1>3, <1>4, <1>5, NextCases

-----------------------------------------------------------------------------
(* The invariant *)

IInv == TypeOK /\ LockHeld /\ CopyCurrent /\ CleanCopyIsSaved

LEMMA InitIInv == Init => IInv
<1> SUFFICES ASSUME Init PROVE IInv
  OBVIOUS
<1>1. TypeOK
  <2>1. session \in [Clients -> Sessions]
    BY DocUpdaterAssumption DEF Init, Sessions
  <2>2. job \in [Workers -> Jobs]
    BY NoJobType DEF Init
  <2>3. pc \in [Workers -> PCs]
    BY DEF Init, PCs
  <2>4. requests \in 0..MaxHttp
    BY DocUpdaterAssumption DEF Init
  <2>5. /\ pending \in Seq(Updates) /\ lines \in Seq(Ids) /\ docOps \in Seq(Ops)
        /\ history \in Seq(Ops) /\ mongo \in Seq(Ids) /\ published \in Seq(Messages)
    BY DEF Init
  <2> QED
    BY <2>1, <2>2, <2>3, <2>4, <2>5 DEF Init, TypeOK
<1>2. LockHeld /\ CopyCurrent /\ CleanCopyIsSaved
  BY DEF Init, LockHeld, CopyCurrent, CopyCurrentOf, CleanCopyIsSaved, Crit
<1> QED
  BY <1>1, <1>2 DEF IInv

LEMMA TypeStep ==
  ASSUME TypeOK, CopyCurrent, [Next]_vars
  PROVE  TypeOK'
<1> USE DEF queueVars, redisVars, outVars, workerVars
<1>1. CASE UNCHANGED vars
  BY <1>1 DEF vars, TypeOK
<1>2. CASE \E c \in Clients : Client(c)
  BY <1>2, ClientType
<1>3. CASE Notify \/ LockExpires \/ DocOpsExpire
  <2>1. CASE Notify
    BY <2>1 DEF Notify, TypeOK
  <2>2. CASE LockExpires
    BY <2>2 DEF LockExpires, TypeOK
  <2>3. CASE DocOpsExpire
    <3>1. docOps' \in Seq(Ops)
      BY <2>3 DEF DocOpsExpire
    <3> QED
      BY <2>3, <3>1 DEF DocOpsExpire, TypeOK
  <2> QED
    BY <1>3, <2>1, <2>2, <2>3
<1>4. CASE \E w \in Workers : TakeNotification(w) \/ HttpRequest(w) \/ Step(w) \/ Failure(w)
  BY <1>4, WorkerType DEF CopyCurrent, CopyCurrentOf
<1> QED
  BY <1>1, <1>2, <1>3, <1>4 DEF Next

LEMMA IInvStep == IInv /\ [Next]_vars => IInv'
BY TypeStep, LockStep, CopyStep DEF IInv

LEMMA Invariance == Spec => []IInv
BY InitIInv, IInvStep, PTL DEF Spec

\* Whatever workers, clients, requests and faults there are, every variable keeps
\* its type.
THEOREM TypeCorrect == Spec => []TypeOK
<1>1. IInv => TypeOK
  BY DEF IInv
<1> QED
  BY <1>1, Invariance, PTL

\* At most one task is inside the locked section, even if holders die and their
\* lock expires, and a compare-and-delete comes late.
THEOREM LockExcludes == Spec => []OneHolder
<1>1. IInv => OneHolder
  BY DEF IInv, LockHeld, OneHolder, InCrit
<1> QED
  BY <1>1, Invariance, PTL

\* No copy of the document goes stale between the await that read it and the
\* statement that uses it.
THEOREM CopiesStayCurrent == Spec => []CopyCurrent
<1>1. IInv => CopyCurrent
  BY DEF IInv
<1> QED
  BY <1>1, Invariance, PTL

\* Skipping the flush of a document that is not marked as modified loses nothing.
THEOREM CleanCopySaved == Spec => []CleanCopyIsSaved
<1>1. IInv => CleanCopyIsSaved
  BY DEF IInv
<1> QED
  BY <1>1, Invariance, PTL

\* What sharejs/server/model.js and RedisManager.updateDocument call impossible
\* is: no update is applied to anything but the current copy, so its version
\* check succeeds and the ops it has to be transformed over are all there.
THEOREM NeverInternalError == Spec => []NoInternalError
<1>1. ASSUME IInv
      PROVE  NoInternalError
  <2>1. ASSUME NEW w \in Workers, pc[w] \in {"check", "write"}
        PROVE  VersionsAgree(w)
    <3>1. /\ loaded
          /\ \/ job[w].ops = <<>> /\ job[w].snap = lines
             \/ /\ Len(job[w].ops) = 1
                /\ job[w].snap = Append(lines, job[w].ops[1].id)
      BY <1>1, <2>1 DEF IInv, CopyCurrent, CopyCurrentOf
    <3>2. lines \in Seq(Ids) /\ job[w].snap \in Seq(Ids)
      BY <1>1 DEF IInv, TypeOK, Jobs
    <3>3. CASE job[w].ops = <<>> /\ job[w].snap = lines
      <4>1. Len(job[w].ops) = 0
        BY <3>3
      <4> QED
        BY <3>1, <3>2, <3>3, <4>1 DEF VersionsAgree
    <3>4. CASE /\ Len(job[w].ops) = 1
               /\ job[w].snap = Append(lines, job[w].ops[1].id)
      <4>1. Len(job[w].snap) = Len(lines) + 1
        BY <3>2, <3>4, AppendLength
      <4> QED
        BY <3>1, <3>2, <3>4, <4>1 DEF VersionsAgree
    <3> QED
      BY <3>1, <3>3, <3>4
  <2>2. ASSUME NEW w \in Workers, pc[w] = "shareJs"
        PROVE  Outcome(job[w].upd, Len(job[w].snap)) # "internal error"
    <3> DEFINE u == job[w].upd
               ver == Len(job[w].snap)
               first == Len(lines) - Len(docOps)
    <3>1. loaded /\ ver = Len(lines) /\ u # None
      BY <1>1, <2>2 DEF IInv, CopyCurrent, CopyCurrentOf
    <3>2. u.v \in Nat /\ ver \in Nat /\ docOps \in Seq(Ops)
      <4>1. lines \in Seq(Ids) /\ docOps \in Seq(Ops) /\ job[w] \in Jobs
        BY <1>1 DEF IInv, TypeOK
      <4>2. u \in Updates
        BY <3>1, <4>1 DEF Jobs
      <4> QED
        BY <3>1, <4>1, <4>2 DEF Updates
    <3> HIDE DEF u, ver
    <3>3. ASSUME u.v < ver, ~(~loaded \/ u.v < FirstVersion)
          PROVE  Len(OpsSince(u.v)) = ver - u.v
      <4>1. /\ Len(docOps) \in Nat /\ Len(lines) \in Nat
            /\ (u.v - FirstVersion) + 1 \in 1..Len(docOps)
        BY <3>1, <3>2, <3>3 DEF FirstVersion
      <4>2. Len(SubSeq(docOps, (u.v - FirstVersion) + 1, Len(docOps)))
              = (Len(docOps) - ((u.v - FirstVersion) + 1)) + 1
        BY <3>2, <4>1, SubSeqLength
      <4> QED
        BY <3>1, <3>2, <4>1, <4>2 DEF OpsSince, FirstVersion
    <3>4. Outcome(u, ver) # "internal error"
      BY <3>2, <3>3 DEF Outcome
    <3> QED
      BY <3>4 DEF u, ver
  <2> QED
    BY <2>1, <2>2 DEF NoInternalError
<1> QED
  BY <1>1, Invariance, PTL

-----------------------------------------------------------------------------
(* The log *)

\* The log grows by the op a worker has applied.
LogGrows(w) ==
  /\ Len(job[w].ops) = 1 /\ job[w].ops[1].v = Len(Log)
  /\ Log' = Append(Log, job[w].ops[1].id)

\* In the locked section only updateDocument changes the log, and it adds the op
\* applied, if any.
LEMMA LockedStepLog ==
  ASSUME IInv, NEW w \in Workers, LockedStep(w)
  PROVE  Log' = Log \/ (Write(w) /\ LogGrows(w))
<1> USE DEF queueVars, redisVars, outVars, workerVars
<1>0. CopyCurrentOf(w)
  BY DEF IInv, CopyCurrent
<1>1. CASE PutDoc(w)
  BY <1>0, <1>1 DEF PutDoc, CopyCurrentOf, Log
<1>2. CASE Write(w)
  BY <1>0, <1>2 DEF Write, CopyCurrentOf, Log, LogGrows
<1>3. CASE Persist(w)
  BY <1>0, <1>3 DEF Persist, CopyCurrentOf, Log
<1>4. CASE Remove(w)
  BY <1>0, <1>4 DEF Remove, CopyCurrentOf, Log
<1>5. CASE ~(PutDoc(w) \/ Write(w) \/ Persist(w) \/ Remove(w))
  <2>1. UNCHANGED <<loaded, lines, mongo>>
    BY <1>5
    DEF LockedStep, Fetch, ReadDoc, LoadDoc, ReadFails, Reject, Duplicate, Apply,
        ApplyFails, Check, CheckFails, QueueOps, Snapshot, SnapshotFails, Flush,
        PersistFails, ClearUnflushed
  <2> QED
    BY <2>1 DEF Log
<1> QED
  BY <1>1, <1>2, <1>3, <1>4, <1>5

\* Only updateDocument changes the log.
LEMMA LogStep ==
  ASSUME IInv, Next
  PROVE  Log' = Log \/ \E w \in Workers : Write(w) /\ LogGrows(w)
<1> USE DEF queueVars, redisVars, outVars, workerVars
<1>1. CASE UNCHANGED <<loaded, lines, mongo>>
  BY <1>1 DEF Log
<1>2. CASE (\E c \in Clients : Client(c)) \/ Notify \/ LockExpires \/ DocOpsExpire
  BY <1>1, <1>2 DEF Client, ClientSend, ClientResend, ClientAck, ClientGone, Notify,
                    LockExpires, DocOpsExpire
<1>3. ASSUME NEW w \in Workers, FreeStep(w)
      PROVE  Log' = Log
  <2>1. UNCHANGED <<loaded, lines, mongo>>
    BY <1>3 DEF FreeStep, TakeNotification, HttpRequest, Acquire, AcquireSlowly,
                FreeSlowLock, GiveUpLock, Release, LookAgain, Crash
  <2> QED
    BY <2>1 DEF Log
<1> QED
  BY <1>2, <1>3, LockedStepLog, NextCases

\* Only updateDocument and the TTL change DocOps.
LEMMA DocOpsKept ==
  ASSUME Next, \A w \in Workers : ~Write(w)
  PROVE  docOps' = docOps \/ DocOpsExpire
<1> USE DEF queueVars, redisVars, outVars, workerVars
<1>1. ASSUME NEW c \in Clients, Client(c) PROVE docOps' = docOps
  BY <1>1 DEF Client, ClientSend, ClientResend, ClientAck, ClientGone
<1>2. ASSUME NEW w \in Workers, LockedStep(w), ~Write(w)
      PROVE  docOps' = docOps
  BY <1>2 DEF LockedStep, Fetch, ReadDoc, LoadDoc, PutDoc, ReadFails, Reject, Duplicate,
    Apply, ApplyFails, Check, CheckFails, QueueOps, Snapshot, SnapshotFails, Flush,
    Persist, PersistFails, ClearUnflushed, Remove
<1>3. ASSUME NEW w \in Workers, FreeStep(w) PROVE docOps' = docOps
  BY <1>3 DEF FreeStep, TakeNotification, HttpRequest, Acquire, AcquireSlowly,
    FreeSlowLock, GiveUpLock, Release, LookAgain, Crash
<1>4. Notify \/ LockExpires => docOps' = docOps
  BY DEF Notify, LockExpires
<1> QED
  BY <1>1, <1>2, <1>3, <1>4, NextCases

\* What updateDocument does to the log and to the number of ops kept.
LEMMA WriteGrows ==
  ASSUME IInv, NEW w \in Workers, Write(w)
  PROVE  /\ docOps \in Seq(Ops) /\ Log \in Seq(Ids)
         /\ Len(docOps') = Lesser(DocOpsMax, Len(docOps)) + Len(job[w].ops)
         /\ \/ job[w].ops = <<>> /\ Len(job[w].ops) = 0 /\ Log' = Log
            \/ LogGrows(w) /\ Len(Log') = Len(Log) + 1
<1>1. docOps \in Seq(Ops) /\ Log \in Seq(Ids) /\ job[w].ops \in Seq(Ops)
  BY DEF IInv, TypeOK, Log, Jobs
<1> DEFINE kept == LastEntries(docOps, DocOpsMax)
<1>2. kept \in Seq(Ops) /\ Len(kept) = Lesser(DocOpsMax, Len(docOps))
  BY <1>1, LastEntriesType, DocUpdaterAssumption
<1>3. docOps' = kept \o job[w].ops
  BY DEF Write
<1>4. Len(docOps') = Lesser(DocOpsMax, Len(docOps)) + Len(job[w].ops)
  <2> DEFINE ops == job[w].ops
  <2> HIDE DEF kept, ops
  <2>0. kept \in Seq(Ops) /\ ops \in Seq(Ops)
    BY <1>1, <1>2 DEF ops
  <2>1. Len(kept \o ops) = Len(kept) + Len(ops)
    BY <2>0, ConcatLength, Zenon
  <2>2. docOps' = kept \o ops
    BY <1>3 DEF ops
  <2>3. Len(docOps') = Len(kept) + Len(ops)
    BY <2>1, <2>2, Zenon
  <2> QED
    BY <1>2, <2>3, Zenon DEF ops
<1>5. CopyCurrentOf(w)
  BY DEF IInv, CopyCurrent
<1>6. \/ job[w].ops = <<>> /\ Log' = Log
      \/ LogGrows(w)
  BY <1>5 DEF Write, CopyCurrentOf, Log, LogGrows
<1>7. LogGrows(w) => Len(Log') = Len(Log) + 1
  BY <1>1 DEF LogGrows
<1> QED
  BY <1>1, <1>4, <1>6, <1>7

\* DocOps is aligned with the log: it is cleared by its TTL, survives eviction, and
\* grows by the op that the log grows by.
LEMMA AlignedStep ==
  ASSUME IInv, DocOpsAligned, [Next]_vars
  PROVE  DocOpsAligned'
<1> USE DEF queueVars, redisVars, outVars, workerVars
<1>0. docOps \in Seq(Ops) /\ Log \in Seq(Ids)
  BY DEF IInv, TypeOK, Log
<1>1. ASSUME Log' = Log, docOps' = docOps \/ docOps' = <<>>
      PROVE  DocOpsAligned'
  BY <1>0, <1>1 DEF DocOpsAligned
<1>2. ASSUME NEW w \in Workers, Write(w)
      PROVE  DocOpsAligned'
  <2> DEFINE ops == job[w].ops
             kept == LastEntries(docOps, DocOpsMax)
             n == Lesser(DocOpsMax, Len(docOps))
  <2>1. ops \in Seq(Ops) /\ docOps' = kept \o ops
    BY <1>2 DEF Write, IInv, TypeOK, Jobs
  <2>2. /\ n \in 0..Len(docOps)
        /\ kept \in Seq(Ops) /\ Len(kept) = n
        /\ \A i \in 1..n : kept[i] = docOps[i + (Len(docOps) - n)]
    <3>1. n \in 0..Len(docOps)
      BY <1>0, DocUpdaterAssumption DEF Lesser
    <3> QED
      BY <1>0, <3>1, LastEntriesType, DocUpdaterAssumption
  <2> HIDE DEF kept, n
  <2>3. \A i \in 1..n : /\ kept[i].v = (Len(Log) - n) + i - 1
                        /\ kept[i].id = Log[(Len(Log) - n) + i]
    BY <1>0, <2>2 DEF DocOpsAligned
  <2>4. CASE ops = <<>> /\ Log' = Log
    <3>1. docOps' = kept
      BY <2>1, <2>2, <2>4
    <3> QED
      BY <1>0, <2>2, <2>3, <2>4, <3>1 DEF DocOpsAligned
  <2>5. CASE /\ Len(ops) = 1 /\ ops[1].v = Len(Log)
             /\ Log' = Append(Log, ops[1].id)
    <3>1. /\ Len(docOps') = n + 1 /\ docOps'[n + 1] = ops[1]
          /\ \A i \in 1..n : docOps'[i] = kept[i]
      <4>1. kept \in Seq(Ops) /\ ops \in Seq(Ops) /\ Len(kept) = n /\ Len(ops) = 1
        BY <2>1, <2>2, <2>5
      <4>2. /\ Len(kept \o ops) = n + 1 /\ (kept \o ops)[n + 1] = ops[1]
            /\ \A i \in 1..n : (kept \o ops)[i] = kept[i]
        BY <4>1, AppendOne
      <4> QED
        BY <2>1, <4>2
    <3>2. /\ Len(Log') = Len(Log) + 1 /\ Log'[Len(Log) + 1] = ops[1].id
          /\ \A i \in 1..Len(Log) : Log'[i] = Log[i]
      BY <1>0, <2>5, <2>1
    <3>3. n <= Len(Log)
      BY <1>0, <2>2 DEF DocOpsAligned
    <3>4. docOps' \in Seq(Ops)
      BY <2>1, <2>2
    <3>5. ASSUME NEW i \in 1..(n + 1)
          PROVE  /\ docOps'[i].v = (Len(Log) - n) + i - 1
                 /\ docOps'[i].id = Log'[(Len(Log) - n) + i]
      <4>1. CASE i = n + 1
        <5>1. (Len(Log) - n) + i = Len(Log) + 1 /\ (Len(Log) - n) + i - 1 = Len(Log)
          BY <1>0, <2>2, <4>1
        <5>2. docOps'[i].v = Len(Log) /\ docOps'[i].id = ops[1].id
          BY <2>5, <3>1, <4>1
        <5>3. Log'[Len(Log) + 1] = ops[1].id
          BY <3>2
        <5> QED
          BY <5>1, <5>2, <5>3
      <4>2. CASE i \in 1..n
        <5>1. (Len(Log) - n) + i \in 1..Len(Log)
          BY <1>0, <2>2, <3>3, <4>2
        <5>2. docOps'[i] = kept[i]
          BY <3>1, <4>2
        <5> QED
          BY <2>3, <3>2, <4>2, <5>1, <5>2
      <4> QED
        BY <2>2, <4>1, <4>2
    <3>6. Len(docOps') <= Len(Log') /\ DOMAIN docOps' = 1..(n + 1)
      BY <1>0, <2>2, <3>1, <3>2, <3>3, <3>4
    <3>7. ASSUME NEW i \in 1..(n + 1)
          PROVE  /\ Len(Log') - Len(docOps') + i - 1 = (Len(Log) - n) + i - 1
                 /\ Len(Log') - Len(docOps') + i - 1 + 1 = (Len(Log) - n) + i
      <4>1. Len(Log') = Len(Log) + 1 /\ Len(docOps') = n + 1 /\ Len(Log) \in Nat /\ n \in Nat
        BY <1>0, <2>2, <3>1, <3>2
      <4> QED
        BY <4>1
    <3> QED
      BY <3>5, <3>6, <3>7 DEF DocOpsAligned
  <2>6. CopyCurrentOf(w)
    BY DEF IInv, CopyCurrent
  <2> QED
    BY <1>2, <2>4, <2>5, <2>6 DEF Write, CopyCurrentOf, Log
<1>3. CASE UNCHANGED vars
  BY <1>1, <1>3 DEF vars, Log
<1>4. CASE Next /\ \A w \in Workers : ~Write(w)
  <2>1. Log' = Log
    BY <1>4, LogStep
  <2>2. docOps' = docOps \/ docOps' = <<>>
    BY <1>4, DocOpsKept DEF DocOpsExpire
  <2> QED
    BY <1>1, <2>1, <2>2, ZenonT(30)
<1> QED
  BY <1>2, <1>3, <1>4

\* Wherever the document is, the ops Redis keeps for transforming late updates are
\* its last ops, at the versions getPreviousDocOps computes.
THEOREM RecentOpsAligned == Spec => []DocOpsAligned
<1>1. Init => DocOpsAligned
  BY DEF Init, DocOpsAligned, Log
<1> QED
  BY <1>1, AlignedStep, Invariance, PTL DEF Spec

\* If the list is trimmed to no fewer ops than an update may lag and its TTL does not
\* run out, an update is refused for its age and never for ops that are missing.
THEOREM RecentOpsSuffice ==
  ASSUME MaxAge <= DocOpsMax, "docOpsTtl" \notin Faults
  PROVE  Spec => []RecentOpsKept
<1>1. Init => RecentOpsKept
  BY DocUpdaterAssumption DEF Init, RecentOpsKept, Log, Lesser
<1>2. ASSUME IInv, RecentOpsKept, [Next]_vars
      PROVE  RecentOpsKept'
  <2>1. CASE UNCHANGED vars
    BY <1>2, <2>1 DEF vars, redisVars, outVars, RecentOpsKept, Log
  <2>2. CASE Next /\ \A w \in Workers : ~Write(w)
    <3>1. Log' = Log
      BY <1>2, <2>2, LogStep
    <3>2. docOps' = docOps
      BY <2>2, DocOpsKept DEF DocOpsExpire
    <3> QED
      BY <1>2, <3>1, <3>2 DEF RecentOpsKept
  <2>3. ASSUME NEW w \in Workers, Write(w)
        PROVE  RecentOpsKept'
    <3>0. Len(docOps') = Lesser(DocOpsMax, Len(docOps)) + Len(job[w].ops)
      BY <1>2, <2>3, WriteGrows
    <3>1. /\ Len(docOps) \in Nat /\ Len(Log) \in Nat
          /\ MaxAge \in Nat /\ DocOpsMax \in Nat
      BY <1>2, <2>3, WriteGrows, DocUpdaterAssumption
    <3>2. CASE Len(job[w].ops) = 0 /\ Log' = Log
      <4>1. Len(docOps') = Lesser(DocOpsMax, Len(docOps))
        BY <3>0, <3>1, <3>2 DEF Lesser
      <4> QED
        BY <1>2, <3>1, <3>2, <4>1 DEF RecentOpsKept, Lesser
    <3>3. CASE Len(job[w].ops) = 1 /\ Len(Log') = Len(Log) + 1
      <4>1. Len(docOps') = Lesser(DocOpsMax, Len(docOps)) + 1
        BY <3>0, <3>3
      <4> QED
        BY <1>2, <3>1, <3>3, <4>1 DEF RecentOpsKept, Lesser
    <3> QED
      BY <1>2, <2>3, <3>2, <3>3, WriteGrows DEF LogGrows
  <2> QED
    BY <1>2, <2>1, <2>2, <2>3
<1> QED
  BY <1>1, <1>2, Invariance, PTL DEF Spec

\* The service implements the append-only log with its saved prefix.
THEOREM Refinement == Spec => ImplementsDocLog
<1>1. Init => DL!Init
  BY DEF Init, DL!Init, Log
<1>2. IInv /\ [Next]_vars => [DL!Next]_DL!vars
  <2> SUFFICES ASSUME IInv, [Next]_vars
               PROVE  [DL!Next]_DL!vars
    OBVIOUS
  <2>1. CASE UNCHANGED vars
    BY <2>1 DEF vars, redisVars, outVars, DL!vars, Log
  <2>2. ASSUME NEW w \in Workers, Persist(w)
        PROVE  DL!Next
    <3>1. Log' = Log /\ Len(mongo)' = Len(Log)
      BY <2>2 DEF Persist, IInv, CopyCurrent, CopyCurrentOf, Log, redisVars
    <3> QED
      BY <3>1 DEF DL!Next, DL!Save
  <2>3. CASE Next /\ \A w \in Workers : ~Persist(w)
    <3>1. mongo' = mongo
      BY <2>3
      DEF Next, Step, Failure, Client, ClientSend, ClientResend, ClientAck, ClientGone, Notify,
        LockExpires, DocOpsExpire, TakeNotification, HttpRequest, Acquire, AcquireSlowly,
        FreeSlowLock, GiveUpLock, Fetch, ReadDoc, LoadDoc, PutDoc, ReadFails, Reject,
        Duplicate, Apply, ApplyFails, Check, CheckFails, Write, QueueOps, Snapshot,
        SnapshotFails, Flush, PersistFails, ClearUnflushed, Remove, Release, LookAgain,
        Crash, outVars
    <3>2. CASE Log' = Log
      BY <3>1, <3>2 DEF DL!vars
    <3>3. ASSUME NEW w \in Workers, LogGrows(w)
          PROVE  DL!Next
      <4>1. job[w].ops[1].id \in Ids
        <5>1. job[w].ops \in Seq(Ops)
          BY DEF IInv, TypeOK, Jobs
        <5>2. job[w].ops[1] \in Ops
          BY <3>3, <5>1 DEF LogGrows
        <5> QED
          BY <5>2 DEF Ops
      <4> QED
        BY <3>1, <3>3, <4>1 DEF DL!Next, DL!Accept, LogGrows
    <3> QED
      <4>1. Log' = Log \/ \E w \in Workers : LogGrows(w)
        BY <2>3, LogStep
      <4> QED
        BY <3>2, <3>3, <4>1
  <2> QED
    BY <2>1, <2>2, <2>3
<1> QED
  BY <1>1, <1>2, Invariance, PTL DEF Spec, ImplementsDocLog, DL!Spec
-----------------------------------------------------------------------------
(* What is published and what project history is given *)

\* What clients do and what expires touches no worker, no copy and nothing published.
LEMMA OutsideStepLeaves ==
  ASSUME (\E c \in Clients : Client(c)) \/ Notify \/ LockExpires \/ DocOpsExpire
  PROVE  UNCHANGED <<loaded, lines, mongo, history, published, pc, job>>
<1> USE DEF queueVars, redisVars, outVars, workerVars
<1>1. ASSUME NEW c \in Clients, Client(c)
      PROVE  UNCHANGED <<loaded, lines, mongo, history, published, pc, job>>
  BY <1>1 DEF Client, ClientSend, ClientResend, ClientAck, ClientGone
<1>2. CASE Notify
  BY <1>2 DEF Notify
<1>3. CASE LockExpires \/ DocOpsExpire
  BY <1>3 DEF LockExpires, DocOpsExpire
<1> QED
  BY <1>1, <1>2, <1>3

\* A step outside the section, and one that leaves it, changes no copy, publishes
\* nothing and is no other worker's; only a death ends a task between its checks and
\* its writes.
LEMMA FreeStepLeaves ==
  ASSUME TypeOK, NEW w \in Workers, FreeStep(w)
  PROVE  /\ UNCHANGED <<loaded, lines, mongo, history, published>>
         /\ pc'[w] \notin {"queueOps", "check", "write"}
         /\ \A x \in Workers \ {w} : pc'[x] = pc[x] /\ job'[x] = job[x]
         /\ pc[w] \in {"check", "write"} => "crash" \in Faults
<1> USE DEF queueVars, redisVars, outVars, workerVars
<1>1. UNCHANGED <<loaded, lines, mongo, history, published>>
  BY DEF FreeStep, TakeNotification, HttpRequest, Acquire, AcquireSlowly,
         FreeSlowLock, GiveUpLock, Release, LookAgain, Crash
<1>2. PICK p \in PCs \ Using : p # "queueOps" /\ pc' = [pc EXCEPT ![w] = p]
  BY DEF FreeStep, TakeNotification, HttpRequest, Acquire, AcquireSlowly,
         FreeSlowLock, GiveUpLock, Release, LookAgain, Crash, Goto, PCs, Crit, Using
<1>3. \A x \in Workers \ {w} : job'[x] = job[x] /\ pc'[x] = pc[x]
  BY <1>2 DEF FreeStep, TakeNotification, HttpRequest, Acquire, AcquireSlowly,
              FreeSlowLock, GiveUpLock, Release, LookAgain, Crash, TypeOK
<1>4. pc[w] \in {"check", "write"} => "crash" \in Faults
  BY DEF FreeStep, TakeNotification, HttpRequest, Acquire, AcquireSlowly,
         FreeSlowLock, GiveUpLock, Release, LookAgain, Crash
<1>5. pc'[w] \notin {"queueOps", "check", "write"}
  BY <1>2 DEF TypeOK, Using
<1> QED
  BY <1>1, <1>3, <1>4, <1>5

\* Before QueueOps, the op applied is the document's last one, and project history
\* has been given earlier ones only.
QueuedLast(w) ==
  pc[w] = "queueOps" =>
    /\ Len(job[w].ops) = 1 /\ job[w].ops[1].v = Len(Log) - 1
    /\ Len(Log) > 0 /\ job[w].ops[1].id = Log[Len(Log)]
    /\ \A i \in DOMAIN history : history[i].v < job[w].ops[1].v

HistoryInv == HistoryFollowsLog /\ \A w \in Workers : QueuedLast(w)

\* The steps that leave history and the log alone, and no worker about to queue ops.
LEMMA HistoryUntouched ==
  ASSUME HistoryInv, Log' = Log, history' = history,
         \A w \in Workers : pc'[w] = "queueOps" => pc[w] = "queueOps" /\ job'[w] = job[w]
  PROVE  HistoryInv'
<1>1. HistoryFollowsLog'
  BY DEF HistoryInv, HistoryFollowsLog
<1>2. ASSUME NEW w \in Workers PROVE QueuedLast(w)'
  BY DEF HistoryInv, QueuedLast
<1> QED
  BY <1>1, <1>2 DEF HistoryInv

LEMMA AdvanceGoes ==
  ASSUME TypeOK, NEW w \in Workers, NEW b, Advance(w, b)
  PROVE  pc'[w] \in {"getDoc", "flush", "release"}
BY DEF Advance, Goto, TypeOK

\* Updates queued by QueueOps are those of the log.
LEMMA HistoryStep ==
  ASSUME IInv, HistoryInv, [Next]_vars
  PROVE  HistoryInv'
<1> USE DEF queueVars, redisVars, outVars, workerVars
<1>0. TypeOK /\ LockHeld /\ Log \in Seq(Ids) /\ history \in Seq(Ops)
  BY DEF IInv, TypeOK, Log
<1>1. CASE UNCHANGED vars
  <2>1. Log' = Log /\ history' = history /\ pc' = pc /\ job' = job
    BY <1>1 DEF vars, Log
  <2> QED
    BY <2>1, HistoryUntouched
<1>2. CASE (\E c \in Clients : Client(c)) \/ Notify \/ LockExpires \/ DocOpsExpire
  <2>1. Log' = Log /\ history' = history /\ pc' = pc /\ job' = job
    BY <1>2, OutsideStepLeaves DEF Log
  <2> QED
    BY <2>1, HistoryUntouched
<1>3. ASSUME NEW w \in Workers, FreeStep(w) PROVE HistoryInv'
  <2>1. Log' = Log
    BY <1>0, <1>3, FreeStepLeaves DEF Log
  <2> QED
    BY <1>0, <1>3, <2>1, FreeStepLeaves, HistoryUntouched
<1>4. ASSUME NEW w \in Workers, Write(w) PROVE HistoryInv'
  <2>1. \A x \in Workers \ {w} : pc'[x] # "queueOps"
    BY <1>0, <1>4, OthersOut DEF LockedStep, Crit
  <2>2. history' = history
    BY <1>4 DEF Write
  <2>3. CASE job[w].ops = <<>> /\ Log' = Log
    <3>1. pc'[w] # "queueOps"
      BY <1>0, <1>4, <2>3, AdvanceGoes DEF Write
    <3> QED
      BY <2>1, <2>2, <2>3, <3>1, HistoryUntouched
  <2>4. CASE LogGrows(w) /\ Len(Log') = Len(Log) + 1
    <3>1. Len(job[w].ops) = 1 /\ job[w].ops[1].v = Len(Log)
      BY <2>4 DEF LogGrows
    <3>2. /\ Log'[Len(Log) + 1] = job[w].ops[1].id
          /\ \A i \in 1..Len(Log) : Log'[i] = Log[i]
      BY <1>0, <2>4 DEF LogGrows
    <3>3. job'[w].ops = job[w].ops
      BY <1>4, <3>1 DEF Write
    <3>4. \A i \in DOMAIN history : history[i].v \in Nat /\ history[i].v < Len(Log)
      <4>1. ASSUME NEW i \in DOMAIN history PROVE history[i].v \in Nat
        <5>1. history[i] \in Ops
          BY <1>0
        <5> QED
          BY <5>1 DEF Ops
      <4> QED
        BY <4>1 DEF HistoryInv, HistoryFollowsLog
    <3>5. HistoryFollowsLog'
      <4>1. ASSUME NEW i \in DOMAIN history
            PROVE  history[i].v < Len(Log') /\ history[i].id = Log'[history[i].v + 1]
        <5>1. history[i].v \in Nat /\ history[i].v + 1 \in 1..Len(Log)
          BY <1>0, <3>4
        <5>2. history[i].id = Log[history[i].v + 1]
          BY DEF HistoryInv, HistoryFollowsLog
        <5> QED
          BY <1>0, <2>4, <3>2, <5>1, <5>2
      <4> QED
        BY <2>2, <4>1 DEF HistoryInv, HistoryFollowsLog
    <3>6. QueuedLast(w)'
      BY <1>0, <2>2, <2>4, <3>1, <3>2, <3>3, <3>4 DEF QueuedLast
    <3> QED
      BY <2>1, <3>5, <3>6 DEF HistoryInv, QueuedLast
  <2> QED
    BY <1>4, <2>3, <2>4, WriteGrows
<1>5. ASSUME NEW w \in Workers, QueueOps(w) PROVE HistoryInv'
  <2>1. \A x \in Workers : pc'[x] # "queueOps"
    <3>1. \A x \in Workers \ {w} : pc'[x] # "queueOps"
      BY <1>0, <1>5, OthersOut DEF LockedStep, Crit
    <3>2. CASE Advance(w, job[w].batch)
      BY <1>0, <3>1, <3>2, AdvanceGoes
    <3>3. CASE Goto(w, "snapshot")
      BY <1>0, <3>1, <3>3 DEF Goto, TypeOK
    <3> QED
      BY <1>5, <3>2, <3>3 DEF QueueOps
  <2>2. Log' = Log
    BY <1>5 DEF QueueOps, Log
  <2>3. CASE history' = history
    BY <2>1, <2>2, <2>3, HistoryUntouched
  <2>4. CASE history' = history \o job[w].ops
    <3> DEFINE op == job[w].ops[1]
               n == Len(history)
    <3>1. /\ Len(job[w].ops) = 1 /\ op.v = Len(Log) - 1 /\ Len(Log) > 0
          /\ op.id = Log[Len(Log)] /\ \A i \in DOMAIN history : history[i].v < op.v
      BY <1>5 DEF QueueOps, HistoryInv, QueuedLast
    <3>2. job[w].ops \in Seq(Ops)
      BY <1>0 DEF TypeOK, Jobs
    <3>3. /\ Len(history') = n + 1 /\ history'[n + 1] = op
          /\ \A i \in 1..n : history'[i] = history[i]
      BY <1>0, <2>4, <3>1, <3>2, AppendOne
    <3>4. history' \in Seq(Ops)
      BY <1>0, <2>4, <3>2
    <3>5. DOMAIN history' = 1..(n + 1) /\ DOMAIN history = 1..n /\ n \in Nat
      BY <1>0, <3>3, <3>4
    <3> HIDE DEF op, n
    <3>6. ASSUME NEW i \in 1..(n + 1)
          PROVE  history'[i].v < Len(Log) /\ history'[i].id = Log[history'[i].v + 1]
      <4>1. CASE i = n + 1
        <5>1. Len(Log) \in Nat /\ (Len(Log) - 1) + 1 = Len(Log) /\ Len(Log) - 1 < Len(Log)
          BY <1>0
        <5> QED
          BY <3>1, <3>3, <4>1, <5>1
      <4>2. CASE i \in 1..n
        BY <3>3, <3>5, <4>2 DEF HistoryInv, HistoryFollowsLog
      <4> QED
        BY <3>5, <4>1, <4>2
    <3>7. ASSUME NEW i \in 1..(n + 1), NEW k \in 1..(n + 1), i < k
          PROVE  history'[i].v < history'[k].v
      <4>1. i \in 1..n
        BY <3>5, <3>7
      <4>2. CASE k = n + 1
        BY <3>1, <3>3, <3>5, <4>1, <4>2
      <4>3. CASE k \in 1..n
        BY <3>3, <3>5, <3>7, <4>1, <4>3 DEF HistoryInv, HistoryFollowsLog
      <4> QED
        BY <3>5, <4>2, <4>3
    <3>8. HistoryFollowsLog'
      BY <2>2, <3>5, <3>6, <3>7 DEF HistoryFollowsLog
    <3> QED
      BY <2>1, <3>8 DEF HistoryInv, QueuedLast
  <2> QED
    BY <1>5, <2>3, <2>4 DEF QueueOps
<1>6. ASSUME NEW w \in Workers, LockedStep(w), ~Write(w), ~QueueOps(w)
      PROVE  HistoryInv'
  <2>1. history' = history
    BY <1>6 DEF LockedStep, Fetch, ReadDoc, LoadDoc, PutDoc, ReadFails, Reject, Duplicate,
      Apply, ApplyFails, Check, CheckFails, Snapshot, SnapshotFails, Flush, Persist,
      PersistFails, ClearUnflushed, Remove
  <2>2. Log' = Log
    BY <1>6, LockedStepLog
  <2>3. pc'[w] # "queueOps"
    <3>1. CASE Fetch(w) \/ Snapshot(w)
      BY <1>0, <3>1, AdvanceGoes DEF Fetch, Snapshot
    <3>2. CASE ReadDoc(w) \/ PutDoc(w)
      BY <1>0, <3>2 DEF ReadDoc, PutDoc, HaveDoc, Goto, TypeOK
    <3>3. CASE ReadFails(w) \/ Reject(w) \/ CheckFails(w) \/ SnapshotFails(w) \/ PersistFails(w)
      BY <1>0, <3>3 DEF ReadFails, Reject, CheckFails, SnapshotFails, PersistFails, Fail,
                        Goto, TypeOK
    <3>4. CASE LoadDoc(w) \/ Duplicate(w) \/ Apply(w) \/ ApplyFails(w) \/ Check(w)
               \/ Persist(w) \/ Remove(w)
      BY <1>0, <3>4 DEF LoadDoc, Duplicate, Apply, ApplyFails, Check, Persist, Remove, Goto,
                        TypeOK
    <3>5. CASE Flush(w) \/ ClearUnflushed(w)
      BY <1>0, <3>5 DEF Flush, ClearUnflushed, AfterFlush, Goto, TypeOK
    <3> QED
      BY <1>6, <3>1, <3>2, <3>3, <3>4, <3>5 DEF LockedStep
  <2>4. \A x \in Workers \ {w} : pc'[x] # "queueOps"
    BY <1>0, <1>6, OthersOut DEF Crit
  <2> QED
    BY <2>1, <2>2, <2>3, <2>4, HistoryUntouched
<1> QED
  BY <1>1, <1>2, <1>3, <1>4, <1>5, <1>6, NextCases

\* Project history is given ops of the document, each at its version and in order.
THEOREM HistoryIsTheLog == Spec => []HistoryFollowsLog
<1>1. Init => HistoryInv
  BY DEF Init, HistoryInv, HistoryFollowsLog, QueuedLast
<1>2. HistoryInv => HistoryFollowsLog
  BY DEF HistoryInv
<1> QED
  BY <1>1, <1>2, HistoryStep, Invariance, PTL DEF Spec

\* An op published is in the document; or the next message is its error; or it is
\* the last message, and its worker is about to write it.
InLog(m) == m.v < Len(Log) /\ Log[m.v + 1] = m.id
Announces(w, m) ==
  /\ pc[w] \in {"check", "write"} /\ job[w].upd # None /\ job[w].ops # <<>>
  /\ job[w].ops[1].id = m.id /\ job[w].ops[1].v = m.v
Accounted(i) ==
  published[i].kind = "op" =>
    \/ InLog(published[i])
    \/ i < Len(published) /\ published[i + 1].kind = "error"
    \/ i = Len(published) /\ \E w \in Workers : Announces(w, published[i])
PublishedInv == \A i \in DOMAIN published : Accounted(i)

\* The log only grows, so that what it holds stays where it is.
LEMMA LogStays ==
  ASSUME IInv, [Next]_vars, NEW m \in Messages, InLog(m)
  PROVE  InLog(m)'
<1>0. Log \in Seq(Ids) /\ m.v \in Nat
  BY DEF IInv, TypeOK, Log, Messages
<1>1. CASE Log' = Log
  BY <1>1 DEF InLog
<1>2. ASSUME NEW w \in Workers, LogGrows(w) PROVE InLog(m)'
  <2>1. Len(Log') = Len(Log) + 1 /\ \A i \in 1..Len(Log) : Log'[i] = Log[i]
    BY <1>0, <1>2 DEF LogGrows
  <2>2. m.v + 1 \in 1..Len(Log) /\ m.v < Len(Log) + 1
    BY <1>0 DEF InLog
  <2> QED
    BY <2>1, <2>2 DEF InLog
<1>3. CASE UNCHANGED vars
  BY <1>1, <1>3 DEF vars, redisVars, outVars, Log
<1> QED
  BY <1>1, <1>2, <1>3, LogStep

\* The steps that publish nothing and let those about to write an op go on.
LEMMA PublishedUntouched ==
  ASSUME IInv, PublishedInv, [Next]_vars, published' = published,
         \A w \in Workers : pc[w] \in {"check", "write"} =>
           pc'[w] \in {"check", "write"} /\ job'[w] = job[w]
  PROVE  PublishedInv'
<1> SUFFICES ASSUME NEW i \in DOMAIN published, published[i].kind = "op"
             PROVE  Accounted(i)'
  BY DEF PublishedInv, Accounted
<1>1. published[i] \in Messages
  BY DEF IInv, TypeOK
<1>2. CASE InLog(published[i])
  <2>1. InLog(published[i])'
    BY <1>1, <1>2, LogStays DEF InLog
  <2> QED
    BY <2>1 DEF Accounted
<1>3. CASE i < Len(published) /\ published[i + 1].kind = "error"
  BY <1>3 DEF Accounted
<1>4. ASSUME i = Len(published), NEW w \in Workers, Announces(w, published[i])
      PROVE  Accounted(i)'
  <2>1. Announces(w, published[i])'
    BY <1>4 DEF Announces
  <2> QED
    BY <1>4, <2>1 DEF Accounted
<1> QED
  BY <1>2, <1>3, <1>4 DEF PublishedInv, Accounted

\* What was published before stays accounted for when more is published and none
\* but w was about to write, if w's op is taken care of.
LEMMA PublishedMore ==
  ASSUME IInv, PublishedInv, [Next]_vars, NEW w \in Workers, InCrit(w),
         NEW more \in Seq(Messages), published' = published \o more,
         NEW i \in DOMAIN published, published[i].kind = "op",
         \/ pc[w] \notin {"check", "write"}
         \/ job[w].upd = None
         \/ Len(more) > 0 /\ more[1].kind = "error"
  PROVE  /\ published'[i] = published[i]
         /\ \/ InLog(published[i])'
            \/ i < Len(published') /\ published'[i + 1].kind = "error"
<1>0. published \in Seq(Messages) /\ LockHeld
  BY DEF IInv, TypeOK
<1>1. /\ published'[i] = published[i] /\ i \in 1..Len(published)
      /\ Len(published') = Len(published) + Len(more) /\ Len(more) \in Nat
      /\ i < Len(published) => published'[i + 1] = published[i + 1]
      /\ i = Len(published) /\ Len(more) > 0 => published'[i + 1] = more[1]
  BY <1>0
<1>2. CASE InLog(published[i])
  <2>1. PICK m \in Messages : m = published[i]
    BY <1>0
  <2>2. InLog(m)'
    BY <1>2, <2>1, LogStays DEF InLog
  <2> QED
    BY <1>1, <2>1, <2>2 DEF InLog
<1>3. CASE i < Len(published) /\ published[i + 1].kind = "error"
  BY <1>0, <1>1, <1>3
<1>4. ASSUME i = Len(published), NEW x \in Workers, Announces(x, published[i])
      PROVE  i < Len(published') /\ published'[i + 1].kind = "error"
  <2>1. x = w
    BY <1>0, <1>4 DEF Announces, LockHeld, InCrit, Crit
  <2>2. Len(more) > 0 /\ more[1].kind = "error"
    BY <1>4, <2>1 DEF Announces
  <2> QED
    BY <1>0, <1>1, <1>4, <2>2
<1> QED
  BY <1>1, <1>2, <1>3, <1>4 DEF PublishedInv, Accounted

\* A worker's step inside the section that publishes messages leaves them accounted
\* for, if the last of them is no op.
LEMMA PublishedClosed ==
  ASSUME IInv, PublishedInv, [Next]_vars, NEW w \in Workers, InCrit(w),
         NEW more \in Seq(Messages), published' = published \o more,
         \A k \in 1..Len(more) :
           more[k].kind = "op" => k < Len(more) /\ more[k + 1].kind = "error",
         \/ pc[w] \notin {"check", "write"}
         \/ job[w].upd = None
         \/ Len(more) > 0 /\ more[1].kind = "error"
  PROVE  PublishedInv'
<1>0. published \in Seq(Messages)
  BY DEF IInv, TypeOK
<1>1. /\ DOMAIN published' = 1..(Len(published) + Len(more))
      /\ Len(published') = Len(published) + Len(more)
      /\ Len(published) \in Nat /\ Len(more) \in Nat
      /\ \A k \in 1..Len(more) : published'[Len(published) + k] = more[k]
  BY <1>0
<1>2. SUFFICES ASSUME NEW i \in 1..(Len(published) + Len(more)), published'[i].kind = "op"
               PROVE  Accounted(i)'
  BY <1>1 DEF PublishedInv, Accounted
<1>3. CASE i \in 1..Len(published)
  <2>1. i \in DOMAIN published /\ published'[i] = published[i]
    BY <1>0, <1>3
  <2>2. published[i].kind = "op"
    BY <1>2, <2>1
  <2> QED
    BY <2>1, <2>2, PublishedMore DEF Accounted
<1>4. CASE i \notin 1..Len(published)
  <2>1. PICK k \in 1..Len(more) : i = Len(published) + k
    <3>1. i - Len(published) \in 1..Len(more) /\ i = Len(published) + (i - Len(published))
      BY <1>1, <1>2, <1>4
    <3> QED
      BY <3>1
  <2>2. more[k].kind = "op"
    BY <1>1, <1>2, <2>1
  <2>3. k + 1 \in 1..Len(more) /\ i + 1 = Len(published) + (k + 1) /\ more[k + 1].kind = "error"
    BY <1>1, <2>1, <2>2
  <2>4. published'[i + 1].kind = "error" /\ i < Len(published')
    BY <1>1, <2>1, <2>3
  <2> QED
    BY <2>4 DEF Accounted
<1> QED
  BY <1>3, <1>4

LEMMA OneMessage ==
  ASSUME NEW m \in Messages
  PROVE  \E more \in Seq(Messages) : more = <<m>> /\ Len(more) = 1 /\ more[1] = m
<1>1. <<m>> \in Seq(Messages) /\ Len(<<m>>) = 1 /\ <<m>>[1] = m
  OBVIOUS
<1> QED
  BY <1>1, Zenon

LEMMA NoMessage ==
  \E more \in Seq(Messages) : more = <<>> /\ Len(more) = 0
<1>1. <<>> \in Seq(Messages) /\ Len(<<>>) = 0
  OBVIOUS
<1> QED
  BY <1>1, Zenon

LEMMA TwoMessages ==
  ASSUME NEW m \in Messages, NEW k \in Messages
  PROVE  \E more \in Seq(Messages) : /\ more = <<m, k>> /\ Len(more) = 2
                                     /\ more[1] = m /\ more[2] = k
<1>1. <<m, k>> \in Seq(Messages) /\ Len(<<m, k>>) = 2 /\ <<m, k>>[1] = m /\ <<m, k>>[2] = k
  OBVIOUS
<1> QED
  BY <1>1, Zenon

\* An error is published for every update that fails.
LEMMA FailPublishes ==
  ASSUME IInv, PublishedInv, [Next]_vars, NEW w \in Workers, InCrit(w), Fail(w)
  PROVE  PublishedInv'
<1>0. published \in Seq(Messages) /\ ErrorMessage \in Messages
  BY DEF IInv, TypeOK, ErrorMessage, Messages
<1>1. CASE job[w].upd # None
  <2>1. PICK more \in Seq(Messages) :
          more = <<ErrorMessage>> /\ Len(more) = 1 /\ more[1] = ErrorMessage
    BY <1>0, OneMessage
  <2>2. published' = published \o more
    BY <1>0, <1>1, <2>1 DEF Fail
  <2>3. ErrorMessage.kind = "error"
    BY DEF ErrorMessage
  <2>4. \A k \in 1..Len(more) : more[k].kind # "op"
    BY <2>1, <2>3
  <2>5. Len(more) > 0 /\ more[1].kind = "error"
    BY <2>1, <2>3
  <2> QED
    BY <2>2, <2>4, <2>5, PublishedClosed
<1>2. CASE job[w].upd = None
  <2>1. PICK more \in Seq(Messages) : more = <<>> /\ Len(more) = 0
    BY NoMessage
  <2>2. published' = published \o more
    BY <1>0, <1>2, <2>1 DEF Fail
  <2>3. \A k \in 1..Len(more) : more[k].kind # "op"
    BY <2>1
  <2> QED
    BY <1>2, <2>1, <2>2, <2>3, PublishedClosed
<1> QED
  BY <1>1, <1>2

LEMMA PublishedStep ==
  ASSUME IInv, PublishedInv, [Next]_vars, "crash" \notin Faults
  PROVE  PublishedInv'
<1> USE DEF queueVars, redisVars, outVars, workerVars
<1>0. TypeOK /\ LockHeld /\ published \in Seq(Messages)
  BY DEF IInv, TypeOK
<1>1. CASE UNCHANGED vars
  BY <1>1, PublishedUntouched DEF vars
<1>2. CASE (\E c \in Clients : Client(c)) \/ Notify \/ LockExpires \/ DocOpsExpire
  BY <1>2, OutsideStepLeaves, PublishedUntouched
<1>3. ASSUME NEW w \in Workers, FreeStep(w) PROVE PublishedInv'
  BY <1>0, <1>3, FreeStepLeaves, PublishedUntouched
<1>4. ASSUME NEW w \in Workers, LockedStep(w) PROVE PublishedInv'
  <2>1. InCrit(w) /\ CopyCurrentOf(w)
    BY <1>4, LockedStepStays DEF IInv, CopyCurrent
  <2>2. \A x \in Workers \ {w} : pc[x] \notin {"check", "write"}
    BY <1>0, <2>1 DEF LockHeld, InCrit, Crit
  <2>3. CASE Check(w)
    <3>1. published' = published /\ job' = job /\ pc'[w] = "write"
      BY <1>0, <2>3 DEF Check, Goto, TypeOK
    <3> QED
      BY <2>2, <3>1, PublishedUntouched
  <2>4. CASE published' = published /\ pc[w] \notin {"check", "write"}
    BY <2>2, <2>4, PublishedUntouched
  <2>5. CASE \/ Fetch(w) \/ ReadDoc(w) \/ LoadDoc(w) \/ PutDoc(w) \/ QueueOps(w)
             \/ Snapshot(w) \/ Flush(w) \/ Persist(w) \/ ClearUnflushed(w) \/ Remove(w)
    <3>1. published' = published /\ pc[w] \notin {"check", "write"}
      BY <2>5 DEF Fetch, ReadDoc, LoadDoc, PutDoc, QueueOps, Snapshot, Flush, Persist,
                  ClearUnflushed, Remove
    <3> QED
      BY <2>4, <3>1
  <2>6. CASE \/ ReadFails(w) \/ Reject(w) \/ CheckFails(w) \/ SnapshotFails(w)
             \/ PersistFails(w)
    <3>1. Fail(w)
      BY <2>6 DEF ReadFails, Reject, CheckFails, SnapshotFails, PersistFails
    <3> QED
      BY <2>1, <3>1, FailPublishes
  <2>7. CASE Duplicate(w)
    <3>1. PICK m : m.kind = "dup" /\ published' = Append(published, m)
      BY <2>7 DEF Duplicate
    <3>2. published' \in Seq(Messages) /\ pc[w] = "shareJs"
      BY <2>7, TypeStep DEF IInv, Duplicate, TypeOK
    <3>3. m \in Messages
      BY <1>0, <3>1, <3>2
    <3>4. PICK more \in Seq(Messages) : more = <<m>> /\ Len(more) = 1 /\ more[1] = m
      BY <3>3, OneMessage
    <3>5. published' = published \o more
      BY <1>0, <3>1, <3>3, <3>4
    <3>6. \A k \in 1..Len(more) : more[k].kind # "op"
      BY <3>1, <3>4
    <3> QED
      BY <2>1, <3>2, <3>5, <3>6, PublishedClosed
  <2>8. CASE ApplyFails(w)
    <3> DEFINE m == [kind |-> "op", id |-> job[w].upd.id, v |-> Len(job[w].snap)]
    <3>1. m \in Messages /\ ErrorMessage \in Messages
      <4>1. job[w] \in Jobs /\ job[w].upd # None
        BY <1>0, <2>1, <2>8 DEF TypeOK, ApplyFails, CopyCurrentOf
      <4>2. job[w].upd.id \in Ids /\ Len(job[w].snap) \in Nat
        BY <4>1 DEF Jobs, Updates
      <4> QED
        BY <4>2 DEF Messages, ErrorMessage
    <3>2. published' = published \o <<m, ErrorMessage>> /\ pc[w] = "shareJs"
      BY <2>8 DEF ApplyFails
    <3> HIDE DEF m
    <3>3. PICK more \in Seq(Messages) : /\ more = <<m, ErrorMessage>> /\ Len(more) = 2
                                        /\ more[1] = m /\ more[2] = ErrorMessage
      BY <3>1, TwoMessages
    <3>4. \A k \in 1..Len(more) : more[k].kind = "op" => k < Len(more) /\ more[k + 1].kind = "error"
      BY <3>3 DEF ErrorMessage
    <3> QED
      BY <2>1, <3>2, <3>3, <3>4, PublishedClosed
  <2>9. CASE Apply(w)
    <3> DEFINE message == [kind |-> "op", id |-> job[w].upd.id, v |-> Len(job[w].snap)]
    <3>1. job[w] \in Jobs /\ job[w].upd # None /\ pc[w] = "shareJs"
      BY <1>0, <2>1, <2>9 DEF TypeOK, Apply, CopyCurrentOf
    <3>2. PICK m \in Messages : m = message
      <4>1. job[w].upd.id \in Ids /\ Len(job[w].snap) \in Nat
        BY <3>1 DEF Jobs, Updates
      <4> QED
        BY <4>1 DEF Messages
    <3>n. PICK n \in Nat : n = Len(published)
      BY <1>0
    <3>3. published' = Append(published, m) /\ pc'[w] = "check"
      BY <1>0, <2>9, <3>2 DEF Apply, Goto, TypeOK
    <3>4. job'[w].upd = job[w].upd /\ Len(job'[w].ops) = 1
          /\ job'[w].ops[1].id = m.id /\ job'[w].ops[1].v = m.v
      BY <1>0, <2>9, <3>1, <3>2 DEF Apply, TypeOK, Jobs
    <3> HIDE DEF message
    <3>5. Announces(w, published[n + 1])'
      <4>1. published'[n + 1] = m
        BY <1>0, <3>n, <3>3
      <4>2. job'[w].ops # <<>>
        BY <3>4
      <4> QED
        BY <3>1, <3>3, <3>4, <4>1, <4>2 DEF Announces
    <3>6. PICK more \in Seq(Messages) : more = <<m>>
      BY OneMessage
    <3>7. published' = published \o more
      BY <1>0, <3>3, <3>6
    <3>8. Len(published') = n + 1 /\ DOMAIN published' = 1..(n + 1)
      BY <1>0, <3>n, <3>3
    <3>9. ASSUME NEW i \in 1..n, published'[i].kind = "op" PROVE Accounted(i)'
      <4>1. i \in DOMAIN published /\ published'[i] = published[i]
        BY <1>0, <3>n, <3>3
      <4>2. published[i].kind = "op"
        BY <3>9, <4>1
      <4> QED
        BY <2>1, <3>1, <3>7, <4>1, <4>2, PublishedMore DEF Accounted
    <3>10. Accounted(n + 1)'
      BY <3>5, <3>8 DEF Accounted
    <3> QED
      BY <3>8, <3>9, <3>10 DEF PublishedInv, Accounted
  <2>10. CASE Write(w)
    <3> SUFFICES ASSUME NEW i \in DOMAIN published, published[i].kind = "op"
                 PROVE  Accounted(i)'
      BY <2>10 DEF Write, PublishedInv, Accounted
    <3>1. published' = published /\ Log \in Seq(Ids)
      BY <1>0, <2>10 DEF Write, TypeOK, Log
    <3>2. PICK m \in Messages : m = published[i]
      BY <1>0
    <3>3. CASE InLog(m)
      <4>1. InLog(m)'
        BY <3>3, LogStays
      <4> QED
        BY <3>1, <3>2, <4>1 DEF Accounted, InLog
    <3>4. CASE i < Len(published) /\ published[i + 1].kind = "error"
      BY <3>1, <3>4 DEF Accounted
    <3>5. ASSUME NEW x \in Workers, Announces(x, m) PROVE Accounted(i)'
      <4>1. x = w /\ job[w].ops # <<>> /\ job[w].ops[1].id = m.id /\ job[w].ops[1].v = m.v
        BY <2>2, <3>5 DEF Announces
      <4>2. LogGrows(w)
        BY <2>10, <4>1, WriteGrows
      <4>3. InLog(m)'
        BY <3>1, <4>1, <4>2 DEF LogGrows, InLog
      <4> QED
        BY <3>1, <3>2, <4>3 DEF Accounted, InLog
    <3> QED
      BY <3>2, <3>3, <3>4, <3>5 DEF PublishedInv, Accounted, InLog
  <2> QED
    BY <1>4, <2>3, <2>5, <2>6, <2>7, <2>8, <2>9, <2>10 DEF LockedStep
<1> QED
  BY <1>1, <1>2, <1>3, <1>4, NextCases

\* Unless a worker dies between publishing an op and writing it, what is published is
\* in the document, is about to be, or is followed by its error, whatever else fails.
THEOREM PublishedIsInTheLog ==
  ASSUME "crash" \notin Faults
  PROVE  Spec => []PublishedIsLogged
<1>1. Init => PublishedInv
  BY DEF Init, PublishedInv
<1>2. PublishedInv => PublishedIsLogged
  BY DEF PublishedInv, Accounted, InLog, Announces, PublishedIsLogged
<1>3. IInv /\ PublishedInv /\ [Next]_vars => PublishedInv'
  BY PublishedStep
<1> QED
  BY <1>1, <1>2, <1>3, Invariance, PTL DEF Spec

-----------------------------------------------------------------------------
(* No op is written twice *)

\* Where a worker has an update that it has still to apply.
WaitPCs == {"getDoc", "load", "put", "shareJs", "check", "write"}
Waits(w) == pc[w] \in WaitPCs /\ job[w].upd # None

Batch(w) == job[w].batch

\* The updates ahead, as worker w would come to them: the one it is at, the rest of its
\* batch and the queue.
Line(w) ==
  (IF Waits(w) THEN {0} ELSE {}) \cup 1..(Len(Batch(w)) + Len(pending))
At(w, k) ==
  IF k = 0 THEN job[w].upd
  ELSE IF k <= Len(Batch(w)) THEN Batch(w)[k]
  ELSE pending[k - Len(Batch(w))]

\* An update ahead whose op is in the log is a repetition, of an op that came in after
\* the update's version; and it is no newer than what its session has sent.
Sound(u) ==
  /\ u.id[1] = u.src
  /\ \A p \in DOMAIN Log : Log[p] = u.id => u.dup /\ u.v < p
  /\ u.src \in Clients =>
       /\ u.id[2] <= session[u.src].n
       /\ session[u.src].st = "waiting" /\ u.id[2] = session[u.src].n =>
            u.v = session[u.src].base

\* Of two updates with one op, the second one says that it is a repetition.
Later(u1, u2) == u1.id = u2.id => u2.dup /\ u1.v = u2.v

AllSound(w) == \A k \in Line(w) : Sound(At(w, k))
InOrder(w) == \A i, k \in Line(w) : i < k => Later(At(w, i), At(w, k))
HttpFirst(w) ==
  \A k \in Line(w) :
    At(w, k).src = "http" =>
      /\ k = 0 /\ At(w, k).id = <<"http", job[w].req>>
      /\ job[w].task \in Methods /\ job[w].own
LineInv(w) == AllSound(w) /\ InOrder(w) /\ HttpFirst(w)

\* A setDoc that has still to make its update.
Making(w) ==
  /\ job[w].task \in Methods
  /\ ~job[w].own \/ (pc[w] \in {"getDoc", "load", "put"} /\ job[w].upd = None)

TaskInv(w) ==
  /\ pc[w] \notin Crit \/ pc[w] = "fetch" => Batch(w) = <<>>
  /\ pc[w] \in {"getDoc", "load", "put"} /\ job[w].upd = None => job[w].own
  /\ Making(w) => \A p \in DOMAIN Log : Log[p] # <<"http", job[w].req>>
  /\ pc[w] \in {"check", "write"} =>
       /\ job[w].upd # None
       /\ job[w].ops # <<>> =>
            /\ job[w].ops[1].id = job[w].upd.id /\ job[w].ops[1].src = job[w].upd.src
            /\ job[w].upd.v <= Len(Log)
            /\ \A p \in DOMAIN Log : Log[p] # job[w].upd.id

\* What is known of the ids in the log, and of the requests.
IdsKnown ==
  /\ \A c \in Clients : \A p \in DOMAIN Log :
       Log[p][1] = c =>
         /\ Log[p][2] <= session[c].n
         /\ session[c].st = "waiting" /\ Log[p][2] = session[c].n => session[c].base < p
  /\ \A p \in DOMAIN Log : Log[p][1] = "http" => Log[p][2] <= requests
  /\ \A w \in Workers : job[w].req <= requests
  /\ \A w, x \in Workers :
       w # x /\ job[w].task \in Methods /\ job[x].task \in Methods => job[w].req # job[x].req

SourcesKnown == \A i \in DOMAIN docOps : docOps[i].src = docOps[i].id[1]

OnceInv ==
  /\ NoOpTwice /\ SourcesKnown /\ IdsKnown
  /\ \A w \in Workers : LineInv(w) /\ TaskInv(w)

LEMMA IdParts ==
  ASSUME NEW id \in Ids
  PROVE  /\ id = <<id[1], id[2]>> /\ id[2] \in Nat
         /\ id[1] \in Clients \cup {"http"}
<1>1. CASE id \in Clients \X (0..MaxOps)
  BY <1>1, DocUpdaterAssumption
<1>2. CASE id \in {"http"} \X (0..MaxHttp)
  BY <1>2, DocUpdaterAssumption
<1> QED
  BY <1>1, <1>2 DEF Ids

\* The line is one of updates.
LEMMA LineTypes ==
  ASSUME TypeOK, NEW w \in Workers
  PROVE  /\ Line(w) \subseteq Nat
         /\ \A k \in Line(w) : At(w, k) \in Updates
<1>1. Batch(w) \in Seq(Updates) /\ job[w].upd \in Updates \cup {None} /\ pending \in Seq(Updates)
  BY DEF TypeOK, Jobs, Batch
<1>2. Line(w) \subseteq Nat
  BY <1>1 DEF Line
<1>3. ASSUME NEW k \in Line(w) PROVE At(w, k) \in Updates
  <2>1. CASE k = 0
    BY <1>1, <1>3, <2>1 DEF Line, At, Waits
  <2>2. CASE k # 0 /\ k <= Len(Batch(w))
    <3>1. k \in 1..Len(Batch(w))
      BY <1>1, <1>2, <2>2
    <3> QED
      BY <1>1, <2>2, <3>1 DEF At
  <2>3. CASE k # 0 /\ ~(k <= Len(Batch(w)))
    <3>1. k \in 1..(Len(Batch(w)) + Len(pending))
      BY <2>3 DEF Line
    <3>2. k - Len(Batch(w)) \in 1..Len(pending)
      BY <1>1, <2>3, <3>1
    <3> QED
      BY <1>1, <2>3, <3>2 DEF At
  <2> QED
    BY <2>1, <2>2, <2>3
<1> QED
  BY <1>2, <1>3

LEMMA SoundKept ==
  ASSUME Log' = Log, session' = session, NEW u
  PROVE  Sound(u) => Sound(u)'
BY DEF Sound

LEMMA ShiftIndex ==
  ASSUME NEW a \in Nat, NEW b \in Nat, NEW s \in Nat, NEW k \in 1..a, a + s = b
  PROVE  \E i \in 1..b : i = k + s /\ i # 0
<1>1. k + s \in 1..b /\ k + s # 0
  OBVIOUS
<1> QED
  BY <1>1

\* A worker whose line is a part of what it was one step before.
LEMMA ShiftLine ==
  ASSUME NEW w \in Workers, NEW s \in Nat, LineInv(w),
         Line(w) \subseteq Nat, Line(w)' \subseteq Nat,
         \A k \in Line(w)' : \E i \in Line(w) : i = k + s /\ At(w, k)' = At(w, i),
         0 \in Line(w)' /\ s = 0 => /\ job'[w].req = job[w].req /\ job'[w].task = job[w].task
                                    /\ job'[w].own = job[w].own
  PROVE  /\ InOrder(w)' /\ HttpFirst(w)'
         /\ Log' = Log /\ session' = session => LineInv(w)'
<1>1. ASSUME Log' = Log, session' = session, NEW k \in Line(w)' PROVE Sound(At(w, k))'
  <2>1. PICK i \in Line(w) : At(w, k)' = At(w, i)
    OBVIOUS
  <2>2. PICK u : u = At(w, i)
    OBVIOUS
  <2>3. Sound(u)
    BY <2>2 DEF LineInv, AllSound
  <2>4. Sound(u)'
    BY <1>1, <2>3, SoundKept
  <2> QED
    BY <2>1, <2>2, <2>4 DEF Sound
<1>2. ASSUME NEW k \in Line(w)', NEW l \in Line(w)', k < l
      PROVE  Later(At(w, k), At(w, l))'
  <2>1. PICK i \in Line(w) : i = k + s /\ At(w, k)' = At(w, i)
    OBVIOUS
  <2>2. PICK n \in Line(w) : n = l + s /\ At(w, l)' = At(w, n)
    OBVIOUS
  <2>3. i < n
    BY <1>2, <2>1, <2>2
  <2>4. Later(At(w, i), At(w, n))
    BY <2>3 DEF LineInv, InOrder
  <2> QED
    BY <2>1, <2>2, <2>4 DEF Later
<1>3. ASSUME NEW k \in Line(w)', At(w, k)'.src = "http"
      PROVE  /\ k = 0 /\ At(w, k)'.id = <<"http", job'[w].req>>
             /\ job'[w].task \in Methods /\ job'[w].own
  <2>1. PICK i \in Line(w) : i = k + s /\ At(w, k)' = At(w, i)
    OBVIOUS
  <2>2. /\ i = 0 /\ At(w, i).id = <<"http", job[w].req>>
        /\ job[w].task \in Methods /\ job[w].own
    BY <1>3, <2>1 DEF LineInv, HttpFirst
  <2>3. k = 0 /\ s = 0
    BY <2>1, <2>2
  <2> QED
    BY <2>1, <2>2, <2>3
<1> QED
  BY <1>1, <1>2, <1>3 DEF LineInv, AllSound, InOrder, HttpFirst

Distinct == "http" \notin Clients /\ None \notin Updates

\* A step that leaves a worker with no update to apply.
LEMMA LeavesWaiting ==
  ASSUME TypeOK, TypeOK', NEW w \in Workers, LineInv(w), TaskInv(w),
         pending' = pending, Log' = Log, session' = session, pc'[w] \notin WaitPCs,
         \/ job'[w] = NoJob
         \/ /\ Batch(w)' = Batch(w) /\ job'[w].task = job[w].task
            /\ job'[w].own = job[w].own /\ job'[w].req = job[w].req
            /\ pc'[w] \in Crit \ {"fetch"} \/ Batch(w) = <<>>
  PROVE  LineInv(w)' /\ TaskInv(w)'
<1>0. /\ Batch(w) \in Seq(Updates) /\ Batch(w)' \in Seq(Updates)
      /\ pending \in Seq(Updates) /\ Len(<<>>) = 0
  BY DEF TypeOK, Jobs, Batch
<1>a. Len(Batch(w)) \in Nat /\ Len(Batch(w)') \in Nat /\ Len(pending) \in Nat
  BY <1>0
<1>1. Batch(w)' = Batch(w) \/ Batch(w)' = <<>>
  BY DEF NoJob, Batch
<1>2. Line(w)' = 1..(Len(Batch(w)') + Len(pending))
  BY DEF Line, Waits
<1>3. ASSUME NEW s \in Nat, s = Len(Batch(w)) - Len(Batch(w)')
      PROVE  LineInv(w)'
  <2>1. ASSUME NEW k \in Line(w)'
        PROVE  \E i \in Line(w) : i = k + s /\ At(w, k)' = At(w, i)
    <3>1. k \in 1..(Len(Batch(w)') + Len(pending)) /\ k # 0 /\ k \in Nat
      BY <1>0, <1>2
    <3>2. PICK i \in 1..(Len(Batch(w)) + Len(pending)) : i = k + s /\ i # 0
      <4>1. /\ Len(Batch(w)') + Len(pending) \in Nat
            /\ Len(Batch(w)) + Len(pending) \in Nat
            /\ (Len(Batch(w)') + Len(pending)) + s = Len(Batch(w)) + Len(pending)
        BY <1>a, <1>3
      <4> QED
        BY <3>1, <4>1, ShiftIndex
    <3>3. CASE Batch(w)' = Batch(w)
      <4>1. i = k
        BY <1>0, <1>3, <3>1, <3>2, <3>3
      <4>2. At(w, k)' = At(w, k)
        BY <3>1, <3>3 DEF At
      <4> QED
        BY <3>2, <4>1, <4>2 DEF Line
    <3>4. CASE Batch(w)' = <<>>
      <4>1. Len(Batch(w)') = 0 /\ s = Len(Batch(w))
        BY <1>0, <1>3, <3>4
      <4>2. ~(k <= Len(Batch(w)')) /\ k - Len(Batch(w)') = k
        BY <3>1, <4>1
      <4>3. ~(i <= Len(Batch(w))) /\ i - Len(Batch(w)) = k
        BY <1>0, <3>1, <3>2, <4>1
      <4>4. At(w, k)' = pending[k]
        BY <3>1, <4>2 DEF At
      <4>5. At(w, i) = pending[k]
        BY <3>2, <4>3 DEF At
      <4> QED
        BY <3>2, <4>4, <4>5 DEF Line
    <3> QED
      BY <1>1, <3>3, <3>4
  <2>2. Line(w) \subseteq Nat /\ Line(w)' \subseteq Nat /\ 0 \notin Line(w)'
    BY <1>0, <1>2, LineTypes
  <2> QED
    BY <1>3, <2>1, <2>2, ShiftLine
<1>4. Len(Batch(w)) - Len(Batch(w)') \in Nat
  BY <1>0, <1>1
<1>5. TaskInv(w)'
  <2>1. CASE job'[w] = NoJob
    <3>1. Batch(w)' = <<>> /\ job'[w].task = "none"
      BY <2>1 DEF NoJob, Batch
    <3>2. "none" \notin Methods
      BY DocUpdaterAssumption
    <3> QED
      BY <3>1, <3>2 DEF TaskInv, Making, WaitPCs
  <2>2. CASE /\ Batch(w)' = Batch(w) /\ job'[w].task = job[w].task
             /\ job'[w].own = job[w].own /\ job'[w].req = job[w].req
             /\ pc'[w] \in Crit \ {"fetch"} \/ Batch(w) = <<>>
    <3>1. Making(w)' => Making(w)
      BY <2>2 DEF Making, WaitPCs
    <3> QED
      BY <2>2, <3>1 DEF TaskInv, WaitPCs
  <2> QED
    BY <2>1, <2>2
<1> QED
  BY <1>3, <1>4, <1>5

\* A step in which a worker keeps the update it is at.
LEMMA StaysWaiting ==
  ASSUME TypeOK, NEW w \in Workers, LineInv(w),
         pending' = pending, Log' = Log, session' = session,
         pc[w] \in WaitPCs, pc'[w] \in WaitPCs,
         Batch(w)' = Batch(w), job'[w].upd = job[w].upd,
         job'[w].task = job[w].task, job'[w].own = job[w].own, job'[w].req = job[w].req
  PROVE  LineInv(w)'
<1>1. Line(w)' = Line(w) /\ Line(w) \subseteq Nat
  BY LineTypes DEF Line, Waits
<1>2. ASSUME NEW k \in Line(w)' PROVE \E i \in Line(w) : i = k + 0 /\ At(w, k)' = At(w, i)
  <2>1. k + 0 = k
    BY <1>1
  <2>2. At(w, k)' = At(w, k)
    BY DEF At
  <2> QED
    BY <1>1, <2>1, <2>2
<1> QED
  BY <1>1, <1>2, ShiftLine

\* What Advance makes of a worker's variables.
LEMMA AdvanceJob ==
  ASSUME TypeOK, NEW w \in Workers, NEW b, Advance(w, b)
  PROVE  /\ job'[w].task = job[w].task /\ job'[w].req = job[w].req
         /\ \/ /\ b # <<>> /\ pc'[w] = "getDoc" /\ job'[w].own = job[w].own
               /\ job'[w].upd = Head(b) /\ Batch(w)' = Tail(b)
            \/ /\ b = <<>> /\ job'[w].upd = None /\ Batch(w)' = <<>>
               /\ \/ job'[w].own = job[w].own /\ pc'[w] \in {"flush", "release"}
                  \/ /\ ~job[w].own /\ job'[w].own
                     /\ pc'[w] \in {"getDoc", "flush"} /\ job[w].task \in Methods
<1> DEFINE j == [job[w] EXCEPT !.snap = <<>>, !.ops = <<>>, !.upd = None, !.batch = <<>>]
<1>1. job[w] \in Jobs
  BY DEF TypeOK
<1>2. /\ DOMAIN j = {"task", "batch", "upd", "snap", "ops", "own", "was", "req"}
      /\ j.task = job[w].task /\ j.req = job[w].req /\ j.own = job[w].own
      /\ j.upd = None /\ j.batch = <<>>
  BY <1>1 DEF Jobs
<1> DEFINE method == j.task \in Methods
<1>3. \/ /\ b # <<>> /\ pc'[w] = "getDoc"
         /\ job'[w] = [j EXCEPT !.upd = Head(b), !.batch = Tail(b)]
      \/ /\ b = <<>> /\ pc'[w] \in {"flush", "release"} /\ job'[w] = j
      \/ /\ b = <<>> /\ ~j.own /\ j.task \in Methods /\ pc'[w] \in {"getDoc", "flush"}
         /\ job'[w] = [j EXCEPT !.own = TRUE]
  <2>0. \/ /\ b # <<>> /\ Goto(w, "getDoc")
           /\ job' = [job EXCEPT ![w] = [j EXCEPT !.upd = Head(b), !.batch = Tail(b)]]
        \/ /\ b = <<>> /\ (Goto(w, "flush") \/ Goto(w, "release"))
           /\ job' = [job EXCEPT ![w] = j]
        \/ /\ b = <<>> /\ ~j.own /\ j.task \in Methods
           /\ Goto(w, IF j.task \in {"get", "set"} THEN "getDoc" ELSE "flush")
           /\ job' = [job EXCEPT ![w] = [j EXCEPT !.own = TRUE]]
    BY Zenon DEF Advance
  <2> HIDE DEF j
  <2>1. CASE /\ b # <<>> /\ Goto(w, "getDoc")
             /\ job' = [job EXCEPT ![w] = [j EXCEPT !.upd = Head(b), !.batch = Tail(b)]]
    BY <2>1 DEF Goto, TypeOK
  <2>2. CASE /\ b = <<>> /\ (Goto(w, "flush") \/ Goto(w, "release"))
             /\ job' = [job EXCEPT ![w] = j]
    BY <2>2 DEF Goto, TypeOK
  <2>3. CASE /\ b = <<>> /\ ~j.own /\ j.task \in Methods
             /\ Goto(w, IF j.task \in {"get", "set"} THEN "getDoc" ELSE "flush")
             /\ job' = [job EXCEPT ![w] = [j EXCEPT !.own = TRUE]]
    BY <2>3 DEF Goto, TypeOK
  <2> QED
    BY <2>0, <2>1, <2>2, <2>3
<1> HIDE DEF j
<1> QED
  BY <1>2, <1>3 DEF Batch

\* A worker takes up the next update of a batch b, if b is what was ahead of it.
LEMMA AdvanceOnce ==
  ASSUME Distinct, TypeOK, TypeOK', NEW w \in Workers, LineInv(w), TaskInv(w),
         Log' = Log, session' = session, NEW b \in Seq(Updates), Advance(w, b),
         \A k \in 1..(Len(b) + Len(pending')) :
           /\ k \in Line(w)
           /\ At(w, k) = IF k <= Len(b) THEN b[k] ELSE pending'[k - Len(b)]
  PROVE  LineInv(w)' /\ TaskInv(w)'
<1>0. /\ pending' \in Seq(Updates) /\ Len(b) \in Nat /\ Len(pending') \in Nat
      /\ job[w] \in Jobs /\ Line(w) \subseteq Nat /\ Len(<<>>) = 0
  BY LineTypes DEF TypeOK
<1>1. CASE b # <<>>
  <2>1. /\ pc'[w] = "getDoc" /\ job'[w].upd = b[1] /\ Batch(w)' = Tail(b)
        /\ job'[w].task = job[w].task /\ job'[w].own = job[w].own /\ job'[w].req = job[w].req
    <3>1. b[1] = Head(b)
      BY <1>1
    <3> QED
      BY <1>1, <3>1, AdvanceJob
  <2>2. /\ Len(Tail(b)) = Len(b) - 1 /\ Len(b) > 0 /\ b[1] \in Updates
        /\ \A i \in 1..(Len(b) - 1) : Tail(b)[i] = b[i + 1]
    BY <1>1
  <2>3. Waits(w)' /\ job'[w].upd # None
    BY <2>1, <2>2 DEF Waits, WaitPCs, Distinct
  <2>4. Line(w)' = {0} \cup 1..((Len(b) - 1) + Len(pending'))
    BY <2>1, <2>2, <2>3 DEF Line
  <2>5. ASSUME NEW k \in Line(w)'
        PROVE  \E i \in Line(w) : i = k + 1 /\ At(w, k)' = At(w, i)
    <3>1. PICK i \in 1..(Len(b) + Len(pending')) : i = k + 1 /\ k \in Nat
      BY <1>0, <2>2, <2>4
    <3>2. CASE k = 0
      <4>1. At(w, k)' = b[1]
        BY <2>1, <3>2 DEF At
      <4>2. At(w, i) = b[1]
        BY <1>0, <2>2, <3>1, <3>2
      <4> QED
        BY <3>1, <4>1, <4>2
    <3>3. CASE k # 0 /\ k <= Len(b) - 1
      <4>1. At(w, k)' = Tail(b)[k]
        BY <2>1, <2>2, <3>3 DEF At
      <4>2. Tail(b)[k] = b[i]
        BY <1>0, <2>2, <3>1, <3>3
      <4>3. At(w, i) = b[i]
        BY <1>0, <3>1, <3>3
      <4> QED
        BY <3>1, <4>1, <4>2, <4>3
    <3>4. CASE k # 0 /\ ~(k <= Len(b) - 1)
      <4>1. At(w, k)' = pending'[k - (Len(b) - 1)]
        BY <2>1, <2>2, <3>4 DEF At
      <4>2. At(w, i) = pending'[i - Len(b)]
        BY <1>0, <3>1, <3>4
      <4>3. i - Len(b) = k - (Len(b) - 1)
        BY <1>0, <3>1
      <4> QED
        BY <3>1, <4>1, <4>2, <4>3
    <3> QED
      BY <3>2, <3>3, <3>4
  <2>6. Line(w)' \subseteq Nat
    BY <1>0, <2>2, <2>4
  <2>7. LineInv(w)'
    BY <1>0, <2>5, <2>6, ShiftLine
  <2>8. Making(w)' => Making(w)
    BY <2>1, <2>3 DEF Making
  <2>9. TaskInv(w)'
    BY <2>1, <2>3, <2>8 DEF TaskInv, Crit
  <2> QED
    BY <2>7, <2>9
<1>2. CASE b = <<>>
  <2>1. /\ job'[w].upd = None /\ Batch(w)' = <<>>
        /\ job'[w].task = job[w].task /\ job'[w].req = job[w].req
        /\ \/ job'[w].own = job[w].own /\ pc'[w] \in {"flush", "release"}
           \/ ~job[w].own /\ job'[w].own /\ pc'[w] \in {"getDoc", "flush"} /\ job[w].task \in Methods
    BY <1>2, AdvanceJob
  <2>2. ~Waits(w)' /\ Line(w)' = 1..Len(pending')
    BY <1>0, <2>1 DEF Waits, Line
  <2>3. ASSUME NEW k \in Line(w)'
        PROVE  \E i \in Line(w) : i = k + 0 /\ At(w, k)' = At(w, i)
    <3>1. k \in 1..(Len(b) + Len(pending')) /\ k \in Nat /\ k # 0 /\ k + 0 = k
      BY <1>0, <1>2, <2>2
    <3>2. ~(k <= Len(b)) /\ k - Len(b) = k
      BY <1>0, <1>2, <3>1
    <3>3. At(w, k) = pending'[k]
      BY <3>1, <3>2
    <3>4. At(w, k)' = pending'[k]
      <4>1. ~(k <= Len(Batch(w)')) /\ k - Len(Batch(w)') = k
        BY <1>0, <2>1, <3>1
      <4> QED
        BY <3>1, <4>1 DEF At
    <3> QED
      BY <3>1, <3>3, <3>4
  <2>4. Line(w)' \subseteq Nat /\ 0 \notin Line(w)'
    BY <1>0, <2>2
  <2>5. LineInv(w)'
    BY <1>0, <2>3, <2>4, ShiftLine
  <2>6. Making(w)' => Making(w)
    BY <2>1 DEF Making
  <2>7. TaskInv(w)'
    BY <2>1, <2>6 DEF TaskInv
  <2> QED
    BY <2>5, <2>7
<1> QED
  BY <1>1, <1>2

\* A worker outside the section has the queue ahead of it, before and after.
LEMMA OutsideOnce ==
  ASSUME TypeOK, NEW w \in Workers, LineInv(w), TaskInv(w), pc[w] \notin Crit,
         pending' = pending, Log' = Log, session' = session,
         pc'[w] \notin WaitPCs, Batch(w)' = <<>>
  PROVE  LineInv(w)'
<1>0. /\ Batch(w) = <<>> /\ pending \in Seq(Updates) /\ Len(<<>>) = 0
      /\ ~Waits(w) /\ ~Waits(w)'
  BY DEF TypeOK, TaskInv, Waits, WaitPCs, Crit, Batch
<1>1. Line(w)' = 1..Len(pending) /\ Line(w) = 1..Len(pending)
  BY <1>0 DEF Line
<1>2. ASSUME NEW k \in Line(w)' PROVE \E i \in Line(w) : i = k + 0 /\ At(w, k)' = At(w, i)
  <2>1. k + 0 = k /\ k \in Line(w) /\ k # 0
    BY <1>0, <1>1
  <2>2. At(w, k)' = At(w, k)
    BY <1>0, <2>1 DEF At
  <2> QED
    BY <2>1, <2>2
<1>3. Line(w) \subseteq Nat /\ Line(w)' \subseteq Nat /\ 0 \notin Line(w)'
  BY <1>0, <1>1
<1> QED
  BY <1>2, <1>3, ShiftLine

\* Nothing changes for a worker but what is behind it in the queue.
LEMMA AppendOnce ==
  ASSUME TypeOK, NEW w \in Workers, LineInv(w), NEW u \in Updates, u.src # "http",
         pc' = pc, job' = job, pending' = Append(pending, u),
         Sound(u)', \A z \in Updates : Sound(z) => Sound(z)',
         \A k \in Line(w) : Later(At(w, k), u)
  PROVE  LineInv(w)'
<1>n. PICK n : n = Len(Batch(w)) + Len(pending) + 1
  OBVIOUS
<1>0. /\ Batch(w) \in Seq(Updates) /\ pending \in Seq(Updates)
      /\ Len(pending') = Len(pending) + 1
  BY DEF TypeOK, Jobs, Batch
<1>a. Len(Batch(w)) \in Nat /\ Len(pending) \in Nat
  BY <1>0
<1>b. n \in Nat /\ n > 0
  BY <1>n, <1>a
<1>c. Batch(w)' = Batch(w) /\ Waits(w)' = Waits(w)
  BY DEF Batch, Waits
<1>d. \A i \in 1..Len(pending) : pending'[i] = pending[i]
  BY <1>0
<1>e. pending'[Len(pending) + 1] = u
  BY <1>0
<1>1. /\ Line(w) \subseteq Nat /\ \A k \in Line(w) : At(w, k) \in Updates
      /\ \A k \in Line(w) : k < n
  BY <1>n, <1>a, <1>b, LineTypes DEF Line
<1>2. Line(w)' = Line(w) \cup {n}
  <2>1. 1..(Len(Batch(w)) + Len(pending')) = (1..(Len(Batch(w)) + Len(pending))) \cup {n}
    BY <1>n, <1>0, <1>a, <1>b
  <2> QED
    BY <1>c, <2>1 DEF Line
<1>3. ASSUME NEW k \in Line(w) PROVE At(w, k)' = At(w, k)
  <2>1. CASE k = 0 \/ k <= Len(Batch(w))
    BY <1>c, <2>1 DEF At
  <2>2. CASE ~(k = 0 \/ k <= Len(Batch(w)))
    <3>1. k - Len(Batch(w)) \in 1..Len(pending)
      <4>1. k \in 1..(Len(Batch(w)) + Len(pending))
        BY <2>2 DEF Line
      <4> QED
        BY <1>a, <2>2, <4>1
    <3>2. pending'[k - Len(Batch(w))] = pending[k - Len(Batch(w))]
      BY <1>d, <3>1
    <3> QED
      BY <1>c, <2>2, <3>2 DEF At
  <2> QED
    BY <2>1, <2>2
<1>4. At(w, n)' = u
  <2>1. n # 0 /\ ~(n <= Len(Batch(w))) /\ n - Len(Batch(w)) = Len(pending) + 1
    BY <1>n, <1>a, <1>b
  <2> QED
    BY <1>c, <1>e, <2>1 DEF At
<1>5. ASSUME NEW k \in Line(w)' PROVE Sound(At(w, k))'
  <2>1. CASE k \in Line(w)
    <3>1. PICK z \in Updates : z = At(w, k)
      BY <1>1, <2>1
    <3>2. Sound(z)
      BY <2>1, <3>1 DEF LineInv, AllSound
    <3>3. Sound(z)'
      BY <3>2
    <3> QED
      BY <1>3, <2>1, <3>1, <3>3 DEF Sound
  <2>2. CASE k = n
    BY <1>4, <2>2 DEF Sound
  <2> QED
    BY <1>2, <2>1, <2>2
<1>6. ASSUME NEW i \in Line(w)', NEW k \in Line(w)', i < k PROVE Later(At(w, i), At(w, k))'
  <2>1. i \in Line(w)
    BY <1>b, <1>1, <1>2, <1>6
  <2>2. CASE k \in Line(w)
    <3>1. Later(At(w, i), At(w, k))
      BY <1>6, <2>1, <2>2 DEF LineInv, InOrder
    <3> QED
      BY <1>3, <2>1, <2>2, <3>1 DEF Later
  <2>3. CASE k = n
    BY <1>3, <1>4, <2>1, <2>3 DEF Later
  <2> QED
    BY <1>2, <2>2, <2>3
<1>7. HttpFirst(w)'
  <2>1. ASSUME NEW k \in Line(w)', At(w, k)'.src = "http"
        PROVE  k \in Line(w) /\ At(w, k).src = "http" /\ At(w, k)' = At(w, k)
    BY <1>2, <1>3, <1>4, <2>1
  <2> QED
    BY <2>1 DEF LineInv, HttpFirst
<1> QED
  BY <1>5, <1>6, <1>7 DEF LineInv, AllSound, InOrder

\* The others, while one worker takes updates off the queue.
LEMMA FetchOthers ==
  ASSUME TypeOK, NEW x \in Workers, LineInv(x), TaskInv(x), pc[x] \notin Crit,
         NEW n \in 0..Len(pending), pending' = SubSeq(pending, n + 1, Len(pending)),
         Log' = Log, session' = session, pc'[x] = pc[x], job'[x] = job[x]
  PROVE  LineInv(x)'
<1>0. /\ Batch(x) = <<>> /\ pending \in Seq(Updates) /\ Len(<<>>) = 0
      /\ Batch(x)' = <<>> /\ ~Waits(x) /\ ~Waits(x)' /\ n \in Nat
  BY DEF TypeOK, TaskInv, Waits, WaitPCs, Crit, Batch
<1>1. /\ Len(pending') = Len(pending) - n
      /\ \A k \in 1..(Len(pending) - n) : pending'[k] = pending[k + n]
  <2>1. n + 1 \in 1..(Len(pending) + 1) /\ Len(pending) \in Nat
    BY <1>0
  <2> QED
    BY <1>0, <2>1
<1>2. Line(x)' = 1..(Len(pending) - n) /\ Line(x) = 1..Len(pending)
  BY <1>0, <1>1 DEF Line
<1>3. ASSUME NEW k \in Line(x)' PROVE \E i \in Line(x) : i = k + n /\ At(x, k)' = At(x, i)
  <2>1. PICK i \in Line(x) : i = k + n /\ i # 0 /\ k # 0 /\ k \in Nat /\ i \in Nat
    <3>1. /\ Len(pending) - n \in Nat /\ Len(pending) \in Nat
          /\ (Len(pending) - n) + n = Len(pending)
      BY <1>0
    <3>2. k \in 1..(Len(pending) - n) /\ k \in Nat /\ k # 0
      BY <1>2, <3>1
    <3>3. \E i \in 1..Len(pending) : i = k + n /\ i # 0
      BY <1>0, <3>1, <3>2, ShiftIndex
    <3> QED
      BY <1>2, <3>1, <3>2, <3>3
  <2>2. ~(k <= Len(Batch(x)')) /\ ~(i <= Len(Batch(x)))
        /\ k - Len(Batch(x)') = k /\ i - Len(Batch(x)) = i
    BY <1>0, <2>1
  <2>3. At(x, k)' = pending'[k] /\ At(x, i) = pending[i]
    BY <2>1, <2>2 DEF At
  <2>4. pending'[k] = pending[i]
    BY <1>1, <1>2, <2>1
  <2> QED
    BY <2>1, <2>3, <2>4
<1>4. Line(x) \subseteq Nat /\ Line(x)' \subseteq Nat /\ 0 \notin Line(x)'
  BY <1>0, <1>2
<1> QED
  BY <1>0, <1>3, <1>4, ShiftLine

\* A task that a step leaves where it is, the log too.
LEMMA TaskSame ==
  ASSUME NEW x \in Workers, TaskInv(x), Log' = Log, pc'[x] = pc[x], job'[x] = job[x]
  PROVE  TaskInv(x)'
BY DEF TaskInv, Making, Batch

LEMMA SameOnce ==
  ASSUME TypeOK, NEW x \in Workers, LineInv(x), TaskInv(x), pending' = pending,
         Log' = Log, session' = session, pc'[x] = pc[x], job'[x] = job[x]
  PROVE  LineInv(x)' /\ TaskInv(x)'
<1>1. Line(x)' = Line(x) /\ Line(x) \subseteq Nat
  BY LineTypes DEF Line, Waits, Batch
<1>2. ASSUME NEW k \in Line(x)' PROVE \E i \in Line(x) : i = k + 0 /\ At(x, k)' = At(x, i)
  <2>1. k + 0 = k
    BY <1>1
  <2>2. At(x, k)' = At(x, k)
    BY DEF At, Batch
  <2> QED
    BY <1>1, <2>1, <2>2
<1> QED
  BY <1>1, <1>2, ShiftLine, TaskSame

\* What a step that takes nothing into the log keeps.
LEMMA GlobalKept ==
  ASSUME TypeOK, NoOpTwice, IdsKnown, Log' = Log, session' = session, requests' = requests,
         \A x \in Workers :
           /\ job'[x].req \in {job[x].req, 0}
           /\ job'[x].task \in Methods => job'[x].task = job[x].task /\ job'[x].req = job[x].req
  PROVE  NoOpTwice' /\ IdsKnown'
<1>1. NoOpTwice'
  BY DEF NoOpTwice
<1>2. 0 <= requests
  BY DocUpdaterAssumption DEF TypeOK
<1>3. \A w \in Workers : job'[w].req <= requests'
  BY <1>2 DEF IdsKnown
<1>4. \A w, x \in Workers :
         w # x /\ job'[w].task \in Methods /\ job'[x].task \in Methods => job'[w].req # job'[x].req
  BY DEF IdsKnown
<1>5. /\ \A c \in Clients : \A p \in DOMAIN Log' :
           Log'[p][1] = c =>
             /\ Log'[p][2] <= session'[c].n
             /\ session'[c].st = "waiting" /\ Log'[p][2] = session'[c].n => session'[c].base < p
      /\ \A p \in DOMAIN Log' : Log'[p][1] = "http" => Log'[p][2] <= requests'
  BY DEF IdsKnown
<1> QED
  BY <1>1, <1>3, <1>4, <1>5 DEF IdsKnown

\* An update that ShareJS applies has an op that is not in the log.
LEMMA AppliedIsNew ==
  ASSUME IInv, DocOpsAligned, SourcesKnown, NEW w \in Workers, LineInv(w),
         pc[w] = "shareJs", Outcome(job[w].upd, Len(job[w].snap)) = "apply"
  PROVE  /\ job[w].upd.v <= Len(Log)
         /\ \A p \in DOMAIN Log : Log[p] # job[w].upd.id
<1>1. loaded /\ job[w].snap = lines /\ Log = lines /\ job[w].upd # None
  BY DEF IInv, CopyCurrent, CopyCurrentOf, Log
<1>2. lines \in Seq(Ids) /\ docOps \in Seq(Ops) /\ job[w].upd \in Updates
  BY <1>1 DEF IInv, TypeOK, Jobs
<1>3. PICK u \in Updates : u = job[w].upd
  BY <1>2
<1>4. u.v \in Nat /\ u.dup \in BOOLEAN
  BY DEF Updates
<1>5. PICK ver \in Nat : ver = Len(lines)
  BY <1>2
<1>6. PICK n \in Nat : n = Len(docOps)
  BY <1>2
<1>7. n <= ver /\ FirstVersion = ver - n
  BY <1>1, <1>5, <1>6 DEF DocOpsAligned, FirstVersion
<1>8. Outcome(u, ver) = "apply"
  BY <1>1, <1>3, <1>5
<1>9. Sound(u)
  <2>1. 0 \in Line(w) /\ At(w, 0) = u
    BY <1>1, <1>3 DEF Line, Waits, WaitPCs, At
  <2> QED
    BY <2>1 DEF LineInv, AllSound
<1>10. u.v <= ver
  BY <1>4, <1>5, <1>8 DEF Outcome
<1>11. ASSUME NEW p \in DOMAIN Log, Log[p] = u.id PROVE FALSE
  <2>1. u.dup /\ u.v < p /\ p \in 1..ver /\ u.id[1] = u.src
    BY <1>1, <1>2, <1>5, <1>9, <1>11 DEF Sound
  <2>2. ~(u.v < ver - n) /\ ~Resubmitted(u)
    BY <1>4, <1>5, <1>7, <1>8, <2>1 DEF Outcome
  <2>3. PICK i \in 1..n : i = p - (ver - n)
    <3>1. p - (ver - n) \in 1..n
      BY <1>4, <1>7, <2>1, <2>2
    <3> QED
      BY <3>1
  <2>4. docOps[i].id = u.id
    <3>1. docOps[i].id = Log[((ver - n) + i - 1) + 1]
      BY <1>1, <1>2, <1>5, <1>6 DEF DocOpsAligned
    <3>2. ((ver - n) + i - 1) + 1 = p
      BY <2>1, <2>3
    <3> QED
      BY <1>11, <3>1, <3>2
  <2>5. docOps[i].src = u.src
    BY <1>2, <1>6, <2>1, <2>4 DEF SourcesKnown
  <2>6. PICK m \in 1..n : m = (u.v - (ver - n)) + 1
    <3>1. (u.v - (ver - n)) + 1 \in 1..n
      BY <1>4, <1>7, <2>1, <2>2
    <3> QED
      BY <3>1
  <2>7. OpsSince(u.v) = SubSeq(docOps, m, n)
    BY <1>6, <1>7, <2>6 DEF OpsSince
  <2>8. PICK k \in 1..((n - m) + 1) : k = (i - m) + 1
    <3>1. m <= i
      <4>1. u.v + 1 <= p
        BY <1>4, <2>1
      <4> QED
        BY <1>4, <2>1, <2>3, <2>6, <4>1
    <3>2. (i - m) + 1 \in 1..((n - m) + 1)
      BY <3>1
    <3> QED
      BY <3>2
  <2>9. k \in DOMAIN OpsSince(u.v) /\ OpsSince(u.v)[k] = docOps[i]
    <3>1. /\ DOMAIN SubSeq(docOps, m, n) = 1..((n - m) + 1)
          /\ \A l \in 1..((n - m) + 1) : SubSeq(docOps, m, n)[l] = docOps[(m + l) - 1]
      BY <1>2, <1>6
    <3>2. (m + k) - 1 = i
      BY <2>8
    <3> QED
      BY <2>7, <3>1, <3>2
  <2> QED
    BY <2>1, <2>2, <2>5, <2>9 DEF Resubmitted
<1> QED
  BY <1>1, <1>3, <1>5, <1>10, <1>11

\* setDoc makes an update of its own.
LEMMA MakeOnce ==
  ASSUME Distinct, TypeOK, NEW w \in Workers, LineInv(w), TaskInv(w),
         pending' = pending, Log' = Log, session' = session,
         pc[w] \in {"getDoc", "load", "put"}, pc'[w] \in {"getDoc", "load", "put"},
         job[w].upd = None, job[w].task \in Methods, NEW v \in Nat, NEW u,
         u = [id |-> <<"http", job[w].req>>, src |-> "http", v |-> v, dup |-> FALSE],
         Batch(w)' = Batch(w), job'[w].upd = u, u \in Updates,
         job'[w].task = job[w].task, job'[w].own = job[w].own, job'[w].req = job[w].req
  PROVE  LineInv(w)' /\ TaskInv(w)'
<1>1. job[w].own /\ \A p \in DOMAIN Log : Log[p] # u.id
  BY DEF TaskInv, Making
<1>a. u # None
  BY DEF Distinct
<1>b. Waits(w)' /\ ~Waits(w)
  BY <1>a DEF Waits, WaitPCs
<1>2. /\ Line(w) \subseteq Nat /\ Line(w)' = Line(w) \cup {0} /\ 0 \notin Line(w)
      /\ u # None
  <2>1. 0 \notin 1..(Len(Batch(w)) + Len(pending))
    OBVIOUS
  <2> QED
    BY <1>a, <1>b, <2>1, LineTypes DEF Line
<1>3. At(w, 0)' = u /\ \A k \in Line(w) : At(w, k)' = At(w, k)
  BY <1>2 DEF At
<1>4. Sound(u)'
  BY <1>1 DEF Sound, Distinct
<1>5. ASSUME NEW k \in Line(w) PROVE Sound(At(w, k))' /\ Later(u, At(w, k))
  <2>1. PICK z : z = At(w, k)
    OBVIOUS
  <2>2. Sound(z) /\ (z.src = "http" => k = 0)
    BY <2>1 DEF LineInv, AllSound, HttpFirst
  <2>3. Sound(z)'
    BY <2>2, SoundKept
  <2>4. z.id # u.id
    BY <1>2, <2>2 DEF Sound
  <2> QED
    BY <1>3, <2>1, <2>3, <2>4 DEF Sound, Later
<1>6. ASSUME NEW i \in Line(w)', NEW k \in Line(w)', i < k PROVE Later(At(w, i), At(w, k))'
  <2>1. k \in Line(w)
    BY <1>2, <1>6
  <2>2. CASE i \in Line(w)
    <3>1. Later(At(w, i), At(w, k))
      BY <1>6, <2>1, <2>2 DEF LineInv, InOrder
    <3> QED
      BY <1>3, <2>1, <2>2, <3>1 DEF Later
  <2>3. CASE i = 0
    BY <1>3, <1>5, <2>1, <2>3 DEF Later
  <2> QED
    BY <1>2, <2>2, <2>3
<1>7. ASSUME NEW k \in Line(w)', At(w, k)'.src = "http"
      PROVE  /\ k = 0 /\ At(w, k)'.id = <<"http", job'[w].req>>
             /\ job'[w].task \in Methods /\ job'[w].own
  <2>1. k = 0
    BY <1>2, <1>3, <1>7 DEF LineInv, HttpFirst
  <2> QED
    BY <1>1, <1>3, <2>1
<1>8. AllSound(w)'
  <2>1. ASSUME NEW k \in Line(w)' PROVE Sound(At(w, k))'
    <3>1. CASE k = 0
      BY <1>3, <1>4, <3>1 DEF Sound
    <3> QED
      BY <1>2, <1>5, <3>1
  <2> QED
    BY <2>1 DEF AllSound
<1>9. TaskInv(w)'
  BY <1>1, <1>2 DEF TaskInv, Making, Crit
<1> QED
  BY <1>6, <1>7, <1>8, <1>9 DEF LineInv, InOrder, HttpFirst

\* A locked step is its worker's own: the request it serves stays, or the task ends.
LEMMA LockedStepOwn ==
  ASSUME TypeOK, NEW w \in Workers, LockedStep(w)
  PROVE  /\ session' = session /\ requests' = requests
         /\ \A x \in Workers \ {w} : pc'[x] = pc[x] /\ job'[x] = job[x]
         /\ \/ job'[w] = NoJob
            \/ job'[w].task = job[w].task /\ job'[w].req = job[w].req
<1> USE DEF queueVars, redisVars, outVars, workerVars
<1>1. session' = session /\ requests' = requests
  BY DEF LockedStep, Fetch, ReadDoc, LoadDoc, PutDoc, ReadFails, Reject, Duplicate, Apply,
         ApplyFails, Check, CheckFails, Write, QueueOps, Snapshot, SnapshotFails, Flush,
         Persist, PersistFails, ClearUnflushed, Remove
<1>2. ASSUME NEW x \in Workers \ {w} PROVE pc'[x] = pc[x]
  BY LockedStepStays DEF TypeOK
<1> DEFINE Mine == /\ \A x \in Workers \ {w} : job'[x] = job[x]
                   /\ \/ job'[w] = NoJob
                      \/ job'[w].task = job[w].task /\ job'[w].req = job[w].req
<1>3. ASSUME NEW j, job' = [job EXCEPT ![w] = j],
             j = NoJob \/ (j.task = job[w].task /\ j.req = job[w].req)
      PROVE  Mine
  BY <1>3 DEF TypeOK
<1>4. ASSUME NEW b, Advance(w, b) PROVE Mine
  <2>1. \A x \in Workers \ {w} : job'[x] = job[x]
    BY <1>4 DEF Advance, TypeOK
  <2> QED
    BY <1>4, <2>1, AdvanceJob
<1>5. Fail(w) => Mine
  BY <1>3 DEF Fail
<1>6. ASSUME NEW z, job' = [job EXCEPT ![w].snap = z] PROVE Mine
  <2>1. \A x \in Workers \ {w} : job'[x] = job[x]
    BY <1>6 DEF TypeOK
  <2>2. job'[w].task = job[w].task /\ job'[w].req = job[w].req
    BY <1>6 DEF TypeOK, Jobs
  <2> QED
    BY <2>1, <2>2
<1>7. job' = job => Mine
  OBVIOUS
<1>8. ASSUME NEW t, NEW h, HaveDoc(w, t, h) PROVE Mine
  <2>1. CASE job' = [job EXCEPT ![w].snap = t] \/ job' = [job EXCEPT ![w].snap = <<>>]
    BY <1>6, <2>1
  <2>2. CASE job' = [job EXCEPT ![w] = [job[w] EXCEPT !.snap = <<>>, !.was = h]]
    <3>1. \A x \in Workers \ {w} : job'[x] = job[x]
      BY <2>2 DEF TypeOK
    <3>2. job'[w].task = job[w].task /\ job'[w].req = job[w].req
      BY <2>2 DEF TypeOK, Jobs
    <3> QED
      BY <3>1, <3>2
  <2>3. CASE \E u : job' = [job EXCEPT ![w] = [job[w] EXCEPT !.snap = <<>>, !.was = h, !.upd = u]]
    <3>1. \A x \in Workers \ {w} : job'[x] = job[x]
      BY <2>3 DEF TypeOK
    <3>2. job'[w].task = job[w].task /\ job'[w].req = job[w].req
      BY <2>3 DEF TypeOK, Jobs
    <3> QED
      BY <3>1, <3>2
  <2> QED
    BY <1>8, <2>1, <2>2, <2>3, Zenon DEF HaveDoc
<1>9. AfterFlush(w) => Mine
  BY <1>6 DEF AfterFlush
<1>10. Apply(w) => Mine
  <2> SUFFICES ASSUME Apply(w) PROVE Mine
    OBVIOUS
  <2>1. \A x \in Workers \ {w} : job'[x] = job[x]
    BY DEF Apply, TypeOK
  <2>2. job'[w].task = job[w].task /\ job'[w].req = job[w].req
    BY DEF Apply, TypeOK, Jobs
  <2> QED
    BY <2>1, <2>2
<1>11. ApplyFails(w) => Mine
  BY <1>3 DEF ApplyFails
<1> HIDE DEF Mine
<1>12. (Fetch(w) \/ Snapshot(w) \/ Write(w) \/ QueueOps(w)) => Mine
  BY <1>4, <1>7 DEF Fetch, Snapshot, Write, QueueOps
<1>13. (ReadDoc(w) \/ PutDoc(w) \/ LoadDoc(w)) => Mine
  BY <1>6, <1>7, <1>8 DEF ReadDoc, PutDoc, LoadDoc
<1>14. (ReadFails(w) \/ Reject(w) \/ CheckFails(w) \/ SnapshotFails(w) \/ PersistFails(w)) => Mine
  BY <1>5 DEF ReadFails, Reject, CheckFails, SnapshotFails, PersistFails
<1>15. (Duplicate(w) \/ Check(w) \/ Persist(w) \/ Remove(w)) => Mine
  BY <1>7 DEF Duplicate, Check, Persist, Remove
<1>16. (Flush(w) \/ ClearUnflushed(w)) => Mine
  BY <1>6, <1>9 DEF Flush, ClearUnflushed
<1>17. Mine
  BY <1>10, <1>11, <1>12, <1>13, <1>14, <1>15, <1>16 DEF LockedStep
<1> QED
  BY <1>1, <1>2, <1>17 DEF Mine

\* A worker that keeps its update and has not come to its checks.
LEMMA StaysTask ==
  ASSUME NEW w \in Workers, TaskInv(w), Log' = Log,
         pc'[w] \in {"getDoc", "load", "put", "shareJs"},
         pc'[w] \in {"getDoc", "load", "put"} => pc[w] \in {"getDoc", "load", "put"},
         job'[w].upd = job[w].upd,
         job'[w].task = job[w].task, job'[w].own = job[w].own, job'[w].req = job[w].req
  PROVE  TaskInv(w)'
<1>1. Making(w)' => Making(w)
  BY DEF Making
<1> QED
  BY <1>1 DEF TaskInv, Crit

LEMMA HaveDocOnce ==
  ASSUME Distinct, TypeOK, TypeOK', NEW w \in Workers, LineInv(w), TaskInv(w),
         pending' = pending, Log' = Log, session' = session,
         pc[w] \in {"getDoc", "load", "put"}, NEW text, Len(text) \in Nat,
         NEW hit, HaveDoc(w, text, hit)
  PROVE  LineInv(w)' /\ TaskInv(w)'
<1> USE DEF Goto
<1>0. job[w] \in Jobs /\ pc \in [Workers -> PCs] /\ job \in [Workers -> Jobs]
  BY DEF TypeOK
<1>1. CASE /\ job[w].upd # None /\ Goto(w, "shareJs")
           /\ job' = [job EXCEPT ![w].snap = text]
  <2>1. /\ Batch(w)' = Batch(w) /\ job'[w].upd = job[w].upd /\ pc'[w] = "shareJs"
        /\ job'[w].task = job[w].task /\ job'[w].own = job[w].own /\ job'[w].req = job[w].req
    BY <1>0, <1>1 DEF Jobs, Batch
  <2> QED
    BY <2>1, StaysTask, StaysWaiting DEF WaitPCs
<1>2. CASE /\ Goto(w, "release") \/ Goto(w, "flush")
           /\ \/ job' = [job EXCEPT ![w].snap = <<>>]
              \/ job' = [job EXCEPT ![w] = [job[w] EXCEPT !.snap = <<>>, !.was = hit]]
  <2>1. /\ Batch(w)' = Batch(w) /\ pc'[w] \in {"release", "flush"}
        /\ job'[w].task = job[w].task /\ job'[w].own = job[w].own /\ job'[w].req = job[w].req
    <3>1. pc'[w] \in {"release", "flush"}
      BY <1>0, <1>2
    <3>2. CASE job' = [job EXCEPT ![w].snap = <<>>]
      BY <1>0, <3>1, <3>2 DEF Jobs, Batch
    <3>3. CASE job' = [job EXCEPT ![w] = [job[w] EXCEPT !.snap = <<>>, !.was = hit]]
      BY <1>0, <3>1, <3>3 DEF Jobs, Batch
    <3> QED
      BY <1>2, <3>2, <3>3
  <2> QED
    BY <2>1, LeavesWaiting DEF WaitPCs, Crit
<1>3. ASSUME NEW u, u = [id |-> <<"http", job[w].req>>, src |-> "http",
                         v |-> Len(text), dup |-> FALSE],
             job[w].upd = None, job[w].task = "set", Goto(w, "getDoc"),
             job' = [job EXCEPT ![w] = [job[w] EXCEPT !.snap = <<>>, !.was = hit, !.upd = u]]
      PROVE  LineInv(w)' /\ TaskInv(w)'
  <2>1. /\ Batch(w)' = Batch(w) /\ job'[w].upd = u /\ pc'[w] = "getDoc"
        /\ job'[w].task = job[w].task /\ job'[w].own = job[w].own /\ job'[w].req = job[w].req
    BY <1>0, <1>3 DEF Jobs, Batch
  <2>2. job[w].task \in Methods
    BY <1>0, <1>3 DEF Jobs, Tasks
  <2>3. u \in Updates
    <3>1. <<"http", job[w].req>> \in Ids
      BY <1>0 DEF Jobs, Ids
    <3> QED
      BY <1>3, <3>1 DEF Updates
  <2> QED
    BY <1>3, <2>1, <2>2, <2>3, MakeOnce
<1>4. \/ /\ job[w].upd # None /\ Goto(w, "shareJs")
         /\ job' = [job EXCEPT ![w].snap = text]
      \/ /\ Goto(w, "release") \/ Goto(w, "flush")
         /\ \/ job' = [job EXCEPT ![w].snap = <<>>]
            \/ job' = [job EXCEPT ![w] = [job[w] EXCEPT !.snap = <<>>, !.was = hit]]
      \/ /\ job[w].upd = None /\ job[w].task = "set" /\ Goto(w, "getDoc")
         /\ job' = [job EXCEPT ![w] =
              [job[w] EXCEPT !.snap = <<>>, !.was = hit,
                             !.upd = [id |-> <<"http", job[w].req>>, src |-> "http",
                                      v |-> Len(text), dup |-> FALSE]]]
  <2> HIDE DEF Goto
  <2> QED
    BY Zenon DEF HaveDoc
<1> HIDE DEF Goto
<1> QED
  BY <1>1, <1>2, <1>3, <1>4

\* What is ahead of a worker when it has taken updates off the queue.
LEMMA FetchOnce ==
  ASSUME Distinct, TypeOK, TypeOK', NEW w \in Workers, LineInv(w), TaskInv(w),
         Log' = Log, session' = session, pc[w] = "fetch",
         NEW n \in 0..Len(pending), pending' = SubSeq(pending, n + 1, Len(pending)),
         Advance(w, SubSeq(pending, 1, n))
  PROVE  LineInv(w)' /\ TaskInv(w)'
<1>1. PICK b : b = SubSeq(pending, 1, n)
  OBVIOUS
<1>2. /\ b \in Seq(Updates) /\ Len(b) = n /\ \A k \in 1..n : b[k] = pending[k]
      /\ Batch(w) = <<>> /\ Len(<<>>) = 0 /\ pending \in Seq(Updates)
  BY <1>1 DEF TypeOK, TaskInv
<1>3. /\ Len(pending') = Len(pending) - n
      /\ \A k \in 1..(Len(pending) - n) : pending'[k] = pending[k + n]
  <2>1. n + 1 \in 1..(Len(pending) + 1) /\ Len(pending) \in Nat
    BY <1>2
  <2> QED
    BY <1>2, <2>1
<1>4. ASSUME NEW k \in 1..(Len(b) + Len(pending'))
      PROVE  /\ k \in Line(w)
             /\ At(w, k) = IF k <= Len(b) THEN b[k] ELSE pending'[k - Len(b)]
  <2>1. PICK m \in Nat : m = Len(pending) /\ n <= m
    BY <1>2
  <2>2. k \in 1..m
    BY <1>2, <1>3, <2>1
  <2>3. k \in Line(w) /\ At(w, k) = pending[k]
    <3>1. k # 0 /\ ~(k <= Len(Batch(w))) /\ k - Len(Batch(w)) = k /\ 0 + Len(pending) = m
      BY <1>2, <2>1, <2>2
    <3> QED
      BY <1>2, <2>1, <2>2, <3>1 DEF Line, At
  <2>4. CASE k <= n
    BY <1>2, <2>2, <2>3, <2>4
  <2>5. CASE ~(k <= n)
    <3>1. PICK l \in 1..(m - n) : l = k - n /\ l + n = k
      <4>1. k - n \in 1..(m - n) /\ (k - n) + n = k
        BY <2>1, <2>2, <2>5
      <4> QED
        BY <4>1
    <3>2. pending'[l] = pending[k]
      BY <1>3, <2>1, <3>1
    <3> QED
      BY <1>2, <2>3, <2>5, <3>1, <3>2
  <2> QED
    BY <2>4, <2>5
<1> QED
  BY <1>1, <1>2, <1>4, AdvanceOnce

\* The steps inside the section that add no op to the log.
LEMMA LockedStepOnce ==
  ASSUME Distinct, IInv, TypeOK', DocOpsAligned, OnceInv, NEW w \in Workers, LockedStep(w),
         Log' = Log
  PROVE  \A x \in Workers : LineInv(x)' /\ TaskInv(x)'
<1> USE DEF queueVars, redisVars, outVars, workerVars
<1>0. /\ TypeOK /\ LockHeld /\ InCrit(w) /\ session' = session
      /\ LineInv(w) /\ TaskInv(w) /\ CopyCurrentOf(w)
      /\ job[w] \in Jobs /\ pc \in [Workers -> PCs] /\ job \in [Workers -> Jobs]
  BY LockedStepStays, LockedStepOwn DEF IInv, CopyCurrent, OnceInv, TypeOK
<1>1. ~Fetch(w) => pending' = pending
  BY DEF LockedStep, ReadDoc, LoadDoc, PutDoc, ReadFails, Reject, Duplicate, Apply,
         ApplyFails, Check, CheckFails, Write, QueueOps, Snapshot, SnapshotFails, Flush,
         Persist, PersistFails, ClearUnflushed, Remove
<1>n. Fetch(w) => \E n \in 0..Len(pending) :
        /\ pending' = SubSeq(pending, n + 1, Len(pending))
        /\ Advance(w, SubSeq(pending, 1, n))
  <2> SUFFICES ASSUME Fetch(w)
               PROVE  \E n \in 0..Len(pending) :
                        /\ pending' = SubSeq(pending, n + 1, Len(pending))
                        /\ Advance(w, SubSeq(pending, 1, n))
    OBVIOUS
  <2>1. Lesser(BatchMax, Len(pending)) \in 0..Len(pending)
    <3>1. Len(pending) \in Nat
      BY <1>0 DEF TypeOK
    <3> QED
      BY <3>1, DocUpdaterAssumption DEF Lesser
  <2> QED
    BY <2>1 DEF Fetch
<1>2. ASSUME NEW x \in Workers \ {w} PROVE LineInv(x)' /\ TaskInv(x)'
  <2>1. pc'[x] = pc[x] /\ job'[x] = job[x] /\ LineInv(x) /\ TaskInv(x)
    BY <1>0, LockedStepOwn DEF OnceInv
  <2>2. pc[x] \notin Crit
    BY <1>0 DEF LockHeld, InCrit
  <2>3. CASE Fetch(w)
    BY <1>0, <1>n, <2>1, <2>2, <2>3, FetchOthers, TaskSame
  <2>4. CASE ~Fetch(w)
    BY <1>0, <1>1, <2>1, <2>4, SameOnce
  <2> QED
    BY <2>3, <2>4
<1>3. CASE Fetch(w)
  BY <1>0, <1>2, <1>3, <1>n, FetchOnce DEF Fetch
<1>4. CASE ReadDoc(w) \/ PutDoc(w) \/ LoadDoc(w)
  <2>1. ASSUME NEW text, NEW hit, HaveDoc(w, text, hit), Len(text) \in Nat,
               pc[w] \in {"getDoc", "load", "put"}
        PROVE  LineInv(w)' /\ TaskInv(w)'
    BY <1>0, <1>1, <1>4, <2>1, HaveDocOnce DEF ReadDoc, PutDoc, LoadDoc, Fetch
  <2>2. CASE ReadDoc(w) /\ loaded
    <3>1. Len(lines) \in Nat
      BY <1>0 DEF TypeOK
    <3> QED
      BY <1>2, <2>1, <2>2, <3>1 DEF ReadDoc
  <2>3. CASE PutDoc(w)
    <3>1. Len(job[w].snap) \in Nat
      BY <1>0 DEF Jobs
    <3> QED
      BY <1>2, <2>1, <2>3, <3>1 DEF PutDoc
  <2>4. CASE LoadDoc(w) \/ (ReadDoc(w) /\ ~loaded)
    <3>1. /\ Batch(w)' = Batch(w) /\ job'[w].upd = job[w].upd /\ pc'[w] \in {"load", "put"}
          /\ job'[w].task = job[w].task /\ job'[w].own = job[w].own /\ job'[w].req = job[w].req
          /\ pc[w] \in {"getDoc", "load"} /\ ~Fetch(w)
      <4>1. CASE LoadDoc(w)
        BY <1>0, <4>1 DEF LoadDoc, Goto, Jobs, Batch, Fetch
      <4>2. CASE ReadDoc(w) /\ ~loaded
        BY <1>0, <4>2 DEF ReadDoc, Goto, Batch, Fetch
      <4> QED
        BY <2>4, <4>1, <4>2
    <3> QED
      BY <1>0, <1>1, <1>2, <3>1, StaysTask, StaysWaiting DEF WaitPCs
  <2> QED
    BY <1>4, <2>2, <2>3, <2>4
<1>5. CASE \/ ReadFails(w) \/ Reject(w) \/ CheckFails(w) \/ SnapshotFails(w)
           \/ PersistFails(w) \/ ApplyFails(w)
  <2>1. job'[w] = NoJob /\ pc'[w] = "releaseErr" /\ ~Fetch(w)
    BY <1>0, <1>5 DEF ReadFails, Reject, CheckFails, SnapshotFails, PersistFails, ApplyFails,
                      Fail, Goto, Fetch
  <2> QED
    BY <1>0, <1>1, <1>2, <2>1, LeavesWaiting DEF WaitPCs
<1>6. CASE Duplicate(w) \/ Check(w)
  <2>1. /\ job' = job /\ pc'[w] \in {"check", "write"} /\ pc[w] \in {"shareJs", "check"}
        /\ ~Fetch(w)
    BY <1>0, <1>6 DEF Duplicate, Check, Goto, Fetch
  <2>2. LineInv(w)'
    BY <1>0, <1>1, <2>1, StaysWaiting DEF WaitPCs, Batch
  <2>3. TaskInv(w)'
    <3>1. Making(w)' => Making(w)
      BY <2>1 DEF Making
    <3> QED
      BY <1>0, <2>1, <3>1 DEF TaskInv, CopyCurrentOf, Batch, Crit
  <2> QED
    BY <1>2, <2>2, <2>3
<1>7. CASE Apply(w)
  <2>1. /\ Batch(w)' = Batch(w) /\ job'[w].upd = job[w].upd /\ pc'[w] = "check"
        /\ job'[w].task = job[w].task /\ job'[w].own = job[w].own /\ job'[w].req = job[w].req
        /\ pc[w] = "shareJs" /\ ~Fetch(w)
    BY <1>0, <1>7 DEF Apply, Goto, Jobs, Batch, Fetch
  <2>2. job'[w].ops[1].id = job[w].upd.id /\ job'[w].ops[1].src = job[w].upd.src
    BY <1>0, <1>7 DEF Apply, Jobs
  <2>3. LineInv(w)'
    BY <1>0, <1>1, <2>1, StaysWaiting DEF WaitPCs
  <2>4. /\ job[w].upd.v <= Len(Log) /\ job[w].upd # None
        /\ \A p \in DOMAIN Log : Log[p] # job[w].upd.id
    BY <1>0, <1>7, AppliedIsNew DEF Apply, OnceInv, CopyCurrentOf
  <2>5. TaskInv(w)'
    <3>1. Making(w)' => Making(w)
      BY <2>1 DEF Making
    <3> QED
      BY <1>0, <2>1, <2>2, <2>4, <3>1 DEF TaskInv, Crit
  <2> QED
    BY <1>2, <2>3, <2>5
<1>8. ASSUME Advance(w, job[w].batch), ~Fetch(w)
      PROVE  LineInv(w)' /\ TaskInv(w)'
  <2>1. Advance(w, Batch(w)) /\ Batch(w) \in Seq(Updates) /\ pending' = pending
    BY <1>0, <1>1, <1>8 DEF Batch, Jobs
  <2>2. ASSUME NEW k \in 1..(Len(Batch(w)) + Len(pending'))
        PROVE  /\ k \in Line(w)
               /\ At(w, k) = IF k <= Len(Batch(w)) THEN Batch(w)[k]
                                                   ELSE pending'[k - Len(Batch(w))]
    <3>1. k # 0
      OBVIOUS
    <3> QED
      BY <2>1, <3>1 DEF Line, At
  <2>3. PICK b \in Seq(Updates) : b = Batch(w)
    BY <2>1
  <2> QED
    BY <1>0, <2>1, <2>2, <2>3, AdvanceOnce
<1>9. ASSUME Batch(w)' = Batch(w), job'[w].task = job[w].task,
             job'[w].own = job[w].own, job'[w].req = job[w].req,
             pc'[w] \in Crit \ {"fetch"}, pc'[w] \notin WaitPCs, ~Fetch(w)
      PROVE  LineInv(w)' /\ TaskInv(w)'
  BY <1>0, <1>1, <1>9, LeavesWaiting
<1>10. CASE QueueOps(w) \/ Snapshot(w)
  <2>1. ~Fetch(w) /\ (Advance(w, job[w].batch) \/ (pc'[w] = "snapshot" /\ job' = job))
    BY <1>0, <1>10 DEF QueueOps, Snapshot, Goto, Fetch
  <2> QED
    BY <1>2, <1>8, <1>9, <2>1 DEF Crit, WaitPCs, Batch
<1>11. CASE Flush(w) \/ Persist(w) \/ ClearUnflushed(w) \/ Remove(w)
  <2>1. AfterFlush(w) =>
          /\ Batch(w)' = Batch(w) /\ job'[w].task = job[w].task
          /\ job'[w].own = job[w].own /\ job'[w].req = job[w].req
          /\ pc'[w] \in {"remove", "release"}
    BY <1>0 DEF AfterFlush, Goto, Jobs, Batch
  <2>2. Goto(w, "persist") /\ job' = [job EXCEPT ![w].snap = lines] =>
          /\ Batch(w)' = Batch(w) /\ job'[w].task = job[w].task
          /\ job'[w].own = job[w].own /\ job'[w].req = job[w].req
          /\ pc'[w] = "persist"
    BY <1>0 DEF Goto, Jobs, Batch
  <2>3. ~Fetch(w)
    BY <1>11 DEF Fetch, Flush, Persist, ClearUnflushed, Remove
  <2>4. CASE Flush(w) \/ ClearUnflushed(w)
    <3>1. AfterFlush(w) \/ (Goto(w, "persist") /\ job' = [job EXCEPT ![w].snap = lines])
      BY <2>4 DEF Flush, ClearUnflushed
    <3> QED
      BY <1>2, <1>9, <2>1, <2>2, <2>3, <3>1 DEF Crit, WaitPCs
  <2>5. CASE Persist(w) \/ Remove(w)
    <3>1. job' = job /\ pc'[w] \in {"clear", "release"}
      BY <1>0, <2>5 DEF Persist, Remove, Goto
    <3> QED
      BY <1>2, <1>9, <2>3, <3>1 DEF Crit, WaitPCs, Batch
  <2> QED
    BY <1>11, <2>4, <2>5
<1>12. CASE Write(w)
  <2>1. job[w].ops = <<>>
    <3>1. LogGrows(w) /\ Len(Log') = Len(Log) + 1 => FALSE
      <4>1. Len(Log) \in Nat
        BY <1>0 DEF TypeOK, Log
      <4> QED
        BY <4>1
    <3> QED
      BY <1>12, <3>1, WriteGrows
  <2>2. Advance(w, job[w].batch) /\ ~Fetch(w)
    BY <1>12, <2>1 DEF Write, Fetch
  <2> QED
    BY <1>2, <1>8, <2>2
<1> QED
  BY <1>2, <1>3, <1>4, <1>5, <1>6, <1>7, <1>10, <1>11, <1>12 DEF LockedStep

\* The kept ops of DocOps and the new one are those of their sources.
LEMMA SourcesWritten ==
  ASSUME TypeOK, SourcesKnown, NEW w \in Workers, Write(w),
         \/ job[w].ops = <<>>
         \/ Len(job[w].ops) = 1 /\ job[w].ops[1].src = job[w].ops[1].id[1]
  PROVE  SourcesKnown'
<1> DEFINE kept == LastEntries(docOps, DocOpsMax)
           m == Lesser(DocOpsMax, Len(docOps))
<1>1. docOps \in Seq(Ops) /\ job[w].ops \in Seq(Ops)
  BY DEF TypeOK, Jobs
<1>2. /\ kept \in Seq(Ops) /\ Len(kept) = m
      /\ \A i \in 1..m : kept[i] = docOps[i + (Len(docOps) - m)]
  BY <1>1, LastEntriesType, DocUpdaterAssumption
<1>3. m \in 0..Len(docOps) /\ Len(docOps) \in Nat
  BY <1>1, DocUpdaterAssumption DEF Lesser
<1>4. docOps' = kept \o job[w].ops
  BY DEF Write
<1> HIDE DEF kept, m
<1>5. \A i \in 1..m : kept[i].src = kept[i].id[1]
  <2> SUFFICES ASSUME NEW i \in 1..m PROVE kept[i].src = kept[i].id[1]
    OBVIOUS
  <2>1. i + (Len(docOps) - m) \in 1..Len(docOps)
    BY <1>3
  <2>2. PICK k \in DOMAIN docOps : kept[i] = docOps[k]
    BY <1>1, <1>2, <2>1
  <2> QED
    BY <2>2 DEF SourcesKnown
<1>6. PICK c : c = kept \o job[w].ops
  OBVIOUS
<1>7. CASE Len(job[w].ops) = 1 /\ job[w].ops[1].src = job[w].ops[1].id[1]
  <2>1. /\ Len(c) = m + 1 /\ c[m + 1] = job[w].ops[1] /\ \A i \in 1..m : c[i] = kept[i]
        /\ DOMAIN c = 1..Len(c)
    <3>1. PICK k \in Seq(Ops) : k = kept /\ Len(k) = m
      BY <1>2
    <3>2. PICK t \in Seq(Ops) : t = job[w].ops /\ Len(t) = 1
      BY <1>1, <1>7
    <3>3. /\ Len(k \o t) = Len(k) + 1 /\ (k \o t)[Len(k) + 1] = t[1]
          /\ \A i \in 1..Len(k) : (k \o t)[i] = k[i]
      BY <3>2, AppendOne
    <3>4. k \o t \in Seq(Ops)
      OBVIOUS
    <3>5. c = k \o t
      BY <1>6, <3>1, <3>2
    <3>6. DOMAIN c = 1..Len(c)
      BY <3>4, <3>5
    <3> QED
      BY <3>1, <3>2, <3>3, <3>5, <3>6
  <2>2. ASSUME NEW i \in DOMAIN c PROVE c[i].src = c[i].id[1]
    <3>1. i \in 1..m \/ i = m + 1
      BY <1>3, <2>1
    <3> QED
      BY <1>5, <1>7, <2>1, <3>1
  <2> QED
    BY <1>4, <1>6, <2>2 DEF SourcesKnown
<1>8. CASE job[w].ops = <<>>
  <2>1. kept \o <<>> = kept /\ DOMAIN kept = 1..m
    BY <1>2
  <2> QED
    BY <1>4, <1>5, <1>8, <2>1 DEF SourcesKnown
<1> QED
  BY <1>7, <1>8

LEMMA AppendFacts ==
  ASSUME NEW S, NEW s \in Seq(S), NEW e \in S
  PROVE  /\ DOMAIN Append(s, e) = 1..(Len(s) + 1) /\ Append(s, e)[Len(s) + 1] = e
         /\ DOMAIN s = 1..Len(s) /\ \A i \in 1..Len(s) : Append(s, e)[i] = s[i]
OBVIOUS

\* An applied op is written to the log.
LEMMA WriteOnce ==
  ASSUME Distinct, IInv, TypeOK', OnceInv, NEW w \in Workers, Write(w), LogGrows(w)
  PROVE  OnceInv'
<1> USE DEF queueVars, redisVars, outVars, workerVars
<1>0. /\ TypeOK /\ LockHeld /\ InCrit(w) /\ LineInv(w) /\ TaskInv(w) /\ pc[w] = "write"
  BY DEF IInv, OnceInv, InCrit, Crit, Write
<1>1. /\ pending' = pending /\ session' = session /\ requests' = requests
  BY DEF Write
<1>2. job[w].ops # <<>> /\ Len(job[w].ops) = 1
  <2>1. Len(<<>>) = 0
    OBVIOUS
  <2> QED
    BY <2>1 DEF LogGrows
<1>3. /\ job' = job /\ pc' = [pc EXCEPT ![w] = "queueOps"] /\ pc'[w] = "queueOps"
      /\ \A x \in Workers \ {w} : pc'[x] = pc[x]
  BY <1>0, <1>2 DEF Write, Goto, TypeOK
<1>4. PICK u \in Updates : u = job[w].upd
  BY <1>0 DEF TaskInv, TypeOK, Jobs
<1>5. /\ job[w].ops[1].id = u.id /\ job[w].ops[1].src = u.src /\ u.v <= Len(Log)
      /\ \A p \in DOMAIN Log : Log[p] # u.id
  BY <1>0, <1>2, <1>4 DEF TaskInv
<1>6. 0 \in Line(w) /\ At(w, 0) = u /\ Sound(u)
  <2>1. 0 \in Line(w) /\ At(w, 0) = u
    BY <1>0, <1>4 DEF Line, Waits, WaitPCs, At, Distinct
  <2> QED
    BY <1>0, <2>1 DEF LineInv, AllSound
<1>7. PICK n \in Nat : n = Len(Log)
  BY <1>0 DEF TypeOK, Log
<1>8. PICK L : L = Append(Log, u.id) /\ L = Log'
  BY <1>5 DEF LogGrows
<1>9. /\ DOMAIN L = 1..(n + 1) /\ L[n + 1] = u.id
      /\ DOMAIN Log = 1..n /\ \A p \in 1..n : L[p] = Log[p]
  <2>1. Log \in Seq(Ids) /\ u.id \in Ids
    BY <1>0 DEF TypeOK, Log, Updates
  <2> QED
    <3>1. PICK l \in Seq(Ids) : l = Log
      BY <2>1
    <3>2. PICK e \in Ids : e = u.id
      BY <2>1
    <3>3. /\ DOMAIN Append(l, e) = 1..(Len(l) + 1) /\ Append(l, e)[Len(l) + 1] = e
          /\ DOMAIN l = 1..Len(l) /\ \A i \in 1..Len(l) : Append(l, e)[i] = l[i]
      BY AppendFacts
    <3>4. L = Append(l, e) /\ Len(l) = n
      BY <1>7, <1>8, <3>1, <3>2
    <3> QED
      BY <3>1, <3>2, <3>3, <3>4
<1>10. u.v \in Nat /\ u.id[1] = u.src
  BY <1>6 DEF Updates, Sound
<1>11. u.src = "http" =>
         u.id = <<"http", job[w].req>> /\ job[w].task \in Methods /\ job[w].own
  BY <1>0, <1>6 DEF LineInv, HttpFirst
<1>12. ASSUME NEW z, Sound(z), Later(u, z) PROVE Sound(z)'
  <2>1. ASSUME NEW p \in DOMAIN L, L[p] = z.id PROVE z.dup /\ z.v < p
    <3>1. CASE p \in 1..n
      BY <1>9, <1>12, <2>1, <3>1 DEF Sound
    <3>2. CASE p = n + 1
      <4>1. z.dup /\ z.v = u.v
        BY <1>9, <1>12, <2>1, <3>2 DEF Later
      <4> QED
        BY <1>5, <1>7, <1>10, <3>2, <4>1
    <3> QED
      BY <1>9, <3>1, <3>2
  <2> QED
    BY <1>1, <1>8, <1>12, <2>1 DEF Sound
<1>13. NoOpTwice'
  <2>1. ASSUME NEW i \in DOMAIN L, NEW k \in DOMAIN L, L[i] = L[k] PROVE i = k
    <3>1. CASE i \in 1..n /\ k \in 1..n
      BY <1>9, <2>1, <3>1 DEF OnceInv, NoOpTwice
    <3>2. CASE i = n + 1 /\ k \in 1..n
      BY <1>5, <1>9, <2>1, <3>2
    <3>3. CASE i \in 1..n /\ k = n + 1
      BY <1>5, <1>9, <2>1, <3>3
    <3> QED
      BY <1>9, <3>1, <3>2, <3>3
  <2> QED
    BY <1>8, <2>1 DEF NoOpTwice
<1>14. SourcesKnown'
  BY <1>0, <1>2, <1>5, <1>10, SourcesWritten DEF OnceInv
<1>15. IdsKnown'
  <2>1. ASSUME NEW c \in Clients, NEW p \in DOMAIN L, L[p][1] = c
        PROVE  /\ L[p][2] <= session[c].n
               /\ session[c].st = "waiting" /\ L[p][2] = session[c].n => session[c].base < p
    <3>1. CASE p \in 1..n
      BY <1>9, <2>1, <3>1 DEF OnceInv, IdsKnown
    <3>2. CASE p = n + 1
      <4>1. /\ L[p] = u.id /\ u.src = c
        BY <1>9, <1>10, <2>1, <3>2
      <4>2. /\ u.id[2] <= session[c].n
            /\ session[c].st = "waiting" /\ u.id[2] = session[c].n => u.v = session[c].base
        BY <1>6, <4>1 DEF Sound
      <4> QED
        BY <1>5, <1>7, <1>10, <3>2, <4>1, <4>2
    <3> QED
      BY <1>9, <3>1, <3>2
  <2>2. ASSUME NEW p \in DOMAIN L, L[p][1] = "http" PROVE L[p][2] <= requests
    <3>1. CASE p \in 1..n
      BY <1>9, <2>2, <3>1 DEF OnceInv, IdsKnown
    <3>2. CASE p = n + 1
      <4>1. L[p] = <<"http", job[w].req>>
        BY <1>9, <1>10, <1>11, <2>2, <3>2
      <4> QED
        BY <4>1 DEF OnceInv, IdsKnown
    <3> QED
      BY <1>9, <3>1, <3>2
  <2> QED
    BY <1>1, <1>3, <1>8, <2>1, <2>2 DEF OnceInv, IdsKnown
<1>16. LineInv(w)' /\ TaskInv(w)'
  <2>1. /\ Line(w)' = Line(w) \ {0} /\ Line(w) \subseteq Nat
        /\ \A k \in Line(w)' : At(w, k)' = At(w, k)
    <3>1. Line(w) = {0} \cup 1..(Len(Batch(w)) + Len(pending))
      BY <1>6 DEF Line
    <3>2. Line(w)' = 1..(Len(Batch(w)) + Len(pending))
      BY <1>1, <1>3 DEF Line, Waits, WaitPCs, Batch
    <3>3. 0 \notin 1..(Len(Batch(w)) + Len(pending))
      OBVIOUS
    <3> QED
      BY <1>0, <1>1, <1>3, <3>1, <3>2, <3>3, LineTypes DEF At, Batch
  <2>2. ASSUME NEW k \in Line(w)' PROVE \E i \in Line(w) : i = k + 0 /\ At(w, k)' = At(w, i)
    <3>1. k \in Line(w) /\ k + 0 = k
      BY <2>1
    <3> QED
      BY <2>1, <3>1
  <2>3. Line(w)' \subseteq Nat /\ 0 \notin Line(w)'
    BY <2>1
  <2>4. InOrder(w)' /\ HttpFirst(w)'
    BY <1>0, <2>1, <2>2, <2>3, ShiftLine
  <2>5. ASSUME NEW k \in Line(w)' PROVE Sound(At(w, k))'
    <3>1. PICK z : z = At(w, k)
      OBVIOUS
    <3>2. k \in Line(w) /\ 0 < k
      BY <2>1
    <3>3. Sound(z) /\ Later(u, z)
      BY <1>0, <1>6, <3>1, <3>2 DEF LineInv, AllSound, InOrder
    <3>4. Sound(z)'
      BY <1>12, <3>3
    <3> QED
      BY <2>1, <3>1, <3>4 DEF Sound
  <2>6. TaskInv(w)'
    <3>1. ASSUME Making(w)' PROVE \A p \in DOMAIN L : L[p] # <<"http", job[w].req>>
      <4>1. Making(w) /\ ~job[w].own
        BY <1>3, <3>1 DEF Making
      <4>2. u.id # <<"http", job[w].req>>
        BY <1>10, <1>11, <4>1
      <4> QED
        BY <1>0, <1>9, <4>1, <4>2 DEF TaskInv
    <3> QED
      BY <1>3, <1>8, <3>1 DEF TaskInv, Crit
  <2> QED
    BY <2>4, <2>5, <2>6 DEF LineInv, AllSound
<1>17. ASSUME NEW x \in Workers \ {w} PROVE LineInv(x)' /\ TaskInv(x)'
  <2>0. /\ LineInv(x) /\ TaskInv(x) /\ pc[x] \notin Crit /\ pc'[x] = pc[x] /\ job'[x] = job[x]
    BY <1>0, <1>3 DEF OnceInv, LockHeld, InCrit
  <2>1. /\ Line(x)' = Line(x) /\ Line(x) \subseteq Nat /\ Batch(x) = <<>> /\ Len(<<>>) = 0
        /\ \A k \in Line(x)' : At(x, k)' = At(x, k)
    BY <1>0, <1>1, <2>0, LineTypes DEF Line, Waits, Batch, At, TaskInv
  <2>2. ASSUME NEW k \in Line(x)' PROVE \E i \in Line(x) : i = k + 0 /\ At(x, k)' = At(x, i)
    <3>1. k \in Line(x) /\ k + 0 = k
      BY <2>1
    <3> QED
      BY <2>1, <3>1
  <2>3. InOrder(x)' /\ HttpFirst(x)'
    BY <2>0, <2>1, <2>2, ShiftLine
  <2>4. ASSUME NEW k \in Line(x) PROVE Later(u, At(x, k))
    <3>1. k \in 1..Len(pending) /\ Len(pending) \in Nat /\ Len(Batch(w)) \in Nat
      <4>1. Line(x) = 1..(Len(Batch(x)) + Len(pending)) /\ Len(pending) \in Nat
            /\ Len(Batch(w)) \in Nat
        <5>1. ~Waits(x)
          BY <2>0 DEF Waits, WaitPCs, Crit
        <5>2. pending \in Seq(Updates) /\ Batch(w) \in Seq(Updates)
          BY <1>0 DEF TypeOK, Jobs, Batch
        <5> QED
          BY <5>1, <5>2 DEF Line
      <4> QED
        BY <2>1, <4>1
    <3>2. PICK i \in 1..(Len(Batch(w)) + Len(pending)) : i - Len(Batch(w)) = k
      <4>1. /\ Len(Batch(w)) + k \in 1..(Len(Batch(w)) + Len(pending))
            /\ (Len(Batch(w)) + k) - Len(Batch(w)) = k
        BY <3>1
      <4> QED
        BY <4>1
    <3>3. ~(i <= Len(Batch(w))) /\ i # 0 /\ 0 < i
      BY <3>1, <3>2
    <3>4. i \in Line(w) /\ At(w, i) = pending[k]
      BY <3>2, <3>3 DEF Line, At
    <3>5. At(x, k) = pending[k]
      <4>1. k # 0 /\ ~(k <= Len(Batch(x))) /\ k - Len(Batch(x)) = k
        BY <2>1, <3>1
      <4> QED
        BY <4>1 DEF At
    <3>6. Later(At(w, 0), At(w, i))
      BY <1>0, <1>6, <3>3, <3>4 DEF LineInv, InOrder
    <3> QED
      BY <1>6, <3>4, <3>5, <3>6
  <2>5. ASSUME NEW k \in Line(x)' PROVE Sound(At(x, k))'
    <3>1. PICK z : z = At(x, k)
      OBVIOUS
    <3>2. Sound(z) /\ Later(u, z)
      BY <2>0, <2>1, <2>4, <3>1 DEF LineInv, AllSound
    <3>3. Sound(z)'
      BY <1>12, <3>2
    <3> QED
      BY <2>1, <3>1, <3>3 DEF Sound
  <2>6. TaskInv(x)'
    <3>1. ASSUME Making(x)' PROVE \A p \in DOMAIN L : L[p] # <<"http", job[x].req>>
      <4>1. Making(x) /\ job[x].task \in Methods
        BY <2>0, <3>1 DEF Making
      <4>2. u.id # <<"http", job[x].req>>
        <5>1. ASSUME u.id = <<"http", job[x].req>> PROVE FALSE
          <6>1. u.src = "http"
            BY <1>10, <5>1
          <6>2. u.id = <<"http", job[w].req>> /\ job[w].task \in Methods
            BY <1>11, <6>1
          <6>3. job[w].req = job[x].req
            BY <5>1, <6>2
          <6> QED
            BY <4>1, <6>2, <6>3 DEF OnceInv, IdsKnown
        <5> QED
          BY <5>1
      <4> QED
        BY <1>9, <2>0, <4>1, <4>2 DEF TaskInv
    <3> QED
      BY <1>8, <2>0, <3>1 DEF TaskInv, Crit, Batch
  <2> QED
    BY <2>3, <2>5, <2>6 DEF LineInv, AllSound
<1> QED
  BY <1>13, <1>14, <1>15, <1>16, <1>17 DEF OnceInv

\* Sessions go on to new ops, and keep the version of the one in flight.
SessionsGoOn ==
  \A c \in Clients :
    /\ session[c].n <= session'[c].n
    /\ session'[c].st = "waiting" /\ session'[c].n = session[c].n =>
         session[c].st = "waiting" /\ session'[c].base = session[c].base

LEMMA SoundGoesOn ==
  ASSUME TypeOK, TypeOK', Log' = Log, SessionsGoOn, NEW u \in Updates, Sound(u)
  PROVE  Sound(u)'
<1>1. ASSUME u.src \in Clients
      PROVE  /\ u.id[2] <= session'[u.src].n
             /\ session'[u.src].st = "waiting" /\ u.id[2] = session'[u.src].n =>
                  u.v = session'[u.src].base
  <2>1. /\ session[u.src].n \in Int /\ session'[u.src].n \in Int /\ u.id[2] \in Int
        /\ session[u.src].n <= session'[u.src].n
    <3>1. session[u.src] \in Sessions /\ session'[u.src] \in Sessions
      BY <1>1 DEF TypeOK
    <3>2. u.id[2] \in Nat
      BY IdParts DEF Updates
    <3> QED
      BY <1>1, <3>1, <3>2, DocUpdaterAssumption DEF Sessions, SessionsGoOn
  <2>2. u.id[2] <= session[u.src].n
    BY <1>1 DEF Sound
  <2>3. session'[u.src].st = "waiting" /\ u.id[2] = session'[u.src].n =>
          u.v = session'[u.src].base
    BY <1>1, <2>1, <2>2 DEF Sound, SessionsGoOn
  <2> QED
    BY <2>1, <2>2, <2>3
<1> QED
  BY <1>1 DEF Sound

LEMMA IdsGoOn ==
  ASSUME TypeOK, TypeOK', Log' = Log, SessionsGoOn, IdsKnown, job' = job, requests' = requests
  PROVE  IdsKnown'
<1>1. ASSUME NEW c \in Clients, NEW p \in DOMAIN Log, Log[p][1] = c
      PROVE  /\ Log[p][2] <= session'[c].n
             /\ session'[c].st = "waiting" /\ Log[p][2] = session'[c].n => session'[c].base < p
  <2>1. /\ session[c].n \in Int /\ session'[c].n \in Int /\ Log[p][2] \in Int
        /\ session[c].n <= session'[c].n
    <3>1. session[c] \in Sessions /\ session'[c] \in Sessions
      BY DEF TypeOK
    <3>2. Log[p] \in Ids
      BY DEF TypeOK, Log
    <3> QED
      BY <3>1, <3>2, IdParts, DocUpdaterAssumption DEF Sessions, SessionsGoOn
  <2>2. Log[p][2] <= session[c].n
    BY <1>1 DEF IdsKnown
  <2> QED
    BY <1>1, <2>1, <2>2 DEF IdsKnown, SessionsGoOn
<1> QED
  BY <1>1 DEF IdsKnown

\* The sessions and Redis.
LEMMA OutsideStepOnce ==
  ASSUME Distinct, TypeOK, TypeOK', OnceInv,
         (\E c \in Clients : Client(c)) \/ Notify \/ LockExpires \/ DocOpsExpire
  PROVE  OnceInv'
<1> USE DEF queueVars, redisVars, outVars, workerVars
<1>1. Log' = Log /\ pc' = pc /\ job' = job
  BY OutsideStepLeaves DEF Log
<1>2. requests' = requests /\ (docOps' = docOps \/ docOps' = <<>>)
  BY DEF Client, ClientSend, ClientResend, ClientAck, ClientGone, Notify, LockExpires,
         DocOpsExpire
<1>3. NoOpTwice' /\ SourcesKnown'
  BY <1>1, <1>2 DEF OnceInv, NoOpTwice, SourcesKnown
<1>a. SessionsGoOn => IdsKnown'
  <2>1. IdsKnown
    BY DEF OnceInv
  <2> QED
    BY <1>1, <1>2, <2>1, IdsGoOn
<1>4. ASSUME SessionsGoOn, pending' = pending PROVE OnceInv'
  <2>1. ASSUME NEW w \in Workers PROVE LineInv(w)' /\ TaskInv(w)'
    <3>0. LineInv(w) /\ TaskInv(w)
      BY DEF OnceInv
    <3>1. Line(w)' = Line(w) /\ \A k \in Line(w) : At(w, k)' = At(w, k) /\ At(w, k) \in Updates
      BY <1>1, <1>4, LineTypes DEF Line, Waits, Batch, At
    <3>2. ASSUME NEW k \in Line(w) PROVE Sound(At(w, k))'
      <4>1. PICK z \in Updates : z = At(w, k)
        BY <3>1
      <4>2. Sound(z)
        BY <3>0, <4>1 DEF LineInv, AllSound
      <4>3. Sound(z)'
        BY <1>1, <1>4, <4>2, SoundGoesOn
      <4> QED
        BY <3>1, <4>1, <4>3 DEF Sound
    <3>3. InOrder(w)'
      BY <3>0, <3>1 DEF LineInv, InOrder, Later
    <3>4. HttpFirst(w)'
      BY <1>1, <3>0, <3>1 DEF LineInv, HttpFirst
    <3>5. TaskInv(w)'
      BY <1>1, <3>0, TaskSame
    <3> QED
      BY <3>1, <3>2, <3>3, <3>4, <3>5 DEF LineInv, AllSound
  <2> QED
    BY <1>3, <1>4, <1>a, <2>1 DEF OnceInv
<1>5. ASSUME SessionsGoOn, NEW u \in Updates, u.src # "http", pending' = Append(pending, u),
             Sound(u)', \A w \in Workers : \A k \in Line(w) : Later(At(w, k), u)
      PROVE  OnceInv'
  <2>1. ASSUME NEW w \in Workers PROVE LineInv(w)' /\ TaskInv(w)'
    <3>1. \A z \in Updates : Sound(z) => Sound(z)'
      BY <1>1, <1>5, SoundGoesOn
    <3> QED
      BY <1>1, <1>5, <3>1, AppendOnce, TaskSame DEF OnceInv
  <2> QED
    BY <1>3, <1>5, <1>a, <2>1 DEF OnceInv
<1>6. session \in [Clients -> Sessions]
  BY DEF TypeOK
<1>7. CASE Notify \/ LockExpires \/ DocOpsExpire
  <2>1. pending' = pending /\ session' = session
    BY <1>7 DEF Notify, LockExpires, DocOpsExpire
  <2>2. \A c \in Clients : session[c].n <= session[c].n
    BY <1>6, DocUpdaterAssumption DEF Sessions
  <2> QED
    BY <1>4, <2>1, <2>2 DEF SessionsGoOn
<1>8. ASSUME NEW c \in Clients, ClientAck(c) \/ ClientGone(c) PROVE OnceInv'
  <2>1. /\ \A d \in Clients : session'[d].n = session[d].n
        /\ session'[c].st # "waiting"
        /\ \A d \in Clients \ {c} : session'[d] = session[d]
    BY <1>6, <1>8 DEF ClientAck, ClientGone, Sessions
  <2>2. \A d \in Clients : session[d].n <= session'[d].n
    BY <1>6, <2>1, DocUpdaterAssumption DEF Sessions
  <2>3. pending' = pending
    BY <1>8 DEF ClientAck, ClientGone
  <2> QED
    BY <1>4, <2>1, <2>2, <2>3 DEF SessionsGoOn
<1>9. ASSUME NEW c \in Clients, ClientResend(c) PROVE OnceInv'
  <2>0. session[c] \in Sessions /\ session[c].st = "waiting"
    BY <1>6, <1>9 DEF ClientResend
  <2>1. PICK u : u = [id |-> <<c, session[c].n>>, src |-> c, v |-> session[c].base, dup |-> TRUE]
    OBVIOUS
  <2>2. u \in Updates /\ u.src # "http"
    BY <2>0, <2>1 DEF Sessions, Updates, Ids, Distinct
  <2>3. pending' = Append(pending, u)
    BY <1>9, <2>1 DEF ClientResend, Push
  <2>4. \A d \in Clients : session'[d].n = session[d].n /\ session'[d].st = session[d].st
                           /\ session'[d].base = session[d].base
    BY <1>6, <1>9 DEF ClientResend, Sessions
  <2>5. SessionsGoOn
    BY <1>6, <2>4, DocUpdaterAssumption DEF SessionsGoOn, Sessions
  <2>6. Sound(u)'
    <3>1. u.id[1] = u.src /\ u.id[2] = session[c].n /\ u.v = session[c].base /\ u.dup /\ u.src = c
      BY <2>1
    <3>2. \A p \in DOMAIN Log : Log[p] = u.id => u.v < p
      BY <2>0, <3>1 DEF OnceInv, IdsKnown
    <3>3. u.id[2] <= session'[c].n
      BY <2>0, <2>4, <3>1, DocUpdaterAssumption DEF Sessions
    <3> QED
      BY <1>1, <2>4, <3>1, <3>2, <3>3 DEF Sound
  <2>7. ASSUME NEW w \in Workers, NEW k \in Line(w) PROVE Later(At(w, k), u)
    <3>1. PICK z : z = At(w, k)
      OBVIOUS
    <3>2. Sound(z)
      BY <3>1 DEF OnceInv, LineInv, AllSound
    <3>3. Later(z, u)
      BY <2>0, <2>1, <3>2 DEF Sound, Later
    <3> QED
      BY <3>1, <3>3
  <2> QED
    BY <1>5, <2>2, <2>3, <2>5, <2>6, <2>7
<1>10. ASSUME NEW c \in Clients, ClientSend(c) PROVE OnceInv'
  <2>0. /\ session[c] \in Sessions /\ session[c].n \in Nat /\ session[c].n < MaxOps
        /\ MaxOps \in Nat
    BY <1>6, <1>10, DocUpdaterAssumption DEF ClientSend, Sessions
  <2>1. PICK v \in KnownVersions :
          /\ pending' = Append(pending, [id |-> <<c, session[c].n + 1>>, src |-> c, v |-> v,
                                         dup |-> FALSE])
          /\ session' = [session EXCEPT ![c] =
               [st |-> "waiting", n |-> session[c].n + 1, base |-> v, sends |-> 1]]
    BY <1>10 DEF ClientSend, Push
  <2>2. PICK u : u = [id |-> <<c, session[c].n + 1>>, src |-> c, v |-> v, dup |-> FALSE]
    OBVIOUS
  <2>3. u \in Updates /\ u.src # "http"
    <3>1. v \in Nat
      BY KnownVersionsType
    <3>2. session[c].n + 1 \in 0..MaxOps
      BY <2>0
    <3> QED
      BY <2>2, <3>1, <3>2 DEF Updates, Ids, Distinct
  <2>4. /\ \A d \in Clients \ {c} : session'[d] = session[d]
        /\ session'[c].n = session[c].n + 1 /\ session'[c].base = v
    BY <1>6, <2>1
  <2>5. SessionsGoOn
    <3>1. \A d \in Clients : session[d].n <= session'[d].n
      BY <1>6, <2>0, <2>4, DocUpdaterAssumption DEF Sessions
    <3>2. session'[c].n # session[c].n
      BY <2>0, <2>4
    <3> QED
      BY <2>4, <3>1, <3>2 DEF SessionsGoOn
  <2>6. Sound(u)'
    <3>1. u.id[1] = c /\ u.id[2] = session[c].n + 1 /\ u.v = v /\ u.src = c
      BY <2>2
    <3>2. ASSUME NEW p \in DOMAIN Log, Log[p] = u.id PROVE FALSE
      <4>1. u.id[2] <= session[c].n
        BY <3>1, <3>2 DEF OnceInv, IdsKnown
      <4> QED
        BY <2>0, <3>1, <4>1
    <3>3. u.id[2] <= session'[c].n
      BY <2>0, <2>4, <3>1
    <3> QED
      BY <1>1, <2>4, <3>1, <3>2, <3>3 DEF Sound
  <2>7. ASSUME NEW w \in Workers, NEW k \in Line(w) PROVE Later(At(w, k), u)
    <3>1. PICK z : z = At(w, k)
      OBVIOUS
    <3>2. Sound(z)
      BY <3>1 DEF OnceInv, LineInv, AllSound
    <3>3. z.id # u.id
      <4>1. ASSUME z.id = u.id PROVE FALSE
        <5>1. z.src = c /\ z.id[2] = session[c].n + 1
          BY <2>2, <3>2, <4>1 DEF Sound
        <5>2. z.id[2] <= session[c].n
          BY <3>2, <5>1 DEF Sound
        <5> QED
          BY <2>0, <5>1, <5>2
      <4> QED
        BY <4>1
    <3> QED
      BY <3>1, <3>3 DEF Later
  <2> QED
    BY <1>5, <2>1, <2>2, <2>3, <2>5, <2>6, <2>7
<1> QED
  BY <1>7, <1>8, <1>9, <1>10 DEF Client

\* The steps outside the section, and those that leave it.
LEMMA FreeStepOnce ==
  ASSUME Distinct, TypeOK, TypeOK', OnceInv, NEW w \in Workers, FreeStep(w)
  PROVE  OnceInv'
<1> USE DEF queueVars, redisVars, outVars, workerVars
<1>1. /\ Log' = Log /\ \A x \in Workers \ {w} : pc'[x] = pc[x] /\ job'[x] = job[x]
  BY FreeStepLeaves DEF Log
<1>2. pending' = pending /\ session' = session /\ docOps' = docOps
  BY DEF FreeStep, TakeNotification, HttpRequest, Acquire, AcquireSlowly, FreeSlowLock,
         GiveUpLock, Release, LookAgain, Crash
<1>0. /\ LineInv(w) /\ TaskInv(w) /\ "dispatch" \notin Methods /\ "none" \notin Methods
      /\ job \in [Workers -> Jobs] /\ pc \in [Workers -> PCs] /\ requests \in Nat
  BY DocUpdaterAssumption DEF OnceInv, TypeOK
<1>3. ASSUME NEW x \in Workers \ {w} PROVE LineInv(x)' /\ TaskInv(x)'
  BY <1>1, <1>2, SameOnce DEF OnceInv
<1>4. ASSUME LineInv(w)', TaskInv(w)', requests' = requests,
             job'[w].req \in {job[w].req, 0},
             job'[w].task \in Methods =>
               job'[w].task = job[w].task /\ job'[w].req = job[w].req
      PROVE  OnceInv'
  <2>1. NoOpTwice' /\ IdsKnown'
    BY <1>1, <1>2, <1>4, GlobalKept DEF OnceInv
  <2>2. SourcesKnown'
    BY <1>2 DEF OnceInv, SourcesKnown
  <2> QED
    BY <1>3, <1>4, <2>1, <2>2 DEF OnceInv
<1>5. CASE Acquire(w) \/ AcquireSlowly(w)
  <2>1. pc'[w] \in {"fetch", "slowLock"} /\ job' = job /\ pc[w] \notin Crit /\ requests' = requests
    BY <1>0, <1>5 DEF Acquire, AcquireSlowly, Goto, Crit
  <2>2. Batch(w) = <<>>
    BY <1>0, <2>1 DEF TaskInv
  <2>3. LineInv(w)' /\ TaskInv(w)'
    BY <1>0, <1>1, <1>2, <2>1, <2>2, LeavesWaiting DEF WaitPCs, Batch
  <2> QED
    BY <1>4, <2>1, <2>3
<1>6. ASSUME job'[w] = NoJob, pc'[w] \notin WaitPCs, requests' = requests PROVE OnceInv'
  <2>1. LineInv(w)' /\ TaskInv(w)'
    BY <1>0, <1>1, <1>2, <1>6, LeavesWaiting
  <2>2. job'[w].req = 0 /\ job'[w].task = "none"
    BY <1>6 DEF NoJob
  <2> QED
    BY <1>0, <1>4, <1>6, <2>1, <2>2
<1>7. CASE GiveUpLock(w) \/ Release(w) \/ Crash(w)
  <2>1. job'[w] = NoJob /\ pc'[w] \in {"idle", "continue"} /\ requests' = requests
    BY <1>0, <1>7 DEF GiveUpLock, Release, Crash, Goto
  <2> QED
    BY <1>6, <2>1 DEF WaitPCs
<1>8. ASSUME pc[w] \notin Crit, pc'[w] \notin Crit, requests' = requests,
             Batch(w)' = Batch(w), job'[w].own = job[w].own, job'[w].req = job[w].req,
             job'[w].task = job[w].task \/ job'[w].task = "dispatch"
      PROVE  OnceInv'
  <2>1. Batch(w)' = <<>> /\ pc'[w] \notin WaitPCs
    BY <1>0, <1>8 DEF TaskInv, WaitPCs, Crit
  <2>2. LineInv(w)'
    BY <1>0, <1>1, <1>2, <1>8, <2>1, OutsideOnce
  <2>3. Making(w)' => Making(w)
    BY <1>0, <1>8 DEF Making, Crit
  <2>4. TaskInv(w)'
    BY <1>0, <1>1, <1>8, <2>1, <2>3 DEF TaskInv, WaitPCs
  <2> QED
    BY <1>0, <1>4, <1>8, <2>2, <2>4
<1>9. CASE FreeSlowLock(w)
  <2>1. CASE job'[w] = NoJob
    <3>1. pc'[w] \in {"idle", "getLock"} /\ requests' = requests
      BY <1>0, <1>9 DEF FreeSlowLock, Goto
    <3> QED
      BY <1>6, <2>1, <3>1 DEF WaitPCs
  <2>2. CASE job' = job
    <3>1. pc[w] \notin Crit /\ pc'[w] \notin Crit /\ requests' = requests
      BY <1>0, <1>9 DEF FreeSlowLock, Goto, Crit
    <3> QED
      BY <1>8, <2>2, <3>1 DEF Batch
  <2> QED
    BY <1>0, <1>9, <2>1, <2>2 DEF FreeSlowLock
<1>10. CASE TakeNotification(w) \/ LookAgain(w)
  <2>1. pc[w] \notin Crit /\ pc'[w] \notin Crit /\ requests' = requests
    BY <1>0, <1>10 DEF TakeNotification, LookAgain, Goto, Crit
  <2>2. job' = job \/ job' = [job EXCEPT ![w].task = "dispatch"]
    BY <1>10 DEF TakeNotification, LookAgain
  <2>3. /\ Batch(w)' = Batch(w) /\ job'[w].own = job[w].own /\ job'[w].req = job[w].req
        /\ job'[w].task = job[w].task \/ job'[w].task = "dispatch"
    BY <1>0, <2>2 DEF Jobs, Batch
  <2> QED
    BY <1>8, <2>1, <2>3
<1>11. CASE HttpRequest(w)
  <2>1. pc[w] \notin Crit /\ pc'[w] = "getLock" /\ requests' = requests + 1
    BY <1>0, <1>11 DEF HttpRequest, Goto, Crit
  <2>2. Batch(w)' = Batch(w) /\ job'[w].req = requests + 1 /\ job'[w].task \in Methods
    <3>1. PICK m \in Methods : job' = [job EXCEPT ![w] = [job[w] EXCEPT !.task = m, !.req = requests + 1]]
      BY <1>11 DEF HttpRequest
    <3> QED
      BY <1>0, <3>1 DEF Jobs, Batch
  <2>3. Batch(w)' = <<>> /\ pc'[w] \notin WaitPCs /\ pc'[w] \notin Crit
    BY <1>0, <2>1, <2>2 DEF TaskInv, WaitPCs, Crit
  <2>4. LineInv(w)'
    BY <1>0, <1>1, <1>2, <2>1, <2>3, OutsideOnce
  <2>5. \A p \in DOMAIN Log : Log[p] # <<"http", requests + 1>>
    <3>1. ASSUME NEW p \in DOMAIN Log, Log[p] = <<"http", requests + 1>> PROVE FALSE
      <4>1. requests + 1 <= requests
        BY <3>1 DEF OnceInv, IdsKnown
      <4> QED
        BY <1>0, <4>1
    <3> QED
      BY <3>1
  <2>6. TaskInv(w)'
    BY <1>1, <2>1, <2>2, <2>3, <2>5 DEF TaskInv, WaitPCs
  <2>7. \A x \in Workers : job[x].req <= requests /\ job[x].req \in Nat
    BY <1>0, DocUpdaterAssumption DEF OnceInv, IdsKnown, Jobs
  <2>8. NoOpTwice' /\ SourcesKnown'
    BY <1>1, <1>2 DEF OnceInv, NoOpTwice, SourcesKnown
  <2>9. IdsKnown'
    <3>1. \A x \in Workers : job'[x].req <= requests'
      BY <1>0, <1>1, <2>1, <2>2, <2>7
    <3>2. ASSUME NEW x \in Workers, NEW y \in Workers, x # y,
                 job'[x].task \in Methods, job'[y].task \in Methods
          PROVE  job'[x].req # job'[y].req
      <4>1. CASE x = w
        BY <1>0, <1>1, <2>2, <2>7, <3>2, <4>1
      <4>2. CASE y = w
        BY <1>0, <1>1, <2>2, <2>7, <3>2, <4>2
      <4>3. CASE x # w /\ y # w
        BY <1>1, <3>2, <4>3 DEF OnceInv, IdsKnown
      <4> QED
        BY <4>1, <4>2, <4>3
    <3>3. ASSUME NEW p \in DOMAIN Log, Log[p][1] = "http" PROVE Log[p][2] <= requests'
      <4>1. Log[p][2] \in Nat /\ Log[p][2] <= requests
        <5>1. Log[p] \in Ids
          BY DEF TypeOK, Log
        <5> QED
          BY <3>3, <5>1, IdParts DEF OnceInv, IdsKnown
      <4> QED
        BY <1>0, <2>1, <4>1
    <3> QED
      BY <1>1, <1>2, <3>1, <3>2, <3>3 DEF OnceInv, IdsKnown
  <2> QED
    BY <1>3, <2>4, <2>6, <2>8, <2>9 DEF OnceInv
<1> QED
  BY <1>5, <1>7, <1>9, <1>10, <1>11 DEF FreeStep

LEMMA OnceStep ==
  ASSUME Distinct, IInv, TypeOK', DocOpsAligned, OnceInv, [Next]_vars
  PROVE  OnceInv'
<1>0. TypeOK /\ LockHeld
  BY DEF IInv
<1>1. CASE UNCHANGED vars
  <2>1. /\ Log' = Log /\ pending' = pending /\ session' = session /\ pc' = pc /\ job' = job
        /\ docOps' = docOps /\ requests' = requests
    BY <1>1 DEF vars, queueVars, redisVars, outVars, workerVars, Log
  <2>2. \A x \in Workers : LineInv(x)' /\ TaskInv(x)'
    BY <1>0, <2>1, SameOnce DEF OnceInv
  <2>3. NoOpTwice' /\ IdsKnown'
    BY <1>0, <2>1, GlobalKept DEF OnceInv
  <2>4. SourcesKnown'
    BY <2>1 DEF OnceInv, SourcesKnown
  <2> QED
    BY <2>2, <2>3, <2>4 DEF OnceInv
<1>2. CASE (\E c \in Clients : Client(c)) \/ Notify \/ LockExpires \/ DocOpsExpire
  BY <1>0, <1>2, OutsideStepOnce
<1>3. ASSUME NEW w \in Workers, FreeStep(w) PROVE OnceInv'
  BY <1>0, <1>3, FreeStepOnce
<1>4. ASSUME NEW w \in Workers, LockedStep(w) PROVE OnceInv'
  <2>1. CASE Write(w) /\ LogGrows(w)
    BY <2>1, WriteOnce
  <2>2. CASE Log' = Log
    <3>1. \A x \in Workers : LineInv(x)' /\ TaskInv(x)'
      BY <1>4, <2>2, LockedStepOnce
    <3>2. NoOpTwice' /\ IdsKnown'
      <4>1. \A x \in Workers :
              /\ job'[x].req \in {job[x].req, 0}
              /\ job'[x].task \in Methods =>
                   job'[x].task = job[x].task /\ job'[x].req = job[x].req
        <5>1. NoJob.req = 0 /\ NoJob.task \notin Methods
          BY DocUpdaterAssumption DEF NoJob
        <5> QED
          BY <1>0, <1>4, <5>1, LockedStepOwn
      <4>2. session' = session /\ requests' = requests
        BY <1>0, <1>4, LockedStepOwn
      <4> QED
        BY <1>0, <2>2, <4>1, <4>2, GlobalKept DEF OnceInv
    <3>3. SourcesKnown'
      <4>1. CASE Write(w)
        <5>1. job[w].ops = <<>>
          <6>1. Len(Log) \in Nat
            BY <1>0 DEF TypeOK, Log
          <6> QED
            BY <2>2, <4>1, <6>1, WriteGrows
        <5> QED
          BY <1>0, <4>1, <5>1, SourcesWritten DEF OnceInv
      <4>2. CASE ~Write(w)
        <5>1. docOps' = docOps
          BY <1>4, <4>2 DEF LockedStep, Fetch, ReadDoc, LoadDoc, PutDoc, ReadFails, Reject,
            Duplicate, Apply, ApplyFails, Check, CheckFails, QueueOps, Snapshot,
            SnapshotFails, Flush, Persist, PersistFails, ClearUnflushed, Remove,
            redisVars
        <5> QED
          BY <5>1 DEF OnceInv, SourcesKnown
      <4> QED
        BY <4>1, <4>2
    <3> QED
      BY <3>1, <3>2, <3>3 DEF OnceInv
  <2> QED
    BY <1>4, <2>1, <2>2, LockedStepLog
<1> QED
  BY <1>1, <1>2, <1>3, <1>4, NextCases

\* However often a session sends an op, whatever of its updates are lost and whichever
\* worker applies them, the op is in the document once.  The assumptions say that
\* no session has the name of the HTTP handlers and that "no update" is not an update.
THEOREM OpsWrittenOnce ==
  ASSUME "http" \notin Clients, None \notin Updates
  PROVE  Spec => []NoOpTwice
<1>1. Distinct
  BY DEF Distinct
<1>2. Init => OnceInv
  <2> SUFFICES ASSUME Init PROVE OnceInv
    OBVIOUS
  <2>1. /\ Log = <<>> /\ docOps = <<>> /\ pending = <<>> /\ requests = 0
        /\ \A w \in Workers : job[w] = NoJob /\ pc[w] = "idle"
        /\ DOMAIN <<>> = {} /\ Len(<<>>) = 0 /\ "none" \notin Methods
    BY DocUpdaterAssumption DEF Init, Log
  <2>2. \A w \in Workers : Line(w) = {}
    BY <2>1 DEF Line, Waits, WaitPCs, Batch, NoJob
  <2>3. \A w \in Workers : LineInv(w) /\ TaskInv(w)
    BY <2>1, <2>2 DEF LineInv, AllSound, InOrder, HttpFirst, TaskInv, Making, Batch, NoJob,
                      Crit
  <2>4. \A w \in Workers : job[w].req <= requests /\ job[w].task \notin Methods
    BY <2>1 DEF NoJob
  <2>5. NoOpTwice /\ SourcesKnown /\ IdsKnown
    BY <2>1, <2>4 DEF NoOpTwice, SourcesKnown, IdsKnown
  <2> QED
    BY <2>3, <2>5 DEF OnceInv
<1>3. IInv /\ TypeOK' /\ DocOpsAligned /\ OnceInv /\ [Next]_vars => OnceInv'
  BY <1>1, OnceStep
<1>4. OnceInv => NoOpTwice
  BY DEF OnceInv
<1>5. IInv => TypeOK
  BY DEF IInv
<1> QED
  BY <1>2, <1>3, <1>4, <1>5, Invariance, RecentOpsAligned, PTL DEF Spec

=============================================================================
