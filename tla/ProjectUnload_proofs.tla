------------------------ MODULE ProjectUnload_proofs ------------------------
(***************************************************************************)
(* Proofs about ProjectUnload for any projects, users, real-time processes *)
(* and flushers.                                                           *)
(***************************************************************************)
EXTENDS ProjectUnload, TLAPS

\* A socket works on requests of the project it is in, and disconnects only from
\* one: what "late" requests break.
RequestsPresent ==
  \A u \in Users :
    /\ request[u] # NoRequest =>
         at[u] = request[u].project /\ request[u].project \in Projects
    /\ left[u] => at[u] \in Projects

LEMMA LocalUsers ==
  ASSUME NEW u \in Users
  PROVE  Local(u) \subseteq Users
BY ProjectUnloadAssumption DEF Local

LEMMA InitIInv == Init => TypeOK /\ RequestsPresent /\ UnloadOwed
BY ProjectUnloadAssumption
   DEF Init, TypeOK, RequestsPresent, UnloadOwed, Requests, NoRequest, Entries, NoEntry

LEMMA TypeStep ==
  ASSUME TypeOK, RequestsPresent, [Next]_vars
  PROVE  TypeOK'
<1> USE ProjectUnloadAssumption DEF TypeOK, userVars
<1>1. ASSUME NEW u \in Users, Join(u) PROVE TypeOK'
  BY <1>1 DEF Join
<1>2. ASSUME NEW u \in Users, Ask(u) PROVE TypeOK'
  <2>1. at[u] \in Projects
    BY <1>2 DEF Ask
  <2>2. \A k \in {"open", "edit"} : [kind |-> k, project |-> at[u]] \in Requests
    BY <2>1 DEF Requests
  <2> QED
    BY <1>2, <2>2 DEF Ask
<1>3. ASSUME NEW p \in Projects, Touch(p)
      PROVE  /\ newer' \in [Projects -> BOOLEAN] /\ held' \in [Flushers -> Entries]
             /\ \A f \in Flushers : held'[f].project = held[f].project
  BY <1>3 DEF Touch, Entries
<1>4. ASSUME NEW u \in Users, Serve(u) PROVE TypeOK'
  <2>1. request[u].project \in Projects
    BY <1>4 DEF Serve, RequestsPresent
  <2>2. /\ newer' \in [Projects -> BOOLEAN] /\ held' \in [Flushers -> Entries]
        /\ \A f \in Flushers : held'[f].project = held[f].project
    BY <1>3, <1>4, <2>1 DEF Serve
  <2>3. NoRequest \in Requests
    BY DEF NoRequest, Requests
  <2> QED
    BY <1>4, <2>1, <2>2, <2>3 DEF Serve
<1>5. ASSUME NEW p \in Projects, SetExternally(p) PROVE TypeOK'
  BY <1>3, <1>5 DEF SetExternally
<1>6. ASSUME NEW u \in Users, Disconnect(u) PROVE TypeOK'
  BY <1>6 DEF Disconnect
<1>7. ASSUME NEW u \in Users, LeaveCheck(u) PROVE TypeOK'
  <2>1. at[u] \in Projects
    BY <1>7 DEF LeaveCheck, RequestsPresent
  <2>2. /\ queue' \in [Projects -> {"none", "young", "old"}]
        /\ newer' \in [Projects -> BOOLEAN]
        /\ failed' \subseteq Projects
    <3>1. CASE QueueUnload(at[u])
      BY <2>1, <3>1 DEF QueueUnload
    <3>2. CASE UNCHANGED <<queue, newer, failed>>
      BY <3>2
    <3>3. CASE RequestFails(at[u])
      BY <2>1, <3>3 DEF RequestFails
    <3> QED
      BY <1>7, <3>1, <3>2, <3>3 DEF LeaveCheck
  <2>3. at' \in [Users -> Projects \cup {None}] /\ left' \in [Users -> BOOLEAN]
    BY <1>7 DEF LeaveCheck
  <2> QED
    BY <1>7, <2>2, <2>3 DEF LeaveCheck
<1>8. ASSUME NEW p \in Projects, Age(p) PROVE TypeOK'
  BY <1>8 DEF Age
<1>9. ASSUME NEW f \in Flushers, Scan(f) PROVE TypeOK'
  BY <1>9 DEF Scan
<1>10. ASSUME NEW f \in Flushers, NEW p \in Projects, Pop(f, p) PROVE TypeOK'
  <2> DEFINE e == [project |-> p, old |-> queue[p] = "old", newer |-> newer[p]]
  <2>1. e \in Entries /\ e.project # None
    BY DEF Entries
  <2> HIDE DEF e
  <2>2. held' = [held EXCEPT ![f] = e]
    BY <1>10 DEF Pop, e
  <2> QED
    BY <1>10, <2>1, <2>2 DEF Pop
<1>11. ASSUME NEW f \in Flushers, PopNothing(f) PROVE TypeOK'
  BY <1>11 DEF PopNothing
<1>12. NoEntry \in Entries
  BY DEF NoEntry, Entries
<1>13. ASSUME NEW f \in Flushers, Check(f) PROVE TypeOK'
  BY <1>12, <1>13 DEF Check
<1>14. ASSUME NEW f \in Flushers, Flush(f) PROVE TypeOK'
  <2>1. ASSUME NEW e \in Entries PROVE [e EXCEPT !.newer = FALSE] \in Entries
    BY DEF Entries
  <2>2. \A g \in Flushers : g # f => held'[g].project = held[g].project
    BY <1>14 DEF Flush, Entries
  <2> QED
    BY <1>12, <1>14, <2>1, <2>2 DEF Flush
<1>15. ASSUME NEW f \in Flushers, FlushFails(f) PROVE TypeOK'
  <2>1. held[f].project \in Projects
    BY <1>15 DEF FlushFails, Entries
  <2> QED
    BY <1>12, <1>15, <2>1 DEF FlushFails
<1>16. CASE UNCHANGED vars
  BY <1>16 DEF vars
<1> QED
  BY <1>1, <1>2, <1>4, <1>5, <1>6, <1>7, <1>8, <1>9, <1>10, <1>11, <1>13, <1>14, <1>15,
     <1>16 DEF Next, User, Flusher

\* The steps that do not touch a socket keep the fact; LeaveCheck waits for the
\* request.
LEMMA RequestsStep ==
  ASSUME "late" \notin Events, TypeOK, RequestsPresent, [Next]_vars
  PROVE  RequestsPresent'
<1> USE ProjectUnloadAssumption DEF RequestsPresent, TypeOK, NoRequest
<1>1. ASSUME NEW u \in Users, Join(u) PROVE RequestsPresent'
  BY <1>1 DEF Join
<1>2. ASSUME NEW u \in Users, Ask(u) PROVE RequestsPresent'
  BY <1>2 DEF Ask
<1>3. ASSUME NEW u \in Users, Serve(u) PROVE RequestsPresent'
  BY <1>3 DEF Serve
<1>4. ASSUME NEW u \in Users, Disconnect(u) PROVE RequestsPresent'
  BY <1>4 DEF Disconnect
<1>5. ASSUME NEW u \in Users, LeaveCheck(u) PROVE RequestsPresent'
  BY <1>5 DEF LeaveCheck
<1>6. ASSUME UNCHANGED userVars PROVE RequestsPresent'
  BY <1>6 DEF userVars
<1>7. ASSUME NEW f \in Flushers, Flusher(f) PROVE UNCHANGED userVars
  BY <1>7 DEF Flusher, Scan, Pop, PopNothing, Check, Flush, FlushFails
<1>8. ASSUME NEW p \in Projects, SetExternally(p) \/ Age(p) PROVE UNCHANGED userVars
  BY <1>8 DEF SetExternally, Age
<1> QED
  BY <1>1, <1>2, <1>3, <1>4, <1>5, <1>6, <1>7, <1>8 DEF Next, User, vars, userVars

\* A project nobody has joined is touched by nobody, so its request stays as it
\* is until a flusher honours it.
LEMMA OwedStep ==
  ASSUME "late" \notin Events, "external" \notin Events,
         TypeOK, RequestsPresent, UnloadOwed, [Next]_vars
  PROVE  UnloadOwed'
<1> USE ProjectUnloadAssumption DEF TypeOK, userVars
<1> SUFFICES ASSUME NEW p \in Projects, loaded'[p], ~Present(p)'
             PROVE  Owed(p)' \/ p \in failed'
  BY DEF UnloadOwed
<1>1. ASSUME NEW u \in Users, at'[u] = at[u], UNCHANGED loaded, Present(p) = Present(p)'
      PROVE  Owed(p) \/ p \in failed
  BY <1>1 DEF UnloadOwed
<1>2. ASSUME UNCHANGED at PROVE ~Present(p)
  BY <1>2 DEF Present
<1>3. ASSUME UNCHANGED <<queue, newer, failed, pc, held>>, Owed(p) \/ p \in failed
      PROVE  Owed(p)' \/ p \in failed'
  BY <1>3 DEF Owed
<1>4. CASE \E u \in Users : Join(u)
  <2>1. PICK u \in Users : Join(u)
    BY <1>4
  <2>2. ~Present(p)
    BY <2>1 DEF Join, Present
  <2> QED
    BY <1>3, <2>1, <2>2 DEF Join, UnloadOwed
<1>5. CASE \E u \in Users : Ask(u) \/ Disconnect(u)
  BY <1>2, <1>3, <1>5 DEF Ask, Disconnect, UnloadOwed
<1>6. CASE \E u \in Users : Serve(u)
  <2>1. PICK u \in Users : Serve(u)
    BY <1>6
  <2>2. ~Present(p)
    BY <1>2, <2>1 DEF Serve
  <2> DEFINE q == request[u].project
  <2>3. q # p /\ q \in Projects
    BY <2>1, <2>2 DEF Serve, RequestsPresent, Present
  <2>4. Owed(p) \/ p \in failed
    BY <2>1, <2>2, <2>3 DEF Serve, UnloadOwed
  <2>5. newer'[p] = newer[p]
        /\ \A f \in Flushers : held[f].project = p => held'[f] = held[f]
    BY <2>1, <2>3 DEF Serve, Touch
  <2> QED
    BY <2>1, <2>4, <2>5 DEF Serve, Owed
<1>7. CASE \E q \in Projects : SetExternally(q)
  <2>1. PICK q \in Projects : SetExternally(q)
    BY <1>7
  <2>2. ~Present(p)
    BY <1>2, <2>1 DEF SetExternally
  <2>3. q # p
    BY <2>1, <2>2 DEF SetExternally
  <2>4. Owed(p) \/ p \in failed
    BY <2>1, <2>2 DEF SetExternally, UnloadOwed
  <2>5. newer'[p] = newer[p]
        /\ \A f \in Flushers : held[f].project = p => held'[f] = held[f]
    BY <2>1, <2>3 DEF SetExternally, Touch
  <2> QED
    BY <2>1, <2>4, <2>5 DEF SetExternally, Owed
<1>8. CASE \E u \in Users : LeaveCheck(u)
  <2>1. PICK u \in Users : LeaveCheck(u)
    BY <1>8
  <2>2. CASE at[u] = p
    <3>1. Remaining(u) = {}
      <4>1. SUFFICES ASSUME NEW v \in Remaining(u) PROVE FALSE
        OBVIOUS
      <4>2. v \in Users /\ v # u /\ at[v] = p
        BY <2>1, <2>2, LocalUsers DEF Remaining, LeaveCheck
      <4>3. at'[v] = p
        BY <2>1, <4>2 DEF LeaveCheck
      <4> QED
        BY <4>2, <4>3 DEF Present
    <3> QED
      BY <2>1, <2>2, <3>1 DEF LeaveCheck, QueueUnload, RequestFails, Owed
  <2>3. CASE at[u] # p
    <3>1. ~Present(p)
      BY <2>1, <2>3 DEF LeaveCheck, Present
    <3>2. Owed(p) \/ p \in failed
      BY <2>1, <3>1 DEF LeaveCheck, UnloadOwed
    <3> QED
      BY <2>1, <2>3, <3>2 DEF LeaveCheck, QueueUnload, RequestFails, Owed
  <2> QED
    BY <2>2, <2>3
<1>9. CASE \E q \in Projects : Age(q)
  BY <1>2, <1>9 DEF Age, UnloadOwed, Owed
<1>10. CASE \E f \in Flushers : Scan(f) \/ PopNothing(f)
  BY <1>2, <1>10 DEF Scan, PopNothing, UnloadOwed, Owed
<1>11. CASE \E f \in Flushers, q \in Projects : Pop(f, q)
  <2>1. PICK f \in Flushers, q \in Projects : Pop(f, q)
    BY <1>11
  <2>2. Owed(p) \/ p \in failed
    BY <1>2, <2>1 DEF Pop, UnloadOwed
  <2>3. /\ pc'[f] = "check" /\ held'[f].project = q /\ held'[f].newer = newer[q]
        /\ failed' = failed
        /\ q # p => queue'[p] = queue[p] /\ newer'[p] = newer[p]
        /\ \A g \in Flushers : g # f => pc'[g] = pc[g] /\ held'[g] = held[g]
    BY <2>1 DEF Pop
  <2>4. pc[f] = "pop"
    BY <2>1 DEF Pop
  <2> QED
    BY <2>2, <2>3, <2>4 DEF Owed
<1>12. CASE \E f \in Flushers : Check(f)
  <2>1. PICK f \in Flushers : Check(f)
    BY <1>12
  <2>2. Owed(p) \/ p \in failed
    BY <1>2, <2>1 DEF Check, UnloadOwed
  <2>3. loaded[p]
    BY <2>1 DEF Check
  <2>4. \A g \in Flushers : g # f => pc'[g] = pc[g] /\ held'[g] = held[g]
    BY <2>1 DEF Check
  <2>5. held[f].project = p /\ ~held[f].newer => pc'[f] = "flush" /\ held'[f] = held[f]
    BY <2>1, <2>3 DEF Check
  <2>6. pc[f] = "check" /\ UNCHANGED <<queue, newer, failed>>
    BY <2>1 DEF Check
  <2> QED
    BY <2>2, <2>4, <2>5, <2>6 DEF Owed
<1>13. CASE \E f \in Flushers : Flush(f)
  <2>1. PICK f \in Flushers : Flush(f)
    BY <1>13
  <2>2. held[f].project # p
    BY <2>1 DEF Flush
  <2>3. Owed(p) \/ p \in failed
    BY <1>2, <2>1, <2>2 DEF Flush, UnloadOwed
  <2>4. newer'[p] = newer[p]
        /\ \A g \in Flushers : held[g].project = p => held'[g] = held[g] /\ pc'[g] = pc[g]
    BY <2>1, <2>2 DEF Flush
  <2> QED
    BY <2>1, <2>3, <2>4 DEF Flush, Owed
<1>14. CASE \E f \in Flushers : FlushFails(f)
  <2>1. PICK f \in Flushers : FlushFails(f)
    BY <1>14
  <2>2. Owed(p) \/ p \in failed
    BY <1>2, <2>1 DEF FlushFails, UnloadOwed
  <2>3. \A g \in Flushers : g # f => pc'[g] = pc[g] /\ held'[g] = held[g]
    BY <2>1 DEF FlushFails
  <2> QED
    BY <2>1, <2>2, <2>3 DEF FlushFails, Owed
<1>15. CASE UNCHANGED vars
  BY <1>2, <1>3, <1>15 DEF vars, UnloadOwed
<1> QED
  BY <1>4, <1>5, <1>6, <1>7, <1>8, <1>9, <1>10, <1>11, <1>12, <1>13, <1>14, <1>15
     DEF Next, User, Flusher

\* Unless requests outlast the wait after a disconnection, or documents are set
\* with nobody there, a project nobody has joined is unloaded sooner or later as
\* far as the queue goes: its request is there, and not outdated.
THEOREM UnloadRequestKept ==
  ASSUME "late" \notin Events, "external" \notin Events
  PROVE  Spec => []UnloadOwed
<1>1. TypeOK /\ RequestsPresent /\ UnloadOwed /\ [Next]_vars
      => TypeOK' /\ RequestsPresent' /\ UnloadOwed'
  BY TypeStep, RequestsStep, OwedStep
<1> QED
  BY <1>1, InitIInv, PTL DEF Spec

\* Unless requests outlast the wait after a disconnection, every variable keeps
\* its type; a flusher that checks or flushes has a project in hand, though
\* others may have emptied the set since it looked.
THEOREM UnloadTypes ==
  ASSUME "late" \notin Events
  PROVE  Spec => []TypeOK
<1>1. TypeOK /\ RequestsPresent /\ [Next]_vars => TypeOK' /\ RequestsPresent'
  BY TypeStep, RequestsStep
<1> QED
  BY <1>1, InitIInv, PTL DEF Spec
==============================================================================
