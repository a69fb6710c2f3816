---------------------------- MODULE Agent_proofs ----------------------------
(***************************************************************************)
(* Proofs about the writing agent, for any failures: its turns (AgentTurn, *)
(* any number of turns, conversations and rollbacks, any limits), and then *)
(* the compiles that runs share (AgentCompile, any number of callers).     *)
(***************************************************************************)
EXTENDS AgentTurn, AgentCompile, FiniteSetTheorems, WellFoundedInduction, TLAPS

\* Messages made before some time have a last one.
LEMMA LastMessage ==
  ASSUME NEW S \in SUBSET Messages, S # {},
         NEW n \in Nat, \A m \in S : m.createdAt < n
  PROVE  \E m \in S : \A k \in S : k.createdAt <= m.createdAt
<1> DEFINE age(m) == n - m.createdAt
           T == {age(m) : m \in S}
           R == OpToRel(<, Nat)
<1>1. \A m \in S : m.createdAt \in Nat /\ age(m) \in Nat
  BY DEF Messages
<1>2. T \subseteq Nat /\ T # {}
  BY <1>1
<1>3. PICK x \in T : \A y \in T : <<y, x>> \notin R
  <2> HIDE DEF T, R
  <2> QED
    BY <1>2, WFMin, NatLessThanWellFounded DEF R
<1>4. \A y \in T : ~(y < x)
  BY <1>2, <1>3 DEF OpToRel
<1>5. PICK m \in S : x = age(m)
  BY <1>3
<1>6. \A k \in S : ~(age(k) < age(m))
  BY <1>4, <1>5
<1> QED
  BY <1>1, <1>6

\* getActiveRunId's view of what a rollback keeps: its last run has a reply in it.
LEMMA LastRunReplied ==
  ASSUME NEW S \in SUBSET Messages, NEW n \in Nat, \A m \in S : m.createdAt < n
  PROVE  LastRunOf(S) = None \/ \E m \in Replies(S) : m.turn = LastRunOf(S)
<1> SUFFICES ASSUME Replies(S) # {}
             PROVE  \E m \in Replies(S) : m.turn = LastRunOf(S)
  BY DEF LastRunOf
<1>1. \E m \in Replies(S) : \A k \in Replies(S) : k.createdAt <= m.createdAt
  BY LastMessage DEF Replies
<1> QED
  BY <1>1 DEF LastRunOf

\* What the gate hands out is positive and fits the limit, what the release leaves
\* is no more than was there.
LEMMA Gate ==
  ASSUME TypeOK, NEW t \in Turns, \A k \in Kinds : HasHeadroom(k, send[t].seen)
  PROVE  /\ ToReserve(send[t].seen) \in [Kinds -> Nat]
         /\ \A k \in Kinds : Limit[k] # Unlimited =>
               inflight[k] + ToReserve(send[t].seen)[k] <= Limit[k]
<1> DEFINE amount == ToReserve(send[t].seen)
<1>1. \A k \in Kinds : send[t].seen[k] \in Nat /\ inflight[k] \in Int
  BY DEF TypeOK, Amounts, Sends
<1>2. ASSUME NEW k \in Kinds, Limit[k] # Unlimited
      PROVE  amount[k] \in Nat /\ inflight[k] + amount[k] <= Limit[k]
  BY <1>1, <1>2, LimitAssumption, UsageAssumption DEF HasHeadroom, ToReserve, Unlimited
<1>3. ASSUME NEW k \in Kinds, Limit[k] = Unlimited
      PROVE  amount[k] \in Nat
  BY <1>3, UsageAssumption DEF ToReserve
<1>4. amount = [k \in Kinds |-> amount[k]]
  BY DEF ToReserve
<1> HIDE DEF amount
<1>5. amount \in [Kinds -> Nat]
  BY <1>2, <1>3, <1>4
<1> QED
  BY <1>2, <1>5 DEF amount

LEMMA Give ==
  ASSUME TypeOK, NEW amount \in [Kinds -> Nat]
  PROVE  /\ Decreased(amount) \in Amounts
         /\ \A k \in Kinds : Decreased(amount)[k] <= inflight[k] \/ Decreased(amount)[k] = 0
BY DEF Decreased, TypeOK, Amounts, Minus, Nothing

\* The records stay what they are when one field is assigned.
LEMMA SendFields ==
  ASSUME NEW s \in Sends, NEW p \in SendPCs, NEW r \in [Kinds -> Nat]
  PROVE  /\ [s EXCEPT !.pc = p] \in Sends
         /\ [s EXCEPT !.pc = p, !.reserved = r] \in Sends
         /\ s.seen \in [Kinds -> Nat] /\ s.reserved \in [Kinds -> Nat]
         /\ s.conversation \in Conversations \cup {None}
BY DEF Sends

LEMMA DocumentFields ==
  ASSUME NEW d \in Documents, NEW ms \in SUBSET Messages,
         NEW l \in Turns \cup {None}, NEW cs \in SUBSET Turns
  PROVE  /\ [d EXCEPT !.messages = ms] \in Documents
         /\ [d EXCEPT !.lastRunId = l] \in Documents
         /\ [d EXCEPT !.messages = ms, !.lastRunId = l] \in Documents
         /\ [d EXCEPT !.cancelledRunIds = cs] \in Documents
         /\ d.messages \in SUBSET Messages
         /\ d.cancelledRunIds \in SUBSET Turns
BY DEF Documents

LEMMA RollbackFields ==
  ASSUME NEW r \in RollbackStates, NEW p \in RollbackPCs, NEW ms \in SUBSET Messages
  PROVE  /\ [r EXCEPT !.pc = p] \in RollbackStates
         /\ [r EXCEPT !.pc = p, !.kept = ms] \in RollbackStates
         /\ r.cutoff \in Nat /\ r.kept \in SUBSET Messages
         /\ r.conversation \in Conversations \cup {None}
BY DEF RollbackStates

\* A rollback under way has its conversation, and what it keeps is older than its
\* cutoff: so the last run of what it keeps is a run.
RollbackAt ==
  \A b \in Rollbacks :
    /\ rollback[b].pc \notin {"idle", "done"} => rollback[b].conversation \in Conversations
    /\ \A m \in rollback[b].kept : m.createdAt < rollback[b].cutoff

Typed == TypeOK /\ RollbackAt

LEMMA LastRunType ==
  ASSUME Typed, NEW b \in Rollbacks
  PROVE  LastRunOf(rollback[b].kept) \in Turns \cup {None}
<1>1. rollback[b].kept \in SUBSET Messages /\ rollback[b].cutoff \in Nat
  BY RollbackFields DEF Typed, TypeOK, RollbackPCs
<1>2. \A m \in Replies(rollback[b].kept) : m.turn \in Turns
  BY <1>1 DEF Replies, Messages
<1> QED
  BY <1>1, <1>2, LastRunReplied DEF Typed, RollbackAt

\* Each variable keeps its shape; in particular no reservation is ever negative.
LEMMA TypeStep == Typed /\ [Next]_vars => TypeOK'
<1> SUFFICES ASSUME Typed, [Next]_vars PROVE TypeOK'
  OBVIOUS
<1> USE DEF Typed, TypeOK, quota, agent, SendPCs, RollbackPCs
<1>1. ASSUME NEW t \in Turns, NEW c \in Conversations, GetUser(t, c) PROVE TypeOK'
  <2>1. send' \in [Turns -> Sends]
    BY <1>1 DEF GetUser, Idle, Nothing, Sends
  <2> QED
    BY <1>1, <2>1 DEF GetUser
<1>2. ASSUME NEW t \in Turns, Reserve(t) PROVE TypeOK'
  <2>1. ToReserve(send[t].seen) \in [Kinds -> Nat]
    BY <1>2, Gate DEF Reserve
  <2>2. send' \in [Turns -> Sends]
    BY <1>2, <2>1, SendFields, ZenonT(40) DEF Reserve
  <2>3. inflight' \in Amounts
    BY <1>2, <2>1 DEF Reserve, Plus, Amounts
  <2> QED
    BY <1>2, <2>2, <2>3 DEF Reserve
<1>3. ASSUME NEW t \in Turns, Refuse(t) PROVE TypeOK'
  <2>1. send' \in [Turns -> Sends]
    BY <1>3, SendFields, ZenonT(40) DEF Refuse
  <2> QED
    BY <1>3, <2>1 DEF Refuse
<1>4. ASSUME NEW t \in Turns, RecordUserMessage(t) PROVE TypeOK'
  <2>1. send' \in [Turns -> Sends]
    BY <1>4, SendFields DEF RecordUserMessage
  <2>2. Stamped(t, "user") \in Messages
    BY DEF Stamped, Messages
  <2>3. conversation' \in [Conversations -> Documents]
    BY <1>4, <2>2, DocumentFields, ZenonT(40) DEF RecordUserMessage
  <2> QED
    BY <1>4, <2>1, <2>3 DEF RecordUserMessage
<1>5. ASSUME NEW t \in Turns, PrepareFails(t) PROVE TypeOK'
  <2>1. send' \in [Turns -> Sends]
    BY <1>5, SendFields, ZenonT(40) DEF PrepareFails, GiveUp
  <2>2. send[t].reserved \in [Kinds -> Nat]
    BY SendFields
  <2>3. inflight' \in Amounts
    BY <1>5, <2>2, Give DEF PrepareFails, GiveUp
  <2> QED
    BY <1>5, <2>1, <2>3 DEF PrepareFails, GiveUp
<1>6. ASSUME NEW t \in Turns, StartRun(t) PROVE TypeOK'
  <2>1. send' \in [Turns -> Sends]
    BY <1>6, SendFields, ZenonT(40) DEF StartRun
  <2> QED
    BY <1>6, <2>1, SMTT(30) DEF StartRun
<1>7. ASSUME NEW t \in Turns, StartFails(t) PROVE TypeOK'
  <2>1. send' \in [Turns -> Sends]
    BY <1>7, SendFields, ZenonT(40) DEF StartFails, GiveUp
  <2>2. send[t].reserved \in [Kinds -> Nat]
    BY SendFields
  <2>3. inflight' \in Amounts
    BY <1>7, <2>2, Give DEF StartFails, GiveUp
  <2> QED
    BY <1>7, <2>1, <2>3 DEF StartFails, GiveUp
<1>8. ASSUME NEW t \in Turns, RegisterReservation(t) PROVE TypeOK'
  <2>1. send' \in [Turns -> Sends]
    BY <1>8, SendFields, ZenonT(40) DEF RegisterReservation
  <2>2. reservations' \in [Turns -> [Kinds -> Nat] \cup {None}]
    BY <1>8, SendFields, ZenonT(40) DEF RegisterReservation
  <2> QED
    BY <1>8, <2>1, <2>2 DEF RegisterReservation
<1>9. ASSUME NEW t \in Turns, RecordRun(t) PROVE TypeOK'
  <2>1. send' \in [Turns -> Sends]
    BY <1>9, SendFields DEF RecordRun
  <2>2. conversation' \in [Conversations -> Documents]
    BY <1>9, DocumentFields, ZenonT(40) DEF RecordRun
  <2> QED
    BY <1>9, <2>1, <2>2 DEF RecordRun
<1>10. ASSUME NEW t \in Turns, RecordRunFails(t) PROVE TypeOK'
  <2>1. send' \in [Turns -> Sends]
    BY <1>10, SendFields DEF RecordRunFails
  <2> QED
    BY <1>10, <2>1 DEF RecordRunFails
<1>11. ASSUME NEW t \in Turns, CancelRun(t) PROVE TypeOK'
  BY <1>11 DEF CancelRun
<1>12. ASSUME NEW t \in Turns, Abort(t) PROVE TypeOK'
  BY <1>12 DEF Abort
<1>13. ASSUME NEW t \in Turns, EndRun(t) PROVE TypeOK'
  BY <1>13, UsageAssumption DEF EndRun
<1>14. ASSUME NEW t \in Turns, RunDies(t) PROVE TypeOK'
  BY <1>14 DEF RunDies
<1>15. ASSUME NEW t \in Turns, Bill(t) PROVE TypeOK'
  BY <1>15 DEF Bill, Plus
<1>16. ASSUME NEW t \in Turns, Release(t) PROVE TypeOK'
  <2>1. inflight' \in Amounts
    BY <1>16, Give DEF Release
  <2> QED
    BY <1>16, <2>1 DEF Release
<1>17. ASSUME NEW t \in Turns, RecordReply(t) PROVE TypeOK'
  <2>1. Stamped(t, "assistant") \in Messages /\ Stamped(t, "assistant").turn = t
    BY DEF Stamped, Messages
  <2>2. \A c \in Conversations :
          Replied(conversation[c], Stamped(t, "assistant")) \in Documents
    BY <2>1, DocumentFields DEF Replied
  <2>3. conversation' \in [Conversations -> Documents]
    BY <1>17, <2>2 DEF RecordReply
  <2> QED
    BY <1>17, <2>3 DEF RecordReply
<1>18. ASSUME NEW t \in Turns, RecordReplyFails(t) PROVE TypeOK'
  BY <1>18 DEF RecordReplyFails
<1>19. ASSUME NEW t \in Turns, MarkRunCancelled(t) PROVE TypeOK'
  <2>1. ASSUME NEW c \in Conversations
        PROVE  [conversation[c] EXCEPT
                  !.cancelledRunIds = conversation[c].cancelledRunIds \cup {t}] \in Documents
    BY DocumentFields
  <2>2. [conversation EXCEPT ![send[t].conversation].cancelledRunIds = @ \cup {t}]
           \in [Conversations -> Documents]
    BY <2>1
  <2>3. conversation' \in [Conversations -> Documents]
    BY <1>19, <2>2 DEF MarkRunCancelled
  <2> QED
    BY <1>19, <2>3 DEF MarkRunCancelled
<1>20. ASSUME NEW b \in Rollbacks, NEW c \in Conversations, FindUserMessage(b, c) PROVE TypeOK'
  <2>1. rollback' \in [Rollbacks -> RollbackStates]
    <3>1. conversation[c].messages \in SUBSET Messages
      BY DocumentFields
    <3>2. PICK m \in conversation[c].messages :
             rollback' = [rollback EXCEPT ![b] =
                [NoRollback EXCEPT !.pc = "guard", !.conversation = c,
                                   !.cutoff = m.createdAt]]
      BY <1>20 DEF FindUserMessage
    <3>3. m.createdAt \in Nat
      BY <3>1 DEF Messages
    <3> QED
      BY <3>2, <3>3 DEF NoRollback, RollbackStates
  <2> QED
    BY <1>20, <2>1 DEF FindUserMessage
<1>21. ASSUME NEW b \in Rollbacks, GuardRollback(b) PROVE TypeOK'
  <2>1. rollback' \in [Rollbacks -> RollbackStates]
    BY <1>21, RollbackFields DEF GuardRollback
  <2> QED
    BY <1>21, <2>1, SMTT(30) DEF GuardRollback
<1>22. ASSUME NEW b \in Rollbacks, RevertProject(b) PROVE TypeOK'
  <2>1. PICK outcome \in {"truncate", "refused"} :
             rollback' = [rollback EXCEPT ![b].pc = outcome]
    BY <1>22 DEF RevertProject
  <2>2. rollback' \in [Rollbacks -> RollbackStates]
    BY <2>1, RollbackFields
  <2> QED
    BY <1>22, <2>2 DEF RevertProject
<1>23. ASSUME NEW b \in Rollbacks, ReadKept(b) PROVE TypeOK'
  <2>1. rollback[b].conversation \in Conversations
    BY <1>23 DEF ReadKept, RollbackAt
  <2>2. conversation[rollback[b].conversation].messages \in SUBSET Messages
    BY <2>1, DocumentFields
  <2>3. rollback' \in [Rollbacks -> RollbackStates]
    BY <1>23, <2>2, RollbackFields DEF ReadKept, Before
  <2> QED
    BY <1>23, <2>3 DEF ReadKept
<1>24. ASSUME NEW b \in Rollbacks, PullMessages(b) PROVE TypeOK'
  <2>1. rollback' \in [Rollbacks -> RollbackStates]
    BY <1>24 DEF PullMessages, NoRollback, RollbackStates
  <2>2. LastRunOf(rollback[b].kept) \in Turns \cup {None}
    BY LastRunType
  <2>3. \A c \in Conversations :
          Truncated(conversation[c], rollback[b].cutoff, LastRunOf(rollback[b].kept))
             \in Documents
    BY <2>2, DocumentFields DEF Truncated, Before
  <2>4. conversation' \in [Conversations -> Documents]
    BY <1>24, <2>3 DEF PullMessages
  <2> QED
    BY <1>24, <2>1, <2>4 DEF PullMessages
<1>25. CASE UNCHANGED vars
  BY <1>25 DEF vars, quota, agent
<1> QED
  BY <1>1, <1>2, <1>3, <1>4, <1>5, <1>6, <1>7, <1>8, <1>9, <1>10, <1>11,
     <1>12, <1>13, <1>14, <1>15, <1>16, <1>17, <1>18, <1>19, <1>20, <1>21,
     <1>22, <1>23, <1>24, <1>25 DEF Next, SendMessage, Run, Callback,
     RollbackToMessage

LEMMA RollbackAtStep == Typed /\ [Next]_vars => RollbackAt'
<1> SUFFICES ASSUME Typed, [Next]_vars PROVE RollbackAt'
  OBVIOUS
<1> USE DEF Typed, RollbackAt, quota, agent
<1>1. ASSUME NEW t \in Turns, NEW c \in Conversations, GetUser(t, c) PROVE RollbackAt'
  BY <1>1 DEF GetUser
<1>2. ASSUME NEW t \in Turns, Reserve(t) PROVE RollbackAt'
  BY <1>2 DEF Reserve
<1>3. ASSUME NEW t \in Turns, Refuse(t) PROVE RollbackAt'
  BY <1>3 DEF Refuse
<1>4. ASSUME NEW t \in Turns, RecordUserMessage(t) PROVE RollbackAt'
  BY <1>4 DEF RecordUserMessage
<1>5. ASSUME NEW t \in Turns, PrepareFails(t) PROVE RollbackAt'
  BY <1>5 DEF PrepareFails, GiveUp
<1>6. ASSUME NEW t \in Turns, StartRun(t) PROVE RollbackAt'
  BY <1>6 DEF StartRun
<1>7. ASSUME NEW t \in Turns, StartFails(t) PROVE RollbackAt'
  BY <1>7 DEF StartFails, GiveUp
<1>8. ASSUME NEW t \in Turns, RegisterReservation(t) PROVE RollbackAt'
  BY <1>8 DEF RegisterReservation
<1>9. ASSUME NEW t \in Turns, RecordRun(t) PROVE RollbackAt'
  BY <1>9 DEF RecordRun
<1>10. ASSUME NEW t \in Turns, RecordRunFails(t) PROVE RollbackAt'
  BY <1>10 DEF RecordRunFails
<1>11. ASSUME NEW t \in Turns, CancelRun(t) PROVE RollbackAt'
  BY <1>11 DEF CancelRun
<1>12. ASSUME NEW t \in Turns, Abort(t) PROVE RollbackAt'
  BY <1>12 DEF Abort
<1>13. ASSUME NEW t \in Turns, EndRun(t) PROVE RollbackAt'
  BY <1>13 DEF EndRun
<1>14. ASSUME NEW t \in Turns, RunDies(t) PROVE RollbackAt'
  BY <1>14 DEF RunDies
<1>15. ASSUME NEW t \in Turns, Bill(t) PROVE RollbackAt'
  BY <1>15 DEF Bill
<1>16. ASSUME NEW t \in Turns, Release(t) PROVE RollbackAt'
  BY <1>16 DEF Release
<1>17. ASSUME NEW t \in Turns, RecordReply(t) PROVE RollbackAt'
  BY <1>17 DEF RecordReply
<1>18. ASSUME NEW t \in Turns, RecordReplyFails(t) PROVE RollbackAt'
  BY <1>18 DEF RecordReplyFails
<1>19. ASSUME NEW t \in Turns, MarkRunCancelled(t) PROVE RollbackAt'
  BY <1>19 DEF MarkRunCancelled
<1>20. ASSUME NEW b \in Rollbacks, NEW c \in Conversations, FindUserMessage(b, c) PROVE RollbackAt'
  <2>1. PICK m \in conversation[c].messages :
             rollback' = [rollback EXCEPT ![b] =
                [NoRollback EXCEPT !.pc = "guard", !.conversation = c,
                                   !.cutoff = m.createdAt]]
    BY <1>20 DEF FindUserMessage
  <2> QED
    BY <2>1 DEF NoRollback, TypeOK
<1>21. ASSUME NEW b \in Rollbacks, GuardRollback(b) PROVE RollbackAt'
  BY <1>21, RollbackFields DEF GuardRollback, TypeOK, RollbackStates
<1>22. ASSUME NEW b \in Rollbacks, RevertProject(b) PROVE RollbackAt'
  <2>1. PICK outcome \in {"truncate", "refused"} :
             rollback' = [rollback EXCEPT ![b].pc = outcome]
    BY <1>22 DEF RevertProject
  <2> QED
    BY <1>22, <2>1 DEF RevertProject, TypeOK, RollbackStates
<1>23. ASSUME NEW b \in Rollbacks, ReadKept(b) PROVE RollbackAt'
  <2>1. /\ rollback'[b].kept = Before(conversation[rollback[b].conversation].messages,
                                      rollback[b].cutoff)
        /\ rollback'[b].cutoff = rollback[b].cutoff
        /\ rollback'[b].conversation = rollback[b].conversation
        /\ rollback[b].conversation \in Conversations
        /\ \A o \in Rollbacks \ {b} : rollback'[o] = rollback[o]
    BY <1>23, ZenonT(40) DEF ReadKept, TypeOK, RollbackStates
  <2> QED
    BY <2>1 DEF Before
<1>24. ASSUME NEW b \in Rollbacks, PullMessages(b) PROVE RollbackAt'
  BY <1>24 DEF PullMessages, TypeOK, NoRollback
<1>25. CASE UNCHANGED vars
  BY <1>25 DEF vars, quota, agent
<1> QED
  BY <1>1, <1>2, <1>3, <1>4, <1>5, <1>6, <1>7, <1>8, <1>9, <1>10, <1>11,
     <1>12, <1>13, <1>14, <1>15, <1>16, <1>17, <1>18, <1>19, <1>20, <1>21,
     <1>22, <1>23, <1>24, <1>25 DEF Next, SendMessage, Run, Callback,
     RollbackToMessage

LEMMA AlwaysTyped == Spec => []Typed
<1>1. Init => Typed
  <2> SUFFICES ASSUME Init PROVE Typed
    OBVIOUS
  <2>1. /\ \A t \in Turns : send[t] \in Sends
        /\ \A c \in Conversations : conversation[c] \in Documents
        /\ \A b \in Rollbacks : rollback[b] \in RollbackStates
    BY DEF Init, Idle, NewConversation, NoRollback, Nothing, Sends, SendPCs, Documents,
           RollbackStates, RollbackPCs
  <2>2. TypeOK
    BY <2>1 DEF Init, TypeOK, Nothing, Amounts
  <2> QED
    BY <2>2 DEF Init, Typed, RollbackAt, NoRollback
<1>2. Typed /\ [Next]_vars => Typed'
  BY TypeStep, RollbackAtStep DEF Typed
<1> QED
  BY <1>1, <1>2, PTL DEF Spec

\* Every variable always has the shape the code gives it, whatever fails.
THEOREM TypeCorrect == Spec => []TypeOK
<1>1. Typed => TypeOK
  BY DEF Typed
<1> QED
  BY <1>1, AlwaysTyped, PTL

\* The gate decides on the reservations as they are and on a usage that can only be
\* out of date, never below zero: what it adds stays within the limit, and what is
\* released only takes away.
LEMMA LimitStep == TypeOK /\ WithinLimits /\ [Next]_vars => WithinLimits'
<1> SUFFICES ASSUME TypeOK, WithinLimits, [Next]_vars PROVE WithinLimits'
  OBVIOUS
<1> USE DEF WithinLimits, quota, agent
<1>1. ASSUME NEW t \in Turns, Reserve(t) PROVE WithinLimits'
  <2>1. inflight' = [k \in Kinds |-> inflight[k] + ToReserve(send[t].seen)[k]]
          \/ inflight' = inflight
    BY <1>1 DEF Reserve, Plus
  <2> QED
    BY <1>1, <2>1, Gate DEF Reserve
<1>2. ASSUME NEW t \in Turns, NEW amount \in [Kinds -> Nat],
             inflight' = Decreased(amount)
      PROVE  WithinLimits'
  <2>1. \A k \in Kinds : inflight[k] \in Int /\ Decreased(amount)[k] \in Int
    BY Give DEF TypeOK, Amounts
  <2>2. \A k \in Kinds : Limit[k] # Unlimited => Limit[k] \in Nat
    BY LimitAssumption
  <2> QED
    BY <1>2, <2>1, <2>2, Give
<1>3. ASSUME NEW t \in Turns, PrepareFails(t) \/ StartFails(t) PROVE WithinLimits'
  <2>1. send[t].reserved \in [Kinds -> Nat]
    BY DEF TypeOK, Sends
  <2>2. inflight' = Decreased(send[t].reserved)
    BY <1>3 DEF PrepareFails, StartFails, GiveUp
  <2> QED
    BY <1>2, <2>1, <2>2
<1>4. ASSUME NEW t \in Turns, Release(t) PROVE WithinLimits'
  BY <1>2, <1>4, SMTT(30) DEF Release, TypeOK
<1>5. ASSUME UNCHANGED inflight PROVE WithinLimits'
  BY <1>5
<1>6. ASSUME NEW t \in Turns,
             \/ \E c \in Conversations : GetUser(t, c)
             \/ Refuse(t) \/ RecordUserMessage(t) \/ StartRun(t)
             \/ RegisterReservation(t) \/ RecordRun(t) \/ RecordRunFails(t)
             \/ Run(t) \/ Bill(t) \/ RecordReply(t) \/ RecordReplyFails(t)
             \/ MarkRunCancelled(t)
      PROVE  WithinLimits'
  <2>1. UNCHANGED inflight
    <3>1. CASE \/ \E c \in Conversations : GetUser(t, c)
               \/ Refuse(t) \/ RecordUserMessage(t) \/ StartRun(t)
               \/ RegisterReservation(t) \/ RecordRun(t) \/ RecordRunFails(t)
      BY <3>1 DEF GetUser, Refuse, RecordUserMessage, StartRun, RegisterReservation,
                  RecordRun, RecordRunFails
    <3>2. CASE \/ Run(t) \/ Bill(t) \/ RecordReply(t) \/ RecordReplyFails(t)
               \/ MarkRunCancelled(t)
      BY <3>2 DEF Run, CancelRun, Abort, EndRun, RunDies, Bill, RecordReply,
                  RecordReplyFails, MarkRunCancelled
    <3> QED
      BY <1>6, <3>1, <3>2
  <2> QED
    BY <1>5, <2>1
<1>7. ASSUME NEW b \in Rollbacks, RollbackToMessage(b) PROVE WithinLimits'
  <2>1. UNCHANGED inflight
    BY <1>7 DEF RollbackToMessage, FindUserMessage, GuardRollback, RevertProject,
                ReadKept, PullMessages
  <2> QED
    BY <1>5, <2>1
<1>8. CASE UNCHANGED vars
  BY <1>8 DEF vars
<1> QED
  BY <1>1, <1>3, <1>4, <1>6, <1>7, <1>8 DEF Next, SendMessage, Callback

\* Whatever the number of concurrent messages and whatever fails, a user's
\* reservations never exceed either limit.
THEOREM ReservationsFit == Spec => []WithinLimits
<1>1. Init => WithinLimits
  BY LimitAssumption DEF Init, WithinLimits, Nothing
<1>2. Typed => TypeOK
  BY DEF Typed
<1> QED
  BY <1>1, <1>2, LimitStep, AlwaysTyped, PTL DEF Spec

LEMMA RepliedFields ==
  ASSUME NEW d \in Documents, NEW m
  PROVE  /\ Replied(d, m).messages = d.messages \cup {m}
         /\ Replied(d, m).lastRunId = m.turn
         /\ Replied(d, m).cancelledRunIds = d.cancelledRunIds
BY DEF Documents, Replied

LEMMA TruncatedFields ==
  ASSUME NEW d \in Documents, NEW n, NEW l
  PROVE  /\ Truncated(d, n, l).messages = Before(d.messages, n)
         /\ Truncated(d, n, l).lastRunId = l
         /\ Truncated(d, n, l).cancelledRunIds = d.cancelledRunIds
BY DEF Documents, Truncated

\* A run begins once, after its message is recorded, and what the conversation says
\* of a run that it is replied to or cancelled is said when the run is over.
Over(t) == run[t] \in {"done", "cancelled"}

RunsInOrder ==
  \A t \in Turns :
    /\ send[t].pc \in {"idle", "gate", "refused", "prepare", "start"} => run[t] = "none"
    /\ run[t] \in {"none", "running", "dead"} => callback[t] = "none"

RecordsAreOver ==
  \A c \in Conversations :
    /\ \A m \in Replies(conversation[c].messages) : Over(m.turn)
    /\ \A t \in conversation[c].cancelledRunIds : Over(t)

LEMMA RunsInOrderStep == TypeOK /\ RunsInOrder /\ [Next]_vars => RunsInOrder'
<1> SUFFICES ASSUME TypeOK, RunsInOrder, [Next]_vars PROVE RunsInOrder'
  OBVIOUS
<1>0. \A t \in Turns : send[t] \in Sends
  BY DEF TypeOK
<1> USE DEF RunsInOrder, quota, agent
<1>1. ASSUME NEW t \in Turns, NEW c \in Conversations, GetUser(t, c) PROVE RunsInOrder'
  BY <1>1, <1>0 DEF GetUser, Sends, TypeOK, Idle
<1>2. ASSUME NEW t \in Turns, Reserve(t) PROVE RunsInOrder'
  BY <1>2, <1>0 DEF Reserve, Sends, TypeOK
<1>3. ASSUME NEW t \in Turns, Refuse(t) PROVE RunsInOrder'
  BY <1>3, <1>0 DEF Refuse, Sends, TypeOK
<1>4. ASSUME NEW t \in Turns, RecordUserMessage(t) PROVE RunsInOrder'
  BY <1>4, <1>0 DEF RecordUserMessage, Sends, TypeOK
<1>5. ASSUME NEW t \in Turns, PrepareFails(t) PROVE RunsInOrder'
  BY <1>5, <1>0 DEF PrepareFails, Sends, TypeOK, GiveUp
<1>6. ASSUME NEW t \in Turns, StartRun(t) PROVE RunsInOrder'
  BY <1>6, <1>0 DEF StartRun, Sends, TypeOK
<1>7. ASSUME NEW t \in Turns, StartFails(t) PROVE RunsInOrder'
  BY <1>7, <1>0 DEF StartFails, Sends, TypeOK, GiveUp
<1>8. ASSUME NEW t \in Turns, RegisterReservation(t) PROVE RunsInOrder'
  BY <1>8, <1>0 DEF RegisterReservation, Sends, TypeOK
<1>9. ASSUME NEW t \in Turns, RecordRun(t) PROVE RunsInOrder'
  BY <1>9, <1>0 DEF RecordRun, Sends, TypeOK
<1>10. ASSUME NEW t \in Turns, RecordRunFails(t) PROVE RunsInOrder'
  BY <1>10, <1>0 DEF RecordRunFails, Sends, TypeOK
<1>11. ASSUME NEW t \in Turns, CancelRun(t) PROVE RunsInOrder'
  BY <1>11 DEF CancelRun
<1>12. ASSUME NEW t \in Turns, Abort(t) PROVE RunsInOrder'
  BY <1>12 DEF Abort
<1>13. ASSUME NEW t \in Turns, EndRun(t) PROVE RunsInOrder'
  BY <1>13 DEF EndRun, TypeOK
<1>14. ASSUME NEW t \in Turns, RunDies(t) PROVE RunsInOrder'
  BY <1>14 DEF RunDies, TypeOK
<1>15. ASSUME NEW t \in Turns, Bill(t) PROVE RunsInOrder'
  BY <1>15 DEF Bill, TypeOK
<1>16. ASSUME NEW t \in Turns, Release(t) PROVE RunsInOrder'
  BY <1>16 DEF Release, TypeOK
<1>17. ASSUME NEW t \in Turns, RecordReply(t) PROVE RunsInOrder'
  BY <1>17 DEF RecordReply, TypeOK
<1>18. ASSUME NEW t \in Turns, RecordReplyFails(t) PROVE RunsInOrder'
  BY <1>18 DEF RecordReplyFails, TypeOK
<1>19. ASSUME NEW t \in Turns, MarkRunCancelled(t) PROVE RunsInOrder'
  BY <1>19 DEF MarkRunCancelled, TypeOK
<1>20. ASSUME NEW b \in Rollbacks, NEW c \in Conversations, FindUserMessage(b, c) PROVE RunsInOrder'
  BY <1>20 DEF FindUserMessage
<1>21. ASSUME NEW b \in Rollbacks, GuardRollback(b) PROVE RunsInOrder'
  BY <1>21 DEF GuardRollback
<1>22. ASSUME NEW b \in Rollbacks, RevertProject(b) PROVE RunsInOrder'
  BY <1>22 DEF RevertProject
<1>23. ASSUME NEW b \in Rollbacks, ReadKept(b) PROVE RunsInOrder'
  BY <1>23 DEF ReadKept
<1>24. ASSUME NEW b \in Rollbacks, PullMessages(b) PROVE RunsInOrder'
  BY <1>24 DEF PullMessages
<1>25. CASE UNCHANGED vars
  BY <1>25 DEF vars, quota, agent
<1> QED
  BY <1>1, <1>2, <1>3, <1>4, <1>5, <1>6, <1>7, <1>8, <1>9, <1>10, <1>11,
     <1>12, <1>13, <1>14, <1>15, <1>16, <1>17, <1>18, <1>19, <1>20, <1>21,
     <1>22, <1>23, <1>24, <1>25 DEF Next, SendMessage, Run, Callback,
     RollbackToMessage

LEMMA RecordsAreOverStep ==
  Typed /\ RunsInOrder /\ RecordsAreOver /\ [Next]_vars => RecordsAreOver'
<1> SUFFICES ASSUME Typed, RunsInOrder, RecordsAreOver, [Next]_vars PROVE RecordsAreOver'
  OBVIOUS
<1> USE DEF quota, agent
<1>0. /\ TypeOK
      /\ \A c \in Conversations : conversation[c] \in Documents
  BY DEF Typed, TypeOK
<1>00. /\ \A c \in Conversations : \A m \in Replies(conversation[c].messages) : m.turn \in Turns
       /\ \A c \in Conversations : \A t \in conversation[c].cancelledRunIds : t \in Turns
  BY <1>0 DEF Replies, Documents, Messages
<1>1. ASSUME NEW t \in Turns, NEW c \in Conversations, GetUser(t, c) PROVE RecordsAreOver'
  BY <1>1 DEF GetUser, RecordsAreOver, Over
<1>2. ASSUME NEW t \in Turns, Reserve(t) PROVE RecordsAreOver'
  BY <1>2 DEF Reserve, RecordsAreOver, Over
<1>3. ASSUME NEW t \in Turns, Refuse(t) PROVE RecordsAreOver'
  BY <1>3 DEF Refuse, RecordsAreOver, Over
<1>4. ASSUME NEW t \in Turns, RecordUserMessage(t) PROVE RecordsAreOver'
  <2>1. ASSUME NEW c \in Conversations
        PROVE  /\ Replies(conversation'[c].messages) = Replies(conversation[c].messages)
               /\ conversation'[c].cancelledRunIds = conversation[c].cancelledRunIds
    BY <1>4, <1>0 DEF RecordUserMessage, Documents, Replies, Stamped
  <2> QED
    BY <1>4, <2>1 DEF RecordUserMessage, RecordsAreOver, Over
<1>5. ASSUME NEW t \in Turns, PrepareFails(t) PROVE RecordsAreOver'
  BY <1>5 DEF PrepareFails, RecordsAreOver, Over, GiveUp
<1>6. ASSUME NEW t \in Turns, StartRun(t) PROVE RecordsAreOver'
  <2>1. \A o \in Turns : Over(o) => Over(o)'
    BY <1>6, <1>0 DEF StartRun, Over, RunsInOrder, TypeOK
  <2> QED
    BY <1>6, <1>00, <2>1 DEF StartRun, RecordsAreOver
<1>7. ASSUME NEW t \in Turns, StartFails(t) PROVE RecordsAreOver'
  BY <1>7 DEF StartFails, RecordsAreOver, Over, GiveUp
<1>8. ASSUME NEW t \in Turns, RegisterReservation(t) PROVE RecordsAreOver'
  BY <1>8 DEF RegisterReservation, RecordsAreOver, Over
<1>9. ASSUME NEW t \in Turns, RecordRun(t) PROVE RecordsAreOver'
  <2>1. ASSUME NEW c \in Conversations
        PROVE  /\ conversation'[c].messages = conversation[c].messages
               /\ conversation'[c].cancelledRunIds = conversation[c].cancelledRunIds
    BY <1>9, <1>0 DEF RecordRun, Documents
  <2> QED
    BY <1>9, <2>1 DEF RecordRun, RecordsAreOver, Over
<1>10. ASSUME NEW t \in Turns, RecordRunFails(t) PROVE RecordsAreOver'
  BY <1>10 DEF RecordRunFails, RecordsAreOver, Over
<1>11. ASSUME NEW t \in Turns, CancelRun(t) PROVE RecordsAreOver'
  BY <1>11 DEF CancelRun, RecordsAreOver, Over
<1>12. ASSUME NEW t \in Turns, Abort(t) PROVE RecordsAreOver'
  BY <1>12 DEF Abort, RecordsAreOver, Over
<1>13. ASSUME NEW t \in Turns, EndRun(t) PROVE RecordsAreOver'
  <2>1. \A o \in Turns : Over(o) => Over(o)'
    BY <1>13, <1>0 DEF EndRun, Over, RunsInOrder, TypeOK
  <2> QED
    BY <1>13, <1>00, <2>1 DEF EndRun, RecordsAreOver
<1>14. ASSUME NEW t \in Turns, RunDies(t) PROVE RecordsAreOver'
  <2>1. \A o \in Turns : Over(o) => Over(o)'
    BY <1>14, <1>0 DEF RunDies, Over, RunsInOrder, TypeOK
  <2> QED
    BY <1>14, <1>00, <2>1 DEF RunDies, RecordsAreOver
<1>15. ASSUME NEW t \in Turns, Bill(t) PROVE RecordsAreOver'
  BY <1>15 DEF Bill, RecordsAreOver, Over
<1>16. ASSUME NEW t \in Turns, Release(t) PROVE RecordsAreOver'
  BY <1>16 DEF Release, RecordsAreOver, Over
<1>17. ASSUME NEW t \in Turns, RecordReply(t) PROVE RecordsAreOver'
  <2> DEFINE m == Stamped(t, "assistant")
  <2>0. m.turn = t
    BY DEF Stamped
  <2> HIDE DEF m
  <2>1. ASSUME NEW c \in Conversations
        PROVE  /\ conversation'[c].messages \subseteq conversation[c].messages \cup {m}
               /\ conversation'[c].cancelledRunIds = conversation[c].cancelledRunIds
    <3>1. \/ conversation'[c] = conversation[c]
          \/ conversation'[c] = Replied(conversation[c], m)
      BY <1>17, <1>0 DEF RecordReply, TypeOK, m
    <3> QED
      BY <1>0, <3>1, RepliedFields
  <2>2. Over(t) /\ UNCHANGED run
    BY <1>17 DEF RecordReply, Over
  <2> QED
    BY <2>0, <2>1, <2>2 DEF RecordsAreOver, Over, Replies
<1>18. ASSUME NEW t \in Turns, RecordReplyFails(t) PROVE RecordsAreOver'
  BY <1>18 DEF RecordReplyFails, RecordsAreOver, Over
<1>19. ASSUME NEW t \in Turns, MarkRunCancelled(t) PROVE RecordsAreOver'
  <2>1. ASSUME NEW c \in Conversations
        PROVE  /\ conversation'[c].messages = conversation[c].messages
               /\ conversation'[c].cancelledRunIds
                    \subseteq conversation[c].cancelledRunIds \cup {t}
    <3>1. \/ conversation' = conversation
          \/ conversation' = [conversation EXCEPT
                ![send[t].conversation].cancelledRunIds = @ \cup {t}]
      BY <1>19 DEF MarkRunCancelled
    <3> QED
      BY <1>0, <3>1, SMTT(30) DEF Documents, TypeOK
  <2>2. Over(t) /\ UNCHANGED run
    BY <1>19 DEF MarkRunCancelled, Over
  <2> QED
    BY <2>1, <2>2 DEF RecordsAreOver, Over
<1>20. ASSUME NEW b \in Rollbacks, NEW c \in Conversations, FindUserMessage(b, c) PROVE RecordsAreOver'
  BY <1>20 DEF FindUserMessage, RecordsAreOver, Over
<1>21. ASSUME NEW b \in Rollbacks, GuardRollback(b) PROVE RecordsAreOver'
  BY <1>21 DEF GuardRollback, RecordsAreOver, Over
<1>22. ASSUME NEW b \in Rollbacks, RevertProject(b) PROVE RecordsAreOver'
  BY <1>22 DEF RevertProject, RecordsAreOver, Over
<1>23. ASSUME NEW b \in Rollbacks, ReadKept(b) PROVE RecordsAreOver'
  BY <1>23 DEF ReadKept, RecordsAreOver, Over
<1>24. ASSUME NEW b \in Rollbacks, PullMessages(b) PROVE RecordsAreOver'
  <2>1. ASSUME NEW c \in Conversations
        PROVE  /\ conversation'[c].messages \subseteq conversation[c].messages
               /\ conversation'[c].cancelledRunIds = conversation[c].cancelledRunIds
    <3>1. \/ conversation'[c] = conversation[c]
          \/ conversation'[c] = Truncated(conversation[c], rollback[b].cutoff,
                                           LastRunOf(rollback[b].kept))
      BY <1>24, <1>0 DEF PullMessages, TypeOK
    <3> QED
      BY <1>0, <3>1, TruncatedFields DEF Before
  <2>2. UNCHANGED run
    BY <1>24 DEF PullMessages
  <2> QED
    BY <2>1, <2>2 DEF RecordsAreOver, Over, Replies
<1>25. CASE UNCHANGED vars
  BY <1>25 DEF vars, quota, agent, RecordsAreOver, Over
<1> QED
  BY <1>1, <1>2, <1>3, <1>4, <1>5, <1>6, <1>7, <1>8, <1>9, <1>10, <1>11,
     <1>12, <1>13, <1>14, <1>15, <1>16, <1>17, <1>18, <1>19, <1>20, <1>21,
     <1>22, <1>23, <1>24, <1>25 DEF Next, SendMessage, Run, Callback,
     RollbackToMessage

LEMMA AlwaysInOrder == Spec => [](Typed /\ RunsInOrder /\ RecordsAreOver)
<1>1. Init => RunsInOrder /\ RecordsAreOver
  BY DEF Init, RunsInOrder, RecordsAreOver, Idle, NewConversation, Replies
<1>2. Typed => TypeOK
  BY DEF Typed
<1> QED
  BY <1>1, <1>2, RunsInOrderStep, RecordsAreOverStep, AlwaysTyped, PTL DEF Spec

\* The rollback guard and the two services agree: when it lets a rollback through,
\* the last run the conversation names is over, whatever fails and in whatever order
\* the callbacks and the answers arrive.
THEOREM RollbackWaitsForTheRun == Spec => RollbackWaits
<1> DEFINE Waits ==
      \A b \in Rollbacks :
        rollback[b].pc = "guard" /\ rollback'[b].pc = "revert" =>
           LET last == conversation[rollback[b].conversation].lastRunId
           IN  last = None \/ run[last] # "running"
<1>1. ASSUME Typed, RecordsAreOver, [Next]_vars PROVE Waits
  <2> SUFFICES ASSUME NEW b \in Rollbacks,
                      rollback[b].pc = "guard", rollback'[b].pc = "revert"
               PROVE  LET last == conversation[rollback[b].conversation].lastRunId
                      IN  last = None \/ run[last] # "running"
    OBVIOUS
  <2>1. rollback[b] \in RollbackStates /\ rollback \in [Rollbacks -> RollbackStates]
    BY <1>1 DEF Typed, TypeOK
  <2>2. ~ UNCHANGED rollback
    BY <2>1
  <2>3. PICK o \in Rollbacks : RollbackToMessage(o)
    <3>1. ASSUME NEW t \in Turns, SendMessage(t) PROVE UNCHANGED rollback
      BY <3>1 DEF SendMessage, GetUser, Reserve, Refuse, RecordUserMessage, PrepareFails,
         StartRun, StartFails, RegisterReservation, RecordRun, RecordRunFails
    <3>2. ASSUME NEW t \in Turns, Run(t) \/ Callback(t) PROVE UNCHANGED rollback
      BY <3>2 DEF Run, Callback, CancelRun, Abort, EndRun, RunDies, Bill, Release,
         RecordReply, RecordReplyFails, MarkRunCancelled
    <3> QED
      BY <1>1, <2>2, <3>1, <3>2, SMTT(30) DEF Next, vars
  <2>4. GuardRollback(b)
    <3>1. CASE \E c \in Conversations : FindUserMessage(o, c)
      BY <2>1, <3>1 DEF FindUserMessage, RollbackStates, NoRollback
    <3>2. CASE RevertProject(o)
      BY <2>1, <3>2 DEF RevertProject, RollbackStates
    <3>3. CASE ReadKept(o)
      BY <2>1, <3>3 DEF ReadKept, RollbackStates
    <3>4. CASE PullMessages(o)
      BY <2>1, <3>4 DEF PullMessages, RollbackStates, NoRollback
    <3>5. CASE GuardRollback(o)
      BY <2>1, <3>5 DEF GuardRollback, RollbackStates
    <3> QED
      BY <2>3, <3>1, <3>2, <3>3, <3>4, <3>5 DEF RollbackToMessage
  <2>5. ActiveRunId(rollback[b].conversation) = None
    BY <2>1, <2>4 DEF GuardRollback, RollbackStates
  <2>6. rollback[b].conversation \in Conversations
    BY <1>1 DEF Typed, RollbackAt
  <2> QED
    BY <2>5, <2>6, <1>1 DEF ActiveRunId, RecordsAreOver, Over
<1>2. Spec => [][Waits]_vars
  BY <1>1, AlwaysInOrder, PTL DEF Spec
<1> QED
  BY <1>2 DEF RollbackWaits

\* A callback is dealt with after sendMessage is done, unless it may overtake the
\* answer to startRun.
CallbackAfterSend ==
  \A t \in Turns : callback[t] \in {"billed", "released", "handled"}
                      => send[t].pc \in {"answered", "failed"}

LEMMA CallbackAfterSendStep ==
  ASSUME "overtake" \notin Faults, TypeOK, RunsInOrder, CallbackAfterSend, [Next]_vars
  PROVE  CallbackAfterSend'
<1>0. \A t \in Turns : send[t] \in Sends
  BY DEF TypeOK
<1>1. \A t \in Turns : callback[t] = "sent" /\ Arrived(t)
                          => send[t].pc \in {"answered", "failed"}
  BY <1>0 DEF RunsInOrder, Arrived, Sends, SendPCs, TypeOK
<1> USE DEF CallbackAfterSend, quota, agent
<1>2. ASSUME NEW t \in Turns, NEW c \in Conversations, GetUser(t, c) PROVE CallbackAfterSend'
  BY <1>2, <1>0 DEF GetUser, Sends, TypeOK, Idle
<1>3. ASSUME NEW t \in Turns, Reserve(t) PROVE CallbackAfterSend'
  BY <1>3, <1>0 DEF Reserve, Sends, TypeOK
<1>4. ASSUME NEW t \in Turns, Refuse(t) PROVE CallbackAfterSend'
  BY <1>4, <1>0 DEF Refuse, Sends, TypeOK
<1>5. ASSUME NEW t \in Turns, RecordUserMessage(t) PROVE CallbackAfterSend'
  BY <1>5, <1>0 DEF RecordUserMessage, Sends, TypeOK
<1>6. ASSUME NEW t \in Turns, PrepareFails(t) PROVE CallbackAfterSend'
  BY <1>6, <1>0 DEF PrepareFails, Sends, TypeOK, GiveUp
<1>7. ASSUME NEW t \in Turns, StartRun(t) PROVE CallbackAfterSend'
  BY <1>7, <1>0 DEF StartRun, Sends, TypeOK
<1>8. ASSUME NEW t \in Turns, StartFails(t) PROVE CallbackAfterSend'
  BY <1>8, <1>0 DEF StartFails, Sends, TypeOK, GiveUp
<1>9. ASSUME NEW t \in Turns, RegisterReservation(t) PROVE CallbackAfterSend'
  BY <1>9, <1>0 DEF RegisterReservation, Sends, TypeOK
<1>10. ASSUME NEW t \in Turns, RecordRun(t) PROVE CallbackAfterSend'
  BY <1>10, <1>0 DEF RecordRun, Sends, TypeOK
<1>11. ASSUME NEW t \in Turns, RecordRunFails(t) PROVE CallbackAfterSend'
  BY <1>11, <1>0 DEF RecordRunFails, Sends, TypeOK
<1>12. ASSUME NEW t \in Turns, CancelRun(t) PROVE CallbackAfterSend'
  BY <1>12 DEF CancelRun
<1>13. ASSUME NEW t \in Turns, Abort(t) PROVE CallbackAfterSend'
  BY <1>13 DEF Abort
<1>14. ASSUME NEW t \in Turns, EndRun(t) PROVE CallbackAfterSend'
  BY <1>14, <1>1 DEF EndRun, TypeOK
<1>15. ASSUME NEW t \in Turns, RunDies(t) PROVE CallbackAfterSend'
  BY <1>15, <1>1 DEF RunDies, TypeOK
<1>16. ASSUME NEW t \in Turns, Bill(t) PROVE CallbackAfterSend'
  BY <1>16, <1>1 DEF Bill, TypeOK
<1>17. ASSUME NEW t \in Turns, Release(t) PROVE CallbackAfterSend'
  BY <1>17, <1>1 DEF Release, TypeOK
<1>18. ASSUME NEW t \in Turns, RecordReply(t) PROVE CallbackAfterSend'
  BY <1>18, <1>1 DEF RecordReply, TypeOK
<1>19. ASSUME NEW t \in Turns, RecordReplyFails(t) PROVE CallbackAfterSend'
  BY <1>19, <1>1 DEF RecordReplyFails, TypeOK
<1>20. ASSUME NEW t \in Turns, MarkRunCancelled(t) PROVE CallbackAfterSend'
  BY <1>20, <1>1 DEF MarkRunCancelled, TypeOK
<1>21. ASSUME NEW b \in Rollbacks, NEW c \in Conversations, FindUserMessage(b, c) PROVE CallbackAfterSend'
  BY <1>21 DEF FindUserMessage
<1>22. ASSUME NEW b \in Rollbacks, GuardRollback(b) PROVE CallbackAfterSend'
  BY <1>22 DEF GuardRollback
<1>23. ASSUME NEW b \in Rollbacks, RevertProject(b) PROVE CallbackAfterSend'
  BY <1>23 DEF RevertProject
<1>24. ASSUME NEW b \in Rollbacks, ReadKept(b) PROVE CallbackAfterSend'
  BY <1>24 DEF ReadKept
<1>25. ASSUME NEW b \in Rollbacks, PullMessages(b) PROVE CallbackAfterSend'
  BY <1>25 DEF PullMessages
<1>26. CASE UNCHANGED vars
  BY <1>26 DEF vars, quota, agent
<1> QED
  BY <1>2, <1>3, <1>4, <1>5, <1>6, <1>7, <1>8, <1>9, <1>10, <1>11, <1>12,
     <1>13, <1>14, <1>15, <1>16, <1>17, <1>18, <1>19, <1>20, <1>21, <1>22,
     <1>23, <1>24, <1>25, <1>26 DEF Next, SendMessage, Run, Callback,
     RollbackToMessage

\* What a conversation holds belongs to turns of that conversation, and a rollback
\* that is the only one finds again what it has decided to keep.
Owned ==
  \A c \in Conversations :
    /\ \A m \in conversation[c].messages :
          send[m.turn].conversation = c /\ send[m.turn].pc # "idle"
    /\ \A t \in Turns : conversation[c].lastRunId = t =>
          send[t].conversation = c /\ send[t].pc # "idle"

KeptThere ==
  \A b \in Rollbacks :
    rollback[b].kept # {} =>
       /\ rollback[b].conversation \in Conversations
       /\ rollback[b].kept \subseteq conversation[rollback[b].conversation].messages

\* A run whose callback has been dealt with and that is the last of its conversation
\* is there with its reply, or among the cancelled.
Settled ==
  \A t \in Turns, c \in Conversations :
    callback[t] = "handled" /\ conversation[c].lastRunId = t =>
       \/ t \in conversation[c].cancelledRunIds
       \/ \E m \in Replies(conversation[c].messages) : m.turn = t

Ghostless == Owned /\ KeptThere /\ Settled

\* What is written into a conversation is of turns of that conversation.
LEMMA OwnedGrows ==
  ASSUME Typed, Owned,
         \A t \in Turns : send[t].pc # "idle" =>
            send'[t].pc # "idle" /\ send'[t].conversation = send[t].conversation,
         \A c \in Conversations : \A m \in conversation'[c].messages :
            m \in conversation[c].messages
            \/ (send'[m.turn].pc # "idle" /\ send'[m.turn].conversation = c),
         \A c \in Conversations, t \in Turns :
            conversation'[c].lastRunId = t =>
               conversation[c].lastRunId = t
               \/ (send'[t].pc # "idle" /\ send'[t].conversation = c)
  PROVE  Owned'
<1>1. \A c \in Conversations : \A m \in conversation[c].messages : m.turn \in Turns
  BY DEF Typed, TypeOK, Documents, Messages
<1> QED
  BY <1>1 DEF Owned

\* Steps that leave the conversations and the rollbacks alone.
LEMMA GhostlessElsewhere ==
  ASSUME Typed, Ghostless, UNCHANGED <<conversation, rollback>>,
         \A t \in Turns : send[t].pc # "idle" =>
            send'[t].pc # "idle" /\ send'[t].conversation = send[t].conversation,
         \A t \in Turns : callback'[t] = "handled" => callback[t] = "handled"
  PROVE  Ghostless'
<1>1. \A c \in Conversations : \A m \in conversation[c].messages : m.turn \in Turns
  BY DEF Typed, TypeOK, Documents, Messages
<1>2. Owned' /\ KeptThere'
  BY <1>1 DEF Ghostless, Owned, KeptThere
<1>3. Settled'
  BY DEF Ghostless, Settled
<1> QED
  BY <1>2, <1>3 DEF Ghostless

LEMMA GhostlessStep ==
  ASSUME "reply" \notin Faults, "mark" \notin Faults,
         \A b, o \in Rollbacks : b = o,
         Typed, CallbackAfterSend, Ghostless, [Next]_vars
  PROVE  Ghostless'
<1>0. /\ TypeOK
      /\ \A t \in Turns : send[t] \in Sends
      /\ \A c \in Conversations : conversation[c] \in Documents
      /\ \A b \in Rollbacks : rollback[b] \in RollbackStates
  BY DEF Typed, TypeOK
<1>1. \A c \in Conversations : \A m \in conversation[c].messages : m.turn \in Turns
  BY <1>0 DEF Documents, Messages
<1> USE DEF quota, agent
<1>2. ASSUME NEW t \in Turns, NEW c \in Conversations, GetUser(t, c) PROVE Ghostless'
  BY <1>2, <1>0, GhostlessElsewhere DEF GetUser, Sends, TypeOK, Idle
<1>3. ASSUME NEW t \in Turns, Reserve(t) PROVE Ghostless'
  BY <1>3, <1>0, GhostlessElsewhere DEF Reserve, Sends, TypeOK
<1>4. ASSUME NEW t \in Turns, Refuse(t) PROVE Ghostless'
  BY <1>4, <1>0, GhostlessElsewhere DEF Refuse, Sends, TypeOK
<1>5. ASSUME NEW t \in Turns, RecordUserMessage(t) PROVE Ghostless'
  <2> DEFINE m == Stamped(t, "user")
  <2>0. m.turn = t /\ m.role # "assistant"
    BY DEF Stamped
  <2> HIDE DEF m
  <2>1. ASSUME NEW c \in Conversations
        PROVE  /\ conversation[c].messages \subseteq conversation'[c].messages
               /\ conversation'[c].messages \subseteq conversation[c].messages \cup {m}
               /\ c # send[t].conversation =>
                    conversation'[c].messages = conversation[c].messages
               /\ conversation'[c].lastRunId = conversation[c].lastRunId
               /\ conversation'[c].cancelledRunIds = conversation[c].cancelledRunIds
    BY <1>5, <1>0 DEF RecordUserMessage, Documents, TypeOK, m
  <2>2. \A o \in Turns : send[o].pc # "idle" =>
          send'[o].pc # "idle" /\ send'[o].conversation = send[o].conversation
    BY <1>5, <1>0 DEF RecordUserMessage, TypeOK, Sends
  <2>3. Owned'
    <3>1. send[t].pc # "idle"
      BY <1>5 DEF RecordUserMessage
    <3>2. \A c \in Conversations : \A x \in conversation'[c].messages :
            x \in conversation[c].messages
            \/ (send'[x.turn].pc # "idle" /\ send'[x.turn].conversation = c)
      BY <2>0, <2>1, <2>2, <3>1
    <3>3. \A c \in Conversations, o \in Turns :
            conversation'[c].lastRunId = o =>
               conversation[c].lastRunId = o
               \/ (send'[o].pc # "idle" /\ send'[o].conversation = c)
      BY <2>1
    <3> QED
      BY <2>2, <3>2, <3>3, OwnedGrows DEF Ghostless
  <2>4. KeptThere'
    BY <1>5, <2>1 DEF RecordUserMessage, Ghostless, KeptThere
  <2>5. Settled'
    BY <1>5, <2>0, <2>1 DEF RecordUserMessage, Ghostless, Settled, Replies
  <2> QED
    BY <2>3, <2>4, <2>5 DEF Ghostless
<1>6. ASSUME NEW t \in Turns, PrepareFails(t) PROVE Ghostless'
  BY <1>6, <1>0, GhostlessElsewhere DEF PrepareFails, Sends, TypeOK, GiveUp
<1>7. ASSUME NEW t \in Turns, StartRun(t) PROVE Ghostless'
  BY <1>7, <1>0, GhostlessElsewhere DEF StartRun, Sends, TypeOK
<1>8. ASSUME NEW t \in Turns, StartFails(t) PROVE Ghostless'
  BY <1>8, <1>0, GhostlessElsewhere DEF StartFails, Sends, TypeOK, GiveUp
<1>9. ASSUME NEW t \in Turns, RegisterReservation(t) PROVE Ghostless'
  BY <1>9, <1>0, GhostlessElsewhere DEF RegisterReservation, Sends, TypeOK
<1>10. ASSUME NEW t \in Turns, RecordRun(t) PROVE Ghostless'
  <2>1. ASSUME NEW c \in Conversations
        PROVE  /\ conversation'[c].messages = conversation[c].messages
               /\ conversation'[c].lastRunId =
                    IF c = send[t].conversation THEN t ELSE conversation[c].lastRunId
               /\ conversation'[c].cancelledRunIds = conversation[c].cancelledRunIds
    BY <1>10, <1>0 DEF RecordRun, Documents, TypeOK
  <2>2. \A o \in Turns : send[o].pc # "idle" =>
          send'[o].pc # "idle" /\ send'[o].conversation = send[o].conversation
    BY <1>10, <1>0 DEF RecordRun, TypeOK, Sends
  <2>3. Owned'
    <3>1. send[t].pc # "idle"
      BY <1>10 DEF RecordRun
    <3>2. \A c \in Conversations : \A x \in conversation'[c].messages :
            x \in conversation[c].messages
            \/ (send'[x.turn].pc # "idle" /\ send'[x.turn].conversation = c)
      BY <2>1
    <3>3. \A c \in Conversations, o \in Turns :
            conversation'[c].lastRunId = o =>
               conversation[c].lastRunId = o
               \/ (send'[o].pc # "idle" /\ send'[o].conversation = c)
      BY <2>1, <2>2, <3>1
    <3> QED
      BY <2>2, <3>2, <3>3, OwnedGrows DEF Ghostless
  <2>4. KeptThere'
    BY <1>10, <2>1 DEF RecordRun, Ghostless, KeptThere
  <2>5. callback[t] # "handled"
    BY <1>10 DEF RecordRun, CallbackAfterSend
  <2>6. Settled'
    BY <1>10, <2>1, <2>5 DEF RecordRun, Ghostless, Settled
  <2> QED
    BY <2>3, <2>4, <2>6 DEF Ghostless
<1>11. ASSUME NEW t \in Turns, RecordRunFails(t) PROVE Ghostless'
  BY <1>11, <1>0, GhostlessElsewhere DEF RecordRunFails, Sends, TypeOK
<1>12. ASSUME NEW t \in Turns, CancelRun(t) PROVE Ghostless'
  BY <1>12, <1>0, GhostlessElsewhere DEF CancelRun, TypeOK
<1>13. ASSUME NEW t \in Turns, Abort(t) PROVE Ghostless'
  BY <1>13, <1>0, GhostlessElsewhere DEF Abort, TypeOK
<1>14. ASSUME NEW t \in Turns, EndRun(t) PROVE Ghostless'
  BY <1>14, <1>0, GhostlessElsewhere DEF EndRun, TypeOK
<1>15. ASSUME NEW t \in Turns, RunDies(t) PROVE Ghostless'
  BY <1>15, <1>0, GhostlessElsewhere DEF RunDies, TypeOK
<1>16. ASSUME NEW t \in Turns, Bill(t) PROVE Ghostless'
  BY <1>16, <1>0, GhostlessElsewhere DEF Bill, TypeOK
<1>17. ASSUME NEW t \in Turns, Release(t) PROVE Ghostless'
  BY <1>17, <1>0, GhostlessElsewhere DEF Release, TypeOK
<1>18. ASSUME NEW t \in Turns, RecordReply(t) PROVE Ghostless'
  <2> DEFINE m == Stamped(t, "assistant")
  <2>0. m.turn = t /\ m.role = "assistant"
    BY DEF Stamped
  <2> HIDE DEF m
  <2>a. ASSUME NEW c \in Conversations
        PROVE  conversation'[c] = IF c = send[t].conversation
                                    THEN Replied(conversation[c], m) ELSE conversation[c]
    BY <1>18, <1>0 DEF RecordReply, TypeOK, m
  <2>1. ASSUME NEW c \in Conversations
        PROVE  /\ conversation[c].messages \subseteq conversation'[c].messages
               /\ conversation'[c].messages \subseteq conversation[c].messages \cup {m}
               /\ c # send[t].conversation =>
                    conversation'[c].messages = conversation[c].messages
               /\ c # send[t].conversation =>
                    conversation'[c].lastRunId = conversation[c].lastRunId
               /\ c = send[t].conversation =>
                    m \in conversation'[c].messages /\ conversation'[c].lastRunId = t
               /\ conversation'[c].cancelledRunIds = conversation[c].cancelledRunIds
    <3>1. CASE c = send[t].conversation
      BY <1>0, <2>0, <2>a, <3>1, RepliedFields
    <3>2. CASE c # send[t].conversation
      BY <2>a, <3>2
    <3> QED
      BY <3>1, <3>2
  <2>2. /\ UNCHANGED <<send, rollback>>
        /\ send[t].pc # "idle"
        /\ \A o \in Turns : callback'[o] = "handled" => o = t \/ callback[o] = "handled"
    BY <1>18, <1>0 DEF RecordReply, TypeOK, CallbackAfterSend
  <2>3. Owned'
    <3>2. \A c \in Conversations : \A x \in conversation'[c].messages :
            x \in conversation[c].messages
            \/ (send'[x.turn].pc # "idle" /\ send'[x.turn].conversation = c)
      BY <2>0, <2>1, <2>2
    <3>3. \A c \in Conversations, o \in Turns :
            conversation'[c].lastRunId = o =>
               conversation[c].lastRunId = o
               \/ (send'[o].pc # "idle" /\ send'[o].conversation = c)
      BY <2>1, <2>2
    <3> QED
      BY <2>2, <3>2, <3>3, OwnedGrows DEF Ghostless
  <2>4. KeptThere'
    BY <2>1, <2>2 DEF Ghostless, KeptThere
  <2>5. Settled'
    BY <2>0, <2>1, <2>2 DEF Ghostless, Owned, Settled, Replies
  <2> QED
    BY <2>3, <2>4, <2>5 DEF Ghostless
<1>19. ASSUME NEW t \in Turns, RecordReplyFails(t) PROVE Ghostless'
  BY <1>19 DEF RecordReplyFails
<1>20. ASSUME NEW t \in Turns, MarkRunCancelled(t) PROVE Ghostless'
  <2>1. ASSUME NEW c \in Conversations
        PROVE  /\ conversation'[c].messages = conversation[c].messages
               /\ conversation'[c].lastRunId = conversation[c].lastRunId
               /\ conversation[c].cancelledRunIds \subseteq conversation'[c].cancelledRunIds
               /\ c = send[t].conversation => t \in conversation'[c].cancelledRunIds
    <3>1. conversation' = [conversation EXCEPT
             ![send[t].conversation].cancelledRunIds = @ \cup {t}]
      BY <1>20 DEF MarkRunCancelled
    <3> QED
      BY <1>0, <3>1 DEF Documents, TypeOK
  <2>2. /\ UNCHANGED <<send, rollback>>
        /\ \A o \in Turns : callback'[o] = "handled" => o = t \/ callback[o] = "handled"
    BY <1>20, <1>0 DEF MarkRunCancelled, TypeOK
  <2>3. Owned'
    <3>2. \A c \in Conversations : \A x \in conversation'[c].messages :
            x \in conversation[c].messages
            \/ (send'[x.turn].pc # "idle" /\ send'[x.turn].conversation = c)
      BY <2>1
    <3>3. \A c \in Conversations, o \in Turns :
            conversation'[c].lastRunId = o =>
               conversation[c].lastRunId = o
               \/ (send'[o].pc # "idle" /\ send'[o].conversation = c)
      BY <2>1
    <3> QED
      BY <2>2, <3>2, <3>3, OwnedGrows DEF Ghostless
  <2>4. KeptThere'
    BY <2>1, <2>2 DEF Ghostless, KeptThere
  <2>5. Settled'
    BY <2>1, <2>2 DEF Ghostless, Owned, Settled
  <2> QED
    BY <2>3, <2>4, <2>5 DEF Ghostless
<1>21. ASSUME NEW b \in Rollbacks, NEW c \in Conversations, FindUserMessage(b, c) PROVE Ghostless'
  <2>1. /\ UNCHANGED <<send, callback, conversation>>
        /\ KeptThere'
    BY <1>21, <1>0 DEF FindUserMessage, Ghostless, KeptThere, TypeOK, RollbackStates, NoRollback
  <2> QED
    BY <2>1 DEF Ghostless, Owned, Settled
<1>22. ASSUME NEW b \in Rollbacks, GuardRollback(b) PROVE Ghostless'
  <2>1. /\ UNCHANGED <<send, callback, conversation>>
        /\ KeptThere'
    BY <1>22, <1>0 DEF GuardRollback, Ghostless, KeptThere, TypeOK, RollbackStates, NoRollback
  <2> QED
    BY <2>1 DEF Ghostless, Owned, Settled
<1>23. ASSUME NEW b \in Rollbacks, RevertProject(b) PROVE Ghostless'
  <2>1. /\ UNCHANGED <<send, callback, conversation>>
        /\ KeptThere'
    BY <1>23, <1>0 DEF RevertProject, Ghostless, KeptThere, TypeOK, RollbackStates, NoRollback
  <2> QED
    BY <2>1 DEF Ghostless, Owned, Settled
<1>24. ASSUME NEW b \in Rollbacks, ReadKept(b) PROVE Ghostless'
  <2>1. UNCHANGED <<send, callback, conversation>>
    BY <1>24 DEF ReadKept
  <2>2. /\ rollback[b].conversation \in Conversations
        /\ rollback'[b].kept \subseteq conversation[rollback[b].conversation].messages
        /\ rollback'[b].conversation = rollback[b].conversation
    BY <1>24, <1>0 DEF ReadKept, Typed, TypeOK, RollbackAt, RollbackStates, Before
  <2>3. KeptThere'
    BY <2>1, <2>2 DEF KeptThere
  <2> QED
    BY <2>1, <2>3 DEF Ghostless, Owned, Settled
<1>25. ASSUME NEW b \in Rollbacks, PullMessages(b) PROVE Ghostless'
  <2> DEFINE n == rollback[b].cutoff
             d == rollback[b].conversation
             l == LastRunOf(rollback[b].kept)
  <2> HIDE DEF n, d, l
  <2>0. /\ n \in Nat /\ d \in Conversations
        /\ rollback[b].kept \in SUBSET Messages
        /\ \A m \in rollback[b].kept : m.createdAt < n
    BY <1>25, <1>0 DEF PullMessages, Typed, RollbackAt, RollbackStates, n, d
  <2>a. ASSUME NEW c \in Conversations
        PROVE  conversation'[c] =
                  IF c = d THEN Truncated(conversation[c], n, l) ELSE conversation[c]
    BY <1>25, <1>0 DEF PullMessages, TypeOK, n, d, l
  <2>1. ASSUME NEW c \in Conversations
        PROVE  /\ conversation'[c].messages =
                    IF c = d THEN Before(conversation[c].messages, n)
                    ELSE conversation[c].messages
               /\ conversation'[c].lastRunId = IF c = d THEN l ELSE conversation[c].lastRunId
               /\ conversation'[c].cancelledRunIds = conversation[c].cancelledRunIds
    BY <1>0, <2>a, TruncatedFields
  <2>2. /\ UNCHANGED <<send, callback>>
        /\ rollback'[b].kept = {}
    BY <1>25, <1>0 DEF PullMessages, TypeOK, NoRollback
  <2>3. l = None \/ \E m \in Replies(rollback[b].kept) : m.turn = l
    BY <2>0, LastRunReplied DEF l
  <2>4. l = None \/ \E m \in Replies(Before(conversation[d].messages, n)) : m.turn = l
    BY <2>0, <2>3 DEF Ghostless, KeptThere, Replies, Before, d
  <2>5. Owned'
    <3>1. l # None => send[l].pc # "idle" /\ send[l].conversation = d
      BY <2>0, <2>4 DEF Ghostless, Owned, Replies, Before
    <3>2. \A c \in Conversations : \A x \in conversation'[c].messages :
            x \in conversation[c].messages
            \/ (send'[x.turn].pc # "idle" /\ send'[x.turn].conversation = c)
      BY <2>1 DEF Before
    <3>3. \A c \in Conversations, o \in Turns :
            conversation'[c].lastRunId = o =>
               conversation[c].lastRunId = o
               \/ (send'[o].pc # "idle" /\ send'[o].conversation = c)
      BY <2>1, <2>2, <3>1, NoneAssumption
    <3> QED
      BY <2>2, <3>2, <3>3, OwnedGrows DEF Ghostless
  <2>6. KeptThere'
    BY <2>2 DEF KeptThere
  <2>7. Settled'
    BY <2>0, <2>1, <2>2, <2>4, NoneAssumption DEF Ghostless, Settled
  <2> QED
    BY <2>5, <2>6, <2>7 DEF Ghostless
<1>26. CASE UNCHANGED vars
  BY <1>26, GhostlessElsewhere DEF vars
<1> QED
  BY <1>2, <1>3, <1>4, <1>5, <1>6, <1>7, <1>8, <1>9, <1>10, <1>11, <1>12,
     <1>13, <1>14, <1>15, <1>16, <1>17, <1>18, <1>19, <1>20, <1>21, <1>22,
     <1>23, <1>24, <1>25, <1>26 DEF Next, SendMessage, Run, Callback,
     RollbackToMessage

\* When replies and cancellations are recorded, no callback overtakes the answer to
\* startRun and rollbacks of the conversation come one at a time, a run that has been
\* dealt with never blocks a rollback.
THEOREM RollbackNotBlocked ==
  ASSUME {"overtake", "reply", "mark"} \cap Faults = {},
         \A b, o \in Rollbacks : b = o
  PROVE  Spec => []NoGhostRun
<1>1. Init => CallbackAfterSend /\ Ghostless
  BY NoneAssumption DEF Init, CallbackAfterSend, Ghostless, Owned, KeptThere, Settled,
     NewConversation, NoRollback
<1>2. Typed /\ RunsInOrder /\ CallbackAfterSend /\ [Next]_vars => CallbackAfterSend'
  BY CallbackAfterSendStep DEF Typed
<1>3. Typed /\ CallbackAfterSend /\ Ghostless /\ [Next]_vars => Ghostless'
  BY GhostlessStep
<1>4. Ghostless => NoGhostRun
  BY NoneAssumption DEF Ghostless, Settled, NoGhostRun, ActiveRunId
<1> QED
  BY <1>1, <1>2, <1>3, <1>4, AlwaysInOrder, PTL DEF Spec
-----------------------------------------------------------------------------
\* What ReservedBy adds up, as a function from the subsets of a set to their sums.
Picked(s) == CHOOSE x \in s : TRUE

SumsUp(h, w, S) ==
  h = [s \in SUBSET S |-> IF s = {} THEN 0 ELSE w[Picked(s)] + h[s \ {Picked(s)}]]

LEMMA LeastNumber ==
  ASSUME NEW N \in SUBSET Nat, N # {}
  PROVE  \E n \in N : \A m \in Nat : m < n => m \notin N
<1> DEFINE R == OpToRel(<, Nat)
<1>1. PICK n \in N : \A m \in N : <<m, n>> \notin R
  <2> HIDE DEF R
  <2> QED
    BY WFMin, NatLessThanWellFounded DEF R
<1> QED
  BY <1>1 DEF OpToRel

LEMMA PickedIn == ASSUME NEW s, s # {} PROVE Picked(s) \in s
BY DEF Picked

LEMMA OneLess ==
  ASSUME NEW S, IsFiniteSet(S), NEW s \in SUBSET S, NEW x \in s
  PROVE  /\ IsFiniteSet(s) /\ IsFiniteSet(s \ {x})
         /\ Cardinality(s) \in Nat /\ Cardinality(s) # 0
         /\ Cardinality(s \ {x}) \in Nat
         /\ Cardinality(s \ {x}) = Cardinality(s) - 1
<1>1. IsFiniteSet(s) /\ Cardinality(s) \in Nat
  BY FS_Subset, FS_CardinalityType
<1>2. IsFiniteSet(s \ {x}) /\ Cardinality(s \ {x}) = Cardinality(s) - 1
  BY <1>1, FS_RemoveElement
<1>3. Cardinality(s) # 0
  BY <1>1, FS_EmptySet
<1> QED
  BY <1>1, <1>2, <1>3

\* Such a function exists: were there a least size for which it did not, the one
\* for the size before could be extended to it.
LEMMA SumExists ==
  ASSUME NEW S, IsFiniteSet(S), NEW w \in [S -> Nat]
  PROVE  \E h \in [SUBSET S -> Nat] : SumsUp(h, w, S)
<1> DEFINE Upto(n) == {s \in SUBSET S : Cardinality(s) <= n}
           Body(h, s) == IF s = {} THEN 0 ELSE w[Picked(s)] + h[s \ {Picked(s)}]
           Good(h, n) == h \in [Upto(n) -> Nat] /\ \A s \in Upto(n) : h[s] = Body(h, s)
           Bad == {n \in Nat : ~\E h : Good(h, n)}
<1>1. ASSUME NEW n \in Nat, NEW s \in Upto(n), s # {}
      PROVE  /\ Picked(s) \in S /\ n # 0 /\ s \ {Picked(s)} \in Upto(n-1)
             /\ s \ {Picked(s)} \in Upto(n)
  <2>1. Picked(s) \in s /\ s \in SUBSET S
    BY <1>1, PickedIn
  <2>2. /\ Cardinality(s) \in Nat /\ Cardinality(s) # 0
        /\ Cardinality(s \ {Picked(s)}) = Cardinality(s) - 1
    BY <2>1, OneLess
  <2> QED
    BY <2>1, <2>2
<1>2. ASSUME NEW n \in Bad, \A m \in Nat : m < n => m \notin Bad PROVE FALSE
  <2>1. CASE n = 0
    <3> DEFINE h == [s \in Upto(0) |-> 0]
    <3>1. \A s \in Upto(0) : s = {}
      BY <1>1
    <3>2. Good(h, 0)
      BY <3>1
    <3> QED
      BY <1>2, <2>1, <3>2
  <2>2. CASE n # 0
    <3>1. n \in Nat /\ n-1 \in Nat /\ n-1 < n
      BY <2>2
    <3>2. PICK h : Good(h, n-1)
      BY <1>2, <3>1
    <3> DEFINE j == [s \in Upto(n) |-> Body(h, s)]
    <3>3. \A s \in Upto(n) : Body(h, s) \in Nat
      BY <1>1, <3>1, <3>2
    <3>4. ASSUME NEW s \in Upto(n-1) PROVE s \in Upto(n) /\ j[s] = h[s]
      <4>1. s \in Upto(n)
        <5>1. Cardinality(s) \in Nat /\ Cardinality(s) <= n-1
          BY FS_Subset, FS_CardinalityType
        <5> QED
          BY <3>1, <5>1
      <4> QED
        BY <3>2, <4>1
    <3>5. ASSUME NEW s \in Upto(n) PROVE Body(j, s) = Body(h, s)
      BY <1>1, <3>1, <3>4
    <3> HIDE DEF Body
    <3>6. Good(j, n)
      BY <3>3, <3>5
    <3> QED
      BY <1>2, <3>6
  <2> QED
    BY <2>1, <2>2
<1>3. Bad = {}
  <2>1. Bad \in SUBSET Nat
    OBVIOUS
  <2> HIDE DEF Bad
  <2> QED
    BY <1>2, <2>1, LeastNumber
<1>4. Cardinality(S) \in Nat /\ Upto(Cardinality(S)) = SUBSET S
  <2>1. Cardinality(S) \in Nat
    BY FS_CardinalityType
  <2>2. \A s \in SUBSET S : Cardinality(s) <= Cardinality(S)
    BY FS_Subset
  <2> QED
    BY <2>1, <2>2
<1>5. PICK h : Good(h, Cardinality(S))
  BY <1>3, <1>4
<1>6. h \in [SUBSET S -> Nat] /\ \A s \in SUBSET S : h[s] = Body(h, s)
  BY <1>4, <1>5
<1> QED
  BY <1>6 DEF SumsUp

Summing(h, w, S) ==
  IsFiniteSet(S) /\ w \in [S -> Nat] /\ h \in [SUBSET S -> Nat] /\ SumsUp(h, w, S)

LEMMA SumAdds ==
  ASSUME NEW S, NEW w, NEW h, Summing(h, w, S),
         NEW r, NEW y, y \notin r, S = r \cup {y}
  PROVE  h[S] = w[y] + h[r]
<1> USE DEF Summing
<1> DEFINE Bad == {n \in Nat : \E s \in SUBSET S : \E x \in S \ s :
                                  Cardinality(s) = n /\ h[s \cup {x}] # w[x] + h[s]}
<1>1. \A s \in SUBSET S : h[s] = IF s = {} THEN 0 ELSE w[Picked(s)] + h[s \ {Picked(s)}]
  BY DEF SumsUp
<1>2. ASSUME NEW n \in Bad, \A m \in Nat : m < n => m \notin Bad PROVE FALSE
  <2>0. PICK s \in SUBSET S :
           \E x \in S \ s : Cardinality(s) = n /\ h[s \cup {x}] # w[x] + h[s]
    OBVIOUS
  <2>1. PICK x \in S \ s : Cardinality(s) = n /\ h[s \cup {x}] # w[x] + h[s]
    BY <2>0
  <2> DEFINE u == s \cup {x}  p == Picked(u)
  <2>2. p \in u /\ u \in SUBSET S /\ u # {} /\ h[u] = w[p] + h[u \ {p}]
    <3>1. u \in SUBSET S /\ u # {}
      OBVIOUS
    <3> HIDE DEF u
    <3> QED
      BY <1>1, <3>1, PickedIn
  <2> HIDE DEF p
  <2>3. p # x
    <3> SUFFICES ASSUME p = x PROVE FALSE
      OBVIOUS
    <3>1. u \ {p} = s
      BY <2>1
    <3> QED
      BY <2>1, <2>2, <3>1
  <2>4. p \in s
    BY <2>2, <2>3
  <2> DEFINE q == s \ {p}
  <2>5. q \in SUBSET S /\ p \in S \ q /\ x \in S \ q /\ q \cup {p} = s /\ u \ {p} = q \cup {x}
    BY <2>1, <2>3, <2>4
  <2>6. Cardinality(q) \in Nat /\ Cardinality(q) < n /\ Cardinality(q) \notin Bad
    <3>1. Cardinality(q) \in Nat /\ Cardinality(s) \in Nat /\ Cardinality(q) = Cardinality(s) - 1
      BY <2>4, OneLess
    <3> HIDE DEF Bad, q
    <3> QED
      BY <1>2, <2>1, <3>1
  <2> HIDE DEF q, u
  <2>7. h[q \cup {p}] = w[p] + h[q] /\ h[q \cup {x}] = w[x] + h[q]
    BY <2>5, <2>6
  <2>8. h[q] \in Nat /\ w[p] \in Nat /\ w[x] \in Nat
    BY <2>5
  <2>9. h[u] = w[p] + (w[x] + h[q]) /\ h[s] = w[p] + h[q]
    BY <2>2, <2>5, <2>7, Zenon
  <2>10. h[u] # w[x] + h[s]
    BY <2>1 DEF u
  <2> QED
    BY <2>8, <2>9, <2>10
<1>3. Bad = {}
  <2>1. Bad \in SUBSET Nat
    OBVIOUS
  <2> HIDE DEF Bad
  <2> QED
    BY <1>2, <2>1, LeastNumber
<1>4. r \in SUBSET S /\ y \in S \ r
  OBVIOUS
<1>5. Cardinality(r) \in Nat
  BY <1>4, FS_Subset, FS_CardinalityType
<1> QED
  BY <1>3, <1>4, <1>5

LEMMA SumAgrees ==
  ASSUME NEW S, IsFiniteSet(S), NEW T, S \subseteq T, NEW w, NEW v,
         \A x \in S : w[x] = v[x],
         NEW h, NEW j, SumsUp(h, w, S), SumsUp(j, v, T)
  PROVE  h[S] = j[S]
<1> DEFINE Bad == {n \in Nat : \E s \in SUBSET S : Cardinality(s) = n /\ h[s] # j[s]}
<1>1. /\ \A s \in SUBSET S : h[s] = IF s = {} THEN 0 ELSE w[Picked(s)] + h[s \ {Picked(s)}]
      /\ \A s \in SUBSET S : j[s] = IF s = {} THEN 0 ELSE v[Picked(s)] + j[s \ {Picked(s)}]
  BY DEF SumsUp
<1>2. ASSUME NEW n \in Bad, \A m \in Nat : m < n => m \notin Bad PROVE FALSE
  <2>1. PICK s \in SUBSET S : Cardinality(s) = n /\ h[s] # j[s]
    OBVIOUS
  <2>2. s # {} /\ Picked(s) \in s
    BY <1>1, <2>1, PickedIn
  <2> DEFINE r == s \ {Picked(s)}
  <2>3. Cardinality(r) \in Nat /\ Cardinality(r) < n /\ r \in SUBSET S
    <3>1. Cardinality(r) \in Nat /\ Cardinality(s) \in Nat /\ Cardinality(r) = Cardinality(s) - 1
      BY <2>2, OneLess
    <3> QED
      BY <2>1, <3>1
  <2>4. h[r] = j[r]
    BY <1>2, <2>3
  <2> QED
    BY <1>1, <2>1, <2>2, <2>4
<1>3. Bad = {}
  <2>1. Bad \in SUBSET Nat
    OBVIOUS
  <2> HIDE DEF Bad
  <2> QED
    BY <1>2, <2>1, LeastNumber
<1>4. Cardinality(S) \in Nat
  BY FS_CardinalityType
<1> QED
  BY <1>3, <1>4

\* The sum of what some turns have reserved, of one kind.
Total(g, k, S) == MapThenSumSet(LAMBDA t : g[t].reserved[k], S)

Weights(g, k, S) == [t \in S |-> g[t].reserved[k]]

SumsOf(g, k, S) ==
  CHOOSE h \in [SUBSET S -> Nat] : SumsUp(h, Weights(g, k, S), S) /\ Total(g, k, S) = h[S]

LEMMA TotalIs ==
  ASSUME NEW g, NEW k, NEW S, IsFiniteSet(S), \A t \in S : g[t].reserved[k] \in Nat
  PROVE  /\ SumsOf(g, k, S) \in [SUBSET S -> Nat]
         /\ SumsUp(SumsOf(g, k, S), Weights(g, k, S), S)
         /\ Total(g, k, S) = SumsOf(g, k, S)[S]
<1> DEFINE w == Weights(g, k, S)
           Sums(h) == h = [s \in SUBSET S |->
              IF s = {} THEN 0 ELSE g[Picked(s)].reserved[k] + h[s \ {Picked(s)}]]
           j == CHOOSE h : Sums(h)
<1> USE DEF Weights
<1>1. \A s \in SUBSET S : s # {} => g[Picked(s)].reserved[k] = w[Picked(s)]
  BY PickedIn
<1>2. PICK i \in [SUBSET S -> Nat] : SumsUp(i, w, S)
  <2>1. w \in [S -> Nat]
    OBVIOUS
  <2> HIDE DEF w
  <2> QED
    BY <2>1, SumExists
<1>3. Sums(i)
  BY <1>1, <1>2 DEF SumsUp
<1>4. Sums(j)
  BY <1>3
<1>5. Total(g, k, S) = j[S]
  BY DEF Total, MapThenSumSet, MapThenFoldSet, Picked
<1> HIDE DEF j
<1>6. SumsUp(j, w, S)
  BY <1>1, <1>4 DEF SumsUp
<1>7. \A s \in SUBSET S : j[s] = i[s]
  <2> SUFFICES ASSUME NEW s \in SUBSET S PROVE j[s] = i[s]
    OBVIOUS
  <2>1. SumsUp([r \in SUBSET s |-> j[r]], w, s) /\ IsFiniteSet(s)
    BY <1>6, FS_Subset DEF SumsUp
  <2>2. \A x \in s : w[x] = w[x]
    OBVIOUS
  <2> HIDE DEF w
  <2>3. [r \in SUBSET s |-> j[r]][s] = i[s]
    BY <1>2, <2>1, <2>2, SumAgrees
  <2> QED
    BY <2>3
<1>8. j = [s \in SUBSET S |-> j[s]]
  BY <1>4
<1>9. j \in [SUBSET S -> Nat]
  BY <1>2, <1>7, <1>8
<1> HIDE DEF w
<1>10. \E h \in [SUBSET S -> Nat] : SumsUp(h, w, S) /\ Total(g, k, S) = h[S]
  BY <1>5, <1>6, <1>9
<1> QED
  BY <1>10 DEF SumsOf, w

LEMMA TotalAdds ==
  ASSUME NEW g, NEW k, NEW S, IsFiniteSet(S), NEW x, x \notin S,
         \A t \in S \cup {x} : g[t].reserved[k] \in Nat
  PROVE  /\ Total(g, k, S) \in Nat
         /\ Total(g, k, S \cup {x}) = Total(g, k, S) + g[x].reserved[k]
<1> DEFINE T == S \cup {x}
           w == Weights(g, k, T)  v == Weights(g, k, S)
           h == SumsOf(g, k, T)   j == SumsOf(g, k, S)
<1>1. IsFiniteSet(T)
  BY FS_AddElement
<1>2. h \in [SUBSET T -> Nat] /\ SumsUp(h, w, T) /\ Total(g, k, T) = h[T]
  BY <1>1, TotalIs
<1>3. SumsUp(j, v, S) /\ Total(g, k, S) = j[S]
  BY TotalIs
<1>4. w \in [T -> Nat] /\ w[x] = g[x].reserved[k] /\ \A t \in S : v[t] = w[t]
  BY DEF Weights
<1>5. T = S \cup {x} /\ S \subseteq T /\ S \in SUBSET T /\ x \in T \ S
  OBVIOUS
<1> HIDE DEF T, w, v, h, j
<1>6. j[S] = h[S]
  BY <1>2, <1>3, <1>4, <1>5, SumAgrees
<1>7. h[T] = w[x] + h[S]
  <2>1. Summing(h, w, T) /\ T = S \cup {x}
    BY <1>1, <1>2, <1>4, <1>5 DEF Summing
  <2> QED
    BY <2>1, SumAdds
<1>8. h[S] \in Nat
  BY <1>2, <1>5
<1>9. Total(g, k, S) = h[S] /\ Total(g, k, S \cup {x}) = h[T]
  BY <1>2, <1>3, <1>5, <1>6
<1>10. g[x].reserved[k] \in Nat
  OBVIOUS
<1> QED
  BY <1>4, <1>7, <1>8, <1>9, <1>10

LEMMA TotalSame ==
  ASSUME NEW g, NEW f, NEW k, NEW S, IsFiniteSet(S),
         \A t \in S : g[t].reserved[k] \in Nat,
         \A t \in S : f[t].reserved[k] = g[t].reserved[k]
  PROVE  Total(g, k, S) = Total(f, k, S)
<1> DEFINE w == Weights(g, k, S)  v == Weights(f, k, S)
           h == SumsOf(g, k, S)   j == SumsOf(f, k, S)
<1>1. \A t \in S : f[t].reserved[k] \in Nat
  OBVIOUS
<1>2. SumsUp(h, w, S) /\ Total(g, k, S) = h[S]
  BY TotalIs
<1>3. SumsUp(j, v, S) /\ Total(f, k, S) = j[S]
  BY <1>1, TotalIs
<1>4. (\A t \in S : w[t] = v[t]) /\ S \subseteq S
  BY DEF Weights
<1> HIDE DEF w, v, h, j
<1>5. h[S] = j[S]
  BY <1>2, <1>3, <1>4, SumAgrees
<1> QED
  BY <1>2, <1>3, <1>5

LEMMA TotalNone == \A g, k : Total(g, k, {}) = 0
<1> SUFFICES ASSUME NEW g, NEW k PROVE Total(g, k, {}) = 0
  OBVIOUS
<1>1. IsFiniteSet({})
  BY FS_EmptySet
<1>2. /\ SumsUp(SumsOf(g, k, {}), Weights(g, k, {}), {})
      /\ Total(g, k, {}) = SumsOf(g, k, {})[{}]
  BY <1>1, TotalIs
<1> QED
  BY <1>2 DEF SumsUp

\* The turns that hold a reservation are finitely many, and what the callback of one
\* finds is what its gate reserved.
Holders == {t \in Turns : Holds(t)}

HoldersInv ==
  /\ IsFiniteSet(Holders)
  /\ \A t \in Turns : reservations[t] # None =>
        /\ send[t].pc \in {"registered", "answered", "failed"}
        /\ reservations[t] = send[t].reserved

AddsUp == \A k \in Kinds : inflight[k] = IF Capped THEN Total(send, k, Holders) ELSE 0

LEMMA AddUpIs ==
  ASSUME TypeOK
  PROVE  ReservationsAddUp <=> AddsUp
<1>1. ReservedBy(Holders) = [k \in Kinds |-> Total(send, k, Holders)]
  BY DEF ReservedBy, Total
<1>2. Holders = {t \in Turns : Holds(t)}
  BY DEF Holders
<1>3. inflight = [k \in Kinds |-> inflight[k]]
  BY DEF TypeOK, Amounts
<1> DEFINE r == ReservedBy(Holders)
<1>4. ReservationsAddUp <=> inflight = IF Capped THEN r ELSE Nothing
  BY <1>2 DEF ReservationsAddUp
<1> HIDE DEF r
<1> QED
  BY <1>1, <1>3, <1>4 DEF AddsUp, Nothing, r

LEMMA ReservedTyped ==
  TypeOK => \A t \in Turns, k \in Kinds : send[t].reserved[k] \in Nat
BY DEF TypeOK, Sends

\* The three things a step does to the sum: it adds a turn, takes one away, or
\* leaves it.
LEMMA HoldersGrow ==
  ASSUME TypeOK, TypeOK', IsFiniteSet(Holders), AddsUp,
         NEW t \in Turns, t \notin Holders, Holders' = Holders \cup {t},
         \A o \in Holders : send'[o].reserved = send[o].reserved,
         \A k \in Kinds :
            inflight'[k] = IF Capped THEN inflight[k] + send'[t].reserved[k] ELSE inflight[k]
  PROVE  AddsUp' /\ IsFiniteSet(Holders')
<1>1. Holders \subseteq Turns /\ Holders' \subseteq Turns
  BY DEF Holders
<1>2. /\ \A o \in Turns, k \in Kinds : send[o].reserved[k] \in Nat
      /\ \A o \in Turns, k \in Kinds : send'[o].reserved[k] \in Nat
  BY DEF TypeOK, Sends
<1>3. IsFiniteSet(Holders')
  BY FS_AddElement
<1>4. ASSUME NEW k \in Kinds
      PROVE  inflight'[k] = IF Capped THEN Total(send', k, Holders') ELSE 0
  <2>1. \A o \in Holders : send[o].reserved[k] \in Nat
    BY <1>1, <1>2
  <2>2. \A o \in Holders : send'[o].reserved[k] = send[o].reserved[k]
    OBVIOUS
  <2>3. Total(send, k, Holders) = Total(send', k, Holders)
    BY <2>1, <2>2, TotalSame
  <2>4. \A o \in Holders \cup {t} : send'[o].reserved[k] \in Nat
    BY <1>1, <1>2
  <2>5. /\ Total(send', k, Holders) \in Nat
        /\ Total(send', k, Holders \cup {t}) = Total(send', k, Holders) + send'[t].reserved[k]
    BY <2>4, TotalAdds
  <2>6. inflight[k] = IF Capped THEN Total(send, k, Holders) ELSE 0
    BY DEF AddsUp
  <2>7. inflight'[k] = IF Capped THEN inflight[k] + send'[t].reserved[k] ELSE inflight[k]
    OBVIOUS
  <2> QED
    BY <2>3, <2>5, <2>6, <2>7
<1> QED
  BY <1>3, <1>4 DEF AddsUp, Capped

LEMMA HoldersShrink ==
  ASSUME TypeOK, TypeOK', IsFiniteSet(Holders), AddsUp,
         NEW t \in Holders, Holders' = Holders \ {t},
         \A o \in Holders : send'[o].reserved = send[o].reserved,
         inflight' = Decreased(send[t].reserved)
  PROVE  AddsUp' /\ IsFiniteSet(Holders')
<1> DEFINE R == Holders \ {t}
<1>1. Holders \subseteq Turns /\ t \in Turns /\ R \cup {t} = Holders /\ t \notin R
  BY DEF Holders
<1>2. \A o \in Turns, k \in Kinds : send[o].reserved[k] \in Nat
  BY ReservedTyped
<1>3. IsFiniteSet(R)
  BY FS_RemoveElement
<1> HIDE DEF R
<1>4. ASSUME NEW k \in Kinds
      PROVE  /\ Total(send', k, R) \in Nat
             /\ inflight[k] = IF Capped THEN Total(send', k, R) + send[t].reserved[k] ELSE 0
  <2>1. \A o \in R \cup {t} : send[o].reserved[k] \in Nat
    BY <1>1, <1>2
  <2>2. /\ \A o \in R : send[o].reserved[k] \in Nat
        /\ \A o \in R : send'[o].reserved[k] = send[o].reserved[k]
    BY <1>1, <2>1
  <2>3. Total(send, k, R) = Total(send', k, R)
    BY <1>3, <2>2, TotalSame
  <2>4. /\ Total(send, k, R) \in Nat
        /\ Total(send, k, R \cup {t}) = Total(send, k, R) + send[t].reserved[k]
    BY <1>1, <1>3, <2>1, TotalAdds
  <2>5. inflight[k] = IF Capped THEN Total(send, k, R \cup {t}) ELSE 0
    BY <1>1 DEF AddsUp
  <2> QED
    BY <2>3, <2>4, <2>5
<1>5. ASSUME NEW k \in Kinds
      PROVE  inflight'[k] = IF Capped THEN Total(send', k, R) ELSE 0
  <2> DEFINE r == send[t].reserved
  <2>1. inflight = [j \in Kinds |-> inflight[j]] /\ \A j \in Kinds : r[j] \in Nat
    BY <1>1, <1>2 DEF TypeOK, Amounts
  <2>2. inflight' = IF inflight = Nothing \/ \A j \in Kinds : inflight[j] - r[j] <= 0
                    THEN Nothing ELSE Minus(inflight, r)
    BY DEF Decreased, Minus
  <2>3. Nothing[k] = 0 /\ Minus(inflight, r)[k] = inflight[k] - r[k]
    BY DEF Nothing, Minus
  <2> HIDE DEF r
  <2>4. \A j \in Kinds : Total(send', j, R) \in Nat /\ inflight[j] = IF Capped THEN Total(send', j, R) + r[j] ELSE 0
    BY <1>4 DEF r
  <2>5. CASE Capped
    <3>1. CASE inflight = Nothing
      <4>1. inflight[k] = 0 /\ inflight'[k] = 0
        BY <2>2, <2>3, <3>1
      <4> QED
        BY <2>1, <2>4, <2>5, <4>1
    <3>2. CASE \A j \in Kinds : inflight[j] - r[j] <= 0
      <4>1. inflight'[k] = 0 /\ inflight[k] - r[k] <= 0
        BY <2>2, <2>3, <3>2
      <4> QED
        BY <2>1, <2>4, <2>5, <4>1
    <3>3. CASE ~(inflight = Nothing \/ \A j \in Kinds : inflight[j] - r[j] <= 0)
      <4>1. inflight'[k] = inflight[k] - r[k]
        BY <2>2, <2>3, <3>3
      <4> QED
        BY <2>1, <2>4, <2>5, <4>1
    <3> QED
      BY <3>1, <3>2, <3>3
  <2>6. CASE ~Capped
    <3>1. \A j \in Kinds : inflight[j] = 0
      BY <2>4, <2>6
    <3>2. inflight = Nothing
      BY <2>1, <3>1 DEF Nothing
    <3> QED
      BY <2>2, <2>3, <2>6, <3>2
  <2> QED
    BY <2>5, <2>6
<1>6. Holders' = R
  BY DEF R
<1> QED
  BY <1>3, <1>5, <1>6 DEF AddsUp, Capped

LEMMA HoldersSame ==
  ASSUME TypeOK, IsFiniteSet(Holders), AddsUp, Holders' = Holders,
         \A o \in Holders : send'[o].reserved = send[o].reserved,
         UNCHANGED inflight
  PROVE  AddsUp' /\ IsFiniteSet(Holders')
<1>1. ASSUME NEW k \in Kinds PROVE Total(send, k, Holders) = Total(send', k, Holders)
  <2>1. /\ \A o \in Holders : send[o].reserved[k] \in Nat
        /\ \A o \in Holders : send'[o].reserved[k] = send[o].reserved[k]
    BY ReservedTyped DEF Holders
  <2> QED
    BY <2>1, TotalSame
<1> QED
  BY <1>1 DEF AddsUp, Capped

SumInv == Typed /\ HoldersInv /\ AddsUp

\* A step of sendMessage that neither takes nor gives back a reservation.
LEMMA SendKeeps ==
  ASSUME SumInv, NEW t \in Turns, NEW s \in Sends,
         send' = [send EXCEPT ![t] = s], UNCHANGED <<inflight, reservations>>,
         s.pc \in {"prepare", "start", "starting"} <=> send[t].pc \in {"prepare", "start", "starting"},
         Holds(t) => s.reserved = send[t].reserved,
         reservations[t] # None => s.pc \in {"registered", "answered", "failed"}
  PROVE  HoldersInv' /\ AddsUp'
<1>1. \A o \in Turns : send'[o] = IF o = t THEN s ELSE send[o]
  BY DEF SumInv, Typed, TypeOK
<1>2. \A o \in Turns : Holds(o)' <=> Holds(o)
  BY <1>1 DEF Holds
<1>3. Holders' = Holders
  BY <1>2 DEF Holders
<1>4. \A o \in Holders : send'[o].reserved = send[o].reserved
  BY <1>1 DEF Holders
<1>5. AddsUp' /\ IsFiniteSet(Holders')
  BY <1>3, <1>4, HoldersSame DEF SumInv, Typed, HoldersInv
<1>6. \A o \in Turns : reservations[o] # None => Holds(o)
  BY DEF Holds
<1> QED
  BY <1>1, <1>5, <1>6 DEF SumInv, HoldersInv

\* The catch block of a turn whose run is not registered gives its reservation back.
LEMMA GiveUpStep ==
  ASSUME SumInv, TypeOK', NEW t \in Turns, send[t].pc \in {"prepare", "start", "starting"}, GiveUp(t)
  PROVE  HoldersInv' /\ AddsUp'
<1>1. /\ send' = [send EXCEPT ![t].pc = "failed"] /\ UNCHANGED reservations
      /\ inflight' = Decreased(send[t].reserved)
  BY DEF GiveUp
<1>2. \A o \in Turns : /\ o # t => send'[o] = send[o]
                       /\ send'[o].reserved = send[o].reserved
  BY <1>1 DEF SumInv, Typed, TypeOK, Sends
<1>3. send'[t].pc = "failed"
  BY <1>1 DEF SumInv, Typed, TypeOK, Sends
<1>4. reservations[t] = None
  BY DEF SumInv, HoldersInv
<1>5. t \in Holders /\ Holders' = Holders \ {t}
  BY <1>1, <1>2, <1>3, <1>4 DEF Holders, Holds
<1>6. \A o \in Holders : send'[o].reserved = send[o].reserved
  BY <1>2 DEF Holders
<1>7. AddsUp' /\ IsFiniteSet(Holders')
  BY <1>1, <1>5, <1>6, HoldersShrink DEF SumInv, Typed, HoldersInv
<1> QED
  BY <1>1, <1>2, <1>4, <1>7 DEF SumInv, HoldersInv

\* Neither sendMessage nor a release takes this step.
LEMMA OthersKeep ==
  ASSUME SumInv, UNCHANGED <<send, inflight, reservations>>
  PROVE  HoldersInv' /\ AddsUp'
<1>1. Holders' = Holders
  BY DEF Holders, Holds
<1>2. AddsUp' /\ IsFiniteSet(Holders')
  BY <1>1, HoldersSame DEF SumInv, Typed, HoldersInv
<1> QED
  BY <1>2 DEF SumInv, HoldersInv

LEMMA SumStep == SumInv /\ [Next]_vars => SumInv'
<1> SUFFICES ASSUME SumInv, [Next]_vars PROVE HoldersInv' /\ AddsUp'
  BY TypeStep, RollbackAtStep DEF SumInv, Typed
<1> USE DEF SumInv, quota, agent
<1>1. TypeOK /\ TypeOK'
  BY TypeStep DEF Typed
<1>2. \A t \in Turns : /\ send[t] \in Sends /\ send[t].reserved \in [Kinds -> Nat]
                       /\ send[t].reserved # None
                       /\ reservations[t] \in [Kinds -> Nat] \cup {None}
  BY <1>1, NoneAssumption DEF TypeOK, Sends
<1>3. ASSUME NEW t \in Turns, NEW c \in Conversations, GetUser(t, c) PROVE HoldersInv' /\ AddsUp'
  <2> DEFINE s == [Idle EXCEPT !.pc = "gate", !.conversation = c, !.seen = used]
  <2>1. send[t].pc = "idle" /\ send' = [send EXCEPT ![t] = s] /\ UNCHANGED <<inflight, reservations>>
    BY <1>3 DEF GetUser
  <2>2. s \in Sends /\ s.pc = "gate"
    BY <1>1 DEF Idle, Nothing, Sends, SendPCs, TypeOK
  <2>3. reservations[t] = None /\ ~Holds(t)
    BY <2>1 DEF HoldersInv, Holds
  <2> HIDE DEF s
  <2> QED
    BY <2>1, <2>2, <2>3, SendKeeps
<1>4. ASSUME NEW t \in Turns, Reserve(t) PROVE HoldersInv' /\ AddsUp'
  <2> DEFINE a == ToReserve(send[t].seen)  s == [send[t] EXCEPT !.pc = "prepare", !.reserved = a]
  <2>1. /\ send[t].pc = "gate" /\ UNCHANGED reservations
        /\ send' = [send EXCEPT ![t] = s]
        /\ inflight' = IF Capped THEN Plus(inflight, a) ELSE inflight
    BY <1>4 DEF Reserve
  <2>2. s.pc = "prepare" /\ s.reserved = a
    BY <1>2 DEF Sends
  <2> HIDE DEF a, s
  <2>3. \A o \in Turns : send'[o] = IF o = t THEN s ELSE send[o]
    BY <1>1, <2>1 DEF TypeOK
  <2>4. reservations[t] = None
    BY <2>1 DEF HoldersInv
  <2>5. t \notin Holders /\ Holders' = Holders \cup {t}
    BY <2>1, <2>2, <2>3, <2>4 DEF Holders, Holds
  <2>6. \A o \in Holders : send'[o].reserved = send[o].reserved
    BY <2>3, <2>5 DEF Holders
  <2>7. \A k \in Kinds :
           inflight'[k] = IF Capped THEN inflight[k] + send'[t].reserved[k] ELSE inflight[k]
    BY <2>1, <2>2, <2>3 DEF Plus
  <2>8. AddsUp' /\ IsFiniteSet(Holders')
    BY <1>1, <2>5, <2>6, <2>7, HoldersGrow DEF HoldersInv
  <2> QED
    BY <2>1, <2>3, <2>4, <2>8 DEF HoldersInv
<1>5. ASSUME NEW t \in Turns, NEW p \in SendPCs, UNCHANGED <<inflight, reservations>>,
             send' = [send EXCEPT ![t].pc = p],
             p \in {"prepare", "start", "starting"} <=> send[t].pc \in {"prepare", "start", "starting"},
             reservations[t] # None => p \in {"registered", "answered", "failed"}
      PROVE  HoldersInv' /\ AddsUp'
  <2> DEFINE s == [send[t] EXCEPT !.pc = p]
  <2>1. s \in Sends /\ s.pc = p /\ s.reserved = send[t].reserved
    BY <1>2 DEF Sends
  <2>2. send' = [send EXCEPT ![t] = s]
    BY <1>5
  <2> HIDE DEF s
  <2> QED
    BY <1>5, <2>1, <2>2, SendKeeps
<1>6. ASSUME NEW t \in Turns,
             Refuse(t) \/ RecordUserMessage(t) \/ StartRun(t) \/ RecordRun(t) \/ RecordRunFails(t)
      PROVE  HoldersInv' /\ AddsUp'
  <2>1. reservations[t] # None => send[t].pc \in {"registered", "answered", "failed"}
    BY DEF HoldersInv
  <2>2. CASE Refuse(t)
    BY <1>5, <2>1, <2>2 DEF Refuse, SendPCs
  <2>3. CASE RecordUserMessage(t)
    BY <1>5, <2>1, <2>3 DEF RecordUserMessage, SendPCs
  <2>4. CASE StartRun(t)
    BY <1>5, <2>1, <2>4 DEF StartRun, SendPCs
  <2>5. CASE RecordRun(t)
    BY <1>5, <2>1, <2>5 DEF RecordRun, SendPCs
  <2>6. CASE RecordRunFails(t)
    BY <1>5, <2>1, <2>6 DEF RecordRunFails, SendPCs
  <2> QED
    BY <1>6, <2>2, <2>3, <2>4, <2>5, <2>6
<1>7. ASSUME NEW t \in Turns, PrepareFails(t) \/ StartFails(t) PROVE HoldersInv' /\ AddsUp'
  BY <1>1, <1>7, GiveUpStep DEF PrepareFails, StartFails
<1>8. ASSUME NEW t \in Turns, RegisterReservation(t) PROVE HoldersInv' /\ AddsUp'
  <2>1. /\ send[t].pc = "starting" /\ send' = [send EXCEPT ![t].pc = "registered"]
        /\ reservations' = [reservations EXCEPT ![t] = send[t].reserved]
        /\ UNCHANGED inflight
    BY <1>8 DEF RegisterReservation
  <2>2. /\ \A o \in Turns : /\ o # t => send'[o] = send[o] /\ reservations'[o] = reservations[o]
                            /\ send'[o].reserved = send[o].reserved
        /\ send'[t].pc = "registered" /\ reservations'[t] = send[t].reserved
    BY <1>1, <1>2, <2>1 DEF TypeOK, Sends
  <2>3. Holders' = Holders
    BY <1>2, <2>1, <2>2 DEF Holders, Holds
  <2>4. \A o \in Holders : send'[o].reserved = send[o].reserved
    BY <2>2 DEF Holders
  <2>5. AddsUp' /\ IsFiniteSet(Holders')
    BY <1>1, <2>1, <2>3, <2>4, HoldersSame DEF HoldersInv
  <2> QED
    BY <2>2, <2>5 DEF HoldersInv
<1>9. ASSUME NEW t \in Turns, Release(t) PROVE HoldersInv' /\ AddsUp'
  <2>1. /\ UNCHANGED send /\ reservations' = [reservations EXCEPT ![t] = None]
        /\ inflight' = IF reservations[t] = None THEN inflight ELSE Decreased(reservations[t])
    BY <1>9 DEF Release
  <2>2. CASE reservations[t] = None
    <3>1. UNCHANGED <<send, inflight, reservations>>
      BY <1>1, <2>1, <2>2 DEF TypeOK
    <3> QED
      BY <3>1, OthersKeep
  <2>3. CASE reservations[t] # None
    <3>1. \A o \in Turns : reservations'[o] = IF o = t THEN None ELSE reservations[o]
      BY <1>1, <2>1 DEF TypeOK
    <3>2. /\ send[t].pc \in {"registered", "answered", "failed"}
          /\ inflight' = Decreased(send[t].reserved)
      BY <2>1, <2>3 DEF HoldersInv
    <3>3. t \in Holders /\ Holders' = Holders \ {t}
      BY <2>1, <2>3, <3>1, <3>2 DEF Holders, Holds
    <3>4. AddsUp' /\ IsFiniteSet(Holders')
      BY <1>1, <2>1, <3>2, <3>3, HoldersShrink DEF HoldersInv
    <3> QED
      BY <2>1, <3>1, <3>4 DEF HoldersInv
  <2> QED
    BY <2>2, <2>3
<1>10. ASSUME NEW t \in Turns,
              \/ Run(t) \/ Bill(t) \/ RecordReply(t) \/ RecordReplyFails(t)
              \/ MarkRunCancelled(t)
       PROVE  HoldersInv' /\ AddsUp'
  <2>1. UNCHANGED <<send, inflight, reservations>>
    BY <1>10 DEF Run, CancelRun, Abort, EndRun, RunDies, Bill, RecordReply,
                 RecordReplyFails, MarkRunCancelled
  <2> QED
    BY <2>1, OthersKeep
<1>11. ASSUME NEW b \in Rollbacks, RollbackToMessage(b) PROVE HoldersInv' /\ AddsUp'
  <2>1. UNCHANGED <<send, inflight, reservations>>
    BY <1>11 DEF RollbackToMessage, FindUserMessage, GuardRollback, RevertProject,
                 ReadKept, PullMessages
  <2> QED
    BY <2>1, OthersKeep
<1>12. CASE UNCHANGED vars
  BY <1>12, OthersKeep DEF vars
<1> QED
  BY <1>3, <1>4, <1>6, <1>7, <1>8, <1>9, <1>10, <1>11, <1>12 DEF Next, SendMessage, Callback

\* The in-flight sums are, at any time and however failing handlers and callbacks
\* interleave, what the turns that still hold a reservation have reserved: none is
\* given back twice, and none is forgotten.
THEOREM ReservationsNeverDrift == Spec => []ReservationsAddUp
<1>1. Init => HoldersInv /\ AddsUp
  <2> SUFFICES ASSUME Init PROVE HoldersInv /\ AddsUp
    OBVIOUS
  <2>1. Holders = {}
    BY DEF Init, Holders, Holds, Idle
  <2> QED
    BY <2>1, FS_EmptySet, TotalNone DEF Init, HoldersInv, AddsUp, Nothing
<1>2. HoldersInv /\ AddsUp /\ Typed /\ [Next]_vars => (HoldersInv /\ AddsUp)'
  BY SumStep DEF SumInv
<1>3. Typed /\ AddsUp => ReservationsAddUp
  BY AddUpIs DEF Typed
<1> QED
  BY <1>1, <1>2, <1>3, AlwaysTyped, PTL DEF Spec

-----------------------------------------------------------------------------
(* The compiles: whoever compiles has the lock for as long as it lasts, and whoever
   waits is answered. *)

LockInv == CompileTypeOK /\ HolderHasLock

USE AgentCompileAssumption

LEMMA InitLockInv == CompileInit => LockInv
  BY DEF CompileInit, LockInv, CompileTypeOK, HolderHasLock, Holding

\* No step breaks the types, and a caller that returns has a result to return.
LEMMA TypesStep ==
    ASSUME CompileTypeOK, [CompileNext]_compileVars
    PROVE  CompileTypeOK'
<1>1. ASSUME NEW c \in Callers, Acquire(c) PROVE CompileTypeOK'
  BY <1>1 DEF Acquire, Goto, CompileTypeOK, Holding
<1>2. ASSUME NEW c \in Callers, BeginToWait(c) PROVE CompileTypeOK'
  BY <1>2 DEF BeginToWait, Goto, CompileTypeOK, Holding
<1>3. ASSUME NEW c \in Callers, CompileEnds(c) PROVE CompileTypeOK'
  BY <1>3 DEF CompileEnds, Goto, CompileTypeOK, Holding
<1>4. ASSUME NEW c \in Callers, StoreResult(c) PROVE CompileTypeOK'
  BY <1>4 DEF StoreResult, Goto, CompileTypeOK, Holding
<1>5. ASSUME NEW c \in Callers, ReleaseLock(c) PROVE CompileTypeOK'
  BY <1>5 DEF ReleaseLock, Goto, CompileTypeOK, Holding
<1>6. ASSUME NEW c \in Callers, ReadResult(c) PROVE CompileTypeOK'
  BY <1>6 DEF ReadResult, Goto, CompileTypeOK, Holding
<1>7. ASSUME NEW c \in Callers, TimeOut(c) PROVE CompileTypeOK'
  BY <1>7 DEF TimeOut, Goto, CompileTypeOK, Holding
<1>8. ASSUME NEW c \in Callers, Die(c) PROVE CompileTypeOK'
  BY <1>8 DEF Die, Goto, CompileTypeOK, Holding
<1>9. CASE LockExpires
  BY <1>9 DEF LockExpires, CompileTypeOK, Holding
<1>10. CASE ResultExpires
  BY <1>10 DEF ResultExpires, CompileTypeOK, Holding
<1>11. CASE UNCHANGED compileVars
  BY <1>11 DEF compileVars, CompileTypeOK, Holding
<1> QED
  BY <1>1, <1>2, <1>3, <1>4, <1>5, <1>6, <1>7, <1>8, <1>9, <1>10, <1>11
  DEF CompileNext, Step

\* Only three steps touch the lock: one takes it when nobody has it, one gives up
\* the caller's own, and one marks the caller whose time has run out.
LEMMA HolderStep ==
    ASSUME CompileTypeOK, HolderHasLock, [CompileNext]_compileVars
    PROVE  HolderHasLock'
<1>1. ASSUME NEW c \in Callers, Acquire(c) PROVE HolderHasLock'
  BY <1>1 DEF Acquire, Goto, CompileTypeOK, HolderHasLock, Holding
<1>2. ASSUME NEW c \in Callers, ReleaseLock(c) PROVE HolderHasLock'
  BY <1>2 DEF ReleaseLock, Goto, CompileTypeOK, HolderHasLock, Holding
<1>3. CASE LockExpires
  BY <1>3 DEF LockExpires, CompileTypeOK, HolderHasLock, Holding
<1>4. ASSUME NEW c \in Callers,
             BeginToWait(c) \/ CompileEnds(c) \/ StoreResult(c) \/ ReadResult(c)
             \/ TimeOut(c) \/ Die(c)
      PROVE  HolderHasLock'
  <2>1. /\ lock' = lock /\ expired' = expired
        /\ \A d \in Callers : pc'[d] \in Holding => pc[d] \in Holding
    BY <1>4 DEF BeginToWait, CompileEnds, StoreResult, ReadResult, TimeOut, Die,
                Goto, CompileTypeOK, Holding
  <2> QED
    BY <2>1 DEF HolderHasLock
<1>5. CASE ResultExpires \/ UNCHANGED compileVars
  BY <1>5 DEF ResultExpires, compileVars, HolderHasLock, Holding
<1> QED
  BY <1>1, <1>2, <1>3, <1>4, <1>5 DEF CompileNext, Step

LEMMA LockInvAlways == CompileSpec => []LockInv
<1>1. LockInv /\ [CompileNext]_compileVars => LockInv'
  BY TypesStep, HolderStep DEF LockInv
<1> QED
  BY InitLockInv, <1>1, PTL DEF CompileSpec

\* Every variable of the compile coordinator keeps its shape, and no call of compile
\* returns without a result (waitForResult returns only what is not null).
THEOREM CompileTypes == CompileSpec => []CompileTypeOK
<1>1. LockInv => CompileTypeOK
  BY DEF LockInv
<1> QED
  BY LockInvAlways, <1>1, PTL

\* Whoever compiles has the lock until it runs out, whatever fails, dies or is slow
\* (the token compared in UNLOCK_SCRIPT).
THEOREM HolderKeepsLock == CompileSpec => []HolderHasLock
<1>1. LockInv => HolderHasLock
  BY DEF LockInv
<1> QED
  BY LockInvAlways, <1>1, PTL

\* A caller that releases the lock has stored its result, which is there still, or
\* could not store it.
Stored(c) ==
    pc[c] = "releasing" => c \in unstored \/ (c \in published /\ result # Nobody)

\* A caller waits for a lock somebody had, and when that lock is gone it has run out,
\* or nothing could be stored, or what was stored is there to read.
Served(c) ==
    pc[c] = "waiting" =>
        /\ holder[c] # Nobody
        /\ \/ lock = holder[c]
           \/ holder[c] \in expired \cup unstored
           \/ holder[c] \in published /\ result # Nobody

WaitInv == WaiterAnswered /\ \A c \in Callers : Stored(c) /\ Served(c)

\* Only an expiring result can take an answer away, and it waits for those who need
\* it; only a release or an expiry makes the lock go.
LEMMA WaitStep ==
    ASSUME CompileTypeOK, WaitInv, [CompileNext]_compileVars
    PROVE  WaitInv'
<1> USE DEF WaitInv, WaiterAnswered, Stored, Served
<1>1. ASSUME NEW c \in Callers, Acquire(c) PROVE WaitInv'
  BY <1>1 DEF Acquire, Goto, CompileTypeOK
<1>2. ASSUME NEW c \in Callers, BeginToWait(c) PROVE WaitInv'
  BY <1>2 DEF BeginToWait, Goto, CompileTypeOK
<1>3. ASSUME NEW c \in Callers, CompileEnds(c) PROVE WaitInv'
  BY <1>3 DEF CompileEnds, Goto, CompileTypeOK
<1>4. ASSUME NEW c \in Callers, StoreResult(c) PROVE WaitInv'
  BY <1>4 DEF StoreResult, Goto, CompileTypeOK
<1>5. ASSUME NEW c \in Callers, ReleaseLock(c) PROVE WaitInv'
  BY <1>5 DEF ReleaseLock, Goto, CompileTypeOK
<1>6. ASSUME NEW c \in Callers, ReadResult(c) PROVE WaitInv'
  BY <1>6 DEF ReadResult, Goto, CompileTypeOK
<1>7. ASSUME NEW c \in Callers, TimeOut(c) PROVE WaitInv'
  BY <1>7 DEF TimeOut, Goto, CompileTypeOK
<1>8. ASSUME NEW c \in Callers, Die(c) PROVE WaitInv'
  BY <1>8 DEF Die, Goto, CompileTypeOK
<1>9. CASE LockExpires
  BY <1>9 DEF LockExpires, CompileTypeOK
<1>10. CASE ResultExpires
  BY <1>10 DEF ResultExpires, CompileTypeOK
<1>11. CASE UNCHANGED compileVars
  BY <1>11 DEF compileVars
<1> QED
  BY <1>1, <1>2, <1>3, <1>4, <1>5, <1>6, <1>7, <1>8, <1>9, <1>10, <1>11 DEF CompileNext, Step

\* Whoever finds the lock taken is answered, unless the compile it waits for outlives
\* the lock or dies, or its result cannot be stored.
THEOREM WaiterIsAnswered == CompileSpec => []WaiterAnswered
<1>1. CompileInit => WaitInv
  BY DEF CompileInit, WaitInv, WaiterAnswered, Stored, Served
<1>2. LockInv /\ WaitInv /\ [CompileNext]_compileVars => WaitInv'
  BY WaitStep DEF LockInv
<1>3. WaitInv => WaiterAnswered
  BY DEF WaitInv
<1> QED
  BY <1>1, <1>2, <1>3, LockInvAlways, PTL DEF CompileSpec
=============================================================================
