------------------------------ MODULE AgentTurn ------------------------------
(***************************************************************************)
(* One turn of the writing agent, from web's sendMessage through the run   *)
(* in the llm-agent service to its completion or cancellation callback,    *)
(* together with the user's quota (Mongo), the in-flight reservations      *)
(* (memory of the web process), the conversation document (Mongo) and the  *)
(* rollback of a conversation.                                             *)
(*                                                                         *)
(* All turns are of one user, the one whose quota is watched.  A turn and  *)
(* the run it starts share their name: sendMessage starts one run at most. *)
(* Every await of the code is a boundary between two actions.              *)
(***************************************************************************)
EXTENDS Integers, FiniteSetsExt

CONSTANTS
    Turns,          \* the sendMessage requests, and the runs they start
    Conversations,  \* the user's conversations of one project
    Rollbacks,      \* the rollbackToMessage requests
    Limit,          \* agentQuota's limits, by kind; Unlimited is the -1 of the code
    Estimate,       \* what one run reserves, by kind
    Usages,         \* what a run may turn out to use, by kind
    Faults,         \* which awaits may fail
    None

Kinds == {"tokens", "cost"}
Unlimited == -1
Amounts == [Kinds -> Int]

ASSUME LimitAssumption == Limit \in [Kinds -> Nat \cup {Unlimited}]
ASSUME UsageAssumption ==
    /\ Estimate \in [Kinds -> Nat \ {0}]
    /\ Usages \subseteq [Kinds -> Nat]
ASSUME NoneAssumption ==
    /\ None \notin Turns \cup Conversations
    /\ None \notin [Kinds -> Nat]
ASSUME FaultAssumption ==
    Faults \subseteq {"prepare", "start", "unseen", "record", "overtake",
                      "callback", "reply", "mark", "die"}

VARIABLES
    used,           \* agentQuota.outputTokensUsed and costUsdUsed
    inflight,       \* inflightByUser.get(userId); all 0 when there is no entry
    reservations,   \* reservationsByRun
    send,           \* the sendMessage handlers: pc, the quota read, what is reserved
    run,            \* the runs of the llm-agent service
    usage,          \* what each run has used when it is over
    cancel,         \* the cancelRun request for each run, if any
    callback,       \* the completion or cancellation callback of each run
    conversation,   \* the conversation documents
    clock,          \* the createdAt of the next message
    rollback        \* the rollback handlers

quota == <<used, inflight, reservations>>
agent == <<run, usage, cancel>>
vars == <<used, inflight, reservations, send, run, usage, cancel, callback,
          conversation, clock, rollback>>

Nothing == [k \in Kinds |-> 0]
Plus(a, b) == [k \in Kinds |-> a[k] + b[k]]
Minus(a, b) == [k \in Kinds |-> a[k] - b[k]]

Idle == [pc |-> "idle", conversation |-> None, seen |-> Nothing, reserved |-> Nothing]
NoRollback == [pc |-> "idle", conversation |-> None, cutoff |-> 0, kept |-> {}]
NewConversation == [messages |-> {}, lastRunId |-> None, cancelledRunIds |-> {}]

Init ==
    /\ used = Nothing
    /\ inflight = Nothing
    /\ reservations = [t \in Turns |-> None]
    /\ send = [t \in Turns |-> Idle]
    /\ run = [t \in Turns |-> "none"]
    /\ usage = [t \in Turns |-> Nothing]
    /\ cancel = [t \in Turns |-> "none"]
    /\ callback = [t \in Turns |-> "none"]
    /\ conversation = [c \in Conversations |-> NewConversation]
    /\ clock = 1
    /\ rollback = [b \in Rollbacks |-> NoRollback]

-----------------------------------------------------------------------------
(* The quota gate *)

Capped == \E k \in Kinds : Limit[k] # Unlimited

\* A limit of 0 denies everything, an absent one nothing.
HasHeadroom(k, usedNow) ==
    Limit[k] # Unlimited => Limit[k] - usedNow[k] - inflight[k] > 0

\* Mutant: the whole estimate is reserved even where less is left.
ToReserveEstimate(usedNow) == Estimate

ToReserve(usedNow) ==
    [k \in Kinds |->
        LET headroom == Limit[k] - usedNow[k] - inflight[k]
        IN  IF Limit[k] # Unlimited /\ headroom < Estimate[k]
              THEN headroom ELSE Estimate[k]]

\* decreaseInflight: the entry goes when nothing of either kind is left in it.
Decreased(amount) ==
    LET left == Minus(inflight, amount)
    IN  IF inflight = Nothing \/ \A k \in Kinds : left[k] <= 0 THEN Nothing ELSE left

-----------------------------------------------------------------------------
(* sendMessage *)

\* getUser is awaited: the gate decides on the usage as it was read.
GetUser(t, c) ==
    /\ send[t].pc = "idle"
    /\ send' = [send EXCEPT ![t] = [Idle EXCEPT !.pc = "gate", !.conversation = c,
                                                !.seen = used]]
    /\ UNCHANGED <<quota, agent, callback, conversation, clock, rollback>>

\* tryReserveQuota, synchronously after the read has come back.
Reserve(t) ==
    /\ send[t].pc = "gate"
    /\ \A k \in Kinds : HasHeadroom(k, send[t].seen)
    /\ LET amount == ToReserve(send[t].seen)
       IN  /\ send' = [send EXCEPT ![t].pc = "prepare", ![t].reserved = amount]
           /\ inflight' = IF Capped THEN Plus(inflight, amount) ELSE inflight
    /\ UNCHANGED <<used, reservations, agent, callback, conversation, clock, rollback>>

\* 402 agent_quota_exceeded, before any side effect.
Refuse(t) ==
    /\ send[t].pc = "gate"
    /\ \E k \in Kinds : ~HasHeadroom(k, send[t].seen)
    /\ send' = [send EXCEPT ![t].pc = "refused"]
    /\ UNCHANGED <<quota, agent, callback, conversation, clock, rollback>>

Stamped(t, role) == [turn |-> t, role |-> role, createdAt |-> clock]

\* ensureConversation, sendComment, captureProjectVersion and then recordMessage:
\* the user's message enters the conversation.
RecordUserMessage(t) ==
    LET c == send[t].conversation
    IN  /\ send[t].pc = "prepare"
        /\ conversation' = [conversation EXCEPT ![c].messages = @ \cup {Stamped(t, "user")}]
        /\ clock' = clock + 1
        /\ send' = [send EXCEPT ![t].pc = "start"]
        /\ UNCHANGED <<quota, agent, callback, rollback>>

\* The catch block: no run is registered yet, so the reservation is released by amount.
GiveUp(t) ==
    /\ send' = [send EXCEPT ![t].pc = "failed"]
    /\ inflight' = Decreased(send[t].reserved)
    /\ UNCHANGED <<used, reservations>>

\* One of the awaits before startRun throws, or the project is gone.
PrepareFails(t) ==
    /\ "prepare" \in Faults
    /\ send[t].pc \in {"prepare", "start"}
    /\ GiveUp(t)
    /\ UNCHANGED <<agent, callback, conversation, clock, rollback>>

\* startRun: the run is created and begins before the response is back in web.
StartRun(t) ==
    /\ send[t].pc = "start"
    /\ send' = [send EXCEPT ![t].pc = "starting"]
    /\ run' = [run EXCEPT ![t] = "running"]
    /\ UNCHANGED <<quota, usage, cancel, callback, conversation, clock, rollback>>

\* startRun throws in web; the run may exist all the same (the response was lost).
StartFails(t) ==
    /\ \/ "start" \in Faults /\ send[t].pc = "start"
       \/ "unseen" \in Faults /\ send[t].pc = "starting"
    /\ GiveUp(t)
    /\ UNCHANGED <<agent, callback, conversation, clock, rollback>>

\* registerReservation, in the continuation of startRun.
RegisterReservation(t) ==
    /\ send[t].pc = "starting"
    /\ reservations' = [reservations EXCEPT ![t] = send[t].reserved]
    /\ send' = [send EXCEPT ![t].pc = "registered"]
    /\ UNCHANGED <<used, inflight, agent, callback, conversation, clock, rollback>>

RecordRun(t) ==
    LET c == send[t].conversation
    IN  /\ send[t].pc = "registered"
        /\ conversation' = [conversation EXCEPT ![c].lastRunId = t]
        /\ send' = [send EXCEPT ![t].pc = "answered"]
        /\ UNCHANGED <<quota, agent, callback, clock, rollback>>

\* Mutant: the catch block releases by amount whether or not the run is registered.
RecordRunFailsReleasing(t) ==
    /\ "record" \in Faults
    /\ send[t].pc = "registered"
    /\ GiveUp(t)
    /\ UNCHANGED <<agent, callback, conversation, clock, rollback>>

\* recordRun throws: a run is registered, so the callback is left to release it.
RecordRunFails(t) ==
    /\ "record" \in Faults
    /\ send[t].pc = "registered"
    /\ send' = [send EXCEPT ![t].pc = "failed"]
    /\ UNCHANGED <<quota, agent, callback, conversation, clock, rollback>>

-----------------------------------------------------------------------------
(* The llm-agent service *)

\* Mutant: the run is marked as cancelled when the user asks for it.
CancelRunMarking(t) ==
    /\ cancel[t] = "none"
    /\ \E c \in Conversations :
          /\ conversation[c].lastRunId = t
          /\ conversation' = [conversation EXCEPT ![c].cancelledRunIds = @ \cup {t}]
    /\ cancel' = [cancel EXCEPT ![t] = "asked"]
    /\ UNCHANGED <<quota, run, usage, send, callback, clock, rollback>>

\* cancelRun in web: only the conversation's last run can be cancelled.
CancelRun(t) ==
    /\ cancel[t] = "none"
    /\ \E c \in Conversations : conversation[c].lastRunId = t
    /\ cancel' = [cancel EXCEPT ![t] = "asked"]
    /\ UNCHANGED <<quota, run, usage, send, callback, conversation, clock, rollback>>

\* cancelRun in the service; it has no effect on a run that is over.
Abort(t) ==
    /\ cancel[t] = "asked" /\ run[t] = "running"
    /\ cancel' = [cancel EXCEPT ![t] = "aborted"]
    /\ UNCHANGED <<quota, run, usage, send, callback, conversation, clock, rollback>>

\* The loop ends (its steps are bounded), finalizeRun writes the outcome and the
\* callback is sent.  A callback that fails is logged and never sent again.
EndRun(t) ==
    /\ run[t] = "running"
    /\ \E amount \in Usages : usage' = [usage EXCEPT ![t] = amount]
    /\ run' = [run EXCEPT ![t] = IF cancel[t] = "aborted" THEN "cancelled" ELSE "done"]
    /\ \E outcome \in {"sent"} \cup (IF "callback" \in Faults THEN {"lost"} ELSE {}) :
          callback' = [callback EXCEPT ![t] = outcome]
    /\ UNCHANGED <<quota, send, cancel, conversation, clock, rollback>>

\* The service restarts in the middle of the run: nothing picks it up again.
RunDies(t) ==
    /\ "die" \in Faults
    /\ run[t] = "running"
    /\ run' = [run EXCEPT ![t] = "dead"]
    /\ UNCHANGED <<quota, send, usage, cancel, callback, conversation, clock, rollback>>

-----------------------------------------------------------------------------
(* agentComplete and agentCancelled in web *)

\* Only with "overtake" may the callback be there before web has dealt with the
\* response of startRun.
Arrived(t) == "overtake" \in Faults \/ send[t].pc \notin {"starting", "registered"}

\* applyUsageDelta
Bill(t) ==
    /\ callback[t] = "sent" /\ Arrived(t)
    /\ used' = Plus(used, usage[t])
    /\ callback' = [callback EXCEPT ![t] = "billed"]
    /\ UNCHANGED <<inflight, reservations, send, agent, conversation, clock, rollback>>

\* Mutant: agentCancelled bills the run but does not release its reservation.
ReleaseCompleted(t) ==
    LET release == run[t] = "done" /\ reservations[t] # None
    IN  /\ callback[t] = "billed"
        /\ inflight' = IF release THEN Decreased(reservations[t]) ELSE inflight
        /\ reservations' = [reservations EXCEPT ![t] = IF release THEN None ELSE @]
        /\ callback' = [callback EXCEPT ![t] = "released"]
        /\ UNCHANGED <<used, send, agent, conversation, clock, rollback>>

\* releaseReservationByRunId
Release(t) ==
    /\ callback[t] = "billed"
    /\ inflight' = IF reservations[t] = None THEN inflight ELSE Decreased(reservations[t])
    /\ reservations' = [reservations EXCEPT ![t] = None]
    /\ callback' = [callback EXCEPT ![t] = "released"]
    /\ UNCHANGED <<used, send, agent, conversation, clock, rollback>>

Replied(document, message) ==
    [document EXCEPT !.messages = @ \cup {message}, !.lastRunId = message.turn]

\* sendComment and recordMessage: the reply enters the conversation.
RecordReply(t) ==
    LET c == send[t].conversation
    IN  /\ callback[t] = "released" /\ run[t] = "done"
        /\ conversation' = [conversation EXCEPT ![c] = Replied(@, Stamped(t, "assistant"))]
        /\ clock' = clock + 1
        /\ callback' = [callback EXCEPT ![t] = "handled"]
        /\ UNCHANGED <<quota, send, agent, rollback>>

\* The content is blank, or one of the two calls throws: the caller gets an error.
RecordReplyFails(t) ==
    /\ "reply" \in Faults
    /\ callback[t] = "released" /\ run[t] = "done"
    /\ callback' = [callback EXCEPT ![t] = "handled"]
    /\ UNCHANGED <<quota, send, agent, conversation, clock, rollback>>

\* Mutant: agentCancelled leaves the conversation alone.
MarkNothing(t) ==
    /\ callback[t] = "released" /\ run[t] = "cancelled"
    /\ callback' = [callback EXCEPT ![t] = "handled"]
    /\ UNCHANGED <<quota, send, agent, conversation, clock, rollback>>

\* markRunCancelled; its failure is logged.
MarkRunCancelled(t) ==
    LET c == send[t].conversation
    IN  /\ callback[t] = "released" /\ run[t] = "cancelled"
        /\ conversation' \in
             {[conversation EXCEPT ![c].cancelledRunIds = @ \cup {t}]} \cup
             (IF "mark" \in Faults THEN {conversation} ELSE {})
        /\ callback' = [callback EXCEPT ![t] = "handled"]
        /\ UNCHANGED <<quota, send, agent, clock, rollback>>

-----------------------------------------------------------------------------
(* rollbackToMessage *)

Replies(messages) == {m \in messages : m.role = "assistant"}

\* The run of the last reply among these messages.
LastRunOf(messages) ==
    IF Replies(messages) = {} THEN None
    ELSE (CHOOSE m \in Replies(messages) :
            \A n \in Replies(messages) : n.createdAt <= m.createdAt).turn

\* getActiveRunId
ActiveRunId(c) ==
    LET last == conversation[c].lastRunId
    IN  IF \/ last \in conversation[c].cancelledRunIds
           \/ \E m \in Replies(conversation[c].messages) : m.turn = last
          THEN None ELSE last

FindUserMessage(b, c) ==
    /\ rollback[b].pc = "idle"
    /\ \E m \in conversation[c].messages :
          /\ m.role = "user"
          /\ rollback' = [rollback EXCEPT ![b] =
                [NoRollback EXCEPT !.pc = "guard", !.conversation = c,
                                   !.cutoff = m.createdAt]]
    /\ UNCHANGED <<quota, agent, send, callback, conversation, clock>>

GuardRollback(b) ==
    /\ rollback[b].pc = "guard"
    /\ rollback' = [rollback EXCEPT ![b].pc =
          IF ActiveRunId(rollback[b].conversation) = None THEN "revert" ELSE "refused"]
    /\ UNCHANGED <<quota, agent, send, callback, conversation, clock>>

\* revertProject; when it fails the conversation is left as it is.
RevertProject(b) ==
    /\ rollback[b].pc = "revert"
    /\ \E outcome \in {"truncate", "refused"} :
          rollback' = [rollback EXCEPT ![b].pc = outcome]
    /\ UNCHANGED <<quota, agent, send, callback, conversation, clock>>

Before(messages, cutoff) == {m \in messages : m.createdAt < cutoff}

Truncated(document, cutoff, last) ==
    [document EXCEPT !.messages = Before(@, cutoff), !.lastRunId = last]

\* truncateFromMessage reads first, to know the last run that is kept...
ReadKept(b) ==
    LET c == rollback[b].conversation
    IN  /\ rollback[b].pc = "truncate"
        /\ rollback' = [rollback EXCEPT
              ![b].pc = "pull",
              ![b].kept = Before(conversation[c].messages, rollback[b].cutoff)]
        /\ UNCHANGED <<quota, agent, send, callback, conversation, clock>>

\* ...and then pulls whatever is there from the cutoff on.
PullMessages(b) ==
    LET c == rollback[b].conversation
    IN  /\ rollback[b].pc = "pull"
        /\ conversation' = [conversation EXCEPT ![c] =
              Truncated(@, rollback[b].cutoff, LastRunOf(rollback[b].kept))]
        /\ rollback' = [rollback EXCEPT ![b] = [NoRollback EXCEPT !.pc = "done"]]
        /\ UNCHANGED <<quota, agent, send, callback, clock>>

-----------------------------------------------------------------------------
SendMessage(t) ==
    \/ \E c \in Conversations : GetUser(t, c)
    \/ Reserve(t) \/ Refuse(t)
    \/ RecordUserMessage(t) \/ PrepareFails(t)
    \/ StartRun(t) \/ StartFails(t)
    \/ RegisterReservation(t)
    \/ RecordRun(t) \/ RecordRunFails(t)

Run(t) == CancelRun(t) \/ Abort(t) \/ EndRun(t) \/ RunDies(t)

Callback(t) ==
    \/ Bill(t) \/ Release(t)
    \/ RecordReply(t) \/ RecordReplyFails(t)
    \/ MarkRunCancelled(t)

RollbackToMessage(b) ==
    \/ \E c \in Conversations : FindUserMessage(b, c)
    \/ GuardRollback(b) \/ RevertProject(b)
    \/ ReadKept(b) \/ PullMessages(b)

Next ==
    \/ \E t \in Turns : SendMessage(t) \/ Run(t) \/ Callback(t)
    \/ \E b \in Rollbacks : RollbackToMessage(b)

Spec == Init /\ [][Next]_vars

\* A handler that has begun goes on, an await that does not fail returns, and a run
\* ends because its loop is bounded by maxSteps.
Fairness ==
    \A t \in Turns :
        /\ WF_vars(Reserve(t) \/ Refuse(t) \/ RecordUserMessage(t) \/ StartRun(t)
                   \/ RegisterReservation(t) \/ RecordRun(t))
        /\ WF_vars(EndRun(t))
        /\ WF_vars(Callback(t))

FairSpec == Spec /\ Fairness

-----------------------------------------------------------------------------
(* Properties *)

Messages == [turn : Turns, role : {"user", "assistant"}, createdAt : Nat]

SendPCs == {"idle", "gate", "refused", "prepare", "start", "starting", "registered",
            "answered", "failed"}

Sends == [pc : SendPCs, conversation : Conversations \cup {None},
          seen : [Kinds -> Nat], reserved : [Kinds -> Nat]]

Documents == [messages : SUBSET Messages, lastRunId : Turns \cup {None},
              cancelledRunIds : SUBSET Turns]

RollbackPCs == {"idle", "guard", "refused", "revert", "truncate", "pull", "done"}

RollbackStates == [pc : RollbackPCs, conversation : Conversations \cup {None},
                   cutoff : Nat, kept : SUBSET Messages]

\* Every variable has the shape the code gives it; what a handler reserves is never
\* negative, whatever the usage it has read (tryReserveQuota's headroom checks).
TypeOK ==
    /\ used \in [Kinds -> Nat]
    /\ inflight \in Amounts
    /\ reservations \in [Turns -> [Kinds -> Nat] \cup {None}]
    /\ send \in [Turns -> Sends]
    /\ run \in [Turns -> {"none", "running", "done", "cancelled", "dead"}]
    /\ usage \in [Turns -> [Kinds -> Nat]]
    /\ cancel \in [Turns -> {"none", "asked", "aborted"}]
    /\ callback \in [Turns -> {"none", "sent", "lost", "billed", "released", "handled"}]
    /\ conversation \in [Conversations -> Documents]
    /\ clock \in Nat
    /\ rollback \in [Rollbacks -> RollbackStates]

\* A turn holds a reservation from the gate until its catch block or its callback
\* gives it back.
Holds(t) == send[t].pc \in {"prepare", "start", "starting"} \/ reservations[t] # None

ReservedBy(turns) ==
    [k \in Kinds |-> MapThenSumSet(LAMBDA t : send[t].reserved[k], turns)]

\* The in-flight sums are the reservations of the turns that still hold one: however
\* failing handlers and callbacks interleave, none is released twice and none is lost
\* (the two ways out of sendMessage's catch block, decreaseInflight's deletion).
ReservationsAddUp ==
    inflight = IF Capped THEN ReservedBy({t \in Turns : Holds(t)}) ELSE Nothing

\* Concurrent sendMessages never reserve more than the user's limit between them,
\* though each may have read the usage before any other run was billed.
WithinLimits == \A k \in Kinds : Limit[k] # Unlimited => inflight[k] <= Limit[k]

\* Once the callback of a run has been dealt with, the rollback guard does not take
\* the run for active any more, so that the conversation can be rolled back.
NoGhostRun ==
    \A t \in Turns, c \in Conversations :
        callback[t] = "handled" => ActiveRunId(c) # t

\* The guard lets no rollback through while the run it looks at, the last one the
\* conversation recorded, is still at work in the llm-agent service.
RollbackWaits ==
    [][\A b \in Rollbacks :
          rollback[b].pc = "guard" /\ rollback'[b].pc = "revert" =>
             LET last == conversation[rollback[b].conversation].lastRunId
             IN  last = None \/ run[last] # "running"]_vars

\* Every reservation is given back in the end, by a catch block or by the callback,
\* as long as callbacks are neither lost nor early.
ReservationsReleased == \A t \in Turns : Holds(t) ~> ~Holds(t)

\* What the comment on the rollback guard claims: no file is reverted while a run of
\* the conversation is at work.
NoRevertMidRun ==
    [][\A b \in Rollbacks :
          rollback[b].pc = "revert" /\ rollback'[b].pc = "truncate" =>
             \A t \in Turns :
                ~(run[t] = "running" /\ send[t].conversation = rollback[b].conversation)]_vars
=============================================================================
