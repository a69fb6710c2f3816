--------------------------- MODULE ProjectUnload ---------------------------
(***************************************************************************)
(* Unloading projects from Redis after their users have left: the          *)
(* real-time processes that ask for it, the sorted set of requests, and    *)
(* the document-updater processes that work through the set.               *)
(*                                                                         *)
(* A request's score is the time it was made; here it is young or old,     *)
(* older than min_delete_age.  Among requests of one class the order in    *)
(* the set is left open.  A user is one socket; whether any document of a  *)
(* project is in Redis is one bit.                                         *)
(***************************************************************************)
EXTENDS Naturals, FiniteSets

CONSTANTS
  Projects,
  Users,
  Processes,    \* the real-time processes: each the set of the users it serves
  Flushers,     \* the document-updater processes
  None,         \* no project
  Events        \* a subset of {"external", "late", "fail"}

ASSUME ProjectUnloadAssumption ==
  /\ None \notin Projects
  /\ Processes \subseteq SUBSET Users
  /\ \A u \in Users : \E P \in Processes : u \in P
  /\ Events \subseteq {"external", "late", "fail"}

VARIABLES
  at,           \* the project each socket has joined
  left,         \* whether it has disconnected, its check still to come
  request,      \* the request of each socket that is being worked on
  loaded,       \* whether a document of the project is in Redis
  queue,        \* the requests to unload: DocUpdater:flush-and-delete-queue
  newer,        \* whether a document has been updated after its project's request
  failed,       \* projects whose last request a failure kept from the set, or from
                \* being honoured
  pc,           \* where each flusher is
  held          \* the request it has popped

userVars == <<at, left, request>>
vars == <<userVars, loaded, queue, newer, failed, pc, held>>

Requests == [kind : {"open", "edit", "none"}, project : Projects \cup {None}]

NoRequest == [kind |-> "none", project |-> None]

Entries == [project : Projects \cup {None}, old : BOOLEAN, newer : BOOLEAN]

NoEntry == [project |-> None, old |-> FALSE, newer |-> FALSE]

Local(u) == CHOOSE P \in Processes : u \in P

\* io.sockets.clients(projectId): connected, to this process.
Remaining(u) == {v \in Local(u) : at[v] = at[u] /\ ~left[v]}

Present(p) == \E u \in Users : at[u] = p

Init ==
  /\ at = [u \in Users |-> None]
  /\ left = [u \in Users |-> FALSE]
  /\ request = [u \in Users |-> NoRequest]
  /\ loaded = [p \in Projects |-> FALSE]
  /\ queue = [p \in Projects |-> "none"]
  /\ newer = [p \in Projects |-> FALSE]
  /\ failed = {}
  /\ pc = [f \in Flushers |-> "idle"]
  /\ held = [f \in Flushers |-> NoEntry]

-----------------------------------------------------------------------------
(* Users *)

Join(u) ==
  /\ at[u] = None /\ request[u] = NoRequest
  /\ \E p \in Projects : at' = [at EXCEPT ![u] = p]
  /\ UNCHANGED <<left, request, loaded, queue, newer, failed, pc, held>>

\* Opening or changing a document: a call to the document updater, or an update
\* queued for it.
Ask(u) ==
  /\ at[u] # None /\ ~left[u] /\ request[u] = NoRequest
  /\ \E k \in {"open", "edit"} :
       request' = [request EXCEPT ![u] = [kind |-> k, project |-> at[u]]]
  /\ UNCHANGED <<at, left, loaded, queue, newer, failed, pc, held>>

\* updateDocument sets lastUpdatedAt.  A request scored up to SMOOTHING_OFFSET in
\* the future may still be later than that.
Touch(p) ==
  \E late \in BOOLEAN :
    /\ newer' = [newer EXCEPT ![p] =
         queue[p] = "old" \/ (queue[p] = "young" /\ (late \/ @))]
    /\ held' = [f \in Flushers |->
         IF held[f].project = p
         THEN [held[f] EXCEPT !.newer = @ \/ late \/ held[f].old]
         ELSE held[f]]

\* The document updater does it; the document is in Redis then.
Serve(u) ==
  LET r == request[u] IN
  /\ r # NoRequest
  /\ loaded' = [loaded EXCEPT ![r.project] = TRUE]
  /\ \/ r.kind = "open" /\ UNCHANGED <<newer, held>>
     \/ r.kind = "edit" /\ Touch(r.project)
  /\ request' = [request EXCEPT ![u] = NoRequest]
  /\ UNCHANGED <<at, left, queue, failed, pc>>

\* setDoc on a document in Redis, for the git bridge, Dropbox or a restore; a
\* document that is not there is removed again.
SetExternally(p) ==
  /\ loaded[p]
  /\ Present(p) \/ "external" \in Events
  /\ Touch(p)
  /\ UNCHANGED <<userVars, loaded, queue, failed, pc>>

\* leaveProject: the socket leaves the rooms, and a timer is set.
Disconnect(u) ==
  /\ at[u] # None /\ ~left[u]
  /\ left' = [left EXCEPT ![u] = TRUE]
  /\ UNCHANGED <<at, request, loaded, queue, newer, failed, pc, held>>

\* Mutant of QueueUnload: ZADD NX.
QueueUnloadOnce(p) ==
  /\ queue' = [queue EXCEPT ![p] = IF @ = "none" THEN "young" ELSE @]
  /\ newer' = [newer EXCEPT ![p] = queue[p] # "none" /\ @]
  /\ failed' = failed \ {p}

\* queueFlushAndDeleteProject: ZADD, which replaces the score there is.
QueueUnload(p) ==
  /\ queue' = [queue EXCEPT ![p] = "young"]
  /\ newer' = [newer EXCEPT ![p] = FALSE]
  /\ failed' = failed \ {p}

\* flushProjectToMongoAndDelete does not reach the document updater, or this does
\* not reach Redis: the error is logged, and nothing asks again.
RequestFails(p) ==
  /\ "fail" \in Events
  /\ failed' = failed \cup {p}
  /\ UNCHANGED <<queue, newer>>

\* FLUSH_IF_EMPTY_DELAY later.  Unless requests can be "late", what the user asked
\* for has been done by then.
LeaveCheck(u) ==
  /\ left[u]
  /\ request[u] = NoRequest \/ "late" \in Events
  /\ IF Remaining(u) = {} THEN QueueUnload(at[u]) \/ RequestFails(at[u])
     ELSE UNCHANGED <<queue, newer, failed>>
  /\ at' = [at EXCEPT ![u] = None]
  /\ left' = [left EXCEPT ![u] = FALSE]
  /\ UNCHANGED <<request, loaded, pc, held>>

\* min_delete_age passes.  No request of somebody who has left takes that long.
Age(p) ==
  /\ queue[p] = "young"
  /\ \A u \in Users : request[u].project = p => at[u] = p
  /\ queue' = [queue EXCEPT ![p] = "old"]
  /\ UNCHANGED <<userVars, loaded, newer, failed, pc, held>>

-----------------------------------------------------------------------------
(* Flushers *)

\* getNextProjectToFlushAndDelete: ZRANGEBYSCORE finds an old request ...
Scan(f) ==
  /\ pc[f] = "idle"
  /\ \E p \in Projects : queue[p] = "old"
  /\ pc' = [pc EXCEPT ![f] = "pop"]
  /\ UNCHANGED <<userVars, loaded, queue, newer, failed, held>>

\* ... and ZRANGE with ZREMRANGEBYRANK takes the first one, whichever it is by now.
Pop(f, p) ==
  /\ pc[f] = "pop"
  /\ \/ queue[p] = "old"
     \/ queue[p] = "young" /\ \A q \in Projects : queue[q] # "old"
  /\ pc' = [pc EXCEPT ![f] = "check"]
  /\ held' = [held EXCEPT ![f] =
       [project |-> p, old |-> queue[p] = "old", newer |-> newer[p]]]
  /\ queue' = [queue EXCEPT ![p] = "none"]
  /\ newer' = [newer EXCEPT ![p] = FALSE]
  /\ UNCHANGED <<userVars, loaded, failed>>

\* Another process has emptied the set.
PopNothing(f) ==
  /\ pc[f] = "pop"
  /\ \A p \in Projects : queue[p] = "none"
  /\ pc' = [pc EXCEPT ![f] = "idle"]
  /\ UNCHANGED <<userVars, loaded, queue, newer, failed, held>>

\* Mutant of Check: the comparison of the timestamps is turned round.
CheckReversed(f) ==
  /\ pc[f] = "check"
  /\ IF loaded[held[f].project] /\ held[f].newer
     THEN pc' = [pc EXCEPT ![f] = "flush"] /\ UNCHANGED held
     ELSE pc' = [pc EXCEPT ![f] = "idle"] /\ held' = [held EXCEPT ![f] = NoEntry]
  /\ UNCHANGED <<userVars, loaded, queue, newer, failed>>

\* flushProjectIfNotModified: nothing is done for a project that is not in Redis,
\* or that has been updated since it was queued.
Check(f) ==
  /\ pc[f] = "check"
  /\ IF loaded[held[f].project] /\ ~held[f].newer
     THEN pc' = [pc EXCEPT ![f] = "flush"] /\ UNCHANGED held
     ELSE pc' = [pc EXCEPT ![f] = "idle"] /\ held' = [held EXCEPT ![f] = NoEntry]
  /\ UNCHANGED <<userVars, loaded, queue, newer, failed>>

\* flushAndDeleteProjectWithLocks; the timestamps are removed with the documents.
Flush(f) ==
  LET p == held[f].project IN
  /\ pc[f] = "flush"
  /\ loaded' = [loaded EXCEPT ![p] = FALSE]
  /\ newer' = [newer EXCEPT ![p] = FALSE]
  /\ held' = [g \in Flushers |->
       IF g = f THEN NoEntry
       ELSE IF held[g].project = p THEN [held[g] EXCEPT !.newer = FALSE]
       ELSE held[g]]
  /\ pc' = [pc EXCEPT ![f] = "idle"]
  /\ UNCHANGED <<userVars, queue, failed>>

\* Redis or the persistence API fails, which is logged or counted, or the process
\* dies: the request it had popped is gone.
FlushFails(f) ==
  /\ "fail" \in Events
  /\ pc[f] \in {"check", "flush"}
  /\ failed' = failed \cup {held[f].project}
  /\ pc' = [pc EXCEPT ![f] = "idle"]
  /\ held' = [held EXCEPT ![f] = NoEntry]
  /\ UNCHANGED <<userVars, loaded, queue, newer>>

User(u) == Join(u) \/ Ask(u) \/ Serve(u) \/ Disconnect(u) \/ LeaveCheck(u)

Flusher(f) ==
  \/ Scan(f) \/ (\E p \in Projects : Pop(f, p)) \/ PopNothing(f)
  \/ Check(f) \/ Flush(f) \/ FlushFails(f)

Next ==
  \/ \E u \in Users : User(u)
  \/ \E p \in Projects : SetExternally(p) \/ Age(p)
  \/ \E f \in Flushers : Flusher(f)

Spec == Init /\ [][Next]_vars

-----------------------------------------------------------------------------
(* Properties *)

\* Every variable holds what the code stores in it; a flusher that works has a
\* project to work on.
TypeOK ==
  /\ at \in [Users -> Projects \cup {None}]
  /\ left \in [Users -> BOOLEAN]
  /\ request \in [Users -> Requests]
  /\ loaded \in [Projects -> BOOLEAN]
  /\ queue \in [Projects -> {"none", "young", "old"}]
  /\ newer \in [Projects -> BOOLEAN]
  /\ failed \subseteq Projects
  /\ pc \in [Flushers -> {"idle", "pop", "check", "flush"}]
  /\ held \in [Flushers -> Entries]
  /\ \A f \in Flushers : pc[f] \in {"check", "flush"} => held[f].project # None

\* A request for project p is in the set or in a flusher's hands, and will not be
\* skipped for being outdated.
Owed(p) ==
  \/ queue[p] # "none" /\ ~newer[p]
  \/ \E f \in Flushers :
       /\ held[f].project = p
       /\ pc[f] = "flush" \/ (pc[f] = "check" /\ ~held[f].newer)

\* DeleteQueueManager: "If there is activity we can expect a further
\* flushAndDelete request when the editing user leaves the project".  A project
\* in Redis that nobody has joined has a request that will be honoured, unless
\* the last one failed; otherwise it would stay there for good.
UnloadOwed ==
  \A p \in Projects : loaded[p] /\ ~Present(p) => Owed(p) \/ p \in failed

-----------------------------------------------------------------------------
(* Liveness *)

\* Time passes, requests are answered, the background flush goes on, and the set
\* gives the oldest request first: later ones do not overtake it for ever.
Fairness ==
  /\ \A u \in Users : WF_vars(Serve(u)) /\ WF_vars(LeaveCheck(u))
  /\ \A p \in Projects :
       WF_vars(Age(p)) /\ SF_vars(\E f \in Flushers : Pop(f, p))
  /\ \A f \in Flushers :
       WF_vars(Scan(f) \/ (\E p \in Projects : Pop(f, p)) \/ PopNothing(f)
                       \/ Check(f) \/ Flush(f))

FairSpec == Spec /\ Fairness

\* A project everybody has left is unloaded, if nobody joins it again first and no
\* failure loses its request.
UnloadedInTheEnd ==
  \A p \in Projects :
    (loaded[p] /\ ~Present(p)) ~> (~loaded[p] \/ Present(p) \/ p \in failed)
=============================================================================
