---------------------------- MODULE AgentCompile ----------------------------
(***************************************************************************)
(* Compiles that agent runs ask for (AgentCompileCoordinator): one caller  *)
(* takes a lock in Redis and compiles, the others poll for the result it   *)
(* publishes.  One project; a caller compiles once, and a result is named  *)
(* after the caller whose compile made it.                                 *)
(***************************************************************************)
EXTENDS FiniteSets

CONSTANTS
    Callers,
    CompileFaults,  \* a subset of {"slow", "die", "store", "unlock"}
    Nobody

ASSUME AgentCompileAssumption ==
    /\ Nobody \notin Callers
    /\ CompileFaults \subseteq {"slow", "die", "store", "unlock"}

VARIABLES
    pc,             \* where each call of compile is
    lock,           \* the token under agent:compile:lock
    result,         \* the result under agent:compile:result
    published,      \* the compiles whose result has been stored
    before,         \* those that had been when the caller began to wait
    holder,         \* whose lock it was that the caller found
    got,            \* the result each caller returns
    expired,        \* callers whose lock has run out
    unstored        \* callers whose result could not be stored

compileVars == <<pc, lock, result, published, before, holder, got, expired, unstored>>

CompileInit ==
    /\ pc = [c \in Callers |-> "idle"]
    /\ lock = Nobody
    /\ result = Nobody
    /\ published = {}
    /\ before = [c \in Callers |-> {}]
    /\ holder = [c \in Callers |-> Nobody]
    /\ got = [c \in Callers |-> Nobody]
    /\ expired = {}
    /\ unstored = {}

Goto(c, label) == pc' = [pc EXCEPT ![c] = label]

\* SET lock token PX LOCK_TTL_MS NX
Acquire(c) ==
    /\ pc[c] = "idle" /\ lock = Nobody
    /\ Goto(c, "compiling")
    /\ lock' = c
    /\ UNCHANGED <<result, published, before, holder, got, expired, unstored>>

BeginToWait(c) ==
    /\ pc[c] = "idle" /\ lock # Nobody
    /\ Goto(c, "waiting")
    /\ before' = [before EXCEPT ![c] = published]
    /\ holder' = [holder EXCEPT ![c] = lock]
    /\ UNCHANGED <<lock, result, published, got, expired, unstored>>

\* Mutant: an error is thrown to the holder without being published.
CompileEndsUnpublished(c) ==
    /\ pc[c] = "compiling"
    /\ \E label \in {"publishing", "releasing"} : Goto(c, label)
    /\ UNCHANGED <<lock, result, published, before, holder, got, expired, unstored>>

\* runCompileWithRetries returns or throws: both are published.
CompileEnds(c) ==
    /\ pc[c] = "compiling"
    /\ Goto(c, "publishing")
    /\ UNCHANGED <<lock, result, published, before, holder, got, expired, unstored>>

\* storeResult; when it throws the finally clause still runs.
StoreResult(c) ==
    /\ pc[c] = "publishing"
    /\ Goto(c, "releasing")
    /\ \/ result' = c /\ published' = published \cup {c} /\ UNCHANGED unstored
       \/ /\ "store" \in CompileFaults
          /\ unstored' = unstored \cup {c}
          /\ UNCHANGED <<result, published>>
    /\ UNCHANGED <<lock, before, holder, got, expired>>

\* Mutant: the lock is deleted without looking at the token.
ReleaseLockBlindly(c) ==
    /\ pc[c] = "releasing"
    /\ Goto(c, "done")
    /\ got' = [got EXCEPT ![c] = c]
    /\ lock' = Nobody
    /\ UNCHANGED <<result, published, before, holder, expired, unstored>>

\* UNLOCK_SCRIPT deletes the lock when it is still the caller's; a failure is logged.
ReleaseLock(c) ==
    /\ pc[c] = "releasing"
    /\ Goto(c, "done")
    /\ got' = [got EXCEPT ![c] = c]
    /\ \/ lock' = IF lock = c THEN Nobody ELSE lock
       \/ "unlock" \in CompileFaults /\ UNCHANGED lock
    /\ UNCHANGED <<result, published, before, holder, expired, unstored>>

\* A poll of waitForResult that finds a result.
ReadResult(c) ==
    /\ pc[c] = "waiting" /\ result # Nobody
    /\ got' = [got EXCEPT ![c] = result]
    /\ Goto(c, "done")
    /\ UNCHANGED <<lock, result, published, before, holder, expired, unstored>>

\* WAITER_TIMEOUT_MS outlasts LOCK_TTL_MS: the lock it found taken is gone by then.
TimeOut(c) ==
    /\ pc[c] = "waiting" /\ lock # holder[c] /\ result = Nobody
    /\ Goto(c, "timedOut")
    /\ UNCHANGED <<lock, result, published, before, holder, got, expired, unstored>>

Holding == {"compiling", "publishing", "releasing"}

\* The web process dies with the call.
Die(c) ==
    /\ "die" \in CompileFaults
    /\ pc[c] \in Holding \cup {"waiting"}
    /\ Goto(c, "dead")
    /\ UNCHANGED <<lock, result, published, before, holder, got, expired, unstored>>

\* LOCK_TTL_MS: for a holder that is gone, or one whose compile takes longer.
LockExpires ==
    /\ lock # Nobody
    /\ pc[lock] \in Holding => "slow" \in CompileFaults
    /\ lock' = Nobody
    /\ expired' = expired \cup {lock}
    /\ UNCHANGED <<pc, result, published, before, holder, got, unstored>>

\* RESULT_TTL_MS is much longer than a release and than the interval of the polls: it
\* does not pass while one who has stored a result releases the lock, and a caller who
\* was waiting when a result was stored, or who found the lock in that release, has
\* read one by then.
ResultExpires ==
    /\ result # Nobody
    /\ \A c \in published : pc[c] # "releasing"
    /\ \A c \in Callers :
        pc[c] = "waiting" =>
            /\ result \in before[c]
            /\ holder[c] \in published => lock = holder[c] \/ holder[c] \in expired
    /\ result' = Nobody
    /\ UNCHANGED <<pc, lock, published, before, holder, got, expired, unstored>>

Step(c) ==
    \/ Acquire(c) \/ BeginToWait(c) \/ CompileEnds(c) \/ StoreResult(c)
    \/ ReleaseLock(c) \/ ReadResult(c)

CompileNext ==
    \/ \E c \in Callers : Step(c) \/ TimeOut(c) \/ Die(c)
    \/ LockExpires
    \/ ResultExpires

CompileSpec == CompileInit /\ [][CompileNext]_compileVars

-----------------------------------------------------------------------------
(* Properties *)

\* Every variable has the shape the code gives it, and nobody returns without a
\* result (waitForResult's check for null).
CompileTypeOK ==
    /\ pc \in [Callers -> Holding \cup {"idle", "waiting", "done", "timedOut", "dead"}]
    /\ lock \in Callers \cup {Nobody}
    /\ result \in Callers \cup {Nobody}
    /\ published \subseteq Callers
    /\ before \in [Callers -> SUBSET Callers]
    /\ holder \in [Callers -> Callers \cup {Nobody}]
    /\ got \in [Callers -> Callers \cup {Nobody}]
    /\ expired \subseteq Callers
    /\ unstored \subseteq Callers
    /\ \A c \in Callers : pc[c] = "done" => got[c] # Nobody

\* Whoever compiles has the lock until it runs out: a caller that has outlived its
\* own lock never takes the lock of its successor away (UNLOCK_SCRIPT's token).
HolderHasLock ==
    \A c \in Callers : pc[c] \in Holding => lock = c \/ c \in expired

\* A caller that finds the lock taken gets a result, an error included, unless the
\* compile it waits for is lost: its process died or outlived the lock, or its result
\* could not be stored.  In every other case some poll of waitForResult finds one.
WaiterAnswered ==
    \A c \in Callers : pc[c] = "timedOut" => holder[c] \in expired \cup unstored
=============================================================================
