----------------------------- MODULE HistoryLog -----------------------------
(***************************************************************************)
(* What history-v1 promises about the history of one project, with chunks, *)
(* the Redis buffer, jobs and processes forgotten: a client asks for its   *)
(* changes to follow a version it has seen, and the log only grows at its  *)
(* end, by changes of requests made for exactly that version.              *)
(***************************************************************************)
EXTENDS Naturals, Sequences

CONSTANTS Request,          \* the requests of clients
          None

VARIABLES log,              \* the project's history: <<request, i>>, oldest first
          version           \* the version a request is made for, or None

vars == <<log, version>>

Init == log = <<>> /\ version = [r \in Request |-> None]

\* A client reads the log's length and makes a request for that version.
Ask == /\ \E r \in Request :
              /\ version[r] = None
              /\ version' = [version EXCEPT ![r] = Len(log)]
       /\ UNCHANGED log

\* The i-th change of request r belongs after version[r] + i - 1 others.
Fits(change, position) ==
    /\ change[1] \in Request
    /\ version[change[1]] # None
    /\ position = version[change[1]] + change[2]

\* Changes become history.
Commit == /\ UNCHANGED version
          /\ Len(log') > Len(log)
          /\ SubSeq(log', 1, Len(log)) = log
          /\ \A i \in Len(log)+1 .. Len(log') : Fits(log'[i], i)

Next == Ask \/ Commit

Spec == Init /\ [][Next]_vars
=============================================================================
