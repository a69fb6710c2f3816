------------------------------- MODULE DocLog -------------------------------
(***************************************************************************)
(* What the document updater promises about one document, with every queue,*)
(* lock, cache and worker forgotten: the accepted ops form a log that only *)
(* grows at its end, one op at a time, and what Mongo holds of it is saved *)
(* as a whole and stays.                                                   *)
(***************************************************************************)
EXTENDS Naturals, Sequences

CONSTANT Id                 \* the identities of the ops users submit

VARIABLES log,              \* the ops the document consists of, in order
          saved             \* how many of them are in Mongo

vars == <<log, saved>>

Init == log = <<>> /\ saved = 0

\* An op is accepted and becomes the last one.
Accept == (\E id \in Id : log' = Append(log, id)) /\ UNCHANGED saved

\* The document is flushed: everything accepted so far is in Mongo.
Save == saved' = Len(log) /\ UNCHANGED log

Next == Accept \/ Save

Spec == Init /\ [][Next]_vars
=============================================================================
