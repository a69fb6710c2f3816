---------------------------- MODULE ProjectBlock ----------------------------
(***************************************************************************)
(* Keeping a project out of Redis while web migrates it: the key           *)
(* ProjectBlock:{project}, the set DocsIn:{project} that every load enters *)
(* before it writes the document, and the migrations that block, change    *)
(* the project's migration stage in Mongo and unblock.                     *)
(*                                                                         *)
(* At most one task works on a document at a time: the lock of DocUpdater. *)
(***************************************************************************)
EXTENDS Naturals, FiniteSets

CONSTANTS
  Docs,         \* the documents of the project
  Migrators,    \* requests of web that migrate the project
  None,         \* not in Redis
  Faults,       \* what may go wrong: a subset of {"crash", "expire"}
  MaxStage      \* bound: migrations

ASSUME ProjectBlockAssumption ==
  /\ MaxStage \in Nat
  /\ None \notin Nat
  /\ Faults \subseteq {"crash", "expire"}

VARIABLES
  block,        \* whether ProjectBlock:{project} exists
  inProject,    \* DocsIn:{project}
  copy,         \* the stage at which each document in Redis was loaded
  stage,        \* the project's migration stage in Mongo
  pcD,          \* where the task on each document is
  got,          \* the stage that task got from web with the document
  pcM           \* where each migration is

docVars == <<inProject, copy, pcD, got>>
vars == <<block, docVars, stage, pcM>>

Stages == 0..MaxStage

\* In Redis, or certain to be put there.
InRedis(d) == copy[d] # None \/ pcD[d] = "put"

Blocking(m) == pcM[m] \in {"holding", "migrated"}

Init ==
  /\ block = FALSE /\ inProject = {} /\ stage = 0
  /\ copy = [d \in Docs |-> None]
  /\ pcD = [d \in Docs |-> "idle"] /\ got = [d \in Docs |-> 0]
  /\ pcM = [m \in Migrators |-> "idle"]

-----------------------------------------------------------------------------
(* Loading and removing a document *)

\* PersistenceManager.getDoc: web reads the project, and answers later.
ReadFromWeb(d) ==
  /\ pcD[d] = "idle" /\ copy[d] = None
  /\ got' = [got EXCEPT ![d] = stage]
  /\ pcD' = [pcD EXCEPT ![d] = "check"]
  /\ UNCHANGED <<block, inProject, copy, stage, pcM>>

\* Mutant of CheckBlock: DocsIn is not updated first.
CheckUntracked(d) ==
  /\ pcD[d] = "check"
  /\ pcD' = [pcD EXCEPT ![d] = IF block THEN "idle" ELSE "put"]
  /\ UNCHANGED <<block, inProject, copy, got, stage, pcM>>

\* putDocInMemory, first MULTI: EXISTS and SADD.  Refused, the document stays in
\* the set.
CheckBlock(d) ==
  /\ pcD[d] = "check"
  /\ inProject' = inProject \cup {d}
  /\ pcD' = [pcD EXCEPT ![d] = IF block THEN "idle" ELSE "put"]
  /\ UNCHANGED <<block, copy, got, stage, pcM>>

\* putDocInMemory, second MULTI: the document's keys.
PutDoc(d) ==
  /\ pcD[d] = "put"
  /\ copy' = [copy EXCEPT ![d] = got[d]]
  /\ pcD' = [pcD EXCEPT ![d] = "idle"]
  /\ UNCHANGED <<block, inProject, got, stage, pcM>>

\* Mutant of RemoveKeys: the document's keys are not deleted first.
RemoveLater(d) ==
  /\ pcD[d] = "idle"
  /\ pcD' = [pcD EXCEPT ![d] = "untrack"]
  /\ UNCHANGED <<block, inProject, copy, got, stage, pcM>>

\* removeDocFromMemory, whether or not the document is loaded: its keys ...
RemoveKeys(d) ==
  /\ pcD[d] = "idle"
  /\ copy' = [copy EXCEPT ![d] = None]
  /\ pcD' = [pcD EXCEPT ![d] = "untrack"]
  /\ UNCHANGED <<block, inProject, got, stage, pcM>>

\* ... and then its entry in the project's set.
Untrack(d) ==
  /\ pcD[d] = "untrack"
  /\ inProject' = inProject \ {d}
  /\ pcD' = [pcD EXCEPT ![d] = "idle"]
  /\ UNCHANGED <<block, copy, got, stage, pcM>>

\* The task ends before its next call: it fails, or its process dies.
TaskDies(d) ==
  /\ "crash" \in Faults
  /\ pcD[d] # "idle"
  /\ pcD' = [pcD EXCEPT ![d] = "idle"]
  /\ UNCHANGED <<block, inProject, copy, got, stage, pcM>>

-----------------------------------------------------------------------------
(* Migrations *)

\* blockProject: SETEX and SCARD in one MULTI.
Block(m) ==
  /\ pcM[m] = "idle" /\ stage < MaxStage
  /\ block' = TRUE
  /\ pcM' = [pcM EXCEPT ![m] = IF inProject = {} THEN "holding" ELSE "undo"]
  /\ UNCHANGED <<docVars, stage>>

\* blockProject, too late: DEL, and answer that the project is not blocked.
Undo(m) ==
  /\ pcM[m] = "undo"
  /\ block' = FALSE
  /\ pcM' = [pcM EXCEPT ![m] = "idle"]
  /\ UNCHANGED <<docVars, stage>>

\* The migration writes its stage to Mongo.
SetStage(m) ==
  /\ pcM[m] = "holding" /\ stage < MaxStage
  /\ stage' = stage + 1
  /\ pcM' = [pcM EXCEPT ![m] = "migrated"]
  /\ UNCHANGED <<block, docVars>>

\* unblockProject: DEL, after the migration or instead of it.
Unblock(m) ==
  /\ Blocking(m)
  /\ block' = FALSE
  /\ pcM' = [pcM EXCEPT ![m] = "idle"]
  /\ UNCHANGED <<docVars, stage>>

\* The migrating process dies, or its request times out, and nothing unblocks.
MigratorDies(m) ==
  /\ "crash" \in Faults
  /\ pcM[m] # "idle"
  /\ pcM' = [pcM EXCEPT ![m] = "idle"]
  /\ UNCHANGED <<block, docVars, stage>>

\* PROJECT_BLOCK_TTL_SECS pass: after a death, or (a fault) under a slow migration.
BlockExpires ==
  /\ block
  /\ "expire" \in Faults \/ \A m \in Migrators : pcM[m] = "idle"
  /\ block' = FALSE
  /\ UNCHANGED <<docVars, stage, pcM>>

Next ==
  \/ \E d \in Docs :
       \/ ReadFromWeb(d) \/ CheckBlock(d) \/ PutDoc(d)
       \/ RemoveKeys(d) \/ Untrack(d) \/ TaskDies(d)
  \/ \E m \in Migrators :
       Block(m) \/ Undo(m) \/ SetStage(m) \/ Unblock(m) \/ MigratorDies(m)
  \/ BlockExpires

Spec == Init /\ [][Next]_vars

-----------------------------------------------------------------------------
(* Properties *)

\* Every variable holds what the code stores in it.
TypeOK ==
  /\ block \in BOOLEAN
  /\ inProject \subseteq Docs
  /\ copy \in [Docs -> Stages \cup {None}]
  /\ stage \in Stages
  /\ pcD \in [Docs -> {"idle", "check", "put", "untrack"}]
  /\ got \in [Docs -> Stages]
  /\ pcM \in [Migrators -> {"idle", "undo", "holding", "migrated"}]

\* "A missing docId means that the doc might stay in Redis forever": unloading a
\* project visits the documents in its set, and every document in Redis is there,
\* wherever a load or a removal was cut short.
LoadedIsTracked == \A d \in Docs : InRedis(d) => d \in inProject

\* While a migration that was told its project is blocked still has its block, no
\* document of it is in Redis or on its way: what unblockProject's answer, which
\* says whether the block was still there, lets a quick migration conclude.
BlockHolds ==
  \A m \in Migrators : Blocking(m) /\ block => \A d \in Docs : ~InRedis(d)

\* HttpController.blockProject: "Block a project from getting loaded in
\* docupdater [...] The response indicates whether the project has been blocked or
\* not."  Told it has been, a migration has the project to itself.
BlockedIsBlocked ==
  \A m \in Migrators : Blocking(m) => \A d \in Docs : ~InRedis(d)
=============================================================================
