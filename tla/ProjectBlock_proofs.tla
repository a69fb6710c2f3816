------------------------- MODULE ProjectBlock_proofs -------------------------
(***************************************************************************)
(* Proofs about ProjectBlock for any number of documents, and any faults.  *)
(***************************************************************************)
EXTENDS ProjectBlock, TLAPS

\* Every variable always holds what the code stores in it.
THEOREM BlockTypes == Spec => []TypeOK
<1>1. Init => TypeOK
  <2>1. 0 \in Stages
    BY ProjectBlockAssumption DEF Stages
  <2> QED
    BY <2>1 DEF Init, TypeOK
<1>2. TypeOK /\ [Next]_vars => TypeOK'
  <2> SUFFICES ASSUME TypeOK, [Next]_vars PROVE TypeOK'
    OBVIOUS
  <2> USE ProjectBlockAssumption DEF TypeOK, Stages, docVars
  <2>1. ASSUME NEW d \in Docs, ReadFromWeb(d) PROVE TypeOK'
    BY <2>1 DEF ReadFromWeb
  <2>2. ASSUME NEW d \in Docs, CheckBlock(d) PROVE TypeOK'
    BY <2>2 DEF CheckBlock
  <2>3. ASSUME NEW d \in Docs, PutDoc(d) PROVE TypeOK'
    BY <2>3 DEF PutDoc
  <2>4. ASSUME NEW d \in Docs, RemoveKeys(d) PROVE TypeOK'
    BY <2>4 DEF RemoveKeys
  <2>5. ASSUME NEW d \in Docs, Untrack(d) PROVE TypeOK'
    BY <2>5 DEF Untrack
  <2>6. ASSUME NEW d \in Docs, TaskDies(d) PROVE TypeOK'
    BY <2>6 DEF TaskDies
  <2>7. ASSUME NEW m \in Migrators, Block(m) PROVE TypeOK'
    BY <2>7 DEF Block
  <2>8. ASSUME NEW m \in Migrators, Undo(m) PROVE TypeOK'
    BY <2>8 DEF Undo
  <2>9. ASSUME NEW m \in Migrators, SetStage(m) PROVE TypeOK'
    BY <2>9 DEF SetStage
  <2>10. ASSUME NEW m \in Migrators, Unblock(m) PROVE TypeOK'
    BY <2>10 DEF Unblock
  <2>11. ASSUME NEW m \in Migrators, MigratorDies(m) PROVE TypeOK'
    BY <2>11 DEF MigratorDies
  <2>12. ASSUME BlockExpires PROVE TypeOK'
    BY <2>12 DEF BlockExpires
  <2>13. CASE UNCHANGED vars
    BY <2>13 DEF vars
  <2> QED
    BY <2>1, <2>2, <2>3, <2>4, <2>5, <2>6, <2>7, <2>8, <2>9, <2>10, <2>11, <2>12,
       <2>13 DEF Next
<1> QED
  BY <1>1, <1>2, PTL DEF Spec

\* putDocInMemory enters a document in DocsIn before it writes it, and
\* removeDocFromMemory deletes its keys before the entry: every document in Redis
\* is in the set, wherever a task is cut short.  InRedis includes a load between
\* its two MULTIs; a removal between them has emptied its document.
Emptied == \A d \in Docs : pcD[d] = "untrack" => copy[d] = None

Tracked == LoadedIsTracked /\ Emptied

LEMMA TrackedStep == TypeOK /\ Tracked /\ [Next]_vars => Tracked'
<1> SUFFICES ASSUME TypeOK, Tracked, [Next]_vars PROVE Tracked'
  OBVIOUS
<1> USE DEF Tracked, Emptied
<1>1. ASSUME NEW d \in Docs, ReadFromWeb(d) PROVE Tracked'
  BY <1>1 DEF ReadFromWeb, LoadedIsTracked, InRedis, TypeOK
<1>2. ASSUME NEW d \in Docs, CheckBlock(d) PROVE Tracked'
  BY <1>2 DEF CheckBlock, LoadedIsTracked, InRedis, TypeOK
<1>3. ASSUME NEW d \in Docs, PutDoc(d) PROVE Tracked'
  BY <1>3 DEF PutDoc, LoadedIsTracked, InRedis, TypeOK
<1>4. ASSUME NEW d \in Docs, RemoveKeys(d) PROVE Tracked'
  BY <1>4 DEF RemoveKeys, LoadedIsTracked, InRedis, TypeOK
<1>5. ASSUME NEW d \in Docs, Untrack(d) PROVE Tracked'
  BY <1>5 DEF Untrack, LoadedIsTracked, InRedis, TypeOK
<1>6. ASSUME NEW d \in Docs, TaskDies(d) PROVE Tracked'
  BY <1>6 DEF TaskDies, LoadedIsTracked, InRedis, TypeOK
<1>7. ASSUME NEW m \in Migrators,
             Block(m) \/ Undo(m) \/ SetStage(m) \/ Unblock(m) \/ MigratorDies(m)
      PROVE  Tracked'
  BY <1>7 DEF Block, Undo, SetStage, Unblock, MigratorDies, docVars,
              LoadedIsTracked, InRedis
<1>8. ASSUME BlockExpires \/ UNCHANGED vars PROVE Tracked'
  BY <1>8 DEF BlockExpires, vars, docVars, LoadedIsTracked, InRedis
<1> QED
  BY <1>1, <1>2, <1>3, <1>4, <1>5, <1>6, <1>7, <1>8 DEF Next

THEOREM TrackedWhenLoaded == Spec => []LoadedIsTracked
<1>1. Init => Tracked
  BY DEF Init, Tracked, LoadedIsTracked, Emptied, InRedis
<1> QED
  BY <1>1, TrackedStep, BlockTypes, PTL DEF Spec, Tracked

\* blockProject sets the block and reads the size of the set in one MULTI, and
\* putDocInMemory reads the block and enters the document in one: a block that
\* found the set empty and still exists keeps every document out.  With a second
\* migration this is not so (BlockedIsBlocked): either one's DEL ends the block of
\* both.
THEOREM BlockKeepsOut ==
  ASSUME \A m1, m2 \in Migrators : m1 = m2
  PROVE  Spec => []BlockHolds
<1>1. Init => BlockHolds
  BY DEF Init, BlockHolds, Blocking
<1>2. TypeOK /\ Tracked /\ BlockHolds /\ [Next]_vars => BlockHolds'
  <2> SUFFICES ASSUME TypeOK, Tracked, BlockHolds, [Next]_vars PROVE BlockHolds'
    OBVIOUS
  <2> USE DEF BlockHolds, Blocking, InRedis, TypeOK
  <2>1. ASSUME NEW d \in Docs, ReadFromWeb(d) PROVE BlockHolds'
    BY <2>1 DEF ReadFromWeb
  <2>2. ASSUME NEW d \in Docs, CheckBlock(d) PROVE BlockHolds'
    BY <2>2 DEF CheckBlock
  <2>3. ASSUME NEW d \in Docs, PutDoc(d) PROVE BlockHolds'
    BY <2>3 DEF PutDoc
  <2>4. ASSUME NEW d \in Docs, RemoveKeys(d) PROVE BlockHolds'
    BY <2>4 DEF RemoveKeys
  <2>5. ASSUME NEW d \in Docs, Untrack(d) PROVE BlockHolds'
    BY <2>5 DEF Untrack
  <2>6. ASSUME NEW d \in Docs, TaskDies(d) PROVE BlockHolds'
    BY <2>6 DEF TaskDies
  <2>7. ASSUME NEW m \in Migrators, Block(m) PROVE BlockHolds'
    BY <2>7 DEF Block, docVars, Tracked, LoadedIsTracked
  <2>8. ASSUME NEW m \in Migrators, Undo(m) \/ SetStage(m) \/ Unblock(m) \/ MigratorDies(m)
        PROVE  BlockHolds'
    BY <2>8 DEF Undo, SetStage, Unblock, MigratorDies, docVars
  <2>9. ASSUME BlockExpires \/ UNCHANGED vars PROVE BlockHolds'
    BY <2>9 DEF BlockExpires, vars, docVars
  <2> QED
    BY <2>1, <2>2, <2>3, <2>4, <2>5, <2>6, <2>7, <2>8, <2>9 DEF Next
<1>3. Init => Tracked
  BY DEF Init, Tracked, LoadedIsTracked, Emptied, InRedis
<1> QED
  BY <1>1, <1>2, <1>3, TrackedStep, BlockTypes, PTL DEF Spec
==============================================================================
