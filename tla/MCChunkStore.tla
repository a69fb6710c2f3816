----------------------------- MODULE MCChunkStore ---------------------------
\* ChunkStore on small instances.
EXTENDS ChunkStore, TLC

CONSTANTS r1, r2, r3, r4

\* One request has two changes, so that it may need two chunks of its own.
Sizes == [r \in Requests |-> IF r = r4 THEN 2 ELSE 1]

Deployments == {[level |-> 0, force |-> FALSE], [level |-> 0, force |-> TRUE],
                [level |-> 3, force |-> FALSE], [level |-> 4, force |-> FALSE]}

\* Only a buffer that jobs persist.
LevelFour == {[level |-> 4, force |-> FALSE]}

\* Which requests are sent: all of them where there is no buffer; at level 3, two of
\* one change; at level 4, and when it has been given up, two of one change, or the
\* one of two changes and two that were made to follow it.
Bound ==
    LET asked == {r \in Requests : version[r] # None} IN
    \/ config = [level |-> 0, force |-> FALSE]
    \/ r4 \notin asked /\ Cardinality(asked) <= 2
    \/ /\ config.level # 3 /\ Cardinality(asked) <= 3
       /\ \A r \in asked : version[r] = IF r = r4 THEN 0 ELSE Size[r4]

\* Workers are interchangeable, and so are the requests of one change.
Symmetry == Permutations(Workers) \cup Permutations({r1, r2, r3})
=============================================================================
