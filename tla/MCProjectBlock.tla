--------------------------- MODULE MCProjectBlock ---------------------------
\* ProjectBlock on small instances.
EXTENDS ProjectBlock, TLC

\* Documents are interchangeable, and so are migrations.
Symmetry == Permutations(Docs) \cup Permutations(Migrators)
=============================================================================
