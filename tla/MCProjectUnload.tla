-------------------------- MODULE MCProjectUnload --------------------------
\* ProjectUnload on small instances.
EXTENDS ProjectUnload, TLC

\* Projects are interchangeable, and so are flushers; users differ by the process
\* that serves them.
Symmetry == Permutations(Projects) \cup Permutations(Flushers)
=============================================================================
