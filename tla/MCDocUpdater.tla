---------------------------- MODULE MCDocUpdater ----------------------------
\* DocUpdater on small instances.
EXTENDS DocUpdater, TLC

\* Workers are interchangeable; clients are too, until a liveness property
\* distinguishes their updates.
Symmetry == Permutations(Workers) \cup Permutations(Clients)
=============================================================================
