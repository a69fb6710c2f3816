--------------------------- MODULE MCAgentCompile ---------------------------
\* AgentCompile on small instances.
EXTENDS AgentCompile, TLC

Symmetry == Permutations(Callers)
=============================================================================
