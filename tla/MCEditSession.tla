---------------------------- MODULE MCEditSession ----------------------------
\* EditSession on small instances.
EXTENDS EditSession, TLC

TwoCharacters == <<1, 2>>

\* The clients are alike.
Exchange == Permutations(Clients)
=============================================================================
