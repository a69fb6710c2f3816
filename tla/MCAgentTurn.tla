----------------------------- MODULE MCAgentTurn -----------------------------
\* AgentTurn on small instances.
EXTENDS AgentTurn, TLC

Amount(tokens, cost) == [k \in Kinds |-> IF k = "tokens" THEN tokens ELSE cost]

\* Room for one estimate and a part of another in tokens, for two and a part in cost.
BothLimits == Amount(3, 5)
TokenLimit == Amount(3, Unlimited)
RunEstimate == Amount(2, 2)

\* A run that used nothing (an early error), little, or more than its estimate.
RunUsages == {Amount(0, 0), Amount(1, 1), Amount(3, 2)}

Symmetry == Permutations(Turns) \cup Permutations(Conversations)
=============================================================================
