----------------------------- MODULE MCTaManager -----------------------------
(* TaManager.tla for two TAs with the flags and calls the cfg gives them.  *)
EXTENDS TaManager, TLC

CONSTANTS a, b   \* the two TAs

none == {}
justA == {a}
justB == {b}
both == {a, b}
aCallsB == {<<a, b>>}
aCallsA == {<<a, a>>}
aCallsBoth == aCallsA \cup aCallsB
bCallsA == {<<b, a>>}

Symmetry == Permutations(Threads) \cup Permutations(Sessions) \cup Permutations(Ctxs)
=============================================================================
