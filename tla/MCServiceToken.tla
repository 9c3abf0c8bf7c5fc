----------------------------- MODULE MCServiceToken -----------------------------
(* ServiceToken with two requests, in any order and any number of copies.  *)
EXTENDS ServiceToken, TLC

CONSTANTS r1, r2, t1, t2
MCRequests == {r1, r2}
MCHandlers == {t1, t2}
Symmetry == Permutations(MCRequests) \union Permutations(MCHandlers)
=============================================================================
