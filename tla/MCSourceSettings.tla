---------------------------- MODULE MCSourceSettings ----------------------------
(* SourceSettings with two forms at a time, NVD with two API keys, CISA KEV*)
(* with none, and one value of the fields a form always carries.           *)
EXTENDS SourceSettings, TLC

CONSTANTS h1, h2, nvd, kev, f1, k1, k2

MCHandlers == {h1, h2}
MCSources == {nvd, kev}
Symmetry == Permutations(MCHandlers)
=============================================================================
