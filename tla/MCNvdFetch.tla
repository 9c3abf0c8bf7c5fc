------------------------------ MODULE MCNvdFetch ------------------------------
(* Three CVEs on pages of one or two.                                      *)
EXTENDS NvdFetch, TLC
CONSTANTS c1, c2, c3
MCPlace == c1 :> 1 @@ c2 :> 2 @@ c3 :> 3
=============================================================================
