--------------------------- MODULE MCFindingDelivery ---------------------------
(* FindingDelivery on one package: s1 installs version v1, which two       *)
(* sources flag for c1, s2 version v2, which one source flags for c2.  Each*)
(* opens its findings and resolves those of the other.                     *)
EXTENDS FindingDelivery, TLC

CONSTANTS t1, t2, h1, p1, v1, v2, c1, c2, x1, x2, s1, s2

MCHandlers == {t1, t2}
MCVersions == {v1, v2}
MCCves == {c1, c2}
MCSources == {x1, x2}

Flag(v, c, x) == [package |-> p1, version |-> v, cve |-> c, source |-> x]
MCAffected == {Flag(v1, c1, x1), Flag(v1, c1, x2), Flag(v2, c2, x1)}
OneAffected == {Flag(v1, c1, x1)}

Install(v) == [hosts |-> h1 :> FALSE,
               packages |-> p1 :> [host |-> h1, version |-> v, gone |-> FALSE]]
MCContent == s1 :> Install(v1) @@ s2 :> Install(v2)

Symmetry == Permutations(MCHandlers)
=============================================================================
