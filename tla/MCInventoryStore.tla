--------------------------- MODULE MCInventoryStore ---------------------------
(* InventoryStore on two hosts, two packages and three snapshots that      *)
(* overlap: s1 installs both packages on h1, s2 moves p1 to h2 and removes *)
(* p2, s3 tombstones h1 and lists p1 as removed from it.  s1 and s2 lock   *)
(* both package rows, in either order.                                     *)
EXTENDS InventoryStore, TLC

CONSTANTS h1, h2, p1, p2, v1, c1, s1, s2, s3, src

MCHosts == {h1, h2}
MCPackages == {p1, p2}
MCVersions == {v1}
MCCves == {c1}
MCSnapshots == {s1, s2, s3}

On(h) == [host |-> h, version |-> v1, gone |-> FALSE]
Removed(h) == [host |-> h, version |-> v1, gone |-> TRUE]

MCContent ==
    s1 :> [hosts |-> h1 :> FALSE, packages |-> p1 :> On(h1) @@ p2 :> On(h1)] @@
    s2 :> [hosts |-> <<>>, packages |-> p1 :> On(h2) @@ p2 :> Removed(h1)] @@
    s3 :> [hosts |-> h1 :> TRUE, packages |-> p1 :> Removed(h1)]

(* One row the catalog gains and loses; every package has v1, only p1 is   *)
(* affected.                                                               *)
MCAffected == [package : {p1}, version : {v1}, cve : {c1}, source : Sources]
=============================================================================
