------------------------------ MODULE Inventory ------------------------------
(***************************************************************************)
(* The data of the CT Ops connector, and the pure part of matching a       *)
(* snapshot against the vulnerability catalog (internal/ctops/types.go,    *)
(* internal/store/ctops.go).  One organisation: every table row the        *)
(* connector touches is keyed by its org_id.                               *)
(*                                                                         *)
(* A snapshot lists host rows and package rows.  The order of its arrays   *)
(* is CT Ops' choice, so the rows are functions on the identifiers it      *)
(* lists.  A retry carries the same identifier and the same rows.          *)
(***************************************************************************)
EXTENDS FiniteSets

CONSTANTS Hosts, Packages, Versions, Cves, Sources,
          Affected,    \* the affected_packages rows feeds may store, each as
                       \* the installed version it flags and its source
          Snapshots,   \* snapshot identifiers
          Content      \* what each snapshot lists

PackageRow == [host : Hosts, version : Versions, gone : BOOLEAN]

(* TRUE for a host row is a tombstone (deletedAt set).                     *)
HostRows == UNION {[D -> BOOLEAN] : D \in SUBSET Hosts}
PackageRows == UNION {[D -> PackageRow] : D \in SUBSET Packages}

ASSUME ContentAssumption ==
    \A s \in Snapshots : /\ Content[s].hosts \in HostRows
                         /\ Content[s].packages \in PackageRows

ASSUME AffectedAssumption ==
    Affected \subseteq [package : Packages, version : Versions, cve : Cves,
                     source : Sources]

HostStatus == {"absent", "live", "deleted"}
FindingStatus == {"none", "open", "resolved"}

(* The unique key of integration_findings, also what stableFindingID and   *)
(* findingKey are computed from.                                           *)
FindingKey == [host : Hosts, package : Packages, cve : Cves]

CONSTANT NoRow      \* a package the store has never been told of
ASSUME NoRowAssumption == NoRow \notin PackageRow

ListedHosts(s) == DOMAIN Content[s].hosts
Listed(s) == DOMAIN Content[s].packages
RowOf(s, p) == Content[s].packages[p]

(* hostDeleted: built from the host rows of this snapshot and nothing else.*)
HostDeleted(s, h) == h \in ListedHosts(s) /\ Content[s].hosts[h]

(* The rows matching does not skip.                                        *)
Active(s) == {p \in Listed(s) : /\ ~RowOf(s, p).gone
                                /\ ~HostDeleted(s, RowOf(s, p).host)}

(* MatchPackage of one inventory row and one candidate row.                *)
Flags(a, s, f) == /\ a.package = f.package
                  /\ a.version = RowOf(s, f.package).version
                  /\ a.cve = f.cve

(* The keys of matchedKeys: one for all the candidates that flag it.       *)
Matches(catalog, s) ==
    {f \in FindingKey : /\ f.package \in Active(s)
                        /\ f.host = RowOf(s, f.package).host
                        /\ \E a \in catalog : Flags(a, s, f)}

(* A bug for comparison: only the host a package is on now is looked at.   *)
StaleOnItsHost(findings, s, matched) ==
    {f \in FindingKey : /\ f.package \in Listed(s)
                        /\ f.host = RowOf(s, f.package).host
                        /\ findings[f] = "open"
                        /\ f \notin matched}

(* The open findings of the packages a snapshot lists that it no longer    *)
(* matches.                                                                *)
Stale(findings, s, matched) ==
    {f \in FindingKey : /\ f.package \in Listed(s)
                        /\ findings[f] = "open"
                        /\ f \notin matched}

(* The tables after the rows of snapshot s and its findings are written.   *)
HostsAfter(hosts, s) ==
    [h \in Hosts |-> IF h \in ListedHosts(s)
                     THEN IF Content[s].hosts[h] THEN "deleted" ELSE "live"
                     ELSE hosts[h]]
PackagesAfter(packages, s) ==
    [p \in Packages |-> IF p \in Listed(s) THEN RowOf(s, p) ELSE packages[p]]
FindingsAfter(findings, matched, stale) ==
    [f \in FindingKey |-> CASE f \in matched -> "open"
                            [] f \in stale \ matched -> "resolved"
                            [] OTHER -> findings[f]]
=============================================================================
