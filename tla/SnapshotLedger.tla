---------------------------- MODULE SnapshotLedger ----------------------------
(***************************************************************************)
(* What the snapshot store promises its callers, with no transactions,     *)
(* statements or locks: a request is answered "applied", "replayed" or     *)
(* "failed"; a snapshot is applied in one step, at most once, and nothing  *)
(* but applying a snapshot moves the inventory or the findings.  The       *)
(* findings of a snapshot come from the catalog as it was at one moment of *)
(* the request.  A failed request may still have been applied: the         *)
(* acknowledgement of a commit can be lost.                                *)
(***************************************************************************)
EXTENDS Inventory

CONSTANT Handlers      \* concurrent HTTP handlers

VARIABLES
    hosts,      \* ct_ops_hosts
    packages,   \* ct_ops_software_packages
    findings,   \* integration_findings, by unique key
    ledger,     \* the snapshots ct_ops_inventory_snapshots has a row for
    catalog,    \* the affected_packages rows, as what they flag
    phase,      \* of a request: "idle", "asked", "looked"
    snap,       \* the snapshot a handler serves, or served last
    view,       \* the findings its look at the catalog matched
    outcome     \* its answer

tables == <<hosts, packages, findings, ledger>>
vars == <<tables, catalog, phase, snap, view, outcome>>

TypeOK ==
    /\ hosts \in [Hosts -> HostStatus]
    /\ packages \in [Packages -> PackageRow \union {NoRow}]
    /\ findings \in [FindingKey -> FindingStatus]
    /\ ledger \subseteq Snapshots
    /\ catalog \subseteq Affected
    /\ phase \in [Handlers -> {"idle", "asked", "looked"}]
    /\ snap \in [Handlers -> Snapshots]
    /\ view \in [Handlers -> SUBSET FindingKey]
    /\ outcome \in [Handlers -> {"none", "applied", "replayed", "failed"}]

Init ==
    /\ hosts = [h \in Hosts |-> "absent"]
    /\ packages = [p \in Packages |-> NoRow]
    /\ findings = [f \in FindingKey |-> "none"]
    /\ ledger = {}
    /\ catalog \in SUBSET Affected
    /\ phase = [t \in Handlers |-> "idle"]
    /\ snap \in [Handlers -> Snapshots]
    /\ view = [t \in Handlers |-> {}]
    /\ outcome = [t \in Handlers |-> "none"]

Ask(t, s) ==
    /\ phase[t] = "idle"
    /\ phase' = [phase EXCEPT ![t] = "asked"]
    /\ snap' = [snap EXCEPT ![t] = s]
    /\ outcome' = [outcome EXCEPT ![t] = "none"]
    /\ UNCHANGED <<tables, catalog, view>>

Look(t) ==
    /\ phase[t] = "asked"
    /\ phase' = [phase EXCEPT ![t] = "looked"]
    /\ view' = [view EXCEPT ![t] = Matches(catalog, snap[t])]
    /\ UNCHANGED <<tables, catalog, snap, outcome>>

Answer(t, o) ==
    /\ phase' = [phase EXCEPT ![t] = "idle"]
    /\ view' = [view EXCEPT ![t] = {}]
    /\ outcome' = [outcome EXCEPT ![t] = o]
    /\ UNCHANGED <<catalog, snap>>

Apply(t) ==
    /\ phase[t] = "looked"
    /\ snap[t] \notin ledger
    /\ ledger' = ledger \union {snap[t]}
    /\ hosts' = HostsAfter(hosts, snap[t])
    /\ packages' = PackagesAfter(packages, snap[t])
    /\ findings' = FindingsAfter(findings, view[t],
                                 Stale(findings, snap[t], view[t]))
    /\ \E o \in {"applied", "failed"} : Answer(t, o)

Replay(t) ==
    /\ phase[t] = "asked"
    /\ snap[t] \in ledger
    /\ Answer(t, "replayed")
    /\ UNCHANGED tables

Refuse(t) ==
    /\ phase[t] # "idle"
    /\ Answer(t, "failed")
    /\ UNCHANGED tables

CatalogChange ==
    /\ catalog' \in SUBSET Affected
    /\ UNCHANGED <<tables, phase, snap, view, outcome>>

Crash ==
    /\ phase' = [t \in Handlers |-> "idle"]
    /\ view' = [t \in Handlers |-> {}]
    /\ outcome' = [t \in Handlers |-> "none"]
    /\ UNCHANGED <<tables, catalog, snap>>

Next ==
    \/ \E t \in Handlers : \/ \E s \in Snapshots : Ask(t, s)
                           \/ Look(t)
                           \/ Apply(t)
                           \/ Replay(t)
                           \/ Refuse(t)
    \/ CatalogChange
    \/ Crash

Spec == Init /\ [][Next]_vars
=============================================================================
