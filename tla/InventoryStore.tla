---------------------------- MODULE InventoryStore ----------------------------
(***************************************************************************)
(* ApplyInventorySnapshot (internal/store/ctops.go) as PostgreSQL runs it: *)
(* one READ COMMITTED transaction per request, one step per statement, row *)
(* locks held from the first write of a row to the end of the transaction, *)
(* waits for rows another transaction holds, deadlock aborts, statement    *)
(* errors, lost commit acknowledgements, process crashes, and feeds that   *)
(* change the catalog between two statements.                              *)
(*                                                                         *)
(* The uncommitted writes of a transaction are not stored: they are what   *)
(* its snapshot lists for the rows it holds, and commit makes them visible.*)
(***************************************************************************)
EXTENDS Inventory

CONSTANTS Handlers,    \* concurrent HTTP handlers, each with its transaction
          Nobody       \* the holder of a row no transaction has written
ASSUME NobodyAssumption == Nobody \notin Handlers

VARIABLES hosts, packages, findings, ledger, catalog,   \* committed rows
          pc,         \* the statement a handler's transaction is at
          snap,       \* the snapshot it applies
          lock,       \* the transaction that has written a row, uncommitted
          waiting,    \* the row a blocked statement waits for
          view,       \* matchedKeys
          stale,      \* the findings resolveStaleFindings selected
          outcome     \* what ApplyInventorySnapshot returned

tables == <<hosts, packages, findings, ledger>>
vars == <<tables, catalog, pc, snap, lock, waiting, view, stale, outcome>>

(* The rows transactions contend for.  Rows of integration_findings are    *)
(* not among them: a transaction writes findings only of packages it lists,*)
(* whose rows it has locked before.                                        *)
HostRow(h) == <<"host", h>>
PackageRowOf(p) == <<"package", p>>
SnapshotRow(s) == <<"snapshot", s>>
StatusRow == <<"status", "organisation">>
Keys == {HostRow(h) : h \in Hosts} \union {PackageRowOf(p) : p \in Packages}
          \union {SnapshotRow(s) : s \in Snapshots} \union {StatusRow}
NoKey == <<"no", "row">>

Statements == {"idle", "lookup", "write", "resolve", "response", "status",
               "commit"}

TypeOK ==
    /\ hosts \in [Hosts -> HostStatus]
    /\ packages \in [Packages -> PackageRow \union {NoRow}]
    /\ findings \in [FindingKey -> FindingStatus]
    /\ ledger \subseteq Snapshots
    /\ catalog \subseteq Affected
    /\ pc \in [Handlers -> Statements]
    /\ snap \in [Handlers -> Snapshots]
    /\ lock \in [Keys -> Handlers \union {Nobody}]
    /\ waiting \in [Handlers -> Keys \union {NoKey}]
    /\ view \in [Handlers -> SUBSET FindingKey]
    /\ stale \in [Handlers -> SUBSET FindingKey]
    /\ outcome \in [Handlers -> {"none", "applied", "replayed", "failed"}]

Init ==
    /\ hosts = [h \in Hosts |-> "absent"]
    /\ packages = [p \in Packages |-> NoRow]
    /\ findings = [f \in FindingKey |-> "none"]
    /\ ledger = {}
    /\ catalog \in SUBSET Affected
    /\ pc = [t \in Handlers |-> "idle"]
    /\ snap \in [Handlers -> Snapshots]
    /\ lock = [k \in Keys |-> Nobody]
    /\ waiting = [t \in Handlers |-> NoKey]
    /\ view = [t \in Handlers |-> {}]
    /\ stale = [t \in Handlers |-> {}]
    /\ outcome = [t \in Handlers |-> "none"]

(***************************************************************************)
(* Rows and locks.                                                         *)
(***************************************************************************)
Written(t, k) == lock[k] = t

HostsWritten(t) == \A h \in ListedHosts(snap[t]) : Written(t, HostRow(h))
PackagesWritten(t) == \A p \in Listed(snap[t]) : Written(t, PackageRowOf(p))

(* The rows the next statement of t may write: the host rows before the    *)
(* package rows, each in the order of the snapshot's array, which is any.  *)
NextRows(t) ==
    CASE pc[t] = "write" /\ ~HostsWritten(t) ->
            {HostRow(h) : h \in ListedHosts(snap[t])}
      [] pc[t] = "write" /\ HostsWritten(t) ->
            {PackageRowOf(p) : p \in Listed(snap[t])}
      [] pc[t] = "response" -> {SnapshotRow(snap[t])}
      [] pc[t] = "status" -> {StatusRow}
      [] OTHER -> {}

(* The statement finds the row free, or gets it from the holder that ended.*)
TakeRow(t, k) ==
    /\ k \in NextRows(t)
    /\ waiting[t] \in {NoKey, k}
    /\ lock[k] = Nobody
    /\ lock' = [lock EXCEPT ![k] = t]
    /\ waiting' = [waiting EXCEPT ![t] = NoKey]

(* The statement blocks on a row another transaction has written.          *)
Wait(t, k) ==
    /\ k \in NextRows(t)
    /\ waiting[t] = NoKey
    /\ lock[k] \notin {Nobody, t}
    /\ waiting' = [waiting EXCEPT ![t] = k]
    /\ UNCHANGED <<tables, catalog, pc, snap, lock, view, stale, outcome>>

(* A cycle of transactions, each waiting for a row the next one holds.     *)
Deadlocked(cycle) ==
    /\ \A t \in cycle : waiting[t] # NoKey
    /\ {lock[waiting[t]] : t \in cycle} = cycle

(***************************************************************************)
(* One request, statement by statement.                                    *)
(***************************************************************************)
Begin(t, s) ==
    /\ pc[t] = "idle"
    /\ pc' = [pc EXCEPT ![t] = "lookup"]
    /\ snap' = [snap EXCEPT ![t] = s]
    /\ outcome' = [outcome EXCEPT ![t] = "none"]
    /\ UNCHANGED <<tables, catalog, lock, waiting, view, stale>>

(* The end of a transaction: its locks go, the handler has its answer.     *)
End(t, o) ==
    /\ pc' = [pc EXCEPT ![t] = "idle"]
    /\ lock' = [k \in Keys |-> IF lock[k] = t THEN Nobody ELSE lock[k]]
    /\ waiting' = [waiting EXCEPT ![t] = NoKey]
    /\ view' = [view EXCEPT ![t] = {}]
    /\ stale' = [stale EXCEPT ![t] = {}]
    /\ outcome' = [outcome EXCEPT ![t] = o]
    /\ UNCHANGED <<catalog, snap>>

(* getSnapshotResponse finds a row: commit, and answer what it holds.      *)
Replay(t) ==
    /\ pc[t] = "lookup"
    /\ snap[t] \in ledger
    /\ End(t, "replayed")
    /\ UNCHANGED tables

LookupMiss(t) ==
    /\ pc[t] = "lookup"
    /\ snap[t] \notin ledger
    /\ pc' = [pc EXCEPT ![t] = "write"]
    /\ UNCHANGED <<tables, catalog, snap, lock, waiting, view, stale, outcome>>

(* upsertCTOpsHost, upsertCTOpsPackage: one row.                           *)
UpsertRow(t, k) ==
    /\ pc[t] = "write"
    /\ TakeRow(t, k)
    /\ UNCHANGED <<tables, catalog, pc, snap, view, stale, outcome>>

(* A bug for comparison: matching does not wait for the package upserts.   *)
MatchFindingsEarly(t) ==
    /\ pc[t] = "write"
    /\ pc' = [pc EXCEPT ![t] = "resolve"]
    /\ view' = [view EXCEPT ![t] = Matches(catalog, snap[t])]
    /\ UNCHANGED <<tables, catalog, snap, lock, waiting, stale, outcome>>

(* affectedCandidates, one query, and upsertOpenFinding for every match,   *)
(* once the last upsert has returned.                                      *)
MatchFindings(t) ==
    /\ pc[t] = "write"
    /\ waiting[t] = NoKey
    /\ HostsWritten(t) /\ PackagesWritten(t)
    /\ pc' = [pc EXCEPT ![t] = "resolve"]
    /\ view' = [view EXCEPT ![t] = Matches(catalog, snap[t])]
    /\ UNCHANGED <<tables, catalog, snap, lock, waiting, stale, outcome>>

(* resolveStaleFindings: the SELECT sees what is committed now.            *)
ResolveStale(t) ==
    /\ pc[t] = "resolve"
    /\ pc' = [pc EXCEPT ![t] = "response"]
    /\ stale' = [stale EXCEPT ![t] = Stale(findings, snap[t], view[t])]
    /\ UNCHANGED <<tables, catalog, snap, lock, waiting, view, outcome>>

(* A bug for comparison: the INSERT has ON CONFLICT DO NOTHING.            *)
InsertResponseQuietly(t) ==
    /\ pc[t] = "response"
    /\ TakeRow(t, SnapshotRow(snap[t]))
    /\ pc' = [pc EXCEPT ![t] = "status"]
    /\ UNCHANGED <<tables, catalog, snap, view, stale, outcome>>

(* insertSnapshotResponse: a plain INSERT, whose key another transaction   *)
(* may have committed since the lookup.                                    *)
InsertResponse(t) ==
    /\ pc[t] = "response"
    /\ snap[t] \notin ledger
    /\ TakeRow(t, SnapshotRow(snap[t]))
    /\ pc' = [pc EXCEPT ![t] = "status"]
    /\ UNCHANGED <<tables, catalog, snap, view, stale, outcome>>

(* A bug for comparison: an outcome that no caller handles.                *)
DuplicateKeyUnhandled(t) ==
    /\ pc[t] = "response"
    /\ snap[t] \in ledger
    /\ End(t, "conflict")
    /\ UNCHANGED tables

DuplicateKey(t) ==
    /\ pc[t] = "response"
    /\ snap[t] \in ledger
    /\ End(t, "failed")
    /\ UNCHANGED tables

TouchStatus(t) ==
    /\ pc[t] = "status"
    /\ TakeRow(t, StatusRow)
    /\ pc' = [pc EXCEPT ![t] = "commit"]
    /\ UNCHANGED <<tables, catalog, snap, view, stale, outcome>>

(* The COMMIT reaches the server; its acknowledgement may not come back.   *)
Commit(t) ==
    /\ pc[t] = "commit"
    /\ hosts' = HostsAfter(hosts, snap[t])
    /\ packages' = PackagesAfter(packages, snap[t])
    /\ findings' = FindingsAfter(findings, view[t], stale[t])
    /\ ledger' = ledger \union {snap[t]}
    /\ \E o \in {"applied", "failed"} : End(t, o)

(* A bug for comparison: an error path without the deferred rollback.      *)
FailWithoutRollback(t) ==
    /\ pc[t] # "idle"
    /\ pc' = [pc EXCEPT ![t] = "idle"]
    /\ waiting' = [waiting EXCEPT ![t] = NoKey]
    /\ outcome' = [outcome EXCEPT ![t] = "failed"]
    /\ UNCHANGED <<tables, catalog, snap, lock, view, stale>>

(* A statement fails, or the request context is cancelled: rollback.       *)
Fail(t) ==
    /\ pc[t] # "idle"
    /\ End(t, "failed")
    /\ UNCHANGED tables

DeadlockAbort(t) ==
    /\ \E cycle \in SUBSET Handlers : t \in cycle /\ Deadlocked(cycle)
    /\ End(t, "failed")
    /\ UNCHANGED tables

(***************************************************************************)
(* The environment.                                                        *)
(***************************************************************************)
(* UpsertAffectedPackages of a feed run: one row, its own transaction.     *)
CatalogChange ==
    /\ \E a \in Affected : \/ catalog' = catalog \union {a}
                           \/ catalog' = catalog \ {a}
    /\ UNCHANGED <<tables, pc, snap, lock, waiting, view, stale, outcome>>

(* The process dies: the server rolls every open transaction back.         *)
Crash ==
    /\ pc' = [t \in Handlers |-> "idle"]
    /\ lock' = [k \in Keys |-> Nobody]
    /\ waiting' = [t \in Handlers |-> NoKey]
    /\ view' = [t \in Handlers |-> {}]
    /\ stale' = [t \in Handlers |-> {}]
    /\ outcome' = [t \in Handlers |-> "none"]
    /\ UNCHANGED <<tables, catalog, snap>>

(* What a handler does by itself once its request is in.                   *)
Step(t) ==
    \/ Replay(t)
    \/ LookupMiss(t)
    \/ \E k \in Keys : UpsertRow(t, k)
    \/ \E k \in Keys : Wait(t, k)
    \/ MatchFindings(t)
    \/ ResolveStale(t)
    \/ InsertResponse(t)
    \/ DuplicateKey(t)
    \/ TouchStatus(t)
    \/ Commit(t)

Next ==
    \/ \E t \in Handlers : \/ \E s \in Snapshots : Begin(t, s)
                           \/ Step(t)
                           \/ Fail(t)
                           \/ DeadlockAbort(t)
    \/ CatalogChange
    \/ Crash

Spec == Init /\ [][Next]_vars

(* PostgreSQL runs every statement that is not blocked, wakes the waiters  *)
(* of a row in turn when its holder ends, and its deadlock detector aborts *)
(* a member of every cycle.  Requests, failures, crashes and feeds are not *)
(* fair: they may never happen.                                            *)
Fairness ==
    /\ \A t \in Handlers : SF_vars(Step(t))
    /\ WF_vars(\E t \in Handlers : DeadlockAbort(t))

FairSpec == Spec /\ Fairness

(***************************************************************************)
(* Correctness.                                                            *)
(***************************************************************************)
(* An open finding is about a package the inventory has now, on the host   *)
(* the finding names, and not removed: whichever snapshots moved, removed  *)
(* or re-added the package, in whatever order they committed.              *)
OpenFindingHasPackage ==
    \A f \in FindingKey :
        findings[f] = "open" =>
            /\ packages[f.package] # NoRow
            /\ packages[f.package].host = f.host
            /\ ~packages[f.package].gone

(* What resolveStaleFindings read holds until the commit that uses it: no  *)
(* concurrent snapshot opens or resolves a finding of a listed package in  *)
(* between (the SELECT takes no lock; the package rows do the work).       *)
StaleReadStands ==
    \A t \in Handlers :
        pc[t] \in {"response", "status", "commit"} =>
            stale[t] = Stale(findings, snap[t], view[t])

(* Every request is answered, whatever rows it contends for.               *)
EveryRequestAnswered == \A t \in Handlers : pc[t] # "idle" ~> pc[t] = "idle"

(* The transactions implement the ledger: a commit is the one step at      *)
(* which a snapshot is applied.                                            *)
Phase(statement) ==
    CASE statement = "idle" -> "idle"
      [] statement \in {"lookup", "write"} -> "asked"
      [] OTHER -> "looked"

Ledger == INSTANCE SnapshotLedger
            WITH phase <- [t \in Handlers |-> Phase(pc[t])]

ImplementsLedger == Ledger!Spec
=============================================================================
