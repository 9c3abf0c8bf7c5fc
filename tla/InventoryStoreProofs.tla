-------------------------- MODULE InventoryStoreProofs --------------------------
(***************************************************************************)
(* Proofs about InventoryStore, for any hosts, packages, versions, CVEs,   *)
(* catalog, snapshots and handlers.  The inductive invariant says what the *)
(* row locks give: from the match on, a transaction holds every row its    *)
(* snapshot lists, so no other transaction commits a finding of those      *)
(* packages; and from the insert of its response on, it holds the key of   *)
(* its snapshot, which is then not in the ledger.                          *)
(***************************************************************************)
EXTENDS InventoryStore, TLAPS

AfterMatch == {"resolve", "response", "status", "commit"}

RowsHeld ==
    \A t \in Handlers :
        pc[t] \in AfterMatch => HostsWritten(t) /\ PackagesWritten(t)

KeyHeld ==
    \A t \in Handlers :
        pc[t] \in {"status", "commit"} =>
            /\ lock[SnapshotRow(snap[t])] = t
            /\ snap[t] \notin ledger

(* Every matched finding is about an active row of the snapshot.           *)
MatchedOf(matched, s) ==
    \A f \in matched : /\ f.package \in Active(s)
                       /\ f.host = RowOf(s, f.package).host

ViewIsActive ==
    \A t \in Handlers :
        pc[t] \in AfterMatch => MatchedOf(view[t], snap[t])

OnlyWritersWait ==
    \A t \in Handlers :
        waiting[t] # NoKey => pc[t] \in {"write", "response", "status"}

IInv == /\ TypeOK
        /\ RowsHeld
        /\ KeyHeld
        /\ ViewIsActive
        /\ OnlyWritersWait
        /\ StaleReadStands
        /\ OpenFindingHasPackage

-----------------------------------------------------------------------------
(* The rows a snapshot lists are well typed.                               *)
LEMMA RowTypes ==
    ASSUME NEW s \in Snapshots
    PROVE  /\ Listed(s) \subseteq Packages
           /\ \A p \in Listed(s) : RowOf(s, p) \in PackageRow
           /\ ListedHosts(s) \subseteq Hosts
           /\ \A h \in ListedHosts(s) : Content[s].hosts[h] \in BOOLEAN
<1>1. PICK D \in SUBSET Packages : Content[s].packages \in [D -> PackageRow]
  BY ContentAssumption DEF PackageRows
<1>2. PICK E \in SUBSET Hosts : Content[s].hosts \in [E -> BOOLEAN]
  BY ContentAssumption DEF HostRows
<1>3. QED BY <1>1, <1>2 DEF Listed, RowOf, ListedHosts

(* The lock table has an entry for every row a transaction may write.      *)
LEMMA KeyTypes ==
    /\ \A h \in Hosts : HostRow(h) \in Keys
    /\ \A p \in Packages : PackageRowOf(p) \in Keys
    /\ \A s \in Snapshots : SnapshotRow(s) \in Keys
    /\ StatusRow \in Keys
BY DEF Keys

(* What matching returns: findings of active rows.                         *)
LEMMA MatchesActive ==
    ASSUME NEW cat, NEW s \in Snapshots
    PROVE  Matches(cat, s) \subseteq FindingKey /\ MatchedOf(Matches(cat, s), s)
BY DEF Matches, MatchedOf

(* Applying a snapshot keeps the tables well typed.                        *)
LEMMA TablesAfterTypes ==
    ASSUME TypeOK, NEW s \in Snapshots, NEW m, NEW r
    PROVE  /\ HostsAfter(hosts, s) \in [Hosts -> HostStatus]
           /\ PackagesAfter(packages, s) \in [Packages -> PackageRow \union {NoRow}]
           /\ FindingsAfter(findings, m, r) \in [FindingKey -> FindingStatus]
<1>1. HostsAfter(hosts, s) \in [Hosts -> HostStatus]
  BY RowTypes DEF TypeOK, HostsAfter, HostStatus
<1>2. PackagesAfter(packages, s) \in [Packages -> PackageRow \union {NoRow}]
  BY RowTypes DEF TypeOK, PackagesAfter
<1>3. FindingsAfter(findings, m, r) \in [FindingKey -> FindingStatus]
  <2>1. \A f \in FindingKey : findings[f] \in FindingStatus
    BY DEF TypeOK
  <2> HIDE DEF FindingKey
  <2>2. QED BY <2>1 DEF FindingsAfter, FindingStatus
<1>4. QED BY <1>1, <1>2, <1>3

(* Ending a transaction frees its rows and no others.                      *)
LEMMA EndTypes ==
    ASSUME TypeOK, NEW t \in Handlers,
           NEW o \in {"none", "applied", "replayed", "failed"}, End(t, o)
    PROVE  /\ pc' \in [Handlers -> Statements]
           /\ snap' \in [Handlers -> Snapshots]
           /\ lock' \in [Keys -> Handlers \union {Nobody}]
           /\ waiting' \in [Handlers -> Keys \union {NoKey}]
           /\ view' \in [Handlers -> SUBSET FindingKey]
           /\ stale' \in [Handlers -> SUBSET FindingKey]
           /\ outcome' \in [Handlers -> {"none", "applied", "replayed", "failed"}]
           /\ catalog' \subseteq Affected
BY DEF End, TypeOK, Statements

-----------------------------------------------------------------------------
(* The variables always have their types.                                  *)
LEMMA TypeStep == TypeOK /\ [Next]_vars => TypeOK'
<1> SUFFICES ASSUME TypeOK, [Next]_vars PROVE TypeOK'
  OBVIOUS
<1>1. CASE UNCHANGED vars
  BY <1>1 DEF TypeOK, vars, tables
<1>2. ASSUME NEW t \in Handlers, NEW s \in Snapshots, Begin(t, s) PROVE TypeOK'
  BY <1>2 DEF TypeOK, Begin, tables, Statements
<1>3. ASSUME NEW t \in Handlers, Replay(t) PROVE TypeOK'
  BY <1>3, EndTypes DEF TypeOK, Replay, tables
<1>4. ASSUME NEW t \in Handlers, LookupMiss(t) PROVE TypeOK'
  BY <1>4 DEF TypeOK, LookupMiss, tables, Statements
<1>5. ASSUME NEW t \in Handlers, NEW k \in Keys, UpsertRow(t, k) PROVE TypeOK'
  BY <1>5 DEF TypeOK, UpsertRow, TakeRow, tables
<1>6. ASSUME NEW t \in Handlers, NEW k \in Keys, Wait(t, k) PROVE TypeOK'
  BY <1>6 DEF TypeOK, Wait, tables
<1>7. ASSUME NEW t \in Handlers, MatchFindings(t) PROVE TypeOK'
  <2>1. Matches(catalog, snap[t]) \subseteq FindingKey
    BY MatchesActive DEF TypeOK
  <2>2. QED BY <1>7, <2>1 DEF TypeOK, MatchFindings, tables, Statements
<1>8. ASSUME NEW t \in Handlers, ResolveStale(t) PROVE TypeOK'
  <2>1. Stale(findings, snap[t], view[t]) \subseteq FindingKey
    BY DEF Stale
  <2>2. QED BY <1>8, <2>1 DEF TypeOK, ResolveStale, tables, Statements
<1>9. ASSUME NEW t \in Handlers, InsertResponse(t) PROVE TypeOK'
  <2>1. SnapshotRow(snap[t]) \in Keys
    BY KeyTypes DEF TypeOK
  <2>2. QED BY <1>9, <2>1 DEF TypeOK, InsertResponse, TakeRow, tables, Statements
<1>10. ASSUME NEW t \in Handlers, DuplicateKey(t) PROVE TypeOK'
  BY <1>10, EndTypes DEF TypeOK, DuplicateKey, tables
<1>11. ASSUME NEW t \in Handlers, TouchStatus(t) PROVE TypeOK'
  BY <1>11, KeyTypes DEF TypeOK, TouchStatus, TakeRow, tables, Statements
<1>12. ASSUME NEW t \in Handlers, Commit(t) PROVE TypeOK'
  <2>1. PICK o \in {"applied", "failed"} : End(t, o)
    BY <1>12 DEF Commit
  <2>2. snap[t] \in Snapshots
    BY DEF TypeOK
  <2>3. /\ hosts' \in [Hosts -> HostStatus]
        /\ packages' \in [Packages -> PackageRow \union {NoRow}]
        /\ findings' \in [FindingKey -> FindingStatus]
        /\ ledger' \subseteq Snapshots
    BY <1>12, <2>2, TablesAfterTypes DEF Commit, TypeOK
  <2>4. QED BY <2>1, <2>3, EndTypes DEF TypeOK
<1>13. ASSUME NEW t \in Handlers, Fail(t) PROVE TypeOK'
  BY <1>13, EndTypes DEF TypeOK, Fail, tables
<1>14. ASSUME NEW t \in Handlers, DeadlockAbort(t) PROVE TypeOK'
  BY <1>14, EndTypes DEF TypeOK, DeadlockAbort, tables
<1>15. CASE CatalogChange
  BY <1>15 DEF TypeOK, CatalogChange, tables
<1>16. CASE Crash
  BY <1>16 DEF TypeOK, Crash, tables, Statements
<1>17. QED
  BY <1>1, <1>2, <1>3, <1>4, <1>5, <1>6, <1>7, <1>8, <1>9, <1>10, <1>11,
     <1>12, <1>13, <1>14, <1>15, <1>16 DEF Next, Step

(* Type correctness of the store.                                          *)
THEOREM TypeCorrect == Spec => []TypeOK
<1>1. Init => TypeOK
  BY DEF Init, TypeOK, HostStatus, FindingStatus, Statements
<1>2. QED BY <1>1, TypeStep, PTL DEF Spec

-----------------------------------------------------------------------------
(* The parts of the invariant that concern one transaction.                *)
Held(t) == /\ pc[t] \in AfterMatch => HostsWritten(t) /\ PackagesWritten(t)
           /\ pc[t] \in {"status", "commit"} =>
                /\ lock[SnapshotRow(snap[t])] = t
                /\ snap[t] \notin ledger
           /\ pc[t] \in AfterMatch => MatchedOf(view[t], snap[t])
           /\ waiting[t] # NoKey => pc[t] \in {"write", "response", "status"}
           /\ pc[t] \in {"response", "status", "commit"} =>
                stale[t] = Stale(findings, snap[t], view[t])

LEMMA IInvByHandler ==
    IInv <=> TypeOK /\ (\A t \in Handlers : Held(t)) /\ OpenFindingHasPackage
BY DEF IInv, Held, RowsHeld, KeyHeld, ViewIsActive, OnlyWritersWait,
       StaleReadStands

(* A transaction keeps its part of the invariant while the tables and its  *)
(* own variables stay and no row is taken from it.                         *)
LEMMA HeldStays ==
    ASSUME TypeOK, NEW t \in Handlers, Held(t),
           pc'[t] = pc[t], snap'[t] = snap[t], view'[t] = view[t],
           stale'[t] = stale[t],
           waiting'[t] # NoKey => pc[t] \in {"write", "response", "status"},
           \A k \in Keys : lock[k] = t => lock'[k] = t,
           findings' = findings, ledger' = ledger
    PROVE  Held(t)'
<1>1. snap[t] \in Snapshots
  BY DEF TypeOK
<1>2. HostsWritten(t) => HostsWritten(t)'
  BY <1>1, KeyTypes, RowTypes DEF HostsWritten, Written
<1>3. PackagesWritten(t) => PackagesWritten(t)'
  BY <1>1, KeyTypes, RowTypes DEF PackagesWritten, Written
<1>4. lock[SnapshotRow(snap[t])] = t => lock'[SnapshotRow(snap[t])] = t
  BY <1>1, KeyTypes
<1>5. QED BY <1>2, <1>3, <1>4 DEF Held

(* A transaction that is ended, or not yet past its lookup, holds nothing. *)
LEMMA HeldIdle ==
    ASSUME NEW t \in Handlers, pc'[t] \in {"idle", "lookup", "write"},
           waiting'[t] # NoKey => pc'[t] = "write"
    PROVE  Held(t)'
BY DEF Held, AfterMatch

(* The tables did not move, so the inventory still has the open findings.  *)
LEMMA OpenStays ==
    ASSUME OpenFindingHasPackage, findings' = findings, packages' = packages
    PROVE  OpenFindingHasPackage'
BY DEF OpenFindingHasPackage

(* Ending a transaction without a commit.                                  *)
LEMMA EndKeeps ==
    ASSUME IInv, NEW t \in Handlers, NEW o, End(t, o), UNCHANGED tables
    PROVE  (\A u \in Handlers : Held(u)') /\ OpenFindingHasPackage'
<1> USE IInvByHandler
<1>1. ASSUME NEW u \in Handlers PROVE Held(u)'
  <2>1. CASE u = t
    BY <2>1, HeldIdle DEF End, TypeOK
  <2>2. CASE u # t
    <3>1. /\ pc'[u] = pc[u] /\ snap'[u] = snap[u] /\ view'[u] = view[u]
          /\ stale'[u] = stale[u] /\ waiting'[u] = waiting[u]
          /\ findings' = findings /\ ledger' = ledger
      BY <2>2 DEF End, TypeOK, tables
    <3>2. \A k \in Keys : lock[k] = u => lock'[k] = u
      BY <2>2 DEF End, TypeOK
    <3>3. Held(u)
      OBVIOUS
    <3>4. waiting[u] # NoKey => pc[u] \in {"write", "response", "status"}
      BY <3>3 DEF Held
    <3>5. QED BY <3>1, <3>2, <3>3, <3>4, HeldStays
  <2>3. QED BY <2>1, <2>2
<1>2. OpenFindingHasPackage'
  BY OpenStays DEF tables
<1>3. QED BY <1>1, <1>2

(* A statement that commits nothing: t moves, the others are untouched.    *)
LEMMA OthersKeep ==
    ASSUME IInv, NEW t \in Handlers, UNCHANGED tables, Held(t)',
           \A u \in Handlers \ {t} :
              /\ pc'[u] = pc[u] /\ snap'[u] = snap[u] /\ view'[u] = view[u]
              /\ stale'[u] = stale[u] /\ waiting'[u] = waiting[u],
           \A k \in Keys : lock[k] \in Handlers \ {t} => lock'[k] = lock[k]
    PROVE  (\A u \in Handlers : Held(u)') /\ OpenFindingHasPackage'
<1> USE IInvByHandler
<1>1. ASSUME NEW u \in Handlers \ {t} PROVE Held(u)'
  <2>1. waiting[u] # NoKey => pc[u] \in {"write", "response", "status"}
    BY DEF Held
  <2>2. /\ findings' = findings /\ ledger' = ledger
    BY DEF tables
  <2>3. \A k \in Keys : lock[k] = u => lock'[k] = u
    OBVIOUS
  <2>4. QED BY <2>1, <2>2, <2>3, HeldStays
<1>2. OpenFindingHasPackage'
  BY OpenStays DEF tables
<1>3. QED BY <1>1, <1>2

(* Two transactions past their matches list different packages.            *)
LEMMA DisjointPackages ==
    ASSUME TypeOK, NEW t \in Handlers, NEW u \in Handlers, u # t,
           PackagesWritten(t), PackagesWritten(u)
    PROVE  Listed(snap[t]) \intersect Listed(snap[u]) = {}
BY DEF PackagesWritten, Written

(* A commit of t leaves the findings of the packages t does not list.      *)
LEMMA CommitTouches ==
    ASSUME IInv, NEW t \in Handlers, Commit(t),
           NEW f \in FindingKey, f.package \notin Listed(snap[t])
    PROVE  findings'[f] = findings[f]
<1>1. /\ stale[t] = Stale(findings, snap[t], view[t])
      /\ MatchedOf(view[t], snap[t])
  BY IInvByHandler DEF Commit, Held, AfterMatch
<1>2. f \notin view[t]
  BY <1>1 DEF MatchedOf, Active
<1>3. f \notin stale[t]
  BY <1>1 DEF Stale
<1>4. QED BY <1>2, <1>3 DEF Commit, FindingsAfter

(* What a commit makes of the findings of the packages t lists: open       *)
(* exactly when matched.                                                   *)
LEMMA CommitOpens ==
    ASSUME IInv, NEW t \in Handlers, Commit(t),
           NEW f \in FindingKey, f.package \in Listed(snap[t]),
           findings'[f] = "open"
    PROVE  f \in view[t]
<1>1. stale[t] = Stale(findings, snap[t], view[t])
  BY IInvByHandler DEF Commit, Held
<1>2. CASE f \in view[t]
  BY <1>2
<1>3. CASE f \notin view[t] /\ findings[f] = "open"
  <2>1. f \in stale[t] \ view[t]
    BY <1>1, <1>3 DEF Stale
  <2>2. findings'[f] = "resolved"
    BY <1>3, <2>1 DEF Commit, FindingsAfter
  <2>3. QED BY <2>2
<1>4. CASE f \notin view[t] /\ findings[f] # "open"
  BY <1>1, <1>4 DEF Commit, FindingsAfter, Stale
<1>5. QED BY <1>2, <1>3, <1>4

(* A commit keeps the other transactions' part of the invariant.           *)
LEMMA CommitOthers ==
    ASSUME IInv, NEW t \in Handlers, Commit(t), NEW u \in Handlers, u # t
    PROVE  Held(u)'
<1> USE IInvByHandler
<1>1. PICK o \in {"applied", "failed"} : End(t, o)
  BY DEF Commit
<1>2. /\ pc'[u] = pc[u] /\ snap'[u] = snap[u] /\ view'[u] = view[u]
      /\ stale'[u] = stale[u] /\ waiting'[u] = waiting[u]
      /\ \A k \in Keys : lock[k] = u => lock'[k] = u
  BY <1>1 DEF End, TypeOK
<1>3. snap[u] \in Snapshots /\ snap[t] \in Snapshots
  BY DEF TypeOK
<1>4. HostsWritten(u) => HostsWritten(u)'
  BY <1>2, <1>3, KeyTypes, RowTypes DEF HostsWritten, Written
<1>5. PackagesWritten(u) => PackagesWritten(u)'
  BY <1>2, <1>3, KeyTypes, RowTypes DEF PackagesWritten, Written
<1>6. ASSUME pc[u] \in {"status", "commit"}
      PROVE  lock'[SnapshotRow(snap[u])] = u /\ snap[u] \notin ledger'
  <2>1. lock[SnapshotRow(snap[u])] = u /\ snap[u] \notin ledger
    BY <1>6 DEF Held
  <2>2. lock[SnapshotRow(snap[t])] = t
    BY DEF Held, Commit
  <2>3. QED BY <1>2, <1>3, <2>1, <2>2, KeyTypes DEF Commit
<1>7. ASSUME pc[u] \in {"response", "status", "commit"}
      PROVE  stale[u] = Stale(findings', snap[u], view[u])
  <2>1. PackagesWritten(u) /\ PackagesWritten(t)
    BY <1>7 DEF Held, Commit, AfterMatch
  <2>2. \A f \in FindingKey :
           f.package \in Listed(snap[u]) => findings'[f] = findings[f]
    BY <2>1, DisjointPackages, CommitTouches
  <2>3. stale[u] = Stale(findings, snap[u], view[u])
    BY <1>7 DEF Held
  <2>4. QED BY <2>2, <2>3 DEF Stale
<1>8. QED
  <2>1. Held(u)
    OBVIOUS
  <2>2. QED BY <2>1, <1>2, <1>4, <1>5, <1>6, <1>7 DEF Held

(* A commit keeps every open finding on a package of the inventory.        *)
LEMMA CommitOpenFindings ==
    ASSUME IInv, NEW t \in Handlers, Commit(t)
    PROVE  OpenFindingHasPackage'
<1> SUFFICES ASSUME NEW f \in FindingKey, findings'[f] = "open"
             PROVE  /\ packages'[f.package] # NoRow
                    /\ packages'[f.package].host = f.host
                    /\ ~packages'[f.package].gone
  BY DEF OpenFindingHasPackage
<1>1. f.package \in Packages /\ snap[t] \in Snapshots
  BY IInvByHandler DEF FindingKey, TypeOK
<1>2. CASE f.package \in Listed(snap[t])
  <2>1. f \in view[t]
    BY <1>2, CommitOpens
  <2>2. f.package \in Active(snap[t]) /\ f.host = RowOf(snap[t], f.package).host
    BY <2>1, IInvByHandler DEF Held, Commit, AfterMatch, MatchedOf
  <2>3. packages'[f.package] = RowOf(snap[t], f.package)
    BY <1>1, <1>2 DEF Commit, PackagesAfter
  <2>4. RowOf(snap[t], f.package) \in PackageRow
    BY <1>1, <1>2, RowTypes
  <2>5. QED BY <2>2, <2>3, <2>4, NoRowAssumption DEF Active
<1>3. CASE f.package \notin Listed(snap[t])
  <2>1. findings[f] = "open"
    BY <1>3, CommitTouches
  <2>2. packages'[f.package] = packages[f.package]
    BY <1>1, <1>3 DEF Commit, PackagesAfter
  <2>3. QED BY <2>1, <2>2 DEF IInv, OpenFindingHasPackage
<1>4. QED BY <1>2, <1>3

LEMMA InvStep == IInv /\ [Next]_vars => IInv'
<1> SUFFICES ASSUME IInv, [Next]_vars
             PROVE  TypeOK' /\ (\A u \in Handlers : Held(u)') /\ OpenFindingHasPackage'
  BY IInvByHandler DEF IInv, Held, RowsHeld, KeyHeld, ViewIsActive,
     OnlyWritersWait, StaleReadStands
<1> USE IInvByHandler
<1> DEFINE Kept == (\A u \in Handlers : Held(u)') /\ OpenFindingHasPackage'
<1> HIDE DEF Kept
<1>0. TypeOK'
  BY TypeStep
<1>1. ASSUME UNCHANGED vars PROVE Kept
  <2>1. ASSUME NEW u \in Handlers PROVE Held(u)'
    <3>1. Held(u)
      OBVIOUS
    <3>2. waiting[u] # NoKey => pc[u] \in {"write", "response", "status"}
      BY <3>1 DEF Held
    <3>3. UNCHANGED <<pc, snap, view, stale, waiting, lock, findings, ledger>>
      BY <1>1 DEF vars, tables
    <3>4. QED BY <3>1, <3>2, <3>3, HeldStays
  <2>2. OpenFindingHasPackage'
    BY <1>1, OpenStays DEF vars, tables
  <2>3. QED BY <2>1, <2>2 DEF Kept
<1>2. ASSUME NEW t \in Handlers, NEW s \in Snapshots, Begin(t, s) PROVE Kept
  <2>1. waiting[t] = NoKey
    BY <1>2 DEF Begin, Held
  <2>2. Held(t)'
    BY <1>2, <2>1, HeldIdle DEF Begin, TypeOK
  <2>3. QED BY <1>2, <2>2, OthersKeep DEF Begin, Kept, TypeOK
<1>3. ASSUME NEW t \in Handlers, Replay(t) PROVE Kept
  BY <1>3, EndKeeps DEF Replay, Kept
<1>4. ASSUME NEW t \in Handlers, LookupMiss(t) PROVE Kept
  <2>1. Held(t)'
    BY <1>4, HeldIdle DEF LookupMiss, TypeOK, Held
  <2>2. QED BY <1>4, <2>1, OthersKeep DEF LookupMiss, Kept, TypeOK
<1>5. ASSUME NEW t \in Handlers, NEW k \in Keys, UpsertRow(t, k) PROVE Kept
  <2>1. Held(t)'
    BY <1>5, HeldIdle DEF UpsertRow, TakeRow, TypeOK
  <2>2. \A x \in Keys : lock[x] \in Handlers \ {t} => lock'[x] = lock[x]
    BY <1>5, NobodyAssumption DEF UpsertRow, TakeRow, TypeOK
  <2>3. QED BY <1>5, <2>1, <2>2, OthersKeep DEF UpsertRow, TakeRow, Kept, TypeOK
<1>6. ASSUME NEW t \in Handlers, NEW k \in Keys, Wait(t, k) PROVE Kept
  <2>1. pc[t] \in {"write", "response", "status"}
    BY <1>6 DEF Wait, NextRows
  <2>2. Held(t)'
    BY <1>6, <2>1, HeldStays DEF Wait, tables, TypeOK
  <2>3. QED BY <1>6, <2>2, OthersKeep DEF Wait, Kept, TypeOK
<1>7. ASSUME NEW t \in Handlers, MatchFindings(t) PROVE Kept
  <2>1. MatchedOf(Matches(catalog, snap[t]), snap[t])
    BY MatchesActive DEF TypeOK
  <2>2. (HostsWritten(t) /\ PackagesWritten(t))'
    BY <1>7 DEF MatchFindings, HostsWritten, PackagesWritten, Written
  <2>3. /\ pc'[t] = "resolve" /\ snap'[t] = snap[t] /\ waiting'[t] = waiting[t]
        /\ view'[t] = Matches(catalog, snap[t])
    BY <1>7 DEF MatchFindings, TypeOK
  <2>4. Held(t)'
    BY <1>7, <2>1, <2>2, <2>3 DEF MatchFindings, Held, AfterMatch
  <2>5. QED BY <1>7, <2>4, OthersKeep DEF MatchFindings, Kept, TypeOK
<1>8. ASSUME NEW t \in Handlers, ResolveStale(t) PROVE Kept
  <2>1. /\ pc'[t] = "response" /\ snap'[t] = snap[t] /\ waiting'[t] = waiting[t]
        /\ view'[t] = view[t] /\ lock' = lock /\ findings' = findings
        /\ stale'[t] = Stale(findings, snap[t], view[t])
    BY <1>8 DEF ResolveStale, TypeOK, tables
  <2>2. (HostsWritten(t) /\ PackagesWritten(t))'
    BY <1>8, <2>1 DEF ResolveStale, Held, AfterMatch, HostsWritten,
       PackagesWritten, Written
  <2>3. MatchedOf(view[t], snap[t]) /\ waiting[t] = NoKey
    BY <1>8 DEF ResolveStale, Held, AfterMatch
  <2>4. Held(t)'
    BY <2>1, <2>2, <2>3 DEF Held, AfterMatch
  <2>5. QED BY <1>8, <2>4, OthersKeep DEF ResolveStale, Kept, TypeOK
<1>9. ASSUME NEW t \in Handlers, InsertResponse(t) PROVE Kept
  <2>1. /\ pc'[t] = "status" /\ snap'[t] = snap[t] /\ waiting'[t] = NoKey
        /\ view'[t] = view[t] /\ stale'[t] = stale[t] /\ UNCHANGED tables
    BY <1>9 DEF InsertResponse, TakeRow, TypeOK
  <2>2. /\ lock'[SnapshotRow(snap[t])] = t
        /\ \A x \in Keys : lock[x] = t => lock'[x] = t
    BY <1>9, KeyTypes DEF InsertResponse, TakeRow, TypeOK
  <2>3. (HostsWritten(t) /\ PackagesWritten(t))'
    BY <1>9, <2>1, <2>2, KeyTypes, RowTypes DEF InsertResponse, Held, AfterMatch,
       HostsWritten, PackagesWritten, Written, TypeOK
  <2>4. /\ MatchedOf(view[t], snap[t]) /\ snap[t] \notin ledger
        /\ stale[t] = Stale(findings, snap[t], view[t])
    BY <1>9 DEF InsertResponse, Held, AfterMatch
  <2>5. Held(t)'
    BY <2>1, <2>2, <2>3, <2>4 DEF Held, AfterMatch, tables
  <2>6. \A x \in Keys : lock[x] \in Handlers \ {t} => lock'[x] = lock[x]
    BY <1>9, NobodyAssumption DEF InsertResponse, TakeRow, TypeOK
  <2>7. QED
    BY <1>9, <2>5, <2>6, OthersKeep DEF InsertResponse, TakeRow, Kept, TypeOK
<1>10. ASSUME NEW t \in Handlers, DuplicateKey(t) PROVE Kept
  BY <1>10, EndKeeps DEF DuplicateKey, Kept
<1>11. ASSUME NEW t \in Handlers, TouchStatus(t) PROVE Kept
  <2>1. /\ pc'[t] = "commit" /\ snap'[t] = snap[t] /\ waiting'[t] = NoKey
        /\ view'[t] = view[t] /\ stale'[t] = stale[t] /\ UNCHANGED tables
    BY <1>11 DEF TouchStatus, TakeRow, TypeOK
  <2>2. \A x \in Keys : lock[x] = t => lock'[x] = t
    BY <1>11 DEF TouchStatus, TakeRow, TypeOK
  <2>3. (HostsWritten(t) /\ PackagesWritten(t))'
    BY <1>11, <2>1, <2>2, KeyTypes, RowTypes DEF TouchStatus, Held, AfterMatch,
       HostsWritten, PackagesWritten, Written, TypeOK
  <2>4. /\ MatchedOf(view[t], snap[t]) /\ snap[t] \notin ledger
        /\ lock[SnapshotRow(snap[t])] = t
        /\ stale[t] = Stale(findings, snap[t], view[t])
    BY <1>11 DEF TouchStatus, Held, AfterMatch
  <2>5. lock'[SnapshotRow(snap[t])] = t
    BY <2>2, <2>4, KeyTypes DEF TypeOK
  <2>6. Held(t)'
    BY <2>1, <2>3, <2>4, <2>5 DEF Held, AfterMatch, tables
  <2>7. \A x \in Keys : lock[x] \in Handlers \ {t} => lock'[x] = lock[x]
    BY <1>11, NobodyAssumption DEF TouchStatus, TakeRow, TypeOK
  <2>8. QED
    BY <1>11, <2>6, <2>7, OthersKeep DEF TouchStatus, TakeRow, Kept, TypeOK
<1>12. ASSUME NEW t \in Handlers, Commit(t) PROVE Kept
  <2>1. Held(t)'
    BY <1>12, HeldIdle DEF Commit, End, TypeOK
  <2>2. \A u \in Handlers \ {t} : Held(u)'
    BY <1>12, CommitOthers
  <2>3. QED BY <1>12, <2>1, <2>2, CommitOpenFindings DEF Kept
<1>13. ASSUME NEW t \in Handlers, Fail(t) PROVE Kept
  BY <1>13, EndKeeps DEF Fail, Kept
<1>14. ASSUME NEW t \in Handlers, DeadlockAbort(t) PROVE Kept
  BY <1>14, EndKeeps DEF DeadlockAbort, Kept
<1>15. ASSUME CatalogChange PROVE Kept
  <2>1. ASSUME NEW u \in Handlers PROVE Held(u)'
    <3>1. Held(u)
      OBVIOUS
    <3>2. waiting[u] # NoKey => pc[u] \in {"write", "response", "status"}
      BY <3>1 DEF Held
    <3>3. UNCHANGED <<pc, snap, view, stale, waiting, lock, findings, ledger>>
      BY <1>15 DEF CatalogChange, tables
    <3>4. QED BY <3>1, <3>2, <3>3, HeldStays
  <2>2. OpenFindingHasPackage'
    BY <1>15, OpenStays DEF CatalogChange, tables
  <2>3. QED BY <2>1, <2>2 DEF Kept
<1>16. ASSUME Crash PROVE Kept
  <2>1. ASSUME NEW u \in Handlers PROVE Held(u)'
    <3>1. pc'[u] = "idle" /\ waiting'[u] = NoKey
      BY <1>16 DEF Crash
    <3>2. QED BY <3>1, HeldIdle
  <2>2. OpenFindingHasPackage'
    BY <1>16, OpenStays DEF Crash, tables
  <2>3. QED BY <2>1, <2>2 DEF Kept
<1>17. QED
  <2>1. Kept
    BY <1>1, <1>2, <1>3, <1>4, <1>5, <1>6, <1>7, <1>8, <1>9, <1>10, <1>11,
       <1>12, <1>13, <1>14, <1>15, <1>16 DEF Next, Step
  <2>2. QED BY <1>0, <2>1 DEF Kept

LEMMA InvInit == Init => IInv
<1> SUFFICES ASSUME Init PROVE IInv
  OBVIOUS
<1>1. TypeOK
  BY DEF Init, TypeOK, HostStatus, FindingStatus, Statements
<1>2. \A t \in Handlers : Held(t)
  BY DEF Init, Held, AfterMatch
<1>3. OpenFindingHasPackage
  <2>1. \A f \in FindingKey : findings[f] = "none"
    BY DEF Init
  <2>2. QED BY <2>1 DEF OpenFindingHasPackage
<1>4. QED BY <1>1, <1>2, <1>3, IInvByHandler

(* The row locks do their work in every reachable state.                   *)
THEOREM LocksProtect == Spec => []IInv
BY InvInit, InvStep, PTL DEF Spec

(* No open finding is left on a package the inventory does not have.       *)
THEOREM OpenFindingsHavePackages == Spec => []OpenFindingHasPackage
<1>1. IInv => OpenFindingHasPackage
  BY DEF IInv
<1>2. QED BY <1>1, LocksProtect, PTL

(* What a transaction read of the open findings stands until it commits.   *)
THEOREM StaleReadsStand == Spec => []StaleReadStands
<1>1. IInv => StaleReadStands
  BY DEF IInv
<1>2. QED BY <1>1, LocksProtect, PTL

-----------------------------------------------------------------------------
(***************************************************************************)
(* The transactions implement the ledger.                                  *)
(***************************************************************************)
Phases == [t \in Handlers |-> Phase(pc[t])]

LEMMA PhaseOf ==
    /\ Phase("idle") = "idle"
    /\ Phase("lookup") = "asked"
    /\ Phase("write") = "asked"
    /\ \A x \in AfterMatch : Phase(x) = "looked"
BY DEF Phase, AfterMatch

(* A statement moves the phase of its own request only.                    *)
LEMMA PhaseStep ==
    ASSUME TypeOK, NEW t \in Handlers, NEW x,
           pc' = [pc EXCEPT ![t] = x]
    PROVE  Phases' = [Phases EXCEPT ![t] = Phase(x)]
BY DEF Phases, TypeOK

(* Ending a transaction is answering its request.                          *)
LEMMA EndAnswers ==
    ASSUME TypeOK, NEW t \in Handlers, NEW o, End(t, o)
    PROVE  Ledger!Answer(t, o)
<1>1. Phases' = [Phases EXCEPT ![t] = "idle"]
  <2>1. pc' = [pc EXCEPT ![t] = "idle"]
    BY DEF End
  <2>2. Phases' = [Phases EXCEPT ![t] = Phase("idle")]
    BY <2>1, PhaseStep
  <2>3. QED BY <2>2, PhaseOf
<1>2. QED BY <1>1 DEF End, Ledger!Answer, Phases

(* The ledger computes on the same data with the same operators.           *)
LEMMA SameData ==
    /\ \A c, s : Ledger!Matches(c, s) = Matches(c, s)
    /\ \A g, s, m : Ledger!Stale(g, s, m) = Stale(g, s, m)
    /\ \A g, m, r : Ledger!FindingsAfter(g, m, r) = FindingsAfter(g, m, r)
    /\ \A g, s : Ledger!HostsAfter(g, s) = HostsAfter(g, s)
    /\ \A g, s : Ledger!PackagesAfter(g, s) = PackagesAfter(g, s)
<1>1. \A c, s : Ledger!Matches(c, s) = Matches(c, s)
  BY DEF Ledger!Matches, Matches, Ledger!Active, Active, Ledger!Listed, Listed,
     Ledger!RowOf, RowOf, Ledger!HostDeleted, HostDeleted, Ledger!ListedHosts,
     ListedHosts, Ledger!FindingKey, FindingKey, Ledger!Flags, Flags
<1>2. \A g, s, m : Ledger!Stale(g, s, m) = Stale(g, s, m)
  BY DEF Ledger!Stale, Stale, Ledger!Listed, Listed, Ledger!FindingKey, FindingKey
<1>3. \A g, m, r : Ledger!FindingsAfter(g, m, r) = FindingsAfter(g, m, r)
  BY DEF Ledger!FindingsAfter, FindingsAfter, Ledger!FindingKey, FindingKey
<1>4. \A g, s : Ledger!HostsAfter(g, s) = HostsAfter(g, s)
  BY DEF Ledger!HostsAfter, HostsAfter, Ledger!ListedHosts, ListedHosts
<1>5. \A g, s : Ledger!PackagesAfter(g, s) = PackagesAfter(g, s)
  BY DEF Ledger!PackagesAfter, PackagesAfter, Ledger!Listed, Listed,
     Ledger!RowOf, RowOf
<1>6. QED BY <1>1, <1>2, <1>3, <1>4, <1>5

LEMMA EndRefuses ==
    ASSUME TypeOK, NEW t \in Handlers, pc[t] # "idle", End(t, "failed"),
           UNCHANGED tables
    PROVE  Ledger!Refuse(t)
<1>1. pc[t] \in {"lookup", "write"} \union AfterMatch
  BY DEF TypeOK, Statements, AfterMatch
<1>2. Phases[t] # "idle"
  BY <1>1, PhaseOf DEF Phases
<1>3. QED
  BY <1>2, EndAnswers DEF Ledger!Refuse, Ledger!tables, tables, Phases

LEMMA RefinementInit == Init => Ledger!Init
BY PhaseOf DEF Init, Ledger!Init, Ledger!FindingKey, FindingKey

LEMMA RefinementStep == IInv /\ [Next]_vars => [Ledger!Next]_(Ledger!vars)
<1> SUFFICES ASSUME IInv, [Next]_vars PROVE [Ledger!Next]_(Ledger!vars)
  OBVIOUS
<1>0. TypeOK
  BY DEF IInv
<1> DEFINE Same == UNCHANGED Ledger!vars
           Moved == Ledger!Next
<1>1. ASSUME UNCHANGED vars PROVE Same
  BY <1>1 DEF vars, tables, Ledger!vars, Ledger!tables
<1>2. ASSUME NEW t \in Handlers, NEW s \in Snapshots, Begin(t, s) PROVE Moved
  <2>1. Phases' = [Phases EXCEPT ![t] = Phase("lookup")]
    BY <1>0, <1>2, PhaseStep DEF Begin
  <2>2. Phases[t] = "idle"
    BY <1>2, PhaseOf DEF Begin, Phases
  <2>3. Ledger!Ask(t, s)
    BY <1>2, <2>1, <2>2, PhaseOf
       DEF Begin, Ledger!Ask, Ledger!tables, tables, Phases
  <2>4. QED BY <2>3 DEF Ledger!Next
<1>3. ASSUME NEW t \in Handlers, Replay(t) PROVE Moved
  <2>1. Ledger!Replay(t)
    BY <1>0, <1>3, EndAnswers, PhaseOf
       DEF Replay, Ledger!Replay, Ledger!tables, tables
  <2>2. QED BY <2>1 DEF Ledger!Next
<1>4. ASSUME NEW t \in Handlers, LookupMiss(t) PROVE Same
  <2>1. Phases' = Phases
    BY <1>0, <1>4, PhaseStep, PhaseOf DEF LookupMiss, Phases
  <2>2. QED
    BY <1>4, <2>1 DEF LookupMiss, Ledger!vars, Ledger!tables, tables, Phases
<1>5. ASSUME NEW t \in Handlers, NEW k \in Keys, UpsertRow(t, k) PROVE Same
  BY <1>5 DEF UpsertRow, Ledger!vars, Ledger!tables, tables
<1>6. ASSUME NEW t \in Handlers, NEW k \in Keys, Wait(t, k) PROVE Same
  BY <1>6 DEF Wait, Ledger!vars, Ledger!tables, tables
<1>7. ASSUME NEW t \in Handlers, MatchFindings(t) PROVE Moved
  <2>1. Phase("resolve") = "looked" /\ Phase("write") = "asked"
    BY PhaseOf DEF AfterMatch
  <2>2. Phases' = [Phases EXCEPT ![t] = Phase("resolve")]
    BY <1>0, <1>7, PhaseStep DEF MatchFindings
  <2>3. Phases[t] = "asked"
    BY <1>7, <2>1 DEF MatchFindings, Phases
  <2>4. Ledger!Look(t)
    BY <1>7, <2>1, <2>2, <2>3, SameData
       DEF MatchFindings, Ledger!Look, Ledger!tables, tables, Phases
  <2>5. QED BY <2>4 DEF Ledger!Next
<1>8. ASSUME NEW t \in Handlers, ResolveStale(t) PROVE Same
  <2>1. Phases' = Phases
    BY <1>0, <1>8, PhaseStep, PhaseOf DEF ResolveStale, Phases, AfterMatch
  <2>2. QED
    BY <1>8, <2>1 DEF ResolveStale, Ledger!vars, Ledger!tables, tables, Phases
<1>9. ASSUME NEW t \in Handlers, InsertResponse(t) PROVE Same
  <2>1. Phases' = Phases
    BY <1>0, <1>9, PhaseStep, PhaseOf DEF InsertResponse, Phases, AfterMatch
  <2>2. QED
    BY <1>9, <2>1 DEF InsertResponse, Ledger!vars, Ledger!tables, tables, Phases
<1>10. ASSUME NEW t \in Handlers, DuplicateKey(t) PROVE Moved
  BY <1>0, <1>10, EndRefuses DEF DuplicateKey, Ledger!Next
<1>11. ASSUME NEW t \in Handlers, TouchStatus(t) PROVE Same
  <2>1. Phases' = Phases
    BY <1>0, <1>11, PhaseStep, PhaseOf DEF TouchStatus, Phases, AfterMatch
  <2>2. QED
    BY <1>11, <2>1 DEF TouchStatus, Ledger!vars, Ledger!tables, tables, Phases
<1>12. ASSUME NEW t \in Handlers, Commit(t) PROVE Moved
  <2>1. /\ snap[t] \notin ledger
        /\ stale[t] = Stale(findings, snap[t], view[t])
    BY <1>12, IInvByHandler DEF Commit, Held
  <2>2. Phase(pc[t]) = "looked"
    BY <1>12, PhaseOf DEF Commit, AfterMatch
  <2>3. \E o \in {"applied", "failed"} : Ledger!Answer(t, o)
    BY <1>0, <1>12, EndAnswers DEF Commit
  <2>4. Ledger!Apply(t)
    BY <1>12, <2>1, <2>2, <2>3, SameData DEF Commit, Ledger!Apply
  <2>5. QED BY <2>4 DEF Ledger!Next
<1>13. ASSUME NEW t \in Handlers, Fail(t) PROVE Moved
  BY <1>0, <1>13, EndRefuses DEF Fail, Ledger!Next
<1>14. ASSUME NEW t \in Handlers, DeadlockAbort(t) PROVE Moved
  <2>1. waiting[t] # NoKey
    BY <1>14 DEF DeadlockAbort, Deadlocked
  <2>2. pc[t] # "idle"
    BY <2>1 DEF IInv, OnlyWritersWait
  <2>3. QED BY <1>0, <1>14, <2>2, EndRefuses DEF DeadlockAbort, Ledger!Next
<1>15. ASSUME CatalogChange PROVE Moved
  <2>1. catalog' \in SUBSET Affected
    BY <1>0, <1>15 DEF CatalogChange, TypeOK
  <2>2. QED
    BY <1>15, <2>1 DEF CatalogChange, Ledger!CatalogChange, Ledger!Next,
       Ledger!tables, tables
<1>16. ASSUME Crash PROVE Moved
  BY <1>16, PhaseOf DEF Crash, Ledger!Crash, Ledger!Next, Ledger!tables, tables
<1>17. QED
  <2>1. Same \/ Moved
    BY <1>1, <1>2, <1>3, <1>4, <1>5, <1>6, <1>7, <1>8, <1>9, <1>10, <1>11,
       <1>12, <1>13, <1>14, <1>15, <1>16 DEF Next, Step
  <2>2. QED BY <2>1

(* Statement by statement, under row locks, failures and crashes, the      *)
(* store is the ledger: each snapshot applied at once and at most once.    *)
THEOREM StoreImplementsLedger == Spec => ImplementsLedger
BY RefinementInit, RefinementStep, LocksProtect, PTL
   DEF Spec, Ledger!Spec, ImplementsLedger
=============================================================================
