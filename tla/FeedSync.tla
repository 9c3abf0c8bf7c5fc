------------------------------- MODULE FeedSync -------------------------------
(***************************************************************************)
(* Feed synchronisation (internal/feed/syncer.go over the catalog tables   *)
(* of internal/store/postgres.go): the startup run, which Run starts in a  *)
(* goroutine of its own, and the runs of the ticker go through the enabled *)
(* sources one by one, at the same time and on the same tables.  Every row *)
(* is a statement with its own commit; any call may fail; the process may  *)
(* stop anywhere.                                                          *)
(*                                                                         *)
(* What a source publishes changes while runs are at work: each source has *)
(* editions, and a fetch returns the edition of its moment.                *)
(***************************************************************************)
EXTENDS Naturals, Sequences

CONSTANTS Sources, Rank,     \* the sources, in the order of buildSources
          Cves, Packages,
          Severities, Unknown,
          LastModified,      \* bound of modified_at, counted from 1
          Editions           \* of each source, in the order it publishes them
ASSUME RankAssumption ==
    /\ Rank \in [Sources -> Nat]
    /\ \A s, q \in Sources : Rank[s] = Rank[q] => s = q
ASSUME SeverityAssumption == Unknown \in Severities

(* cve_records, 0 for a NULL modified_at; affected_packages by unique key. *)
Record == [rejected : BOOLEAN, exploited : BOOLEAN, severity : Severities,
           modified : 0 .. LastModified]
AffectedRow == [source : Sources, cve : Cves, package : Packages]

CONSTANT NoRecord
ASSUME NoRecordAssumption == NoRecord \notin Record

(* The parsers list the CVE of every affected package among the records.   *)
ASSUME EditionsAssumption ==
    \A s \in Sources :
        /\ Len(Editions[s]) \in Nat \ {0}
        /\ DOMAIN Editions[s] = 1 .. Len(Editions[s])
        /\ \A e \in DOMAIN Editions[s] :
              /\ Editions[s][e].records \in UNION {[D -> Record] : D \in SUBSET Cves}
              /\ \A a \in Editions[s][e].affected :
                    a \in AffectedRow /\ a.cve \in DOMAIN Editions[s][e].records

(* One source dates a CVE: the records of cisa.go have no ModifiedAt.      *)
ASSUME DatesAssumption ==
    \A s, q \in Sources :
        s # q => \A e \in DOMAIN Editions[s], f \in DOMAIN Editions[q] :
                   \A c \in DOMAIN Editions[s][e].records
                            \intersect DOMAIN Editions[q][f].records :
                      \/ Editions[s][e].records[c].modified = 0
                      \/ Editions[q][f].records[c].modified = 0

Runs == {"startup", "ticker"}

VARIABLES edition,     \* what each source publishes now
          enabled,     \* the effective source configuration
          records,     \* cve_records
          affected,    \* affected_packages
          status,      \* feed_source_status
          pc,          \* where a run is
          queue,       \* its sources, the current one included
          fetched,     \* the edition it fetched from the current source
          rest,        \* the rows of it still to be written
          failed       \* result.Error # ""
(* Has another run written a row of the same source since the fetch?       *)
VARIABLE raced

tables == <<records, affected, status>>
run == <<pc, queue, fetched, rest, failed, raced>>
vars == <<edition, enabled, tables, run>>

Status == [attempted : BOOLEAN, succeeded : BOOLEAN, error : BOOLEAN]

TypeOK ==
    /\ edition \in [Sources -> Nat]
    /\ \A s \in Sources : edition[s] \in DOMAIN Editions[s]
    /\ enabled \in [Sources -> BOOLEAN]
    /\ records \in [Cves -> Record \union {NoRecord}]
    /\ affected \subseteq AffectedRow
    /\ status \in [Sources -> Status]
    /\ pc \in [Runs -> {"idle", "load", "fetch", "records", "affected", "result"}]
    /\ queue \in [Runs -> SUBSET Sources]
    /\ fetched \in [Runs -> Nat]
    /\ rest \in [Runs -> SUBSET (Cves \union AffectedRow)]
    /\ failed \in [Runs -> BOOLEAN]
    /\ raced \in [Runs -> BOOLEAN]

Init ==
    /\ edition = [s \in Sources |-> 1]
    /\ enabled \in [Sources -> BOOLEAN]
    /\ records = [c \in Cves |-> NoRecord]
    /\ affected = {}
    /\ status = [s \in Sources |->
                   [attempted |-> FALSE, succeeded |-> FALSE, error |-> FALSE]]
    /\ pc = [r \in Runs |-> IF r = "startup" THEN "load" ELSE "idle"]
    /\ queue = [r \in Runs |-> {}]
    /\ fetched = [r \in Runs |-> 1]
    /\ rest = [r \in Runs |-> {}]
    /\ failed = [r \in Runs |-> FALSE]
    /\ raced = [r \in Runs |-> FALSE]

(* The source a run is at.                                                 *)
Current(r) == CHOOSE s \in queue[r] : \A q \in queue[r] : Rank[s] <= Rank[q]
Fetched(r) == Editions[Current(r)][fetched[r]]

(* A bug for comparison: modified_at without COALESCE.                     *)
MergeOverwritingDates(old, new) ==
    IF old = NoRecord THEN new
    ELSE [rejected |-> new.rejected \/ old.rejected,
          exploited |-> new.exploited \/ old.exploited,
          severity |-> IF new.severity # Unknown THEN new.severity ELSE old.severity,
          modified |-> new.modified]

(* ON CONFLICT (cve_id) DO UPDATE.                                         *)
Merge(old, new) ==
    IF old = NoRecord THEN new
    ELSE [rejected |-> new.rejected \/ old.rejected,
          exploited |-> new.exploited \/ old.exploited,
          severity |-> IF new.severity # Unknown THEN new.severity ELSE old.severity,
          modified |-> IF new.modified # 0 THEN new.modified ELSE old.modified]

-----------------------------------------------------------------------------
Tick ==
    /\ pc["ticker"] = "idle"
    /\ pc' = [pc EXCEPT !["ticker"] = "load"]
    /\ UNCHANGED <<edition, enabled, tables, queue, fetched, rest, failed, raced>>

(* The next source of a run, or the end of its cycle.                      *)
GoOn(r, sources) ==
    /\ queue' = [queue EXCEPT ![r] = sources]
    /\ pc' = [pc EXCEPT ![r] = IF sources = {} THEN "idle" ELSE "fetch"]
    /\ fetched' = [fetched EXCEPT ![r] = 1]
    /\ rest' = [rest EXCEPT ![r] = {}]
    /\ failed' = [failed EXCEPT ![r] = FALSE]
    /\ raced' = [raced EXCEPT ![r] = FALSE]

(* SourceProvider: the saved settings over the configured ones.            *)
Load(r) ==
    /\ pc[r] = "load"
    /\ GoOn(r, {s \in Sources : enabled[s]})
    /\ UNCHANGED <<edition, enabled, tables>>

(* A bug for comparison: a failed cycle ends the loop of Run.              *)
LoadFailsForGood(r) ==
    /\ pc[r] = "load"
    /\ pc' = [pc EXCEPT ![r] = "stopped"]
    /\ UNCHANGED <<edition, enabled, tables, queue, fetched, rest, failed, raced>>

LoadFails(r) ==
    /\ pc[r] = "load"
    /\ GoOn(r, {})
    /\ UNCHANGED <<edition, enabled, tables>>

(* Where a run is when these rows of its fetch are left to be written.     *)
Proceed(r, recordsLeft, affectedLeft) ==
    /\ pc' = [pc EXCEPT ![r] = IF recordsLeft # {} THEN "records"
                               ELSE IF affectedLeft # {} THEN "affected"
                               ELSE "result"]
    /\ rest' = [rest EXCEPT ![r] =
                  IF recordsLeft # {} THEN recordsLeft ELSE affectedLeft]

(* A bug for comparison: the affected packages are written first.          *)
FetchAffectedFirst(r) ==
    LET e == edition[Current(r)]
    IN  /\ pc[r] = "fetch"
        /\ fetched' = [fetched EXCEPT ![r] = e]
        /\ Proceed(r, {}, Editions[Current(r)][e].affected)
        /\ UNCHANGED <<edition, enabled, tables, queue, failed, raced>>

Fetch(r) ==
    LET e == edition[Current(r)]
    IN  /\ pc[r] = "fetch"
        /\ fetched' = [fetched EXCEPT ![r] = e]
        /\ Proceed(r, DOMAIN Editions[Current(r)][e].records,
                      Editions[Current(r)][e].affected)
        /\ UNCHANGED <<edition, enabled, tables, queue, failed, raced>>

(* A failed fetch or upsert: what is left of the source is dropped and the *)
(* error recorded; the rows already written stay.                          *)
SourceFails(r) ==
    /\ pc' = [pc EXCEPT ![r] = "result"]
    /\ failed' = [failed EXCEPT ![r] = TRUE]
    /\ fetched' = [fetched EXCEPT ![r] = 1]
    /\ rest' = [rest EXCEPT ![r] = {}]
    /\ UNCHANGED <<edition, enabled, status, queue>>

(* A bug for comparison: a failed fetch returns from SyncOnce.             *)
FetchFailsForAll(r) ==
    /\ pc[r] = "fetch"
    /\ GoOn(r, {})
    /\ UNCHANGED <<edition, enabled, tables>>

FetchFails(r) ==
    /\ pc[r] = "fetch"
    /\ SourceFails(r)
    /\ UNCHANGED <<records, affected, raced>>

MarkRaced(r) ==
    raced' = [q \in Runs |->
                \/ raced[q]
                \/ /\ q # r
                   /\ pc[q] \in {"records", "affected", "result"} /\ ~failed[q]
                   /\ Current(q) = Current(r)]

(* The statements.                                                         *)
WriteRecord(r, c) ==
    /\ pc[r] = "records"
    /\ c \in rest[r]
    /\ records' = [records EXCEPT ![c] = Merge(@, Fetched(r).records[c])]
    /\ MarkRaced(r)
    /\ UNCHANGED affected

(* A new unique key is a new row: no affected package is ever deleted.     *)
WritePackage(r, a) ==
    /\ pc[r] = "affected"
    /\ a \in rest[r]
    /\ records[a.cve] # NoRecord          \* the foreign key
    /\ affected' = affected \union {a}
    /\ MarkRaced(r)
    /\ UNCHANGED records

UpsertCVERecord(r, c) ==
    /\ WriteRecord(r, c)
    /\ Proceed(r, rest[r] \ {c}, Fetched(r).affected)
    /\ UNCHANGED <<edition, enabled, status, queue, fetched, failed>>

UpsertAffectedPackage(r, a) ==
    /\ WritePackage(r, a)
    /\ Proceed(r, {}, rest[r] \ {a})
    /\ UNCHANGED <<edition, enabled, status, queue, fetched, failed>>

(* A bug for comparison: the error of an upsert is not kept.               *)
UpsertFailsQuietly(r) ==
    /\ pc[r] \in {"records", "affected"}
    /\ pc' = [pc EXCEPT ![r] = "result"]
    /\ rest' = [rest EXCEPT ![r] = {}]
    /\ UNCHANGED <<edition, enabled, tables, queue, fetched, failed, raced>>

(* The row is not written, or it is and the answer is lost.                *)
UpsertFails(r) ==
    /\ pc[r] \in {"records", "affected"}
    /\ \/ UNCHANGED <<records, affected, raced>>
       \/ \E c \in Cves : WriteRecord(r, c)
       \/ \E a \in AffectedRow : WritePackage(r, a)
    /\ SourceFails(r)

(* RecordSourceResult: the last success stays when an attempt fails.       *)
StatusAfter(s, error) ==
    status' = [status EXCEPT ![s] = [attempted |-> TRUE,
                                     succeeded |-> ~error \/ @.succeeded,
                                     error |-> error]]

RecordResult(r) ==
    /\ pc[r] = "result"
    /\ StatusAfter(Current(r), failed[r])
    /\ GoOn(r, queue[r] \ {Current(r)})
    /\ UNCHANGED <<edition, enabled, records, affected>>

(* Its failure ends the cycle, the sources after this one unvisited.       *)
RecordResultFails(r) ==
    /\ pc[r] = "result"
    /\ StatusAfter(Current(r), failed[r]) \/ UNCHANGED status
    /\ GoOn(r, {})
    /\ UNCHANGED <<edition, enabled, records, affected>>

-----------------------------------------------------------------------------
(* The sources, the operator (the forms of the status page), the process.  *)
Publish(s) ==
    /\ edition[s] + 1 \in DOMAIN Editions[s]
    /\ edition' = [edition EXCEPT ![s] = @ + 1]
    /\ UNCHANGED <<enabled, tables, run>>

Configure(s) ==
    /\ enabled' = [enabled EXCEPT ![s] = ~@]
    /\ UNCHANGED <<edition, tables, run>>

Restart ==
    /\ pc' = [r \in Runs |-> IF r = "startup" THEN "load" ELSE "idle"]
    /\ queue' = [r \in Runs |-> {}]
    /\ fetched' = [r \in Runs |-> 1]
    /\ rest' = [r \in Runs |-> {}]
    /\ failed' = [r \in Runs |-> FALSE]
    /\ raced' = [r \in Runs |-> FALSE]
    /\ UNCHANGED <<edition, enabled, tables>>

Step(r) ==
    \/ Load(r)
    \/ Fetch(r)
    \/ FetchFails(r)
    \/ \E c \in Cves : UpsertCVERecord(r, c)
    \/ \E a \in AffectedRow : UpsertAffectedPackage(r, a)
    \/ RecordResult(r)

StoreFails(r) == LoadFails(r) \/ UpsertFails(r) \/ RecordResultFails(r)

Environment ==
    \/ \E s \in Sources : Publish(s) \/ Configure(s)
    \/ Restart

Next ==
    \/ Tick
    \/ \E r \in Runs : Step(r) \/ StoreFails(r)
    \/ Environment

Spec == Init /\ [][Next]_vars

(* Every fetch returns (each HTTP call has a timeout), every statement     *)
(* does, well or not, and the ticker fires again.  Feeds may fail as often *)
(* as they like, and so may the database and the process.                  *)
Fairness == WF_vars(Tick) /\ \A r \in Runs : WF_vars(Step(r))
FairSpec == Spec /\ Fairness
-----------------------------------------------------------------------------
(* A source shown as having succeeded is in the catalog: some edition of   *)
(* it in full, every CVE present, its rejected and known-exploited marks   *)
(* set and its severity known, whatever the other source, a partial run or *)
(* a restart wrote since.                                                  *)
Holds(row, new) ==
    /\ row # NoRecord
    /\ new.rejected => row.rejected
    /\ new.exploited => row.exploited
    /\ new.severity # Unknown => row.severity # Unknown
    /\ new.modified # 0 => row.modified # 0

SucceededIsInCatalog ==
    \A s \in Sources :
        status[s].succeeded =>
            \E e \in 1 .. edition[s] :
                /\ \A c \in DOMAIN Editions[s][e].records :
                      Holds(records[c], Editions[s][e].records[c])
                /\ Editions[s][e].affected \subseteq affected

(* A run that records a success left the dates it fetched in the catalog,  *)
(* unless the other run was at the same source: the other source, which    *)
(* writes the same rows at the same time, takes nothing away.              *)
OwnDatesStand ==
    \A r \in Runs :
        pc[r] = "result" /\ ~failed[r] /\ ~raced[r] =>
            \A c \in DOMAIN Fetched(r).records :
                LET m == Fetched(r).records[c].modified
                IN  m # 0 => records[c] # NoRecord /\ records[c].modified = m

(* No affected package of a fetch is refused by the foreign key.           *)
ForeignKeysHold ==
    \A r \in Runs : pc[r] = "affected" => \A a \in rest[r] : records[a.cve] # NoRecord

(* A source that stays enabled is attempted again and again, however often *)
(* the sources before it fail (syncer_test.go: one failure, the next source*)
(* goes on), unless store calls fail or the process restarts for ever.     *)
EnabledIsAttempted ==
    \A s \in Sources :
        <>[]enabled[s] =>
            \/ []<>(\E r \in Runs : pc[r] = "fetch" /\ Current(r) = s)
            \/ []<><<Restart \/ \E r \in Runs : StoreFails(r)>>_vars
=============================================================================
