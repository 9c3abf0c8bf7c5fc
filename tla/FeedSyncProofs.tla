---------------------------- MODULE FeedSyncProofs ----------------------------
(***************************************************************************)
(* Proofs about FeedSync, for any sources, editions, CVEs and packages.    *)
(* The inductive invariant says of each run which rows of its fetch are in *)
(* the catalog by now; what makes it stand against the other run is that a *)
(* merge takes nothing away (MergeKeeps), dates of another source excepted *)
(* (DatesAssumption).                                                      *)
(***************************************************************************)
EXTENDS FeedSync, WellFoundedInduction, TLAPS

Busy == {"records", "affected", "result"}

(* The rows of a fetch that are written.                                   *)
RecordsWritten(r) == {c \in DOMAIN Fetched(r).records : pc[r] = "records" => c \notin rest[r]}
AffectedWritten(r) ==
    {a \in Fetched(r).affected : /\ pc[r] # "records"
                                 /\ pc[r] = "affected" => a \notin rest[r]}

Dated(row, m) == m # 0 => row # NoRecord /\ row.modified = m

Work(r) ==
    /\ failed[r] => pc[r] = "result"
    /\ pc[r] \in Busy \union {"fetch"} => Current(r) \in queue[r]
    /\ pc[r] = "records" => rest[r] \subseteq DOMAIN Fetched(r).records
    /\ pc[r] = "affected" => rest[r] \subseteq Fetched(r).affected
    /\ pc[r] \in Busy /\ ~failed[r] =>
          /\ fetched[r] \in DOMAIN Editions[Current(r)]
          /\ fetched[r] <= edition[Current(r)]
          /\ \A c \in RecordsWritten(r) : Holds(records[c], Fetched(r).records[c])
          /\ AffectedWritten(r) \subseteq affected
          /\ ~raced[r] => \A c \in RecordsWritten(r) :
                              Dated(records[c], Fetched(r).records[c].modified)

IInv == /\ TypeOK
        /\ \A r \in Runs : Work(r)
        /\ SucceededIsInCatalog

-----------------------------------------------------------------------------
(* There is a first one among any sources.                                 *)
LEMMA CurrentIsQueued ==
    ASSUME NEW Q \in SUBSET Sources, Q # {}
    PROVE  (CHOOSE s \in Q : \A q \in Q : Rank[s] <= Rank[q]) \in Q
<1> DEFINE ranks == {Rank[s] : s \in Q}
<1>1. ranks \subseteq Nat /\ ranks # {}
  BY RankAssumption
<1>2. IsWellFoundedOn(OpToRel(<, Nat), Nat)
  BY NatLessThanWellFounded
<1>3. PICK n \in ranks : \A k \in ranks : <<k, n>> \notin OpToRel(<, Nat)
  BY <1>1, <1>2, WFMin
<1>4. ASSUME NEW k \in Nat, NEW m \in Nat, k < m
      PROVE  <<k, m>> \in OpToRel(<, Nat)
  BY <1>4 DEF OpToRel
<1>5. \A k \in ranks : n <= k
  <2>1. ASSUME NEW k \in ranks PROVE ~(k < n)
    BY <1>1, <1>3, <1>4
  <2>2. ASSUME NEW k \in Nat, NEW m \in Nat, ~(k < m) PROVE m <= k
    BY <2>2
  <2>3. QED BY <1>1, <2>1, <2>2
<1>6. PICK s \in Q : Rank[s] = n
  BY <1>3
<1>7. \A q \in Q : Rank[s] <= Rank[q]
  BY <1>5, <1>6
<1>8. QED BY <1>7

LEMMA EditionTypes ==
    ASSUME NEW s \in Sources, NEW e \in DOMAIN Editions[s]
    PROVE  /\ e \in Nat \ {0}
           /\ DOMAIN Editions[s][e].records \subseteq Cves
           /\ \A c \in DOMAIN Editions[s][e].records :
                 Editions[s][e].records[c] \in Record
           /\ Editions[s][e].affected \subseteq AffectedRow
           /\ \A a \in Editions[s][e].affected :
                 a.cve \in DOMAIN Editions[s][e].records
<1> HIDE DEF Record
<1>0. Editions[s][e].records \in UNION {[D -> Record] : D \in SUBSET Cves}
  BY EditionsAssumption
<1>1. PICK D \in SUBSET Cves : Editions[s][e].records \in [D -> Record]
  BY <1>0
<1>2. e \in Nat \ {0}
  BY EditionsAssumption
<1>3. Editions[s][e].affected \subseteq AffectedRow
  BY EditionsAssumption
<1>4. \A a \in Editions[s][e].affected : a.cve \in DOMAIN Editions[s][e].records
  BY EditionsAssumption
<1>5. QED BY <1>1, <1>2, <1>3, <1>4

(* ON CONFLICT DO UPDATE keeps what there was, and what is merged in holds.*)
LEMMA MergeKeeps ==
    ASSUME NEW old \in Record \union {NoRecord}, NEW new \in Record
    PROVE  /\ Merge(old, new) \in Record
           /\ Merge(old, new) # NoRecord
           /\ Holds(Merge(old, new), new)
           /\ \A x \in Record : Holds(old, x) => Holds(Merge(old, new), x)
           /\ Dated(Merge(old, new), new.modified)
           /\ \A m : Dated(old, m) /\ (m = 0 \/ new.modified = 0) =>
                        Dated(Merge(old, new), m)
<1>1. Merge(old, new) \in Record
  BY DEF Merge, Record
<1>2. Merge(old, new) # NoRecord
  BY <1>1, NoRecordAssumption
<1>3. Holds(Merge(old, new), new)
  BY <1>2 DEF Merge, Holds, Record
<1>4. ASSUME NEW x \in Record, Holds(old, x) PROVE Holds(Merge(old, new), x)
  BY <1>2, <1>4 DEF Merge, Holds, Record
<1>5. Dated(Merge(old, new), new.modified)
  BY <1>2 DEF Merge, Dated, Record
<1>6. ASSUME NEW m, Dated(old, m), m = 0 \/ new.modified = 0
      PROVE  Dated(Merge(old, new), m)
  BY <1>2, <1>6 DEF Merge, Dated, Record
<1>7. QED BY <1>1, <1>2, <1>3, <1>4, <1>5, <1>6

-----------------------------------------------------------------------------
LEMMA InitHolds == Init => IInv
<1> SUFFICES ASSUME Init PROVE IInv
  OBVIOUS
<1>1. TypeOK
  BY EditionsAssumption DEF Init, TypeOK, Status
<1>2. ASSUME NEW r \in Runs PROVE Work(r)
  BY DEF Init, Work, Busy
<1>3. SucceededIsInCatalog
  BY DEF Init, SucceededIsInCatalog
<1>4. QED BY <1>1, <1>2, <1>3 DEF IInv

Stands(r) == /\ pc'[r] = pc[r] /\ queue'[r] = queue[r]
             /\ fetched'[r] = fetched[r] /\ rest'[r] = rest[r]
             /\ failed'[r] = failed[r]

LEMMA CurrentStays ==
    ASSUME NEW r \in Runs, queue'[r] = queue[r]
    PROVE  Current(r)' = Current(r)
BY DEF Current

LEMMA CurrentIsSource ==
    ASSUME TypeOK, NEW r \in Runs, Work(r), pc[r] \in Busy \union {"fetch"}
    PROVE  Current(r) \in Sources
BY DEF Work, TypeOK

(* A run that stands keeps its part while the catalog only gains: its rows *)
(* stay in it, and their dates unless it is marked as raced.               *)
LEMMA StandsKeeps ==
    ASSUME NEW r \in Runs, Work(r), Stands(r),
           affected \subseteq affected',
           pc[r] \in Busy /\ ~failed[r] =>
              /\ fetched[r] <= edition[Current(r)] =>
                    fetched[r] <= edition'[Current(r)]
              /\ \A c \in RecordsWritten(r) :
                    Holds(records[c], Fetched(r).records[c]) =>
                       Holds(records'[c], Fetched(r).records[c])
              /\ ~raced'[r] =>
                    /\ ~raced[r]
                    /\ \A c \in RecordsWritten(r) :
                          Dated(records[c], Fetched(r).records[c].modified) =>
                             Dated(records'[c], Fetched(r).records[c].modified)
    PROVE  Work(r)'
<1>1. Current(r)' = Current(r)
  BY CurrentStays DEF Stands
<1>2. Fetched(r)' = Fetched(r)
  BY <1>1 DEF Fetched, Stands
<1>3. RecordsWritten(r)' = RecordsWritten(r) /\ AffectedWritten(r)' = AffectedWritten(r)
  BY <1>2 DEF RecordsWritten, AffectedWritten, Stands
<1>4. /\ failed'[r] => pc'[r] = "result"
      /\ pc'[r] \in Busy \union {"fetch"} => Current(r)' \in queue'[r]
      /\ pc'[r] = "records" => rest'[r] \subseteq DOMAIN Fetched(r)'.records
      /\ pc'[r] = "affected" => rest'[r] \subseteq Fetched(r)'.affected
  BY <1>1, <1>2 DEF Work, Stands
<1>5. ASSUME pc'[r] \in Busy, ~failed'[r]
      PROVE  /\ fetched'[r] \in DOMAIN Editions[Current(r)']
             /\ fetched'[r] <= edition'[Current(r)']
             /\ \A c \in RecordsWritten(r)' : Holds(records'[c], Fetched(r)'.records[c])
             /\ AffectedWritten(r)' \subseteq affected'
             /\ ~raced'[r] => \A c \in RecordsWritten(r)' :
                                 Dated(records'[c], Fetched(r)'.records[c].modified)
  <2>1. pc[r] \in Busy /\ ~failed[r]
    BY <1>5 DEF Stands
  <2>2. /\ fetched[r] \in DOMAIN Editions[Current(r)]
        /\ fetched[r] <= edition[Current(r)]
        /\ \A c \in RecordsWritten(r) : Holds(records[c], Fetched(r).records[c])
        /\ AffectedWritten(r) \subseteq affected
        /\ ~raced[r] => \A c \in RecordsWritten(r) :
                            Dated(records[c], Fetched(r).records[c].modified)
    BY <2>1 DEF Work
  <2> HIDE DEF RecordsWritten, AffectedWritten, Fetched, Current, Holds, Dated
  <2>3. /\ \A c \in RecordsWritten(r) : Holds(records'[c], Fetched(r).records[c])
        /\ ~raced'[r] => \A c \in RecordsWritten(r) :
                            Dated(records'[c], Fetched(r).records[c].modified)
    BY <2>1, <2>2
  <2>4. /\ fetched'[r] \in DOMAIN Editions[Current(r)']
        /\ fetched'[r] <= edition'[Current(r)']
    BY <1>1, <2>1, <2>2 DEF Stands
  <2>5. AffectedWritten(r)' \subseteq affected'
    BY <1>3, <2>2
  <2>6. QED BY <1>2, <1>3, <2>3, <2>4, <2>5
<1>6. QED BY <1>4, <1>5 DEF Work

(* What a source has in the catalog stays there.                           *)
LEMMA CatalogKeeps ==
    ASSUME TypeOK, SucceededIsInCatalog,
           \A s \in Sources : edition[s] <= edition'[s] /\ edition'[s] \in Nat,
           \A s \in Sources : status'[s].succeeded => status[s].succeeded,
           \A c \in Cves : \A x \in Record : Holds(records[c], x) => Holds(records'[c], x),
           affected \subseteq affected'
    PROVE  SucceededIsInCatalog'
<1> SUFFICES ASSUME NEW s \in Sources, status'[s].succeeded
             PROVE  \E e \in 1 .. edition'[s] :
                       /\ \A c \in DOMAIN Editions[s][e].records :
                             Holds(records'[c], Editions[s][e].records[c])
                       /\ Editions[s][e].affected \subseteq affected'
  BY DEF SucceededIsInCatalog
<1>1. PICK e \in 1 .. edition[s] :
         /\ \A c \in DOMAIN Editions[s][e].records :
               Holds(records[c], Editions[s][e].records[c])
         /\ Editions[s][e].affected \subseteq affected
  BY DEF SucceededIsInCatalog
<1>2. e \in 1 .. edition'[s]
  BY DEF TypeOK
<1>3. \A c \in DOMAIN Editions[s][e].records :
         c \in Cves /\ Editions[s][e].records[c] \in Record
  <2>1. e \in DOMAIN Editions[s]
    BY EditionsAssumption DEF TypeOK
  <2>2. QED BY <2>1, EditionTypes
<1>4. QED BY <1>1, <1>2, <1>3

(* A run that stands while no row is written.                              *)
LEMMA QuietKeeps ==
    ASSUME IInv, NEW r \in Runs, Stands(r), raced'[r] = raced[r],
           UNCHANGED <<records, affected>>,
           edition' \in [Sources -> Nat],
           \A s \in Sources : edition[s] <= edition'[s]
    PROVE  Work(r)'
<1>1. TypeOK /\ Work(r)
  BY DEF IInv
<1>2. ASSUME pc[r] \in Busy, fetched[r] <= edition[Current(r)]
      PROVE  fetched[r] <= edition'[Current(r)]
  <2>1. Current(r) \in Sources
    BY <1>1, <1>2, CurrentIsSource
  <2>2. fetched[r] \in Nat /\ edition[Current(r)] \in Nat /\ edition'[Current(r)] \in Nat
    BY <1>1, <2>1 DEF TypeOK
  <2>3. edition[Current(r)] <= edition'[Current(r)]
    BY <2>1
  <2> HIDE DEF Current
  <2>4. QED BY <1>2, <2>2, <2>3
<1>3. QED BY <1>1, <1>2, StandsKeeps

(* A step of one run that leaves the catalog alone.                        *)
LEMMA QuietStep ==
    ASSUME IInv, NEW r \in Runs, TypeOK', Work(r)',
           \A q \in Runs \ {r} : Stands(q) /\ raced'[q] = raced[q],
           UNCHANGED <<edition, records, affected>>,
           \A s \in Sources : status'[s].succeeded => status[s].succeeded
    PROVE  IInv'
<1>1. TypeOK /\ edition' \in [Sources -> Nat] /\ \A s \in Sources : edition[s] <= edition'[s]
  BY DEF IInv, TypeOK
<1>2. ASSUME NEW q \in Runs \ {r} PROVE Work(q)'
  BY <1>1, QuietKeeps
<1>3. SucceededIsInCatalog'
  BY <1>1, CatalogKeeps DEF IInv
<1>4. QED BY <1>2, <1>3 DEF IInv

(* The start of a source, or the end of a cycle.                           *)
LEMMA GoOnFacts ==
    ASSUME TypeOK, NEW r \in Runs, NEW S \in SUBSET Sources, GoOn(r, S)
    PROVE  /\ pc' \in [Runs -> {"idle", "load", "fetch", "records", "affected", "result"}]
           /\ queue' \in [Runs -> SUBSET Sources]
           /\ fetched' \in [Runs -> Nat]
           /\ rest' \in [Runs -> SUBSET (Cves \union AffectedRow)]
           /\ failed' \in [Runs -> BOOLEAN]
           /\ raced' \in [Runs -> BOOLEAN]
           /\ Work(r)'
           /\ \A q \in Runs \ {r} : Stands(q) /\ raced'[q] = raced[q]
<1>1. /\ pc' \in [Runs -> {"idle", "load", "fetch", "records", "affected", "result"}]
      /\ queue' \in [Runs -> SUBSET Sources]
      /\ fetched' \in [Runs -> Nat]
      /\ rest' \in [Runs -> SUBSET (Cves \union AffectedRow)]
      /\ failed' \in [Runs -> BOOLEAN]
      /\ raced' \in [Runs -> BOOLEAN]
  BY DEF GoOn, TypeOK
<1>2. \A q \in Runs \ {r} : Stands(q) /\ raced'[q] = raced[q]
  BY DEF GoOn, TypeOK, Stands
<1>3. /\ pc'[r] = IF S = {} THEN "idle" ELSE "fetch"
      /\ queue'[r] = S /\ failed'[r] = FALSE
  BY DEF GoOn, TypeOK
<1>4. S # {} => Current(r)' \in S
  BY <1>3, CurrentIsQueued DEF Current
<1>5. Work(r)'
  BY <1>3, <1>4 DEF Work, Busy
<1>6. QED BY <1>1, <1>2, <1>5

(* What SourceFails leaves.                                                *)
LEMMA SourceFailsFacts ==
    ASSUME IInv, NEW r \in Runs, pc[r] \in Busy \union {"fetch"}, SourceFails(r)
    PROVE  /\ records' \in [Cves -> Record \union {NoRecord}]
              /\ affected' \subseteq AffectedRow /\ raced' \in [Runs -> BOOLEAN] => TypeOK'
           /\ \A q \in Runs \ {r} : Stands(q)
           /\ UNCHANGED <<edition, status>>
           /\ Work(r)'
<1>1. TypeOK /\ Work(r)
  BY DEF IInv
<1>2. ASSUME records' \in [Cves -> Record \union {NoRecord}],
             affected' \subseteq AffectedRow, raced' \in [Runs -> BOOLEAN]
      PROVE  TypeOK'
  BY <1>1, <1>2 DEF TypeOK, SourceFails
<1>3. /\ pc'[r] = "result" /\ failed'[r] /\ queue'[r] = queue[r]
      /\ \A q \in Runs \ {r} : Stands(q)
      /\ UNCHANGED <<edition, status>>
  BY <1>1 DEF SourceFails, TypeOK, Stands
<1>4. Work(r)'
  BY <1>1, <1>3, CurrentStays DEF Work, Busy
<1>5. QED BY <1>2, <1>3, <1>4

(* A source fails, and nothing is written.                                 *)
LEMMA SourceFailsHolds ==
    ASSUME IInv, NEW r \in Runs, pc[r] \in Busy \union {"fetch"}, SourceFails(r),
           UNCHANGED <<records, affected, raced>>
    PROVE  IInv'
<1>1. TypeOK
  BY DEF IInv
<1>2. TypeOK'
  BY <1>1, SourceFailsFacts DEF TypeOK
<1>3. QED BY <1>2, SourceFailsFacts, QuietStep

LEMMA TickHolds == ASSUME IInv, Tick PROVE IInv'
<1>1. TypeOK /\ Work("ticker") /\ "ticker" \in Runs
  BY DEF IInv, Runs
<1>2. TypeOK'
  BY <1>1 DEF TypeOK, Tick, tables
<1>3. /\ pc'["ticker"] = "load" /\ ~failed'["ticker"]
      /\ \A q \in Runs \ {"ticker"} : Stands(q) /\ raced'[q] = raced[q]
      /\ UNCHANGED <<edition, records, affected, status>>
  BY <1>1 DEF Tick, TypeOK, Stands, tables, Work
<1>4. Work("ticker")'
  BY <1>3 DEF Work, Busy
<1>5. QED BY <1>1, <1>2, <1>3, <1>4, QuietStep

LEMMA LoadHolds ==
    ASSUME IInv, NEW r \in Runs, Load(r) \/ LoadFails(r)
    PROVE  IInv'
<1>1. TypeOK
  BY DEF IInv
<1>2. PICK S \in SUBSET Sources : GoOn(r, S) /\ UNCHANGED <<edition, enabled, tables>>
  BY DEF Load, LoadFails
<1>3. /\ Work(r)'
      /\ \A q \in Runs \ {r} : Stands(q) /\ raced'[q] = raced[q]
      /\ UNCHANGED <<edition, records, affected, status>>
  BY <1>1, <1>2, GoOnFacts DEF tables
<1>4. TypeOK'
  BY <1>1, <1>2, GoOnFacts DEF TypeOK, tables
<1>5. QED BY <1>3, <1>4, QuietStep

(* Where a run is with rows left to be written.                            *)
LEMMA ProceedFacts ==
    ASSUME TypeOK, NEW r \in Runs, NEW C \in SUBSET Cves, NEW A \in SUBSET AffectedRow,
           Proceed(r, C, A)
    PROVE  /\ pc' \in [Runs -> {"idle", "load", "fetch", "records", "affected", "result"}]
           /\ rest' \in [Runs -> SUBSET (Cves \union AffectedRow)]
           /\ pc'[r] \in Busy
           /\ pc'[r] = "records" => rest'[r] = C
           /\ pc'[r] # "records" => C = {}
           /\ pc'[r] = "affected" => rest'[r] = A
           /\ pc'[r] = "result" => A = {}
           /\ \A q \in Runs \ {r} : pc'[q] = pc[q] /\ rest'[q] = rest[q]
BY DEF Proceed, TypeOK, Busy

LEMMA FetchHolds ==
    ASSUME IInv, NEW r \in Runs, Fetch(r)
    PROVE  IInv'
<1> DEFINE s == Current(r)
           e == edition[s]
<1>1. TypeOK /\ Work(r) /\ s \in Sources /\ s \in queue[r]
  BY CurrentIsSource DEF IInv, Fetch, Work
<1>2. e \in DOMAIN Editions[s] /\ e \in Nat
  BY <1>1 DEF TypeOK
<1>3. /\ DOMAIN Editions[s][e].records \in SUBSET Cves
      /\ Editions[s][e].affected \in SUBSET AffectedRow
  BY <1>1, <1>2, EditionTypes
<1> HIDE DEF s, e
<1>4. /\ fetched' = [fetched EXCEPT ![r] = e]
      /\ Proceed(r, DOMAIN Editions[s][e].records, Editions[s][e].affected)
      /\ UNCHANGED <<edition, enabled, tables, queue, failed, raced>>
      /\ pc[r] = "fetch"
  BY DEF Fetch, s, e
<1>5. /\ pc' \in [Runs -> {"idle", "load", "fetch", "records", "affected", "result"}]
      /\ rest' \in [Runs -> SUBSET (Cves \union AffectedRow)]
      /\ pc'[r] \in Busy
      /\ pc'[r] = "records" => rest'[r] = DOMAIN Editions[s][e].records
      /\ pc'[r] # "records" => DOMAIN Editions[s][e].records = {}
      /\ pc'[r] = "affected" => rest'[r] = Editions[s][e].affected
      /\ pc'[r] = "result" => Editions[s][e].affected = {}
      /\ \A q \in Runs \ {r} : pc'[q] = pc[q] /\ rest'[q] = rest[q]
  <2> DEFINE C == DOMAIN Editions[s][e].records
             A == Editions[s][e].affected
  <2>1. C \in SUBSET Cves /\ A \in SUBSET AffectedRow /\ Proceed(r, C, A)
    BY <1>3, <1>4
  <2> HIDE DEF C, A
  <2>2. /\ pc' \in [Runs -> {"idle", "load", "fetch", "records", "affected", "result"}]
        /\ rest' \in [Runs -> SUBSET (Cves \union AffectedRow)]
        /\ pc'[r] \in Busy
        /\ pc'[r] = "records" => rest'[r] = C
        /\ pc'[r] # "records" => C = {}
        /\ pc'[r] = "affected" => rest'[r] = A
        /\ pc'[r] = "result" => A = {}
        /\ \A q \in Runs \ {r} : pc'[q] = pc[q] /\ rest'[q] = rest[q]
    BY <1>1, <2>1, ProceedFacts
  <2>3. QED BY <2>2 DEF C, A
<1>6. TypeOK'
  BY <1>1, <1>2, <1>4, <1>5 DEF TypeOK, tables
<1>7. /\ Current(r)' = s /\ fetched'[r] = e /\ Fetched(r)' = Editions[s][e]
  BY <1>1, <1>4, CurrentStays DEF Fetched, TypeOK, s
<1>8. RecordsWritten(r)' = {} /\ AffectedWritten(r)' = {}
  BY <1>5, <1>7 DEF RecordsWritten, AffectedWritten, Busy
<1>9. ~failed'[r] /\ e <= edition'[s] /\ s \in queue'[r]
  BY <1>1, <1>2, <1>4 DEF Work, e
<1>10. Work(r)'
  BY <1>2, <1>5, <1>7, <1>8, <1>9 DEF Work
<1>11. \A q \in Runs \ {r} : Stands(q) /\ raced'[q] = raced[q]
  BY <1>1, <1>4, <1>5 DEF Stands, TypeOK
<1>12. UNCHANGED <<edition, records, affected, status>>
  BY <1>4 DEF tables
<1>13. QED BY <1>6, <1>10, <1>11, <1>12, QuietStep

(* A run at the same source is marked when the other one writes a row.     *)
LEMMA MarkRacedFacts ==
    ASSUME TypeOK, NEW r \in Runs, MarkRaced(r)
    PROVE  /\ raced' \in [Runs -> BOOLEAN]
           /\ raced'[r] = raced[r]
           /\ \A q \in Runs \ {r} : pc[q] \in Busy /\ ~failed[q] /\ ~raced'[q] =>
                 ~raced[q] /\ Current(q) # Current(r)
<1>1. raced' \in [Runs -> BOOLEAN]
  BY DEF MarkRaced, TypeOK
<1>2. raced'[r] = raced[r]
  BY DEF MarkRaced, TypeOK
<1>3. \A q \in Runs \ {r} : pc[q] \in Busy /\ ~failed[q] /\ ~raced'[q] =>
         ~raced[q] /\ Current(q) # Current(r)
  BY DEF MarkRaced, TypeOK, Busy
<1>4. QED BY <1>1, <1>2, <1>3

(* What a written record leaves, whatever becomes of the run that wrote it.*)
LEMMA RecordIsWritten ==
    ASSUME IInv, NEW r \in Runs, NEW c \in Cves, WriteRecord(r, c),
           UNCHANGED <<edition, status>>, \A q \in Runs \ {r} : Stands(q)
    PROVE  /\ records' \in [Cves -> Record \union {NoRecord}]
           /\ raced' \in [Runs -> BOOLEAN] /\ raced'[r] = raced[r]
           /\ affected' = affected
           /\ Holds(records'[c], Fetched(r).records[c])
           /\ Dated(records'[c], Fetched(r).records[c].modified)
           /\ \A d \in Cves : \A x \in Record : Holds(records[d], x) => Holds(records'[d], x)
           /\ \A d \in Cves \ {c} : records'[d] = records[d]
           /\ \A q \in Runs \ {r} : Work(q)'
           /\ SucceededIsInCatalog'
<1> DEFINE new == Fetched(r).records[c]
<1>1. TypeOK /\ Work(r) /\ pc[r] = "records" /\ ~failed[r]
      /\ Current(r) \in Sources /\ fetched[r] \in DOMAIN Editions[Current(r)]
  BY CurrentIsSource DEF IInv, WriteRecord, Work, Busy
<1>2. /\ c \in rest[r] /\ rest[r] \subseteq DOMAIN Fetched(r).records
      /\ DOMAIN Fetched(r).records \subseteq Cves
      /\ Fetched(r).affected \subseteq AffectedRow
      /\ new \in Record
  <2>1. c \in rest[r] /\ rest[r] \subseteq DOMAIN Fetched(r).records
    BY <1>1 DEF WriteRecord, Work
  <2>2. QED BY <1>1, <2>1, EditionTypes DEF Fetched
<1>3. /\ records' = [records EXCEPT ![c] = Merge(records[c], new)]
      /\ MarkRaced(r)
      /\ UNCHANGED <<edition, affected, status>>
  BY DEF WriteRecord
<1>4. /\ Merge(records[c], new) \in Record
      /\ Holds(Merge(records[c], new), new)
      /\ \A x \in Record : Holds(records[c], x) => Holds(Merge(records[c], new), x)
      /\ Dated(Merge(records[c], new), new.modified)
      /\ \A m : Dated(records[c], m) /\ (m = 0 \/ new.modified = 0) =>
                   Dated(Merge(records[c], new), m)
  <2>1. records[c] \in Record \union {NoRecord} /\ new \in Record
    BY <1>1, <1>2 DEF TypeOK
  <2> HIDE DEF new
  <2>2. QED BY <2>1, MergeKeeps
<1>5. /\ records' \in [Cves -> Record \union {NoRecord}]
      /\ records'[c] = Merge(records[c], new)
      /\ \A d \in Cves \ {c} : records'[d] = records[d]
  BY <1>1, <1>3, <1>4 DEF TypeOK
<1>6. \A d \in Cves : \A x \in Record : Holds(records[d], x) => Holds(records'[d], x)
  BY <1>4, <1>5
<1>7. raced' \in [Runs -> BOOLEAN] /\ raced'[r] = raced[r]
  BY <1>1, <1>3, MarkRacedFacts
<1>8. Holds(records'[c], new) /\ Dated(records'[c], new.modified)
  BY <1>4, <1>5
<1>10. ASSUME NEW q \in Runs \ {r} PROVE Work(q)'
  <2>1. TypeOK /\ Work(q) /\ Stands(q)
    BY <1>1 DEF IInv
  <2>2. ASSUME pc[q] \in Busy, ~failed[q], NEW d \in RecordsWritten(q)
        PROVE  /\ Holds(records[d], Fetched(q).records[d]) =>
                     Holds(records'[d], Fetched(q).records[d])
               /\ ~raced'[q] =>
                     /\ ~raced[q]
                     /\ Dated(records[d], Fetched(q).records[d].modified) =>
                           Dated(records'[d], Fetched(q).records[d].modified)
    <3>1. Current(q) \in Sources /\ fetched[q] \in DOMAIN Editions[Current(q)]
      BY <2>1, <2>2, CurrentIsSource DEF Work
    <3>2. /\ d \in DOMAIN Fetched(q).records /\ d \in Cves
          /\ Fetched(q).records[d] \in Record
      BY <3>1, EditionTypes DEF Fetched, RecordsWritten
    <3>3. ~raced'[q] => ~raced[q] /\ Current(q) # Current(r)
      BY <1>1, <1>3, <2>2, MarkRacedFacts
    <3>4. Current(q) # Current(r) /\ d = c =>
             Fetched(q).records[d].modified = 0 \/ new.modified = 0
      BY <1>1, <1>2, <3>1, <3>2, DatesAssumption DEF Fetched
    <3>5. Current(q) # Current(r) /\ Dated(records[d], Fetched(q).records[d].modified) =>
             Dated(records'[d], Fetched(q).records[d].modified)
      <4>1. CASE d = c
        BY <1>4, <1>5, <3>4, <4>1
      <4>2. CASE d # c
        BY <1>5, <3>2, <4>2
      <4>3. QED BY <4>1, <4>2
    <3>6. QED BY <1>6, <3>2, <3>3, <3>5
  <2>3. pc[q] \in Busy /\ ~failed[q] => (~raced'[q] => ~raced[q])
    BY <1>1, <1>3, MarkRacedFacts
  <2>4. edition' = edition /\ affected' = affected
    BY <1>3
  <2> HIDE DEF new
  <2>5. QED BY <2>1, <2>2, <2>3, <2>4, StandsKeeps
<1>12. SucceededIsInCatalog'
  <2>1. \A s \in Sources : edition[s] <= edition'[s] /\ edition'[s] \in Nat
    BY <1>1, <1>3 DEF TypeOK
  <2>2. QED BY <1>3, <1>6, <2>1, CatalogKeeps DEF IInv
<1> HIDE DEF new
<1>13. QED BY <1>3, <1>5, <1>6, <1>7, <1>8, <1>10, <1>12 DEF new

LEMMA UpsertCVERecordHolds ==
    ASSUME IInv, NEW r \in Runs, NEW c \in Cves, UpsertCVERecord(r, c)
    PROVE  IInv'
<1> DEFINE new == Fetched(r).records[c]
           left == rest[r] \ {c}
<1>1. TypeOK /\ Work(r) /\ pc[r] = "records" /\ ~failed[r]
      /\ Current(r) \in Sources /\ fetched[r] \in DOMAIN Editions[Current(r)]
  BY CurrentIsSource DEF IInv, UpsertCVERecord, WriteRecord, Work, Busy
<1>2. /\ c \in rest[r] /\ rest[r] \subseteq DOMAIN Fetched(r).records
      /\ DOMAIN Fetched(r).records \subseteq Cves
      /\ Fetched(r).affected \subseteq AffectedRow
      /\ new \in Record
  <2>1. c \in rest[r] /\ rest[r] \subseteq DOMAIN Fetched(r).records
    BY <1>1 DEF UpsertCVERecord, WriteRecord, Work
  <2>2. QED BY <1>1, <2>1, EditionTypes DEF Fetched
<1>3. /\ WriteRecord(r, c)
      /\ Proceed(r, left, Fetched(r).affected)
      /\ UNCHANGED <<edition, enabled, affected, status, queue, fetched, failed>>
  BY DEF UpsertCVERecord, WriteRecord
<1>4. /\ pc' \in [Runs -> {"idle", "load", "fetch", "records", "affected", "result"}]
      /\ rest' \in [Runs -> SUBSET (Cves \union AffectedRow)]
      /\ pc'[r] \in Busy
      /\ pc'[r] = "records" => rest'[r] = left
      /\ pc'[r] # "records" => left = {}
      /\ pc'[r] = "affected" => rest'[r] = Fetched(r).affected
      /\ pc'[r] = "result" => Fetched(r).affected = {}
      /\ \A q \in Runs \ {r} : pc'[q] = pc[q] /\ rest'[q] = rest[q]
  <2>1. left \in SUBSET Cves /\ Fetched(r).affected \in SUBSET AffectedRow
    BY <1>2
  <2> HIDE DEF left
  <2>2. QED BY <1>1, <1>3, <2>1, ProceedFacts
<1>5. \A q \in Runs \ {r} : Stands(q)
  BY <1>3, <1>4 DEF Stands
<1>6. /\ records' \in [Cves -> Record \union {NoRecord}]
      /\ raced' \in [Runs -> BOOLEAN] /\ raced'[r] = raced[r]
      /\ Holds(records'[c], new) /\ Dated(records'[c], new.modified)
      /\ \A d \in Cves : \A x \in Record : Holds(records[d], x) => Holds(records'[d], x)
      /\ \A d \in Cves \ {c} : records'[d] = records[d]
      /\ \A q \in Runs \ {r} : Work(q)'
      /\ SucceededIsInCatalog'
  BY <1>3, <1>5, RecordIsWritten
<1>7. TypeOK'
  BY <1>1, <1>3, <1>6, <1>4 DEF TypeOK
<1>8. Current(r)' = Current(r) /\ Fetched(r)' = Fetched(r)
  BY <1>3, CurrentStays DEF Fetched
<1>9. Work(r)'
  <2>1. /\ Current(r) \in queue[r]
        /\ fetched[r] <= edition[Current(r)]
        /\ \A d \in RecordsWritten(r) : Holds(records[d], Fetched(r).records[d])
        /\ ~raced[r] => \A d \in RecordsWritten(r) :
                           Dated(records[d], Fetched(r).records[d].modified)
    BY <1>1 DEF Work, Busy
  <2>2. /\ \A d \in RecordsWritten(r)' :
              d \in Cves /\ Fetched(r).records[d] \in Record
                /\ (d = c \/ d \in RecordsWritten(r))
        /\ AffectedWritten(r)' = {}
    <3>1. \A d \in DOMAIN Fetched(r).records : Fetched(r).records[d] \in Record
      BY <1>1, EditionTypes DEF Fetched
    <3>2. QED BY <1>2, <1>4, <1>8, <3>1 DEF RecordsWritten, AffectedWritten, Busy
  <2>3. Holds(records'[c], new) /\ Dated(records'[c], new.modified)
    BY <1>6
  <2>4. \A d \in RecordsWritten(r)' : Holds(records'[d], Fetched(r).records[d])
    BY <1>6, <2>1, <2>2, <2>3
  <2>5. ~raced[r] => \A d \in RecordsWritten(r)' :
                        Dated(records'[d], Fetched(r).records[d].modified)
    BY <1>6, <2>1, <2>2, <2>3
  <2>6. /\ pc'[r] = "records" => rest'[r] \subseteq DOMAIN Fetched(r).records
        /\ pc'[r] = "affected" => rest'[r] \subseteq Fetched(r).affected
    BY <1>2, <1>4
  <2>7. raced'[r] = raced[r]
    BY <1>6
  <2> HIDE DEF new, left
  <2>8. QED BY <1>1, <1>3, <1>4, <1>8, <2>1, <2>2, <2>4, <2>5, <2>6, <2>7 DEF Work
<1>10. QED BY <1>7, <1>6, <1>9 DEF IInv

(* What a written package leaves, whatever becomes of the run.             *)
LEMMA PackageIsWritten ==
    ASSUME IInv, NEW r \in Runs, NEW a \in AffectedRow, WritePackage(r, a),
           UNCHANGED <<edition, status>>, \A q \in Runs \ {r} : Stands(q)
    PROVE  /\ affected' = affected \union {a} /\ affected' \subseteq AffectedRow
           /\ records' = records
           /\ raced' \in [Runs -> BOOLEAN] /\ raced'[r] = raced[r]
           /\ \A q \in Runs \ {r} : Work(q)'
           /\ SucceededIsInCatalog'
<1>1. TypeOK
  BY DEF IInv
<1>2. /\ affected' = affected \union {a} /\ records' = records
      /\ MarkRaced(r)
      /\ UNCHANGED <<edition, status>>
  BY DEF WritePackage
<1>3. raced' \in [Runs -> BOOLEAN] /\ raced'[r] = raced[r]
  BY <1>1, <1>2, MarkRacedFacts
<1>4. affected' \subseteq AffectedRow
  BY <1>1, <1>2 DEF TypeOK
<1>5. ASSUME NEW q \in Runs \ {r} PROVE Work(q)'
  <2>1. Work(q) /\ Stands(q)
    BY DEF IInv
  <2>2. pc[q] \in Busy /\ ~failed[q] => (~raced'[q] => ~raced[q])
    BY <1>1, <1>2, MarkRacedFacts
  <2>3. edition' = edition /\ affected \subseteq affected' /\ records' = records
    BY <1>2
  <2>4. QED BY <2>1, <2>2, <2>3, StandsKeeps
<1>6. SucceededIsInCatalog'
  <2>1. \A s \in Sources : edition[s] <= edition'[s] /\ edition'[s] \in Nat
    BY <1>1, <1>2 DEF TypeOK
  <2>2. SucceededIsInCatalog /\ records' = records /\ affected \subseteq affected'
        /\ status' = status
    BY <1>2 DEF IInv
  <2> HIDE DEF Holds
  <2>3. QED BY <1>1, <2>1, <2>2, CatalogKeeps
<1>7. QED BY <1>2, <1>3, <1>4, <1>5, <1>6

LEMMA UpsertAffectedPackageHolds ==
    ASSUME IInv, NEW r \in Runs, NEW a \in AffectedRow, UpsertAffectedPackage(r, a)
    PROVE  IInv'
<1> DEFINE left == rest[r] \ {a}
<1>1. TypeOK /\ Work(r) /\ pc[r] = "affected" /\ ~failed[r]
      /\ Current(r) \in Sources /\ fetched[r] \in DOMAIN Editions[Current(r)]
  BY CurrentIsSource DEF IInv, UpsertAffectedPackage, WritePackage, Work, Busy
<1>2. rest[r] \subseteq Fetched(r).affected /\ Fetched(r).affected \subseteq AffectedRow
  BY <1>1, EditionTypes DEF Fetched, Work
<1>3. /\ WritePackage(r, a)
      /\ Proceed(r, {}, left)
      /\ UNCHANGED <<edition, enabled, records, status, queue, fetched, failed>>
  BY DEF UpsertAffectedPackage, WritePackage
<1>4. /\ pc' \in [Runs -> {"idle", "load", "fetch", "records", "affected", "result"}]
      /\ rest' \in [Runs -> SUBSET (Cves \union AffectedRow)]
      /\ pc'[r] \in Busy
      /\ pc'[r] = "records" => rest'[r] = {}
      /\ pc'[r] = "affected" => rest'[r] = left
      /\ pc'[r] = "result" => left = {}
      /\ \A q \in Runs \ {r} : pc'[q] = pc[q] /\ rest'[q] = rest[q]
  <2> DEFINE C == {}
  <2>1. C \in SUBSET Cves /\ left \in SUBSET AffectedRow /\ Proceed(r, C, left)
    BY <1>2, <1>3
  <2> HIDE DEF left, C
  <2>2. /\ pc' \in [Runs -> {"idle", "load", "fetch", "records", "affected", "result"}]
        /\ rest' \in [Runs -> SUBSET (Cves \union AffectedRow)]
        /\ pc'[r] \in Busy
        /\ pc'[r] = "records" => rest'[r] = C
        /\ pc'[r] = "affected" => rest'[r] = left
        /\ pc'[r] = "result" => left = {}
        /\ \A q \in Runs \ {r} : pc'[q] = pc[q] /\ rest'[q] = rest[q]
    BY <1>1, <2>1, ProceedFacts
  <2>3. QED BY <2>2 DEF C
<1>5. \A q \in Runs \ {r} : Stands(q)
  BY <1>3, <1>4 DEF Stands
<1>6. /\ affected' = affected \union {a} /\ affected' \subseteq AffectedRow
      /\ raced' \in [Runs -> BOOLEAN] /\ raced'[r] = raced[r]
      /\ \A q \in Runs \ {r} : Work(q)'
      /\ SucceededIsInCatalog'
  BY <1>3, <1>5, PackageIsWritten
<1>7. TypeOK'
  BY <1>1, <1>3, <1>4, <1>6 DEF TypeOK
<1>8. Current(r)' = Current(r) /\ Fetched(r)' = Fetched(r)
  BY <1>3, CurrentStays DEF Fetched
<1>9. pc'[r] # "records"
  BY <1>1, <1>3 DEF Proceed, TypeOK
<1>10. Work(r)'
  <2>1. /\ Current(r) \in queue[r]
        /\ fetched[r] <= edition[Current(r)]
        /\ \A d \in RecordsWritten(r) : Holds(records[d], Fetched(r).records[d])
        /\ AffectedWritten(r) \subseteq affected
        /\ ~raced[r] => \A d \in RecordsWritten(r) :
                           Dated(records[d], Fetched(r).records[d].modified)
    BY <1>1 DEF Work, Busy
  <2>2. RecordsWritten(r)' = RecordsWritten(r)
    BY <1>1, <1>8, <1>9 DEF RecordsWritten
  <2>3. AffectedWritten(r)' \subseteq AffectedWritten(r) \union {a}
    BY <1>1, <1>4, <1>8, <1>9 DEF AffectedWritten, Busy
  <2>4. AffectedWritten(r)' \subseteq affected'
    BY <1>6, <2>1, <2>3
  <2>5. pc'[r] = "affected" => rest'[r] \subseteq Fetched(r).affected
    BY <1>2, <1>4
  <2>6. raced'[r] = raced[r]
    BY <1>6
  <2>7. QED BY <1>1, <1>3, <1>4, <1>8, <1>9, <2>1, <2>2, <2>4, <2>5, <2>6 DEF Work
<1>11. QED BY <1>6, <1>10, <1>7 DEF IInv

(* An upsert fails, its row written or not.                                *)
LEMMA UpsertFailsHolds ==
    ASSUME IInv, NEW r \in Runs, UpsertFails(r)
    PROVE  IInv'
<1>1. TypeOK /\ pc[r] \in Busy \union {"fetch"} /\ SourceFails(r)
  BY DEF IInv, UpsertFails, Busy
<1>2. /\ \A q \in Runs \ {r} : Stands(q)
      /\ UNCHANGED <<edition, status>>
      /\ Work(r)'
  BY <1>1, SourceFailsFacts
<1>3. CASE UNCHANGED <<records, affected, raced>>
  BY <1>1, <1>3, SourceFailsHolds
<1>4. ASSUME NEW c \in Cves, WriteRecord(r, c) PROVE IInv'
  <2>1. /\ records' \in [Cves -> Record \union {NoRecord}] /\ affected' = affected
        /\ raced' \in [Runs -> BOOLEAN]
        /\ \A q \in Runs \ {r} : Work(q)'
        /\ SucceededIsInCatalog'
    BY <1>2, <1>4, RecordIsWritten
  <2>2. affected' \subseteq AffectedRow
    BY <1>1, <2>1 DEF TypeOK
  <2>3. TypeOK'
    BY <1>1, <2>1, <2>2, SourceFailsFacts
  <2>4. QED BY <1>2, <2>1, <2>3 DEF IInv
<1>5. ASSUME NEW a \in AffectedRow, WritePackage(r, a) PROVE IInv'
  <2>1. /\ affected' \subseteq AffectedRow /\ records' = records
        /\ raced' \in [Runs -> BOOLEAN]
        /\ \A q \in Runs \ {r} : Work(q)'
        /\ SucceededIsInCatalog'
    BY <1>2, <1>5, PackageIsWritten
  <2>2. records' \in [Cves -> Record \union {NoRecord}]
    BY <1>1, <2>1 DEF TypeOK
  <2>3. TypeOK'
    BY <1>1, <2>1, <2>2, SourceFailsFacts
  <2>4. QED BY <1>2, <2>1, <2>3 DEF IInv
<1>6. QED BY <1>3, <1>4, <1>5 DEF UpsertFails

-----------------------------------------------------------------------------
(* A recorded success: the whole fetch is in the catalog.                  *)
LEMMA RecordHolds ==
    ASSUME IInv, NEW r \in Runs, RecordResult(r) \/ RecordResultFails(r)
    PROVE  IInv'
<1> DEFINE s == Current(r)
<1>1. TypeOK /\ Work(r) /\ pc[r] = "result" /\ s \in Sources
  BY CurrentIsSource DEF IInv, RecordResult, RecordResultFails, Busy
<1> HIDE DEF s
<1>2. PICK S \in SUBSET Sources : GoOn(r, S)
  BY <1>1 DEF RecordResult, RecordResultFails, TypeOK
<1>3. /\ StatusAfter(s, failed[r]) \/ UNCHANGED status
      /\ UNCHANGED <<edition, enabled, records, affected>>
  BY DEF RecordResult, RecordResultFails, StatusAfter, s
<1>4. /\ status' \in [Sources -> Status]
      /\ \A q \in Sources \ {s} : status'[q] = status[q]
      /\ status'[s].succeeded => ~failed[r] \/ status[s].succeeded
  <2>1. status \in [Sources -> Status] /\ failed[r] \in BOOLEAN
    BY <1>1 DEF TypeOK
  <2>2. CASE UNCHANGED status
    BY <1>1, <2>1, <2>2
  <2>3. CASE StatusAfter(s, failed[r])
    <3> DEFINE row == [attempted |-> TRUE,
                       succeeded |-> ~failed[r] \/ status[s].succeeded,
                       error |-> failed[r]]
    <3>1. status[s] \in Status
      BY <1>1, <2>1
    <3>2. row \in Status
      BY <2>1, <3>1 DEF Status
    <3>3. row.succeeded => ~failed[r] \/ status[s].succeeded
      OBVIOUS
    <3>4. status' = [status EXCEPT ![s] = row]
      BY <2>3 DEF StatusAfter
    <3> HIDE DEF row
    <3>5. QED BY <1>1, <2>1, <3>2, <3>3, <3>4
  <2>4. QED BY <1>3, <2>2, <2>3
<1>5. /\ Work(r)'
      /\ \A q \in Runs \ {r} : Stands(q) /\ raced'[q] = raced[q]
  BY <1>1, <1>2, GoOnFacts
<1>6. TypeOK'
  BY <1>1, <1>2, <1>3, <1>4, GoOnFacts DEF TypeOK
<1>7. ASSUME NEW q \in Runs \ {r} PROVE Work(q)'
  <2>1. edition' \in [Sources -> Nat] /\ \A t \in Sources : edition[t] <= edition'[t]
    BY <1>1, <1>3 DEF TypeOK
  <2>2. QED BY <1>3, <1>5, <2>1, QuietKeeps
<1>8. SucceededIsInCatalog'
  <2> SUFFICES ASSUME NEW q \in Sources, status'[q].succeeded
               PROVE  \E e \in 1 .. edition[q] :
                         /\ \A c \in DOMAIN Editions[q][e].records :
                               Holds(records[c], Editions[q][e].records[c])
                         /\ Editions[q][e].affected \subseteq affected
    BY <1>3 DEF SucceededIsInCatalog
  <2>1. CASE status[q].succeeded
    BY <2>1 DEF IInv, SucceededIsInCatalog
  <2>2. CASE ~status[q].succeeded
    <3>1. q = s /\ ~failed[r]
      BY <1>4, <2>2
    <3>2. /\ fetched[r] \in DOMAIN Editions[q] /\ fetched[r] <= edition[q]
          /\ \A c \in RecordsWritten(r) : Holds(records[c], Fetched(r).records[c])
          /\ AffectedWritten(r) \subseteq affected
      BY <1>1, <3>1 DEF Work, Busy, s
    <3>3. /\ Fetched(r) = Editions[q][fetched[r]]
          /\ RecordsWritten(r) = DOMAIN Fetched(r).records
          /\ AffectedWritten(r) = Fetched(r).affected
      BY <1>1, <3>1 DEF Fetched, RecordsWritten, AffectedWritten, s
    <3>4. fetched[r] \in 1 .. edition[q]
      BY <1>1, <3>2, EditionTypes DEF TypeOK
    <3>5. QED BY <3>2, <3>3, <3>4
  <2>3. QED BY <2>1, <2>2
<1>9. QED BY <1>5, <1>6, <1>7, <1>8 DEF IInv

LEMMA EnvironmentHolds ==
    ASSUME IInv, Environment
    PROVE  IInv'
<1>1. TypeOK
  BY DEF IInv
<1>2. ASSUME NEW s \in Sources, Publish(s) PROVE IInv'
  <2>1. edition[s] \in Nat /\ edition' = [edition EXCEPT ![s] = edition[s] + 1]
        /\ edition[s] + 1 \in DOMAIN Editions[s]
        /\ UNCHANGED <<enabled, tables, run>>
    BY <1>1, <1>2 DEF Publish, TypeOK
  <2>2. /\ edition' \in [Sources -> Nat]
        /\ \A q \in Sources : edition[q] <= edition'[q] /\ edition'[q] \in DOMAIN Editions[q]
    BY <1>1, <2>1 DEF TypeOK
  <2>3. TypeOK'
    BY <1>1, <2>1, <2>2 DEF TypeOK, tables, run
  <2>4. ASSUME NEW r \in Runs PROVE Work(r)'
    BY <2>1, <2>2, QuietKeeps DEF Stands, tables, run
  <2>5. SucceededIsInCatalog'
    BY <1>1, <2>1, <2>2, CatalogKeeps DEF IInv, tables
  <2>6. QED BY <2>3, <2>4, <2>5 DEF IInv
<1>3. ASSUME NEW s \in Sources, Configure(s) PROVE IInv'
  <2>1. UNCHANGED <<edition, tables, run>>
    BY <1>3 DEF Configure
  <2>2. TypeOK'
    BY <1>1, <1>3 DEF TypeOK, Configure, tables, run
  <2>3. /\ edition' \in [Sources -> Nat]
        /\ \A q \in Sources : edition[q] <= edition'[q] /\ edition'[q] \in Nat
    BY <1>1, <2>1 DEF TypeOK
  <2>4. ASSUME NEW r \in Runs PROVE Work(r)'
    BY <2>1, <2>3, QuietKeeps DEF Stands, tables, run
  <2>5. SucceededIsInCatalog'
    BY <1>1, <2>1, <2>3, CatalogKeeps DEF IInv, tables
  <2>6. QED BY <2>2, <2>4, <2>5 DEF IInv
<1>4. ASSUME Restart PROVE IInv'
  <2>1. TypeOK'
    BY <1>1, <1>4 DEF TypeOK, Restart, tables
  <2>2. ASSUME NEW r \in Runs PROVE Work(r)'
    BY <1>4 DEF Restart, Work, Busy
  <2>3. SucceededIsInCatalog'
    BY <1>4 DEF IInv, Restart, SucceededIsInCatalog, tables
  <2>4. QED BY <2>1, <2>2, <2>3 DEF IInv
<1>5. QED BY <1>2, <1>3, <1>4 DEF Environment

LEMMA StepHolds == IInv /\ [Next]_vars => IInv'
<1> SUFFICES ASSUME IInv, [Next]_vars PROVE IInv'
  OBVIOUS
<1>1. CASE UNCHANGED vars
  <2>1. TypeOK'
    BY <1>1 DEF IInv, TypeOK, vars, tables, run
  <2>2. /\ edition' \in [Sources -> Nat]
        /\ \A q \in Sources : edition[q] <= edition'[q] /\ edition'[q] \in Nat
    BY <1>1 DEF IInv, TypeOK, vars
  <2>3. ASSUME NEW r \in Runs PROVE Work(r)'
    BY <1>1, <2>2, QuietKeeps DEF Stands, vars, tables, run
  <2>4. SucceededIsInCatalog'
    BY <1>1, <2>2, CatalogKeeps DEF IInv, vars, tables
  <2>5. QED BY <2>1, <2>3, <2>4 DEF IInv
<1>2. ASSUME NEW r \in Runs, Step(r) PROVE IInv'
  <2>1. ASSUME FetchFails(r) PROVE IInv'
    BY <2>1, SourceFailsHolds DEF FetchFails
  <2>2. QED BY <1>2, <2>1, LoadHolds, FetchHolds, UpsertCVERecordHolds,
               UpsertAffectedPackageHolds, RecordHolds DEF Step
<1>3. ASSUME NEW r \in Runs, StoreFails(r) PROVE IInv'
  BY <1>3, UpsertFailsHolds, LoadHolds, RecordHolds DEF StoreFails
<1>4. QED BY <1>1, <1>2, <1>3, TickHolds, EnvironmentHolds DEF Next

LEMMA Invariance == Spec => []IInv
BY InitHolds, StepHolds, PTL DEF Spec

(* The tables and the runs stay well-formed.                               *)
THEOREM TypeCorrect == Spec => []TypeOK
<1>1. IInv => TypeOK
  BY DEF IInv
<1>2. QED BY <1>1, Invariance, PTL

(* A source shown as successful has an edition in the catalog in full,     *)
(* whatever overlapping runs, failures and restarts wrote since.           *)
THEOREM SuccessIsInCatalog == Spec => []SucceededIsInCatalog
<1>1. IInv => SucceededIsInCatalog
  BY DEF IInv
<1>2. QED BY <1>1, Invariance, PTL

(* A run that had its source to itself leaves the dates it fetched: with   *)
(* one source that dates a CVE, no other one takes them away.              *)
THEOREM DatesStand == Spec => []OwnDatesStand
<1>1. IInv => OwnDatesStand
  <2> SUFFICES ASSUME IInv, NEW r \in Runs, pc[r] = "result", ~failed[r], ~raced[r],
                      NEW c \in DOMAIN Fetched(r).records
               PROVE  LET m == Fetched(r).records[c].modified
                      IN  m # 0 => records[c] # NoRecord /\ records[c].modified = m
    BY DEF OwnDatesStand
  <2>1. c \in RecordsWritten(r)
    BY DEF RecordsWritten
  <2>2. Dated(records[c], Fetched(r).records[c].modified)
    BY <2>1 DEF IInv, Work, Busy
  <2>3. QED BY <2>2 DEF Dated
<1>2. QED BY <1>1, Invariance, PTL

(* The records of a fetch are all there before its first affected package, *)
(* whatever the other run does: the foreign key refuses none.              *)
THEOREM KeysHold == Spec => []ForeignKeysHold
<1>1. IInv => ForeignKeysHold
  <2> SUFFICES ASSUME IInv, NEW r \in Runs, pc[r] = "affected", NEW a \in rest[r]
               PROVE  records[a.cve] # NoRecord
    BY DEF ForeignKeysHold
  <2>1. TypeOK /\ Work(r) /\ Current(r) \in Sources /\ ~failed[r]
    BY CurrentIsSource DEF IInv, Work, Busy
  <2>2. fetched[r] \in DOMAIN Editions[Current(r)] /\ a \in Fetched(r).affected
    BY <2>1 DEF Work, Busy
  <2>3. a.cve \in DOMAIN Fetched(r).records
    BY <2>1, <2>2, EditionTypes DEF Fetched
  <2>4. a.cve \in RecordsWritten(r)
    BY <2>3 DEF RecordsWritten
  <2>5. Holds(records[a.cve], Fetched(r).records[a.cve])
    BY <2>1, <2>4 DEF Work, Busy
  <2>6. QED BY <2>5 DEF Holds
<1>2. QED BY <1>1, Invariance, PTL
=============================================================================
