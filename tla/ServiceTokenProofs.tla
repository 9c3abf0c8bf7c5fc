--------------------------- MODULE ServiceTokenProofs ---------------------------
(***************************************************************************)
(* Proofs about ServiceToken, for any requests, handlers, clock skew and   *)
(* nonce time to live.  The invariant carries three facts: no handler uses *)
(* a time later than the clock, every time a request was let in at is      *)
(* within the skew of its timestamp, and the row of an accepted nonce lasts*)
(* until its time to live is over by the clock.                            *)
(***************************************************************************)
EXTENDS ServiceToken, TLAPS

Busy(h) == pc[h] # "idle"

ReadingsPast == \A h \in Handlers : now[h] <= clock

ReadingsInSkew == \A h \in Handlers : Busy(h) => WithinSkew(now[h], req[h])

AcceptedInSkew ==
    \A r \in Requests : acceptedAt[r] # NoTime => WithinSkew(acceptedAt[r], r)

RowLasts ==
    \A r \in Requests :
        acceptedAt[r] # NoTime =>
            \/ Remembered(r) /\ expiry[r] >= acceptedAt[r] + NonceTTL
            \/ clock >= acceptedAt[r] + NonceTTL

IInv == TypeOK /\ ReadingsPast /\ ReadingsInSkew /\ AcceptedInSkew /\ RowLasts

LEMMA InvInit == Init => IInv
BY TimeAssumption
   DEF Init, IInv, TypeOK, Time, NoTime, ReadingsPast, ReadingsInSkew, Busy,
       AcceptedInSkew, RowLasts

LEMMA InvStep == IInv /\ [Next]_vars => IInv'
<1> SUFFICES ASSUME IInv, [Next]_vars PROVE IInv'
  OBVIOUS
<1> USE TimeAssumption DEF IInv, TypeOK, Time, NoTime
<1>1. CASE UNCHANGED vars
  BY <1>1 DEF vars, ReadingsPast, ReadingsInSkew, Busy, WithinSkew,
     AcceptedInSkew, RowLasts, Remembered
<1>2. ASSUME NEW h \in Handlers, NEW r \in Requests, Arrive(h, r) PROVE IInv'
  BY <1>2 DEF Arrive, ReadingsPast, ReadingsInSkew, Busy, WithinSkew,
     AcceptedInSkew, RowLasts, Remembered
<1>3. ASSUME NEW h \in Handlers, Purge(h) PROVE IInv'
  <2>1. TypeOK'
    BY <1>3 DEF Purge
  <2>2. ReadingsPast' /\ ReadingsInSkew' /\ AcceptedInSkew'
    BY <1>3 DEF Purge, ReadingsPast, ReadingsInSkew, Busy, WithinSkew,
       AcceptedInSkew
  <2>3. RowLasts'
    <3>1. now[h] <= clock /\ now[h] \in Nat
      BY DEF ReadingsPast
    <3>2. QED BY <1>3, <3>1 DEF Purge, RowLasts, Remembered, Expired
  <2>4. QED BY <2>1, <2>2, <2>3
<1>4. ASSUME NEW h \in Handlers, Insert(h) PROVE IInv'
  <2>1. TypeOK' /\ ReadingsPast' /\ ReadingsInSkew'
    BY <1>4 DEF Insert, ReadingsPast, ReadingsInSkew, Busy, WithinSkew
  <2>2. AcceptedInSkew'
    <3>1. WithinSkew(now[h], req[h])
      BY <1>4 DEF Insert, ReadingsInSkew, Busy
    <3>2. QED BY <1>4, <3>1 DEF Insert, AcceptedInSkew, WithinSkew
  <2>3. RowLasts'
    BY <1>4 DEF Insert, RowLasts, Remembered
  <2>4. QED BY <2>1, <2>2, <2>3
<1>5. ASSUME NEW h \in Handlers, Conflict(h) PROVE IInv'
  BY <1>5 DEF Conflict, ReadingsPast, ReadingsInSkew, Busy, WithinSkew,
     AcceptedInSkew, RowLasts, Remembered
<1>6. ASSUME NEW h \in Handlers, StoreFails(h) PROVE IInv'
  <2>1. TypeOK' /\ ReadingsPast' /\ ReadingsInSkew' /\ AcceptedInSkew'
    BY <1>6 DEF StoreFails, ReadingsPast, ReadingsInSkew, Busy, WithinSkew,
       AcceptedInSkew, Remembered
  <2>2. RowLasts'
    BY <1>6 DEF StoreFails, RowLasts, Remembered
  <2>3. QED BY <2>1, <2>2
<1>7. CASE Tick
  BY <1>7 DEF Tick, ReadingsPast, ReadingsInSkew, Busy, WithinSkew,
     AcceptedInSkew, RowLasts, Remembered
<1>8. CASE Crash
  BY <1>8 DEF Crash, ReadingsPast, ReadingsInSkew, Busy, WithinSkew,
     AcceptedInSkew, RowLasts, Remembered
<1>9. QED
  BY <1>1, <1>2, <1>3, <1>4, <1>5, <1>6, <1>7, <1>8 DEF Next

LEMMA InvAlways == Spec => []IInv
BY InvInit, InvStep, PTL DEF Spec

(* The variables always have their types.                                  *)
THEOREM TypeCorrect == Spec => []TypeOK
<1>1. IInv => TypeOK
  BY DEF IInv
<1>2. QED BY <1>1, InvAlways, PTL

(* An accepted request is remembered for its whole time to live.           *)
THEOREM NoncesAreRemembered == Spec => []RememberedThroughTTL
<1>1. IInv => RememberedThroughTTL
  BY DEF IInv, RowLasts, RememberedThroughTTL
<1>2. QED BY <1>1, InvAlways, PTL

(* A request is accepted again without a handler that lags behind the      *)
(* clock at the two ends of its window only: any pair of moments closer    *)
(* than that is covered by the nonce's time to live.                       *)
THEOREM PunctualDuplicatesAtEdges == Spec => []PunctualDuplicateAtEdges
<1>1. IInv => PunctualDuplicateAtEdges
  <2> SUFFICES ASSUME IInv, NEW h \in Handlers, pc[h] = "insert",
                      ~Remembered(req[h]), acceptedAt[req[h]] # NoTime,
                      now[h] = clock
               PROVE  /\ acceptedAt[req[h]] = stamp[req[h]] - MaxSkew
                      /\ now[h] = stamp[req[h]] + MaxSkew
    BY DEF PunctualDuplicateAtEdges
  <2> DEFINE r == req[h]
  <2>1. /\ r \in Requests /\ clock \in Nat /\ now[h] \in Nat
        /\ acceptedAt[r] \in Nat /\ stamp[r] \in Nat
    BY DEF IInv, TypeOK, Time
  <2>2. now[h] - stamp[r] <= MaxSkew
    BY DEF IInv, ReadingsInSkew, Busy, WithinSkew
  <2>3. stamp[r] - acceptedAt[r] <= MaxSkew
    BY <2>1 DEF IInv, AcceptedInSkew, WithinSkew
  <2>4. now[h] >= acceptedAt[r] + NonceTTL
    BY <2>1 DEF IInv, RowLasts
  <2>5. QED BY <2>1, <2>2, <2>3, <2>4, TimeAssumption
<1>2. QED BY <1>1, InvAlways, PTL
=============================================================================
