----------------------------- MODULE ServiceToken -----------------------------
(***************************************************************************)
(* The duplicate check of signed service requests (VerifyServiceRequest in *)
(* internal/ctops/service_token.go with the PostgreSQL nonce store of      *)
(* internal/store/ctops.go).  The network delivers a request any number of *)
(* times, at any time; a handler reads the clock once, on arrival, and uses*)
(* that value in two separate statements later: purge what has expired,    *)
(* then insert the nonce if it is not there.                               *)
(*                                                                         *)
(* The clock does not go back.  Every request has a nonce of its own.  The *)
(* unit of time is the least that the database tells apart.                *)
(***************************************************************************)
EXTENDS Integers

CONSTANTS Requests,
          Valid,        \* token known, not revoked, in scope, signature right
          Handlers,
          MaxSkew,      \* maxClockSkew
          NonceTTL,     \* nonceTTL
          MaxClock      \* bound of the clock in a run

ASSUME ValidAssumption == Valid \subseteq Requests
ASSUME TimeAssumption ==
    /\ MaxSkew \in Nat
    /\ NonceTTL \in Nat
    /\ NonceTTL >= 2 * MaxSkew   \* in the code equal: 10 and 5 minutes
    /\ MaxClock \in Nat

VARIABLES clock,
          stamp,       \* X-CT-Timestamp of each request, by its sender's clock
          expiry,      \* expires_at of the nonce of a request, NoTime: no row
          pc, req,     \* where a handler is, and the request it checks
          now,         \* the time it read on arrival
          acceptedAt   \* "now" of the latest acceptance, NoTime: never accepted

vars == <<clock, stamp, expiry, pc, req, now, acceptedAt>>

NoTime == -1
Time == Nat \union {NoTime}

TypeOK ==
    /\ clock \in Nat
    /\ stamp \in [Requests -> Nat]
    /\ expiry \in [Requests -> Time]
    /\ pc \in [Handlers -> {"idle", "purge", "insert"}]
    /\ req \in [Handlers -> Requests]
    /\ now \in [Handlers -> Nat]
    /\ acceptedAt \in [Requests -> Time]

Init ==
    /\ clock = 0
    /\ stamp \in [Requests -> 0 .. MaxClock]
    /\ expiry = [r \in Requests |-> NoTime]
    /\ pc = [h \in Handlers |-> "idle"]
    /\ req \in [Handlers -> Requests]
    /\ now = [h \in Handlers |-> 0]
    /\ acceptedAt = [r \in Requests |-> NoTime]

(* A bug for comparison: no absDuration, early time stamps pass.           *)
NotTooOld(t, r) == t - stamp[r] <= MaxSkew

(* absDuration(now.Sub(requestTime)) > maxClockSkew is refused.            *)
WithinSkew(t, r) == t - stamp[r] <= MaxSkew /\ stamp[r] - t <= MaxSkew

Expired(e, t) == e <= t
Remembered(r) == expiry[r] # NoTime

(* A bug for comparison: the clock is set back by the skew it allows.      *)
ArriveEarly(h, r) ==
    /\ pc[h] = "idle"
    /\ r \in Valid
    /\ WithinSkew(clock, r)
    /\ pc' = [pc EXCEPT ![h] = "purge"]
    /\ req' = [req EXCEPT ![h] = r]
    /\ now' = [now EXCEPT ![h] = clock - MaxSkew]
    /\ UNCHANGED <<clock, stamp, expiry, acceptedAt>>

(* A request arrives and passes every check that needs no store.           *)
Arrive(h, r) ==
    /\ pc[h] = "idle"
    /\ r \in Valid
    /\ WithinSkew(clock, r)
    /\ pc' = [pc EXCEPT ![h] = "purge"]
    /\ req' = [req EXCEPT ![h] = r]
    /\ now' = [now EXCEPT ![h] = clock]
    /\ UNCHANGED <<clock, stamp, expiry, acceptedAt>>

(* DELETE FROM ct_cve_service_nonces WHERE expires_at <= now.              *)
Purge(h) ==
    /\ pc[h] = "purge"
    /\ expiry' = [r \in Requests |-> IF Expired(expiry[r], now[h])
                                     THEN NoTime ELSE expiry[r]]
    /\ pc' = [pc EXCEPT ![h] = "insert"]
    /\ UNCHANGED <<clock, stamp, req, now, acceptedAt>>

(* A bug for comparison: the time to live starts at the request's stamp.   *)
InsertFromStamp(h) ==
    /\ pc[h] = "insert"
    /\ ~Remembered(req[h])
    /\ expiry' = [expiry EXCEPT ![req[h]] = stamp[req[h]] + NonceTTL]
    /\ acceptedAt' = [acceptedAt EXCEPT ![req[h]] = now[h]]
    /\ pc' = [pc EXCEPT ![h] = "idle"]
    /\ UNCHANGED <<clock, stamp, req, now>>

(* INSERT ... ON CONFLICT DO NOTHING: one row, the request is accepted.    *)
Insert(h) ==
    /\ pc[h] = "insert"
    /\ ~Remembered(req[h])
    /\ expiry' = [expiry EXCEPT ![req[h]] = now[h] + NonceTTL]
    /\ acceptedAt' = [acceptedAt EXCEPT ![req[h]] = now[h]]
    /\ pc' = [pc EXCEPT ![h] = "idle"]
    /\ UNCHANGED <<clock, stamp, req, now>>

(* No row: replayed_nonce.                                                 *)
Conflict(h) ==
    /\ pc[h] = "insert"
    /\ Remembered(req[h])
    /\ pc' = [pc EXCEPT ![h] = "idle"]
    /\ UNCHANGED <<clock, stamp, expiry, req, now, acceptedAt>>

(* A statement fails, or the client is gone: the request is not accepted;  *)
(* an INSERT that did run stays.                                           *)
StoreFails(h) ==
    /\ pc[h] # "idle"
    /\ pc' = [pc EXCEPT ![h] = "idle"]
    /\ \/ UNCHANGED expiry
       \/ /\ pc[h] = "insert" /\ ~Remembered(req[h])
          /\ expiry' = [expiry EXCEPT ![req[h]] = now[h] + NonceTTL]
    /\ UNCHANGED <<clock, stamp, req, now, acceptedAt>>

Tick ==
    /\ clock < MaxClock
    /\ clock' = clock + 1
    /\ UNCHANGED <<stamp, expiry, pc, req, now, acceptedAt>>

(* The process dies; the nonces are in the database.                       *)
Crash ==
    /\ pc' = [h \in Handlers |-> "idle"]
    /\ UNCHANGED <<clock, stamp, expiry, req, now, acceptedAt>>

Next ==
    \/ \E h \in Handlers : \/ \E r \in Requests : Arrive(h, r)
                           \/ Purge(h)
                           \/ Insert(h)
                           \/ Conflict(h)
                           \/ StoreFails(h)
    \/ Tick
    \/ Crash

Spec == Init /\ [][Next]_vars

-----------------------------------------------------------------------------
(* An accepted request is remembered for its whole time to live, whichever *)
(* handlers purge with whichever stale clock readings in between.          *)
RememberedThroughTTL ==
    \A r \in Requests :
        acceptedAt[r] # NoTime =>
            Remembered(r) \/ clock >= acceptedAt[r] + NonceTTL

(* A request that was accepted before, and is about to be again by a       *)
(* handler that has not been overtaken by the clock, was accepted at the   *)
(* first moment of its window and is accepted at the last: nowhere else    *)
(* does a nonce expire before its request does.  (The purge takes what     *)
(* expires now, the window refuses only what is past it.)                  *)
PunctualDuplicateAtEdges ==
    \A h \in Handlers :
        LET r == req[h]
        IN  /\ pc[h] = "insert" /\ ~Remembered(r) /\ acceptedAt[r] # NoTime
            /\ now[h] = clock
            => /\ acceptedAt[r] = stamp[r] - MaxSkew
               /\ now[h] = stamp[r] + MaxSkew

(* A request that was accepted is not accepted again: its nonce is refused *)
(* as replayed for as long as its time stamp passes.                       *)
AcceptedOnce ==
    [][\A r \in Requests :
        acceptedAt[r] # NoTime => acceptedAt'[r] = acceptedAt[r]]_vars
=============================================================================
