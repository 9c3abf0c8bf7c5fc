--------------------------- MODULE FindingDelivery ---------------------------
(***************************************************************************)
(* The inventory endpoint from a verified request to its answer            *)
(* (serveInventorySnapshot and deliverFindings, internal/ctops/handler.go):*)
(* apply the snapshot, post its findings to CT Ops batch by batch, record  *)
(* what happened, answer.  Applying is one step here: InventoryStore shows *)
(* that its transactions implement that.  Around the handlers: CT Ops as   *)
(* the client that sends, re-sends and hangs up, CT Ops as the receiver of *)
(* batches, a network that delays and loses them, and process crashes.     *)
(*                                                                         *)
(* All database calls and posts of a request run under r.Context(): once   *)
(* the client is gone they fail.                                           *)
(***************************************************************************)
EXTENDS Inventory, Naturals

CONSTANTS Handlers,
          MaxBatch      \* maxFindingsPerBatch
ASSUME MaxBatchAssumption == MaxBatch \in Nat \ {0}

VARIABLES
    findings,    \* integration_findings
    response,    \* response_json.nextAction of each recorded snapshot
    lastError,   \* last_error_code = "finding_delivery_failed"
    pc, snap,    \* where a handler is, and the snapshot it serves
    todo,        \* the findings it has still to post
    flight,      \* the batch it waits for
    result,      \* result.NextAction
    gone,        \* its client has hung up: r.Context() is cancelled
    wire,        \* posted batches CT Ops has not seen
    reported,    \* the status of each finding at CT Ops
    answered     \* the last answer CT Ops got for each snapshot
(* What was due, posted and accepted, for the properties.                  *)
VARIABLES due, sent, accepted

store == <<findings, response>>
history == <<due, sent, accepted>>
vars == <<store, lastError, pc, snap, todo, flight, result, gone, wire,
          reported, answered, history>>

NextAction == {"none", "retry_findings"}
Report == [key : FindingKey, status : {"open"}, source : Sources] \union
          [key : FindingKey, status : {"resolved"}]
Posted == [snap : Snapshots, report : Report]

TypeOK ==
    /\ findings \in [FindingKey -> FindingStatus]
    /\ response \in [Snapshots -> NextAction \union {"absent"}]
    /\ lastError \in BOOLEAN
    /\ pc \in [Handlers -> {"idle", "apply", "deliver", "await", "record",
                            "failed", "update", "answer"}]
    /\ snap \in [Handlers -> Snapshots]
    /\ todo \in [Handlers -> SUBSET Report]
    /\ flight \in [Handlers -> SUBSET Report]
    /\ result \in [Handlers -> NextAction \union {"error"}]
    /\ gone \in [Handlers -> BOOLEAN]
    /\ wire \subseteq [snap : Snapshots, reports : SUBSET Report]
    /\ reported \in [FindingKey -> FindingStatus]
    /\ answered \in [Snapshots -> NextAction \union {"unanswered"}]
    /\ due \in [Snapshots -> SUBSET Report]
    /\ sent \subseteq Posted
    /\ accepted \subseteq Posted

Init ==
    /\ findings = [f \in FindingKey |-> "none"]
    /\ response = [s \in Snapshots |-> "absent"]
    /\ lastError = FALSE
    /\ pc = [h \in Handlers |-> "idle"]
    /\ snap \in [Handlers -> Snapshots]
    /\ todo = [h \in Handlers |-> {}]
    /\ flight = [h \in Handlers |-> {}]
    /\ result = [h \in Handlers |-> "none"]
    /\ gone = [h \in Handlers |-> FALSE]
    /\ wire = {}
    /\ reported = [f \in FindingKey |-> "none"]
    /\ answered = [s \in Snapshots |-> "unanswered"]
    /\ due = [s \in Snapshots |-> {}]
    /\ sent = {}
    /\ accepted = {}

Tag(s, reports) == {[snap |-> s, report |-> r] : r \in reports}
Goto(h, where) == pc' = [pc EXCEPT ![h] = where]

(***************************************************************************)
(* Applying the snapshot.                                                  *)
(***************************************************************************)
(* CT Ops sends a snapshot: for the first time, again because it has no    *)
(* answer it likes, or twice because its own timeout was too short.        *)
Receive(h, s) ==
    /\ pc[h] = "idle"
    /\ Goto(h, "apply")
    /\ snap' = [snap EXCEPT ![h] = s]
    /\ UNCHANGED <<store, lastError, todo, flight, result, gone, wire, reported,
                   answered, history>>

(* A bug for comparison: only a delivered snapshot counts as recorded.     *)
RecordedWhenDelivered(s) == response[s] = "none"

Recorded(s) == response[s] # "absent"

(* A recorded snapshot: the stored answer, and no findings to deliver.     *)
Replay(h) ==
    /\ pc[h] = "apply"
    /\ ~gone[h]
    /\ Recorded(snap[h])
    /\ result' = [result EXCEPT ![h] = response[snap[h]]]
    /\ Goto(h, "answer")
    /\ UNCHANGED <<store, lastError, snap, todo, flight, gone, wire, reported,
                   answered, history>>

(* The findings handed to delivery: an open one for every candidate row    *)
(* that matched, so several for a key that several sources flag.           *)
Reports(s) ==
    LET matched == Matches(Affected, s)
    IN  {r \in [key : matched, status : {"open"}, source : Sources] :
            \E a \in Affected : Flags(a, s, r.key) /\ a.source = r.source}
        \union [key : Stale(findings, s, matched), status : {"resolved"}]

(* What one committed transaction does to the store.                       *)
ApplyRows(s) ==
    LET matched == Matches(Affected, s)
    IN  /\ findings' = FindingsAfter(findings, matched, Stale(findings, s, matched))
        /\ response' = [response EXCEPT ![s] = "none"]
        /\ due' = [due EXCEPT ![s] = Reports(s)]

(* A bug for comparison: a pushed inventory clears the connection error.   *)
ApplyClearsError(h) ==
    /\ pc[h] = "apply"
    /\ ~gone[h]
    /\ ~Recorded(snap[h])
    /\ ApplyRows(snap[h])
    /\ todo' = [todo EXCEPT ![h] = Reports(snap[h])]
    /\ Goto(h, IF Reports(snap[h]) = {} THEN "answer" ELSE "deliver")
    /\ lastError' = FALSE
    /\ UNCHANGED <<snap, flight, result, gone, wire, reported, answered, sent,
                   accepted>>

Apply(h) ==
    /\ pc[h] = "apply"
    /\ ~gone[h]
    /\ ~Recorded(snap[h])
    /\ ApplyRows(snap[h])
    /\ todo' = [todo EXCEPT ![h] = Reports(snap[h])]
    /\ Goto(h, IF Reports(snap[h]) = {} THEN "answer" ELSE "deliver")
    /\ UNCHANGED <<lastError, snap, flight, result, gone, wire, reported,
                   answered, sent, accepted>>

(* A bug for comparison: the findings of a failed transaction are posted.  *)
ApplyFailsButDelivers(h) ==
    /\ pc[h] = "apply"
    /\ todo' = [todo EXCEPT ![h] = Reports(snap[h])]
    /\ Goto(h, "deliver")
    /\ UNCHANGED <<store, due, lastError, snap, flight, result, gone, wire,
                   reported, answered, sent, accepted>>

(* The transaction fails: rolled back, or committed with the commit's      *)
(* acknowledgement lost.  Either way the answer is a 500, retryable.       *)
ApplyFails(h) ==
    /\ pc[h] = "apply"
    /\ \/ UNCHANGED <<store, due>>
       \/ ~Recorded(snap[h]) /\ ApplyRows(snap[h])
    /\ result' = [result EXCEPT ![h] = "error"]
    /\ Goto(h, "answer")
    /\ UNCHANGED <<lastError, snap, todo, flight, gone, wire, reported,
                   answered, sent, accepted>>

(***************************************************************************)
(* deliverFindings.                                                        *)
(***************************************************************************)
(* The next slice of the findings: the open ones come first.               *)
NextBatches(reports) ==
    {b \in SUBSET reports :
        /\ \/ Cardinality(b) = MaxBatch
           \/ b = reports /\ Cardinality(b) <= MaxBatch
        /\ \A r \in b, q \in reports \ b : r.status = "resolved" => q.status = "resolved"}

PostBatch(h) ==
    /\ pc[h] = "deliver"
    /\ ~gone[h]
    /\ \E b \in NextBatches(todo[h]) :
          /\ flight' = [flight EXCEPT ![h] = b]
          /\ todo' = [todo EXCEPT ![h] = @ \ b]
          /\ wire' = wire \union {[snap |-> snap[h], reports |-> b]}
          /\ sent' = sent \union Tag(snap[h], b)
    /\ Goto(h, "await")
    /\ UNCHANGED <<store, lastError, snap, result, gone, reported, answered,
                   due, accepted>>

(* The post fails before CT Ops answers: refused connection, the client's  *)
(* 30 second timeout, a cancelled context.  The batch may still arrive.    *)
PostFails(h) ==
    /\ pc[h] \in {"deliver", "await"}
    /\ Goto(h, "failed")
    /\ UNCHANGED <<store, lastError, snap, todo, flight, result, gone, wire,
                   reported, answered, history>>

(* A bug for comparison: the loop over the batches ends with the first.    *)
RecordFirstDelivery(h) ==
    /\ pc[h] = "record"
    /\ \/ ~gone[h] /\ lastError' = FALSE /\ Goto(h, "update")
       \/ Goto(h, "failed") /\ lastError' \in {lastError, FALSE}
    /\ flight' = [flight EXCEPT ![h] = {}]
    /\ UNCHANGED <<store, snap, todo, result, gone, wire, reported, answered,
                   history>>

(* RecordFindingDelivery, whose own failure fails the delivery, be its row *)
(* written or not.                                                         *)
RecordDelivery(h) ==
    /\ pc[h] = "record"
    /\ \/ /\ ~gone[h]
          /\ lastError' = FALSE
          /\ Goto(h, IF todo[h] = {} THEN "update" ELSE "deliver")
       \/ Goto(h, "failed") /\ lastError' \in {lastError, FALSE}
    /\ flight' = [flight EXCEPT ![h] = {}]
    /\ UNCHANGED <<store, snap, todo, result, gone, wire, reported, answered,
                   history>>

(* A bug for comparison: a nextAction that the contract does not know.     *)
DeliveryFailedUnknownAction(h) ==
    /\ pc[h] = "failed"
    /\ lastError' = TRUE
    /\ result' = [result EXCEPT ![h] = "retry_snapshot"]
    /\ todo' = [todo EXCEPT ![h] = {}]
    /\ flight' = [flight EXCEPT ![h] = {}]
    /\ Goto(h, "update")
    /\ UNCHANGED <<store, snap, gone, wire, reported, answered, history>>

(* RecordConnectionError, its own failure ignored; the caller then answers *)
(* retry_findings.                                                         *)
DeliveryFailed(h) ==
    /\ pc[h] = "failed"
    /\ \/ ~gone[h] /\ lastError' = TRUE
       \/ UNCHANGED lastError
    /\ result' = [result EXCEPT ![h] = "retry_findings"]
    /\ todo' = [todo EXCEPT ![h] = {}]
    /\ flight' = [flight EXCEPT ![h] = {}]
    /\ Goto(h, "update")
    /\ UNCHANGED <<store, snap, gone, wire, reported, answered, history>>

(* UpdateInventorySnapshotResponse, its failure ignored.                   *)
UpdateResponse(h) ==
    /\ pc[h] = "update"
    /\ \/ ~gone[h] /\ response' = [response EXCEPT ![snap[h]] = result[h]]
       \/ UNCHANGED response
    /\ Goto(h, "answer")
    /\ UNCHANGED <<findings, lastError, snap, todo, flight, result, gone, wire,
                   reported, answered, history>>

(* The answer reaches CT Ops unless it has hung up or the network fails.   *)
Answer(h) ==
    /\ pc[h] = "answer"
    /\ \/ /\ ~gone[h]
          /\ result[h] # "error"
          /\ answered' = [answered EXCEPT ![snap[h]] = result[h]]
       \/ UNCHANGED answered
    /\ Goto(h, "idle")
    /\ result' = [result EXCEPT ![h] = "none"]
    /\ gone' = [gone EXCEPT ![h] = FALSE]
    /\ UNCHANGED <<store, lastError, snap, todo, flight, wire, reported, history>>

(***************************************************************************)
(* CT Ops, the network, the process.                                       *)
(***************************************************************************)
HangUp(h) ==
    /\ pc[h] # "idle"
    /\ ~gone[h]
    /\ gone' = [gone EXCEPT ![h] = TRUE]
    /\ UNCHANGED <<store, lastError, pc, snap, todo, flight, result, wire,
                   reported, answered, history>>

Awaits(h, m) == pc[h] = "await" /\ snap[h] = m.snap /\ flight[h] = m.reports

(* The reply of CT Ops to a batch reaches its poster, if it still waits.   *)
Reply(m, where) ==
    \/ \E h \in Handlers : Awaits(h, m) /\ Goto(h, where)
    \/ UNCHANGED pc

(* CT Ops takes the status of every finding of a batch it accepts.         *)
Accept(m) ==
    /\ m \in wire
    /\ wire' = wire \ {m}
    /\ reported' = [f \in FindingKey |->
                      IF \E r \in m.reports : r.key = f
                      THEN (CHOOSE r \in m.reports : r.key = f).status
                      ELSE reported[f]]
    /\ accepted' = accepted \union Tag(m.snap, m.reports)
    /\ Reply(m, "record")
    /\ UNCHANGED <<store, lastError, snap, todo, flight, result, gone, answered,
                   due, sent>>

(* A non-2xx status, or a batch the network drops.                         *)
Reject(m) ==
    /\ m \in wire
    /\ wire' = wire \ {m}
    /\ Reply(m, "failed")
    /\ UNCHANGED <<store, lastError, snap, todo, flight, result, gone, reported,
                   answered, history>>

(* The process dies, or its 10 second shutdown grace ends.                 *)
Crash ==
    /\ pc' = [h \in Handlers |-> "idle"]
    /\ todo' = [h \in Handlers |-> {}]
    /\ flight' = [h \in Handlers |-> {}]
    /\ result' = [h \in Handlers |-> "none"]
    /\ gone' = [h \in Handlers |-> FALSE]
    /\ UNCHANGED <<store, lastError, snap, wire, reported, answered, history>>

Step(h) ==
    \/ Replay(h) \/ Apply(h) \/ ApplyFails(h)
    \/ PostBatch(h) \/ PostFails(h) \/ RecordDelivery(h)
    \/ DeliveryFailed(h) \/ UpdateResponse(h) \/ Answer(h)

Next ==
    \/ \E h \in Handlers : \/ \E s \in Snapshots : Receive(h, s)
                           \/ Step(h)
                           \/ HangUp(h)
    \/ \E m \in wire : Accept(m) \/ Reject(m)
    \/ Crash

Spec == Init /\ [][Next]_vars

(* A handler always goes on: every call it makes returns, the posts at the *)
(* latest with the client's timeout.                                       *)
HandlerFairness == \A h \in Handlers : WF_vars(Step(h))

(* The best a deployment can offer: no crash, no hang-up, every handler    *)
(* goes on, CT Ops re-sends a snapshot until it is answered "none", and a  *)
(* batch that is on its way again and again is accepted in the end.        *)
CalmNext ==
    \/ \E h \in Handlers : (\E s \in Snapshots : Receive(h, s)) \/ Step(h)
    \/ \E m \in wire : Accept(m) \/ Reject(m)

CTOpsFairness ==
    /\ \A s \in Snapshots :
          SF_vars(answered[s] # "none" /\ \E h \in Handlers : Receive(h, s))
    /\ SF_vars(\E m \in wire : Accept(m))

CalmSpec == Init /\ [][CalmNext]_vars /\ HandlerFairness /\ CTOpsFairness

(***************************************************************************)
(* Correctness.                                                            *)
(***************************************************************************)
(* A match of a snapshot is posted at most once, over all handlers,        *)
(* retries, hang-ups and crashes: the post of a batch never repeats one.   *)
PostedOnce ==
    [][\A h \in Handlers :
          pc[h] = "deliver" /\ pc'[h] = "await" =>
              Tag(snap[h], flight'[h]) \intersect sent = {}]_vars

(* Nothing reaches CT Ops that the store did not commit.                   *)
OnlyCommittedIsPosted ==
    /\ \A p \in sent : p.report \in due[p.snap] /\ Recorded(p.snap)
    /\ \A f \in FindingKey : reported[f] # "none" => findings[f] # "none"

(* A handler that is about to store "none" for the snapshot it applied has *)
(* had every batch accepted, the last one included.                        *)
NoneStoredAfterDelivery ==
    \A h \in Handlers :
        pc[h] = "update" /\ result[h] = "none" =>
            Tag(snap[h], due[snap[h]]) \subseteq accepted

(* The connection error goes away only when CT Ops took a batch.           *)
ErrorClearedByDelivery ==
    [][lastError /\ ~lastError' =>
          \E h \in Handlers : /\ pc[h] = "record"
                              /\ Tag(snap[h], flight[h]) \subseteq accepted]_vars

(* When CT Ops is told "none" and no handler is at work on the snapshot,   *)
(* CT Ops has its findings: retry_findings is the answer otherwise         *)
(* (handler_test.go, the callback-fails test).                             *)
NoneMeansDelivered ==
    \A s \in Snapshots :
        /\ answered[s] = "none"
        /\ \A h \in Handlers : snap[h] = s => pc[h] = "idle"
        => Tag(s, due[s]) \subseteq accepted

(* A snapshot answered retry_findings, and re-sent for it, has its findings*)
(* delivered in the end (README.md: the connector "delivers signed finding *)
(* batches back to CT Ops").                                               *)
RetryDelivers ==
    \A s \in Snapshots :
        answered[s] = "retry_findings" ~> Tag(s, due[s]) \subseteq accepted
=============================================================================
