------------------------ MODULE FindingDeliveryProofs ------------------------
(***************************************************************************)
(* Proofs about FindingDelivery, for any inventory, snapshots, handlers and*)
(* batch size.  The inductive invariant follows the findings of a snapshot *)
(* through the handler that applied it: what is due is what the handler    *)
(* has still to post, what it waits for, and what CT Ops has accepted; and *)
(* of the handlers of one snapshot, one at most has findings to post.      *)
(***************************************************************************)
EXTENDS FindingDelivery, TLAPS

Posting == {"deliver", "await", "record", "failed"}

(* What holds of one handler.                                              *)
Progress(h) ==
    /\ result[h] = "error" => pc[h] = "answer"
    /\ pc[h] \notin Posting => todo[h] = {}
    /\ pc[h] \notin {"await", "record", "failed"} => flight[h] = {}
    /\ pc[h] \in Posting \union {"update"} => Recorded(snap[h])
    /\ todo[h] \subseteq due[snap[h]]
    /\ Tag(snap[h], todo[h]) \intersect sent = {}
    /\ pc[h] \in {"deliver", "await", "record"} =>
          Tag(snap[h], due[snap[h]] \ (todo[h] \union flight[h])) \subseteq accepted
    /\ pc[h] = "record" => Tag(snap[h], flight[h]) \subseteq accepted
    /\ pc[h] = "update" /\ result[h] = "none" =>
          Tag(snap[h], due[snap[h]]) \subseteq accepted

(* One poster for each snapshot.                                           *)
Apart == \A g, h \in Handlers :
            g # h /\ snap[g] = snap[h] /\ todo[g] # {} => todo[h] = {}

(* What was posted, and what CT Ops makes of it.                           *)
Books ==
    /\ OnlyCommittedIsPosted
    /\ accepted \subseteq sent
    /\ \A m \in wire : Tag(m.snap, m.reports) \subseteq sent
    /\ \A s \in Snapshots :
          Recorded(s) => \A r \in due[s] : findings[r.key] # "none"

IInv == /\ TypeOK
        /\ \A h \in Handlers : Progress(h)
        /\ Apart
        /\ Books

-----------------------------------------------------------------------------
(* Posted findings carry their snapshot.                                   *)
LEMMA TagFacts ==
    ASSUME NEW s, NEW R
    PROVE  /\ \A r \in R : [snap |-> s, report |-> r] \in Tag(s, R)
           /\ \A p \in Tag(s, R) : p.snap = s /\ p.report \in R
           /\ \A Q : R \subseteq Q => Tag(s, R) \subseteq Tag(s, Q)
           /\ \A Q : Tag(s, R \union Q) = Tag(s, R) \union Tag(s, Q)
           /\ \A t, Q : s # t \/ R \intersect Q = {} =>
                 Tag(s, R) \intersect Tag(t, Q) = {}
           /\ R \subseteq Report /\ s \in Snapshots => Tag(s, R) \subseteq Posted
<1>1. \A r \in R : [snap |-> s, report |-> r] \in Tag(s, R)
  BY DEF Tag
<1>2. \A p \in Tag(s, R) : p.snap = s /\ p.report \in R
  BY DEF Tag
<1>3. \A Q : R \subseteq Q => Tag(s, R) \subseteq Tag(s, Q)
  BY DEF Tag
<1>4. \A Q : Tag(s, R \union Q) = Tag(s, R) \union Tag(s, Q)
  BY DEF Tag
<1>5. \A t, Q : s # t \/ R \intersect Q = {} => Tag(s, R) \intersect Tag(t, Q) = {}
  BY DEF Tag
<1>6. R \subseteq Report /\ s \in Snapshots => Tag(s, R) \subseteq Posted
  BY DEF Tag, Posted
<1>7. QED BY <1>1, <1>2, <1>3, <1>4, <1>5, <1>6

(* A finding that is reported has a key and a status.                      *)
LEMMA ReportFields ==
    \A r \in Report : r.key \in FindingKey /\ r.status \in {"open", "resolved"}
<1> HIDE DEF FindingKey
<1>1. QED BY DEF Report

(* What a snapshot has reported about are findings that exist once its     *)
(* rows are written.                                                       *)
LEMMA ReportsAreWritten ==
    ASSUME NEW s \in Snapshots, findings \in [FindingKey -> FindingStatus],
           ApplyRows(s)
    PROVE  /\ Reports(s) \subseteq Report
           /\ findings' \in [FindingKey -> FindingStatus]
           /\ \A r \in Reports(s) : findings'[r.key] # "none"
           /\ \A f \in FindingKey : findings[f] # "none" => findings'[f] # "none"
<1> DEFINE matched == Matches(Affected, s)
           stale == Stale(findings, s, matched)
<1>1. matched \subseteq FindingKey /\ stale \subseteq FindingKey
  BY DEF Matches, Stale
<1> HIDE DEF matched, stale
<1> HIDE DEF FindingKey
<1>2. findings' = FindingsAfter(findings, matched, stale)
  BY DEF ApplyRows, matched, stale
<1>3. /\ findings' \in [FindingKey -> FindingStatus]
      /\ \A f \in matched \union stale : findings'[f] # "none"
      /\ \A f \in FindingKey : findings[f] # "none" => findings'[f] # "none"
  BY <1>1, <1>2 DEF FindingsAfter, FindingStatus
<1>4. \A r \in Reports(s) : r \in Report /\ r.key \in matched \union stale
  BY <1>1 DEF Reports, Report, matched, stale
<1>5. QED BY <1>3, <1>4

-----------------------------------------------------------------------------
LEMMA InitHolds == Init => IInv
<1> SUFFICES ASSUME Init PROVE IInv
  OBVIOUS
<1>1. TypeOK
  BY DEF Init, TypeOK, FindingStatus, NextAction
<1>2. Apart /\ Books
  BY DEF Init, Apart, Books, OnlyCommittedIsPosted, Recorded
<1>3. ASSUME NEW h \in Handlers PROVE Progress(h)
  BY DEF Init, Progress, Posting
<1>4. QED BY <1>1, <1>2, <1>3 DEF IInv

(* What a handler has of its own.                                          *)
Stands(h) == /\ pc'[h] = pc[h] /\ snap'[h] = snap[h] /\ todo'[h] = todo[h]
             /\ flight'[h] = flight[h] /\ result'[h] = result[h]

(* A handler that stands is where it was, as long as its snapshot does not *)
(* lose its row, CT Ops forgets nothing, and nobody posts its findings.    *)
LEMMA StandsKeeps ==
    ASSUME NEW h \in Handlers, Progress(h), Stands(h),
           Recorded(snap[h]) => /\ response'[snap[h]] # "absent"
                                /\ due'[snap[h]] = due[snap[h]],
           accepted \subseteq accepted',
           Tag(snap[h], todo[h]) \intersect sent' = {}
    PROVE  Progress(h)'
<1>1. pc[h] \notin Posting \union {"update"} => Progress(h)'
  BY DEF Progress, Stands, Posting
<1>2. pc[h] \in Posting \union {"update"} => Progress(h)'
  <2> SUFFICES ASSUME pc[h] \in Posting \union {"update"} PROVE Progress(h)'
    OBVIOUS
  <2>1. /\ Recorded(snap[h])
        /\ response'[snap[h]] # "absent"
        /\ due'[snap[h]] = due[snap[h]]
    BY DEF Progress
  <2>2. QED BY <2>1 DEF Progress, Stands, Recorded
<1>3. QED BY <1>1, <1>2

(* The books stay as long as neither the store nor the wire moves.         *)
LEMMA BooksStay ==
    ASSUME Books, UNCHANGED <<store, wire, reported, history>>
    PROVE  Books'
BY DEF Books, OnlyCommittedIsPosted, Recorded, store, history

(* A handler that works on its own variables.                              *)
LEMMA OwnStep ==
    ASSUME IInv, NEW h \in Handlers, TypeOK', Progress(h)',
           \A g \in Handlers \ {h} : Stands(g),
           UNCHANGED <<store, wire, reported, history>>,
           todo'[h] \subseteq todo[h],
           snap'[h] = snap[h] \/ todo'[h] = {}
    PROVE  IInv'
<1>1. ASSUME NEW g \in Handlers \ {h} PROVE Progress(g)'
  <2>1. Progress(g) /\ Stands(g)
    BY DEF IInv
  <2>2. Tag(snap[g], todo[g]) \intersect sent' = {}
    BY <2>1 DEF Progress, history
  <2>3. response' = response /\ due' = due /\ accepted' = accepted
    BY DEF store, history
  <2>4. QED BY <2>1, <2>2, <2>3, StandsKeeps DEF Recorded
<1>2. Apart'
  <2> SUFFICES ASSUME NEW f \in Handlers, NEW g \in Handlers, f # g,
                      snap'[f] = snap'[g], todo'[f] # {}
               PROVE  todo'[g] = {}
    BY DEF Apart
  <2>1. /\ todo[f] # {} /\ todo'[g] \subseteq todo[g]
        /\ todo'[f] # {} => snap'[f] = snap[f]
        /\ todo'[g] # {} => snap'[g] = snap[g]
    BY DEF Stands
  <2>2. QED BY <2>1 DEF IInv, Apart
<1>3. Books'
  BY BooksStay DEF IInv
<1>4. QED BY <1>1, <1>2, <1>3 DEF IInv

-----------------------------------------------------------------------------
(* The steps of a handler that touch neither the store nor the wire.       *)
LEMMA ReceiveHolds ==
    ASSUME IInv, NEW h \in Handlers, NEW s \in Snapshots, Receive(h, s)
    PROVE  IInv'
<1>1. TypeOK /\ Progress(h)
  BY DEF IInv
<1>2. TypeOK'
  BY <1>1 DEF TypeOK, Receive, Goto, store, history
<1>3. pc[h] = "idle" /\ pc'[h] = "apply" /\ todo'[h] = {} /\ flight'[h] = {}
      /\ result'[h] # "error"
  BY <1>1 DEF Receive, Goto, TypeOK, Progress, Posting
<1>4. Progress(h)'
  BY <1>3, TagFacts DEF Progress, Posting, Tag
<1>5. \A g \in Handlers \ {h} : Stands(g)
  BY <1>1 DEF Receive, Goto, Stands, TypeOK
<1>6. UNCHANGED <<store, wire, reported, history>>
  BY DEF Receive
<1>7. QED BY <1>2, <1>3, <1>4, <1>5, <1>6, OwnStep

LEMMA ReplayHolds ==
    ASSUME IInv, NEW h \in Handlers, Replay(h)
    PROVE  IInv'
<1>1. TypeOK /\ Progress(h)
  BY DEF IInv
<1>2. TypeOK'
  BY <1>1 DEF TypeOK, Replay, Recorded, Goto, store, history
<1>3. pc[h] = "apply" /\ pc'[h] = "answer" /\ todo'[h] = {} /\ flight'[h] = {}
  BY <1>1 DEF Replay, Goto, TypeOK, Progress, Posting
<1>4. Progress(h)'
  BY <1>3, TagFacts DEF Progress, Posting, Tag
<1>5. \A g \in Handlers \ {h} : Stands(g)
  BY <1>1 DEF Replay, Goto, Stands, TypeOK
<1>6. UNCHANGED <<store, wire, reported, history>>
  BY DEF Replay
<1>7. QED BY <1>2, <1>3, <1>4, <1>5, <1>6, OwnStep

LEMMA PostFailsHolds ==
    ASSUME IInv, NEW h \in Handlers, PostFails(h)
    PROVE  IInv'
<1>1. TypeOK /\ Progress(h)
  BY DEF IInv
<1>2. TypeOK'
  BY <1>1 DEF TypeOK, PostFails, Goto, store, history
<1>3. /\ pc[h] \in {"deliver", "await"} /\ pc'[h] = "failed"
      /\ snap'[h] = snap[h] /\ todo'[h] = todo[h] /\ flight'[h] = flight[h]
      /\ result'[h] = result[h]
  BY <1>1 DEF PostFails, Goto, TypeOK
<1>6. UNCHANGED <<store, wire, reported, history>>
  BY DEF PostFails
<1>4. Progress(h)'
  BY <1>1, <1>3, <1>6 DEF Progress, Posting, Recorded, store, history
<1>5. \A g \in Handlers \ {h} : Stands(g)
  BY <1>1 DEF PostFails, Goto, Stands, TypeOK
<1>7. QED BY <1>2, <1>3, <1>4, <1>5, <1>6, OwnStep

LEMMA RecordDeliveryHolds ==
    ASSUME IInv, NEW h \in Handlers, RecordDelivery(h)
    PROVE  IInv'
<1>1. TypeOK /\ Progress(h)
  BY DEF IInv
<1>2. TypeOK'
  BY <1>1 DEF TypeOK, RecordDelivery, Goto, store, history
<1>3. /\ pc[h] = "record"
      /\ pc'[h] \in {"deliver", "update", "failed"}
      /\ pc'[h] = "update" => todo[h] = {}
      /\ snap'[h] = snap[h] /\ todo'[h] = todo[h] /\ flight'[h] = {}
      /\ result'[h] = result[h]
  BY <1>1 DEF RecordDelivery, Goto, TypeOK
<1>6. UNCHANGED <<store, wire, reported, history>>
  BY DEF RecordDelivery
<1>4. Progress(h)'
  <2> DEFINE s == snap[h]
  <2>1. Tag(s, due[s] \ todo[h]) \subseteq accepted
    <3>1. /\ Tag(s, due[s] \ (todo[h] \union flight[h])) \subseteq accepted
          /\ Tag(s, flight[h]) \subseteq accepted
      BY <1>1, <1>3 DEF Progress
    <3>2. due[s] \ todo[h] \subseteq
             (due[s] \ (todo[h] \union flight[h])) \union flight[h]
      OBVIOUS
    <3>3. Tag(s, due[s] \ todo[h]) \subseteq
             Tag(s, due[s] \ (todo[h] \union flight[h])) \union Tag(s, flight[h])
      BY <3>2 DEF Tag
    <3>4. QED BY <3>1, <3>3
  <2>2. pc'[h] = "update" => Tag(s, due[s]) \subseteq accepted
    <3>1. todo[h] = {} => due[s] \ todo[h] = due[s]
      OBVIOUS
    <3>2. QED BY <1>3, <2>1, <3>1
  <2>3. due[s] \ (todo[h] \union {}) = due[s] \ todo[h]
    OBVIOUS
  <2>4. QED BY <1>1, <1>3, <1>6, <2>1, <2>2, <2>3
               DEF Progress, Posting, Recorded, store, history
<1>5. \A g \in Handlers \ {h} : Stands(g)
  BY <1>1 DEF RecordDelivery, Goto, Stands, TypeOK
<1>7. QED BY <1>2, <1>3, <1>4, <1>5, <1>6, OwnStep

LEMMA DeliveryFailedHolds ==
    ASSUME IInv, NEW h \in Handlers, DeliveryFailed(h)
    PROVE  IInv'
<1>1. TypeOK /\ Progress(h)
  BY DEF IInv
<1>2. TypeOK'
  BY <1>1 DEF TypeOK, DeliveryFailed, Goto, NextAction, store, history
<1>3. /\ pc[h] = "failed" /\ pc'[h] = "update" /\ snap'[h] = snap[h]
      /\ todo'[h] = {} /\ flight'[h] = {} /\ result'[h] = "retry_findings"
  BY <1>1 DEF DeliveryFailed, Goto, TypeOK
<1>4. UNCHANGED <<store, wire, reported, history>>
  BY DEF DeliveryFailed
<1>5. Progress(h)'
  BY <1>1, <1>3, <1>4, TagFacts DEF Progress, Posting, Recorded, Tag, store, history
<1>6. \A g \in Handlers \ {h} : Stands(g)
  BY <1>1 DEF DeliveryFailed, Goto, Stands, TypeOK
<1>7. QED BY <1>2, <1>3, <1>4, <1>5, <1>6, OwnStep

LEMMA AnswerHolds ==
    ASSUME IInv, NEW h \in Handlers, Answer(h)
    PROVE  IInv'
<1>1. TypeOK /\ Progress(h)
  BY DEF IInv
<1>2. TypeOK'
  BY <1>1 DEF TypeOK, Answer, Goto, NextAction, store, history
<1>3. /\ pc[h] = "answer" /\ pc'[h] = "idle" /\ snap'[h] = snap[h]
      /\ todo'[h] = {} /\ flight'[h] = {} /\ result'[h] = "none"
  BY <1>1 DEF Answer, Goto, TypeOK, Progress, Posting
<1>4. UNCHANGED <<store, wire, reported, history>>
  BY DEF Answer
<1>5. Progress(h)'
  BY <1>3, TagFacts DEF Progress, Posting, Tag
<1>6. \A g \in Handlers \ {h} : Stands(g)
  BY <1>1 DEF Answer, Goto, Stands, TypeOK
<1>7. QED BY <1>2, <1>3, <1>4, <1>5, <1>6, OwnStep

LEMMA HangUpHolds ==
    ASSUME IInv, NEW h \in Handlers, HangUp(h)
    PROVE  IInv'
<1>1. TypeOK /\ Progress(h)
  BY DEF IInv
<1>2. TypeOK'
  BY <1>1 DEF TypeOK, HangUp, store, history
<1>3. \A g \in Handlers : Stands(g)
  BY DEF HangUp, Stands
<1>4. UNCHANGED <<store, wire, reported, history>>
  BY DEF HangUp
<1>5. Progress(h)'
  BY <1>1, <1>3, <1>4 DEF Progress, Stands, Recorded, store, history
<1>6. todo'[h] = todo[h] /\ snap'[h] = snap[h]
  BY <1>3 DEF Stands
<1>7. QED BY <1>2, <1>3, <1>4, <1>5, <1>6, OwnStep

(* The stored answer of a snapshot that has one changes; its row stays.    *)
LEMMA UpdateResponseHolds ==
    ASSUME IInv, NEW h \in Handlers, UpdateResponse(h)
    PROVE  IInv'
<1>1. TypeOK /\ Progress(h)
  BY DEF IInv
<1>2. /\ pc[h] = "update" /\ pc'[h] = "answer" /\ snap'[h] = snap[h]
      /\ todo'[h] = todo[h] /\ flight'[h] = flight[h] /\ result'[h] = result[h]
      /\ todo[h] = {} /\ flight[h] = {}
      /\ result[h] \in NextAction /\ response[snap[h]] # "absent"
  BY <1>1 DEF UpdateResponse, Goto, TypeOK, Progress, Posting, Recorded
<1>3. TypeOK'
  BY <1>1, <1>2 DEF TypeOK, UpdateResponse, Goto, store, history
<1>4. \A s \in Snapshots : response'[s] # "absent" <=> response[s] # "absent"
  BY <1>1, <1>2 DEF UpdateResponse, TypeOK, NextAction
<1>5. /\ findings' = findings /\ wire' = wire /\ reported' = reported
      /\ due' = due /\ sent' = sent /\ accepted' = accepted
      /\ todo' = todo /\ snap' = snap
  BY DEF UpdateResponse, history
<1>6. ASSUME NEW g \in Handlers PROVE Progress(g)'
  <2>1. CASE g = h
    BY <1>2, <2>1, TagFacts DEF Progress, Posting, Tag
  <2>2. CASE g # h
    <3>1. Progress(g) /\ Stands(g) /\ snap[g] \in Snapshots
      BY <1>1, <2>2 DEF IInv, UpdateResponse, Goto, Stands, TypeOK
    <3>2. Tag(snap[g], todo[g]) \intersect sent' = {}
      BY <1>5, <3>1 DEF Progress
    <3>3. QED BY <1>4, <1>5, <3>1, <3>2, StandsKeeps DEF Recorded
  <2>3. QED BY <2>1, <2>2
<1>7. Apart'
  BY <1>5 DEF IInv, Apart
<1>8. \A p \in sent : p.snap \in Snapshots
  BY <1>1 DEF TypeOK, Posted
<1>9. Books'
  BY <1>4, <1>5, <1>8 DEF IInv, Books, OnlyCommittedIsPosted, Recorded
<1>10. QED BY <1>3, <1>6, <1>7, <1>9 DEF IInv

LEMMA CrashHolds ==
    ASSUME IInv, Crash
    PROVE  IInv'
<1>1. TypeOK'
  BY DEF IInv, TypeOK, Crash, NextAction, store, history
<1>2. ASSUME NEW h \in Handlers PROVE Progress(h)'
  BY TagFacts DEF Crash, Progress, Posting, Tag
<1>3. Apart'
  BY DEF Crash, Apart
<1>4. Books'
  BY BooksStay DEF IInv, Crash
<1>5. QED BY <1>1, <1>2, <1>3, <1>4 DEF IInv

-----------------------------------------------------------------------------
(* Nobody has posted, or has still to post, a snapshot that has no row.    *)
LEMMA Unposted ==
    ASSUME IInv, NEW s \in Snapshots, ~Recorded(s)
    PROVE  /\ \A p \in sent : p.snap # s
           /\ \A g \in Handlers : snap[g] = s => todo[g] = {}
           /\ \A R : Tag(s, R) \intersect sent = {}
<1>1. \A p \in sent : p.snap # s
  BY DEF IInv, Books, OnlyCommittedIsPosted
<1>2. \A g \in Handlers : snap[g] = s => todo[g] = {}
  BY DEF IInv, Progress
<1>3. \A R : Tag(s, R) \intersect sent = {}
  BY <1>1 DEF Tag
<1>4. QED BY <1>1, <1>2, <1>3

(* The commit of a snapshot that has no row.                               *)
LEMMA CommitKeeps ==
    ASSUME IInv, NEW s \in Snapshots, ~Recorded(s), ApplyRows(s),
           UNCHANGED <<wire, reported, sent, accepted>>
    PROVE  /\ Books'
           /\ findings' \in [FindingKey -> FindingStatus]
           /\ response' \in [Snapshots -> NextAction \union {"absent"}]
           /\ due' \in [Snapshots -> SUBSET Report]
           /\ response'[s] = "none" /\ due'[s] = Reports(s)
           /\ Reports(s) \subseteq Report
           /\ \A g \in Handlers : Stands(g) => Progress(g)'
<1>1. TypeOK /\ Books
  BY DEF IInv
<1>2. /\ findings \in [FindingKey -> FindingStatus]
      /\ response \in [Snapshots -> NextAction \union {"absent"}]
      /\ due \in [Snapshots -> SUBSET Report]
      /\ sent \subseteq Posted /\ snap \in [Handlers -> Snapshots]
      /\ reported \in [FindingKey -> FindingStatus]
  BY <1>1 DEF TypeOK
<1>3. /\ Reports(s) \subseteq Report
      /\ findings' \in [FindingKey -> FindingStatus]
      /\ \A r \in Reports(s) : findings'[r.key] # "none"
      /\ \A f \in FindingKey : findings[f] # "none" => findings'[f] # "none"
  BY <1>2, ReportsAreWritten
<1>4. /\ response' = [response EXCEPT ![s] = "none"]
      /\ due' = [due EXCEPT ![s] = Reports(s)]
  BY DEF ApplyRows
<1>5. /\ response'[s] = "none" /\ due'[s] = Reports(s)
      /\ \A t \in Snapshots \ {s} : response'[t] = response[t] /\ due'[t] = due[t]
  BY <1>2, <1>4
<1>6. /\ response' \in [Snapshots -> NextAction \union {"absent"}]
      /\ due' \in [Snapshots -> SUBSET Report]
  BY <1>2, <1>3, <1>4 DEF NextAction
<1>7. OnlyCommittedIsPosted'
  <2>1. \A p \in sent : p.snap \in Snapshots /\ p.snap # s
    BY <1>2, Unposted DEF Posted
  <2>2. \A p \in sent' : p.report \in due'[p.snap] /\ response'[p.snap] # "absent"
    BY <1>1, <1>5, <2>1 DEF Books, OnlyCommittedIsPosted, Recorded
  <2>3. \A f \in FindingKey : reported'[f] # "none" => findings'[f] # "none"
    BY <1>1, <1>3 DEF Books, OnlyCommittedIsPosted
  <2>4. QED BY <2>2, <2>3 DEF OnlyCommittedIsPosted, Recorded
<1>8. ASSUME NEW t \in Snapshots, response'[t] # "absent", NEW r \in due'[t]
      PROVE  findings'[r.key] # "none"
  <2>1. CASE t = s
    BY <1>3, <1>5, <2>1
  <2>2. CASE t # s
    <3>1. r \in Report /\ findings[r.key] # "none"
      BY <1>1, <1>2, <1>5, <1>8, <2>2 DEF Books, Recorded
    <3>2. QED BY <1>3, <3>1, ReportFields
  <2>3. QED BY <2>1, <2>2
<1>9. Books'
  BY <1>1, <1>7, <1>8 DEF Books, Recorded
<1>10. ASSUME NEW g \in Handlers, Stands(g) PROVE Progress(g)'
  <2>1. Progress(g) /\ snap[g] \in Snapshots
    BY <1>2 DEF IInv
  <2>2. Tag(snap[g], todo[g]) \intersect sent' = {}
    BY <2>1 DEF Progress
  <2>3. Recorded(snap[g]) => response'[snap[g]] # "absent" /\ due'[snap[g]] = due[snap[g]]
    BY <1>5, <2>1 DEF Recorded
  <2>4. accepted \subseteq accepted'
    OBVIOUS
  <2>5. QED BY <1>10, <2>1, <2>2, <2>3, <2>4, StandsKeeps
<1>11. QED BY <1>3, <1>5, <1>6, <1>9, <1>10

LEMMA ApplyHolds ==
    ASSUME IInv, NEW h \in Handlers, Apply(h)
    PROVE  IInv'
<1> DEFINE s == snap[h]
<1>1. TypeOK /\ Progress(h) /\ s \in Snapshots
  BY DEF IInv, TypeOK
<1>2. /\ ~Recorded(s) /\ ApplyRows(s)
      /\ UNCHANGED <<wire, reported, sent, accepted>>
  BY DEF Apply
<1>3. /\ Books'
      /\ findings' \in [FindingKey -> FindingStatus]
      /\ response' \in [Snapshots -> NextAction \union {"absent"}]
      /\ due' \in [Snapshots -> SUBSET Report]
      /\ response'[s] = "none" /\ due'[s] = Reports(s)
      /\ Reports(s) \subseteq Report
      /\ \A g \in Handlers : Stands(g) => Progress(g)'
  BY <1>1, <1>2, CommitKeeps
<1>4. /\ pc[h] = "apply" /\ pc'[h] \in {"answer", "deliver"}
      /\ pc'[h] = "answer" => Reports(s) = {}
      /\ snap' = snap /\ todo'[h] = Reports(s) /\ flight'[h] = {}
      /\ result'[h] = result[h]
      /\ \A g \in Handlers \ {h} : Stands(g)
  BY <1>1 DEF Apply, Goto, TypeOK, Progress, Posting, Stands
<1>5. TypeOK'
  BY <1>1, <1>3 DEF TypeOK, Apply, Goto
<1>6. Progress(h)'
  <2>1. Tag(s, Reports(s)) \intersect sent = {}
    BY <1>1, <1>2, Unposted
  <2>2. Tag(s, due'[s] \ (todo'[h] \union flight'[h])) = {}
    BY <1>3, <1>4 DEF Tag
  <2>3. result'[h] # "error"
    BY <1>1, <1>4 DEF Progress
  <2>4. QED BY <1>2, <1>3, <1>4, <2>1, <2>2, <2>3 DEF Progress, Posting, Recorded
<1>7. Apart'
  <2>1. \A g \in Handlers \ {h} : todo'[g] = todo[g]
    BY <1>4 DEF Stands
  <2>2. \A g \in Handlers : snap[g] = s => todo[g] = {}
    BY <1>1, <1>2, Unposted
  <2>3. QED BY <1>4, <2>1, <2>2 DEF IInv, Apart
<1>8. QED BY <1>3, <1>4, <1>5, <1>6, <1>7 DEF IInv

LEMMA ApplyFailsHolds ==
    ASSUME IInv, NEW h \in Handlers, ApplyFails(h)
    PROVE  IInv'
<1> DEFINE s == snap[h]
<1>1. TypeOK /\ Progress(h) /\ s \in Snapshots
  BY DEF IInv, TypeOK
<1>2. /\ pc[h] = "apply" /\ pc'[h] = "answer"
      /\ snap' = snap /\ todo' = todo /\ todo'[h] = {} /\ flight'[h] = {}
      /\ \A g \in Handlers \ {h} : Stands(g)
      /\ UNCHANGED <<wire, reported, sent, accepted>>
  BY <1>1 DEF ApplyFails, Goto, TypeOK, Progress, Posting, Stands
<1>3. Progress(h)'
  BY <1>2, TagFacts DEF Progress, Posting, Tag
<1>4. Apart'
  BY <1>2 DEF IInv, Apart
<1>5. CASE UNCHANGED <<store, due>>
  <2>1. TypeOK'
    BY <1>1, <1>5 DEF TypeOK, ApplyFails, Goto, store
  <2>2. UNCHANGED <<store, wire, reported, history>>
    BY <1>2, <1>5 DEF history
  <2>3. QED BY <1>2, <1>3, <2>1, <2>2, OwnStep
<1>6. CASE ~Recorded(s) /\ ApplyRows(s)
  <2>1. /\ Books'
        /\ findings' \in [FindingKey -> FindingStatus]
        /\ response' \in [Snapshots -> NextAction \union {"absent"}]
        /\ due' \in [Snapshots -> SUBSET Report]
        /\ \A g \in Handlers : Stands(g) => Progress(g)'
    BY <1>1, <1>2, <1>6, CommitKeeps
  <2>2. TypeOK'
    BY <1>1, <2>1 DEF TypeOK, ApplyFails, Goto
  <2>3. QED BY <1>2, <1>3, <1>4, <2>1, <2>2 DEF IInv
<1>7. QED BY <1>5, <1>6 DEF ApplyFails

-----------------------------------------------------------------------------
(* The post of a batch: findings nobody has posted, and due.               *)
LEMMA PostBatchHolds ==
    ASSUME IInv, NEW h \in Handlers, PostBatch(h)
    PROVE  IInv'
<1> DEFINE s == snap[h]
<1>1. TypeOK /\ Progress(h) /\ Apart /\ Books /\ s \in Snapshots
  BY DEF IInv, TypeOK
<1>2. PICK b \in NextBatches(todo[h]) :
         /\ flight' = [flight EXCEPT ![h] = b]
         /\ todo' = [todo EXCEPT ![h] = @ \ b]
         /\ wire' = wire \union {[snap |-> snap[h], reports |-> b]}
         /\ sent' = sent \union Tag(snap[h], b)
  BY DEF PostBatch
<1>3. /\ pc[h] = "deliver" /\ pc' = [pc EXCEPT ![h] = "await"]
      /\ UNCHANGED <<store, lastError, snap, result, gone, reported, answered,
                     due, accepted>>
  BY DEF PostBatch, Goto
<1>4. b \subseteq todo[h] /\ b \subseteq Report
  BY <1>1 DEF NextBatches, TypeOK
<1>5. /\ pc'[h] = "await" /\ todo'[h] = todo[h] \ b /\ flight'[h] = b
      /\ snap'[h] = s /\ result'[h] = result[h]
      /\ \A g \in Handlers \ {h} : Stands(g)
  BY <1>1, <1>2, <1>3 DEF TypeOK, Stands
<1>6. TypeOK'
  <2>1. Tag(s, b) \subseteq Posted
    BY <1>1, <1>4, TagFacts
  <2>2. [snap |-> s, reports |-> b] \in [snap : Snapshots, reports : SUBSET Report]
    BY <1>1, <1>4
  <2>3. QED BY <1>1, <1>2, <1>3, <1>4, <2>1, <2>2 DEF TypeOK, store
<1>7. Progress(h)'
  <2>1. /\ Recorded(s) /\ todo[h] \subseteq due[s] /\ result[h] # "error"
        /\ Tag(s, todo[h]) \intersect sent = {}
        /\ flight[h] = {}
        /\ Tag(s, due[s] \ (todo[h] \union flight[h])) \subseteq accepted
    BY <1>1, <1>3 DEF Progress, Posting
  <2>2. /\ Tag(s, todo[h] \ b) \subseteq Tag(s, todo[h])
        /\ Tag(s, todo[h] \ b) \intersect Tag(s, b) = {}
    BY TagFacts DEF Tag
  <2>3. due[s] \ (todo'[h] \union flight'[h]) = due[s] \ (todo[h] \union flight[h])
    BY <1>4, <1>5, <2>1
  <2>4. QED BY <1>2, <1>3, <1>5, <2>1, <2>2, <2>3 DEF Progress, Posting, Recorded, store
<1>8. ASSUME NEW g \in Handlers \ {h} PROVE Progress(g)'
  <2>1. Progress(g) /\ Stands(g)
    BY <1>5 DEF IInv
  <2>2. Tag(snap[g], todo[g]) \intersect Tag(s, b) = {}
    <3>1. CASE snap[g] # s
      BY <3>1, TagFacts
    <3>2. CASE snap[g] = s /\ todo[h] = {}
      BY <1>4, <3>2 DEF Tag
    <3>3. CASE snap[g] = s /\ todo[h] # {}
      BY <1>1, <3>3 DEF Apart, Tag
    <3>4. QED BY <3>1, <3>2, <3>3
  <2>3. Tag(snap[g], todo[g]) \intersect sent' = {}
    BY <1>2, <2>1, <2>2 DEF Progress
  <2>4. response' = response /\ due' = due /\ accepted' = accepted
    BY <1>3 DEF store
  <2>5. QED BY <2>1, <2>3, <2>4, StandsKeeps DEF Recorded
<1>9. Apart'
  BY <1>1, <1>3, <1>5 DEF Apart, Stands
<1>10. Books'
  <2>1. /\ response' = response /\ findings' = findings /\ due' = due
        /\ accepted' = accepted /\ reported' = reported
    BY <1>3 DEF store
  <2>2. \A p \in Tag(s, b) : p.snap = s /\ p.report \in due[s]
    BY <1>1, <1>4, TagFacts DEF Progress
  <2>3. Recorded(s)
    BY <1>1, <1>3 DEF Progress, Posting
  <2>4. \A p \in sent' : p.report \in due[p.snap] /\ Recorded(p.snap)
    BY <1>1, <1>2, <2>2, <2>3 DEF Books, OnlyCommittedIsPosted
  <2>5. \A m \in wire' : Tag(m.snap, m.reports) \subseteq sent'
    BY <1>1, <1>2 DEF Books
  <2>6. QED BY <1>1, <1>2, <2>1, <2>4, <2>5 DEF Books, OnlyCommittedIsPosted, Recorded
<1>11. QED BY <1>6, <1>7, <1>8, <1>9, <1>10 DEF IInv

(* A reply moves the handler that waits for it, and no other.              *)
LEMMA ReplyMoves ==
    ASSUME IInv, NEW m \in wire, NEW where \in {"record", "failed"},
           Reply(m, where),
           UNCHANGED <<store, snap, todo, flight, result, due, sent>>,
           accepted \subseteq accepted',
           where = "record" => Tag(m.snap, m.reports) \subseteq accepted'
    PROVE  /\ pc' \in [Handlers -> {"idle", "apply", "deliver", "await", "record",
                                    "failed", "update", "answer"}]
           /\ \A g \in Handlers : Progress(g)'
           /\ Apart'
<1>1. TypeOK /\ Apart
  BY DEF IInv
<1>2. pc' \in [Handlers -> {"idle", "apply", "deliver", "await", "record",
                            "failed", "update", "answer"}]
  BY <1>1 DEF Reply, Goto, TypeOK
<1>3. Apart'
  BY <1>1 DEF Apart
<1>4. ASSUME NEW g \in Handlers PROVE Progress(g)'
  <2>1. Progress(g) /\ response' = response
    BY DEF IInv, store
  <2>2. CASE pc'[g] = pc[g]
    <3>1. Stands(g)
      BY <2>2 DEF Stands
    <3>2. Tag(snap[g], todo[g]) \intersect sent' = {}
      BY <2>1 DEF Progress
    <3>3. QED BY <2>1, <3>1, <3>2, StandsKeeps DEF Recorded
  <2>3. CASE pc'[g] # pc[g]
    <3>1. pc'[g] = where /\ Awaits(g, m)
      BY <1>1, <2>3 DEF Reply, Goto, TypeOK
    <3>2. /\ Recorded(snap[g]) /\ result[g] # "error"
          /\ todo[g] \subseteq due[snap[g]]
          /\ Tag(snap[g], todo[g]) \intersect sent = {}
          /\ Tag(snap[g], due[snap[g]] \ (todo[g] \union flight[g])) \subseteq accepted
      BY <2>1, <3>1 DEF Progress, Posting, Awaits
    <3>3. where = "record" => Tag(snap[g], flight[g]) \subseteq accepted'
      BY <3>1 DEF Awaits
    <3>4. QED BY <2>1, <3>1, <3>2, <3>3 DEF Progress, Posting, Recorded
  <2>4. QED BY <2>2, <2>3
<1>5. QED BY <1>2, <1>3, <1>4

LEMMA AcceptHolds ==
    ASSUME IInv, NEW m \in wire, Accept(m)
    PROVE  IInv'
<1>1. TypeOK /\ Books
  BY DEF IInv
<1>2. /\ Tag(m.snap, m.reports) \subseteq sent
      /\ m.snap \in Snapshots /\ m.reports \subseteq Report
  BY <1>1 DEF Books, TypeOK
<1>3. /\ accepted' = accepted \union Tag(m.snap, m.reports)
      /\ wire' = wire \ {m}
      /\ UNCHANGED <<store, lastError, snap, todo, flight, result, gone, answered,
                     due, sent>>
  BY DEF Accept
<1>4. /\ pc' \in [Handlers -> {"idle", "apply", "deliver", "await", "record",
                               "failed", "update", "answer"}]
      /\ \A g \in Handlers : Progress(g)'
      /\ Apart'
  BY <1>3, ReplyMoves DEF Accept
<1>5. \A r \in m.reports : r \in Report /\ r \in due[m.snap] /\ Recorded(m.snap)
  <2>1. ASSUME NEW r \in m.reports PROVE r \in due[m.snap] /\ Recorded(m.snap)
    <3>1. [snap |-> m.snap, report |-> r] \in sent
      BY <1>2, TagFacts
    <3>2. QED BY <1>1, <3>1 DEF Books, OnlyCommittedIsPosted
  <2>2. QED BY <1>2, <2>1
<1> HIDE DEF FindingKey
<1>6. ASSUME NEW f \in FindingKey
      PROVE  /\ reported'[f] \in FindingStatus
             /\ reported'[f] # "none" => findings[f] # "none"
  <2>1. CASE \E r \in m.reports : r.key = f
    <3> DEFINE r == CHOOSE r \in m.reports : r.key = f
    <3>1. r \in m.reports /\ r.key = f
      BY <2>1
    <3>2. reported'[f] = r.status
      BY <2>1 DEF Accept
    <3>3. r.status \in {"open", "resolved"} /\ findings[f] # "none"
      BY <1>1, <1>2, <1>5, <3>1, ReportFields DEF Books
    <3>4. QED BY <3>2, <3>3 DEF FindingStatus
  <2>2. CASE ~ \E r \in m.reports : r.key = f
    <3>1. reported'[f] = reported[f]
      BY <2>2 DEF Accept
    <3>2. QED BY <1>1, <3>1 DEF TypeOK, Books, OnlyCommittedIsPosted
  <2>3. QED BY <2>1, <2>2
<1>7. reported' \in [FindingKey -> FindingStatus]
  <2>1. reported' = [f \in FindingKey |-> reported'[f]]
    BY DEF Accept
  <2>2. QED BY <1>6, <2>1
<1>8. TypeOK'
  <2>1. Tag(m.snap, m.reports) \subseteq Posted
    BY <1>2, TagFacts
  <2>2. QED BY <1>1, <1>3, <1>4, <1>7, <2>1 DEF TypeOK, store
<1>9. Books'
  <2>1. response' = response /\ findings' = findings /\ due' = due /\ sent' = sent
    BY <1>3 DEF store
  <2>2. QED BY <1>1, <1>2, <1>3, <1>6, <2>1 DEF Books, OnlyCommittedIsPosted, Recorded
<1>10. QED BY <1>4, <1>8, <1>9 DEF IInv

LEMMA RejectHolds ==
    ASSUME IInv, NEW m \in wire, Reject(m)
    PROVE  IInv'
<1>1. TypeOK /\ Books
  BY DEF IInv
<1>2. /\ wire' = wire \ {m}
      /\ UNCHANGED <<store, lastError, snap, todo, flight, result, gone, reported,
                     answered, due, sent, accepted>>
  BY DEF Reject, history
<1>3. /\ pc' \in [Handlers -> {"idle", "apply", "deliver", "await", "record",
                               "failed", "update", "answer"}]
      /\ \A g \in Handlers : Progress(g)'
      /\ Apart'
  BY <1>2, ReplyMoves DEF Reject
<1>4. TypeOK'
  BY <1>1, <1>2, <1>3 DEF TypeOK, store
<1>5. Books'
  BY <1>1, <1>2 DEF Books, OnlyCommittedIsPosted, Recorded, store
<1>6. QED BY <1>3, <1>4, <1>5 DEF IInv

-----------------------------------------------------------------------------
LEMMA StepHolds == IInv /\ [Next]_vars => IInv'
<1> SUFFICES ASSUME IInv, [Next]_vars PROVE IInv'
  OBVIOUS
<1>1. CASE UNCHANGED vars
  <2>1. TypeOK'
    BY <1>1 DEF IInv, TypeOK, vars, store, history
  <2>2. ASSUME NEW h \in Handlers PROVE Progress(h)'
    BY <1>1 DEF IInv, Progress, Recorded, vars, store, history
  <2>3. Apart' /\ Books'
    BY <1>1, BooksStay DEF IInv, Apart, vars
  <2>4. QED BY <2>1, <2>2, <2>3 DEF IInv
<1>2. ASSUME NEW h \in Handlers, Step(h) PROVE IInv'
  BY <1>2, ReplayHolds, ApplyHolds, ApplyFailsHolds, PostBatchHolds,
     PostFailsHolds, RecordDeliveryHolds, DeliveryFailedHolds,
     UpdateResponseHolds, AnswerHolds DEF Step
<1>3. QED
  BY <1>1, <1>2, ReceiveHolds, HangUpHolds, AcceptHolds, RejectHolds, CrashHolds
     DEF Next

LEMMA Invariance == Spec => []IInv
BY InitHolds, StepHolds, PTL DEF Spec

(* Handlers, stored answers and the books of CT Ops stay well-formed: in   *)
(* particular only an answer of the contract is ever stored.               *)
THEOREM TypeCorrect == Spec => []TypeOK
<1>1. IInv => TypeOK
  BY DEF IInv
<1>2. QED BY <1>1, Invariance, PTL

(* Whatever fails, crashes or arrives late, CT Ops is posted only findings *)
(* of committed snapshots, and knows of none the store does not have.      *)
THEOREM PostsAreCommitted == Spec => []OnlyCommittedIsPosted
<1>1. IInv => OnlyCommittedIsPosted
  BY DEF IInv, Books
<1>2. QED BY <1>1, Invariance, PTL

(* A handler that stores "none" for a snapshot it applied has had every    *)
(* one of its findings accepted, whatever the size of the batches.         *)
THEOREM NoneAfterDelivery == Spec => []NoneStoredAfterDelivery
<1>1. IInv => NoneStoredAfterDelivery
  BY DEF IInv, Progress, NoneStoredAfterDelivery
<1>2. QED BY <1>1, Invariance, PTL

(* No match is posted twice, by whichever handlers and after whichever     *)
(* failures.                                                               *)
THEOREM PostsAreOnce == Spec => PostedOnce
<1>1. ASSUME IInv, [Next]_vars, NEW h \in Handlers,
             pc[h] = "deliver", pc'[h] = "await"
      PROVE  Tag(snap[h], flight'[h]) \intersect sent = {}
  <2>1. TypeOK /\ Progress(h)
    BY <1>1 DEF IInv
  <2>2. PostBatch(h)
    <3>1. ~ UNCHANGED vars
      BY <1>1 DEF vars
    <3>2. pc'[h] # pc[h]
      BY <1>1
    <3>3. \A m \in wire : ~ Accept(m) /\ ~ Reject(m)
      BY <1>1, <2>1 DEF Accept, Reject, Reply, Awaits, Goto, TypeOK
    <3>4. ~ Crash
      BY <1>1 DEF Crash
    <3>5. \A g \in Handlers : /\ \A s \in Snapshots : ~ Receive(g, s)
                              /\ ~ HangUp(g)
      BY <1>1, <2>1 DEF Receive, HangUp, Goto, TypeOK
    <3>6. PICK g \in Handlers : Step(g)
      BY <1>1, <3>1, <3>3, <3>4, <3>5 DEF Next
    <3>7. g = h
      BY <1>1, <2>1, <3>6 DEF Step, Replay, Apply, ApplyFails, PostBatch, PostFails,
         RecordDelivery, DeliveryFailed, UpdateResponse, Answer, Goto, TypeOK
    <3>8. QED
      BY <1>1, <2>1, <3>6, <3>7 DEF Step, Replay, Apply, ApplyFails, PostFails,
         RecordDelivery, DeliveryFailed, UpdateResponse, Answer, Goto, TypeOK
  <2>3. flight'[h] \subseteq todo[h]
    BY <2>1, <2>2 DEF PostBatch, NextBatches, TypeOK
  <2>4. Tag(snap[h], todo[h]) \intersect sent = {}
    BY <2>1 DEF Progress
  <2>5. QED BY <2>3, <2>4, TagFacts
<1>2. IInv /\ [Next]_vars =>
         [\A h \in Handlers :
             pc[h] = "deliver" /\ pc'[h] = "await" =>
                 Tag(snap[h], flight'[h]) \intersect sent = {}]_vars
  BY <1>1
<1>3. QED BY <1>2, Invariance, PTL DEF Spec, PostedOnce

(* The connection error is cleared only by a handler whose batch CT Ops    *)
(* has accepted.                                                           *)
THEOREM ErrorsAreCleared == Spec => ErrorClearedByDelivery
<1>1. ASSUME IInv, [Next]_vars, lastError, ~lastError'
      PROVE  \E h \in Handlers : /\ pc[h] = "record"
                                 /\ Tag(snap[h], flight[h]) \subseteq accepted
  <2>1. PICK h \in Handlers : RecordDelivery(h)
    BY <1>1 DEF Next, Step, vars, Replay, Apply, ApplyFails, PostBatch, PostFails,
       DeliveryFailed, UpdateResponse, Answer, Receive, HangUp, Accept, Reject, Crash
  <2>2. pc[h] = "record"
    BY <2>1 DEF RecordDelivery
  <2>3. QED BY <1>1, <2>2 DEF IInv, Progress
<1>2. IInv /\ [Next]_vars =>
         [lastError /\ ~lastError' =>
             \E h \in Handlers : /\ pc[h] = "record"
                                 /\ Tag(snap[h], flight[h]) \subseteq accepted]_vars
  BY <1>1
<1>3. QED BY <1>2, Invariance, PTL DEF Spec, ErrorClearedByDelivery
=============================================================================
