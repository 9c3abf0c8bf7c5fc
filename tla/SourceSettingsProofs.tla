-------------------------- MODULE SourceSettingsProofs --------------------------
(***************************************************************************)
(* Theorems about SourceSettings, for any number of sources, requests and  *)
(* API keys.                                                               *)
(***************************************************************************)
EXTENDS SourceSettings, TLAPS

(* What a handler that is about to save has made of its form.              *)
Prepared(h) ==
    LET s == form[h].source
    IN  pc[h] = "save" =>
          /\ s \notin Keyed => setting[h].key = NoKey
          /\ form[h].key = Clear => setting[h].key = NoKey
          /\ form[h].key = Keep /\ ~overlapped[h] =>
                setting[h].key = Effective(s).key

(* And one that is about to log has saved what it logs.                    *)
SavedIt(h) ==
    pc[h] = "log" => Detail(form[h].source, setting[h]) \in written

(* The inductive invariant.                                                *)
IInv ==
    /\ TypeOK
    /\ \A h \in Handlers : Prepared(h)
    /\ \A h \in Handlers : SavedIt(h)
    /\ LoggedWasSaved

-----------------------------------------------------------------------------
LEMMA AnyFormType == AnyForm \in Form
<1>1. PICK s \in Sources, f \in Fields : TRUE
  BY NonEmptyAssumption
<1>2. [source |-> s, fields |-> f, key |-> Keep] \in Form
  BY DEF Form
<1>3. \E x \in Form : x.key = Keep
  BY <1>2
<1>4. QED
  BY <1>3 DEF AnyForm

LEMMA AnySettingType == AnySetting \in Setting
<1>1. PICK f \in Fields : TRUE
  BY NonEmptyAssumption
<1>2. [fields |-> f, key |-> NoKey] \in Setting
  BY DEF Setting
<1>3. \E x \in Setting : x.key = NoKey
  BY <1>2
<1>4. QED
  BY <1>3 DEF AnySetting

(* What is in effect is a setting, with no key where no key is used.       *)
LEMMA EffectiveType ==
    ASSUME TypeOK, NEW s \in Sources
    PROVE  /\ Effective(s) \in Setting
           /\ s \notin Keyed => Effective(s).key = NoKey
BY DEF TypeOK, Effective, Environments

(* sourceSettingFromForm: a key for keyed sources only, none when it is to *)
(* be cleared, the current one when the field is blank.                    *)
LEMMA KeyFromFormFacts ==
    ASSUME NEW f \in Form, NEW current \in Setting,
           f.source \notin Keyed => current.key = NoKey
    PROVE  /\ KeyFromForm(f, current) \in ApiKeys \union {NoKey}
           /\ f.source \notin Keyed => KeyFromForm(f, current) = NoKey
           /\ f.key = Clear => KeyFromForm(f, current) = NoKey
           /\ f.key = Keep => KeyFromForm(f, current) = current.key
BY KeyAssumption DEF KeyFromForm, Form, Setting
-----------------------------------------------------------------------------
LEMMA InitHolds == Init => IInv
<1> SUFFICES ASSUME Init PROVE IInv
  OBVIOUS
<1> USE DEF Init, Idle, Unlapped
<1>1. TypeOK
  BY AnyFormType, AnySettingType DEF TypeOK
<1>2. \A h \in Handlers : Prepared(h) /\ SavedIt(h)
  BY DEF Prepared, SavedIt
<1>3. LoggedWasSaved
  BY DEF LoggedWasSaved
<1>4. QED
  BY <1>1, <1>2, <1>3 DEF IInv

(* A handler that returns keeps the types of its own and what is said of   *)
(* the others.                                                             *)
LEMMA ReturnTypes ==
    ASSUME TypeOK, NEW h \in Handlers, Return(h)
    PROVE  /\ pc' \in [Handlers -> {"idle", "read", "save", "log"}]
           /\ form' \in [Handlers -> Form]
           /\ setting' \in [Handlers -> Setting]
           /\ pc'[h] = "idle"
           /\ \A g \in Handlers \ {h} : /\ pc'[g] = pc[g]
                                       /\ form'[g] = form[g]
                                       /\ setting'[g] = setting[g]
BY AnyFormType, AnySettingType DEF TypeOK, Return

(* The row saved by one handler: what another one prepared for the source  *)
(* is marked as overlapped.                                                *)
LEMMA SaveRowFacts ==
    ASSUME IInv, NEW h \in Handlers, pc[h] = "save", SaveRow(h)
    PROVE  /\ saved' \in [Sources -> Setting \union {NoRow}]
           /\ \A s \in Sources \ Keyed : saved'[s] # NoRow => saved'[s].key = NoKey
           /\ overlapped' \in [Handlers -> BOOLEAN]
           /\ written' \subseteq {Detail(s, x) : s \in Sources, x \in Setting}
           /\ written \subseteq written'
           /\ Detail(form[h].source, setting[h]) \in written'
           /\ saved'[form[h].source] = setting[h]
           /\ \A s \in Sources \ {form[h].source} : saved'[s] = saved[s]
           /\ \A g \in Handlers \ {h} :
                 pc[g] = "save" /\ ~overlapped'[g] =>
                     ~overlapped[g] /\ form[g].source # form[h].source
<1> DEFINE s == form[h].source
<1>1. TypeOK /\ Prepared(h)
  BY DEF IInv
<1>2. s \in Sources /\ setting[h] \in Setting
  BY <1>1 DEF TypeOK, Form
<1>3. s \notin Keyed => setting[h].key = NoKey
  BY <1>1 DEF Prepared
<1>4. saved' = [saved EXCEPT ![s] = setting[h]]
  BY DEF SaveRow
<1>5. /\ saved' \in [Sources -> Setting \union {NoRow}]
      /\ saved'[s] = setting[h]
      /\ \A r \in Sources \ {s} : saved'[r] = saved[r]
  BY <1>1, <1>2, <1>4 DEF TypeOK
<1>6. \A r \in Sources \ Keyed : saved'[r] # NoRow => saved'[r].key = NoKey
  BY <1>1, <1>3, <1>5 DEF TypeOK
<1>7. /\ overlapped' \in [Handlers -> BOOLEAN]
      /\ \A g \in Handlers \ {h} :
            pc[g] = "save" /\ ~overlapped'[g] =>
                ~overlapped[g] /\ form[g].source # s
  BY <1>1 DEF SaveRow, TypeOK
<1>8. /\ written' \subseteq {Detail(r, x) : r \in Sources, x \in Setting}
      /\ written' = written \union {Detail(s, setting[h])}
  BY <1>1, <1>2 DEF SaveRow, TypeOK
<1>9. QED
  BY <1>5, <1>6, <1>7, <1>8
-----------------------------------------------------------------------------
(* The steps, one lemma each.                                              *)
LEMMA PostHolds ==
    ASSUME IInv, NEW h \in Handlers, NEW f \in Form, Post(h, f)
    PROVE  IInv'
<1> USE DEF IInv, Post
<1>1. TypeOK'
  BY DEF TypeOK
<1>2. ASSUME NEW g \in Handlers PROVE Prepared(g)' /\ SavedIt(g)'
  BY DEF TypeOK, Prepared, SavedIt, Effective
<1>3. LoggedWasSaved'
  BY DEF LoggedWasSaved
<1>4. QED
  BY <1>1, <1>2, <1>3

LEMMA ReadEffectiveHolds ==
    ASSUME IInv, NEW h \in Handlers, ReadEffective(h)
    PROVE  IInv'
<1> DEFINE s == form[h].source
           k == KeyFromForm(form[h], Effective(s))
<1>1. TypeOK /\ form[h] \in Form /\ s \in Sources
  BY DEF IInv, TypeOK, Form
<1>2. /\ Effective(s) \in Setting
      /\ s \notin Keyed => Effective(s).key = NoKey
  BY <1>1, EffectiveType
<1>3. /\ k \in ApiKeys \union {NoKey}
      /\ s \notin Keyed => k = NoKey
      /\ form[h].key = Clear => k = NoKey
      /\ form[h].key = Keep => k = Effective(s).key
  BY <1>1, <1>2, KeyFromFormFacts
<1>4. setting' = [setting EXCEPT ![h] = [fields |-> form[h].fields, key |-> k]]
  BY DEF ReadEffective
<1> HIDE DEF k
<1>5. TypeOK'
  BY <1>1, <1>3, <1>4 DEF TypeOK, ReadEffective, Form, Setting
<1>6. setting'[h].key = k
  BY <1>1, <1>4 DEF TypeOK
<1>7. Prepared(h)'
  BY <1>1, <1>3, <1>6 DEF Prepared, Effective, ReadEffective
<1>8. ASSUME NEW g \in Handlers \ {h} PROVE Prepared(g)'
  BY <1>4 DEF IInv, TypeOK, Prepared, Effective, ReadEffective
<1>9. ASSUME NEW g \in Handlers PROVE SavedIt(g)'
  BY <1>4 DEF IInv, TypeOK, SavedIt, ReadEffective
<1>10. LoggedWasSaved'
  BY DEF IInv, LoggedWasSaved, ReadEffective
<1>11. QED
  BY <1>5, <1>7, <1>8, <1>9, <1>10 DEF IInv

LEMMA SaveHolds ==
    ASSUME IInv, NEW h \in Handlers, Save(h)
    PROVE  IInv'
<1>1. pc[h] = "save" /\ SaveRow(h)
  BY DEF Save
<1>2. /\ pc' = [pc EXCEPT ![h] = "log"]
      /\ UNCHANGED <<environment, log, form, setting>>
  BY DEF Save
<1>3. TypeOK'
  BY <1>1, <1>2, SaveRowFacts DEF IInv, TypeOK
<1>4. ASSUME NEW g \in Handlers PROVE Prepared(g)'
  <2>1. CASE g = h
    BY <1>2, <2>1 DEF IInv, TypeOK, Prepared
  <2>2. CASE g # h
    <3>1. pc'[g] = pc[g] /\ form[g].source \in Sources
      BY <1>2, <2>2 DEF IInv, TypeOK, Form
    <3>2. pc[g] = "save" /\ ~overlapped'[g] =>
            ~overlapped[g] /\ saved'[form[g].source] = saved[form[g].source]
      BY <1>1, <2>2, <3>1, SaveRowFacts
    <3>3. QED
      BY <1>2, <3>1, <3>2 DEF IInv, Prepared, Effective
  <2>3. QED
    BY <2>1, <2>2
<1>5. ASSUME NEW g \in Handlers PROVE SavedIt(g)'
  <2>1. Detail(form[h].source, setting[h]) \in written' /\ written \subseteq written'
    BY <1>1, SaveRowFacts
  <2>2. CASE g = h
    BY <1>2, <2>1, <2>2 DEF SavedIt, Detail
  <2>3. CASE g # h
    BY <1>2, <2>1, <2>3 DEF IInv, TypeOK, SavedIt, Detail
  <2>4. QED
    BY <2>2, <2>3
<1>6. LoggedWasSaved'
  BY <1>1, <1>2, SaveRowFacts DEF IInv, LoggedWasSaved
<1>7. QED
  BY <1>3, <1>4, <1>5, <1>6 DEF IInv

LEMMA SaveFailsHolds ==
    ASSUME IInv, NEW h \in Handlers, SaveFails(h)
    PROVE  IInv'
<1>1. pc[h] = "save" /\ Return(h) /\ UNCHANGED <<environment, log>>
  BY DEF SaveFails
<1>2. /\ pc' \in [Handlers -> {"idle", "read", "save", "log"}]
      /\ form' \in [Handlers -> Form]
      /\ setting' \in [Handlers -> Setting]
      /\ pc'[h] = "idle"
      /\ \A g \in Handlers \ {h} : /\ pc'[g] = pc[g]
                                  /\ form'[g] = form[g]
                                  /\ setting'[g] = setting[g]
  BY <1>1, ReturnTypes DEF IInv
<1>3. /\ saved' \in [Sources -> Setting \union {NoRow}]
      /\ \A s \in Sources \ Keyed : saved'[s] # NoRow => saved'[s].key = NoKey
      /\ overlapped' \in [Handlers -> BOOLEAN]
      /\ written' \subseteq {Detail(s, x) : s \in Sources, x \in Setting}
      /\ written \subseteq written'
  <2>1. CASE SaveRow(h)
    BY <1>1, <2>1, SaveRowFacts
  <2>2. CASE UNCHANGED <<saved, written, overlapped>>
    BY <2>2 DEF IInv, TypeOK
  <2>3. QED
    BY <2>1, <2>2 DEF SaveFails
<1>4. TypeOK'
  BY <1>1, <1>2, <1>3 DEF IInv, TypeOK
<1>5. ASSUME NEW g \in Handlers PROVE Prepared(g)'
  <2>1. CASE g = h
    BY <1>2, <2>1 DEF Prepared
  <2>2. CASE g # h
    <3>1. /\ pc'[g] = pc[g] /\ form'[g] = form[g] /\ setting'[g] = setting[g]
          /\ form[g].source \in Sources
      BY <1>2, <2>2 DEF IInv, TypeOK, Form
    <3>2. pc[g] = "save" /\ ~overlapped'[g] =>
            ~overlapped[g] /\ saved'[form[g].source] = saved[form[g].source]
      <4>1. CASE SaveRow(h)
        BY <1>1, <2>2, <3>1, <4>1, SaveRowFacts
      <4>2. CASE UNCHANGED <<saved, written, overlapped>>
        BY <4>2
      <4>3. QED
        BY <4>1, <4>2 DEF SaveFails
    <3>3. QED
      BY <1>1, <3>1, <3>2 DEF IInv, Prepared, Effective
  <2>3. QED
    BY <2>1, <2>2
<1>6. ASSUME NEW g \in Handlers PROVE SavedIt(g)'
  <2>1. CASE g = h
    BY <1>2, <2>1 DEF SavedIt
  <2>2. CASE g # h
    BY <1>2, <1>3, <2>2 DEF IInv, SavedIt, Detail
  <2>3. QED
    BY <2>1, <2>2
<1>7. LoggedWasSaved'
  BY <1>1, <1>3 DEF IInv, LoggedWasSaved
<1>8. QED
  BY <1>4, <1>5, <1>6, <1>7 DEF IInv

(* A handler that only returns, with or without its log entry.             *)
LEMMA LeaveHolds ==
    ASSUME IInv, NEW h \in Handlers, RecordLog(h) \/ GiveUp(h)
    PROVE  IInv'
<1>1. Return(h) /\ UNCHANGED <<environment, saved, overlapped, written>>
  BY DEF RecordLog, GiveUp
<1>2. /\ pc' \in [Handlers -> {"idle", "read", "save", "log"}]
      /\ form' \in [Handlers -> Form]
      /\ setting' \in [Handlers -> Setting]
      /\ pc'[h] = "idle"
      /\ \A g \in Handlers \ {h} : /\ pc'[g] = pc[g]
                                  /\ form'[g] = form[g]
                                  /\ setting'[g] = setting[g]
  BY <1>1, ReturnTypes DEF IInv
<1>3. log' \subseteq written
  BY DEF RecordLog, GiveUp, IInv, LoggedWasSaved, SavedIt
<1>4. TypeOK'
  BY <1>1, <1>2, <1>3 DEF IInv, TypeOK
<1>5. ASSUME NEW g \in Handlers PROVE Prepared(g)' /\ SavedIt(g)'
  BY <1>1, <1>2 DEF IInv, Prepared, SavedIt, Effective, Detail
<1>6. QED
  BY <1>1, <1>3, <1>4, <1>5 DEF IInv, LoggedWasSaved

LEMMA RestartHolds == IInv /\ Restart => IInv'
<1> SUFFICES ASSUME IInv, Restart PROVE IInv'
  OBVIOUS
<1>1. TypeOK'
  BY AnyFormType, AnySettingType DEF IInv, TypeOK, Restart, Idle, Unlapped
<1>2. \A h \in Handlers : Prepared(h)' /\ SavedIt(h)'
  BY DEF Restart, Idle, Prepared, SavedIt
<1>3. QED
  BY <1>1, <1>2 DEF IInv, LoggedWasSaved, Restart

LEMMA StutterHolds == IInv /\ UNCHANGED vars => IInv'
BY DEF IInv, TypeOK, Prepared, SavedIt, LoggedWasSaved, Effective, Detail, vars

LEMMA StepHolds == IInv /\ [Next]_vars => IInv'
BY PostHolds, ReadEffectiveHolds, SaveHolds, SaveFailsHolds, LeaveHolds,
   RestartHolds, StutterHolds DEF Next

LEMMA InvariantHolds == Spec => []IInv
BY InitHolds, StepHolds, PTL DEF Spec
-----------------------------------------------------------------------------
(* What the handler is about to save is what a form or the configuration   *)
(* in effect has.                                                          *)
LEMMA KeyComesFrom ==
    ASSUME IInv, NEW h \in Handlers, pc[h] = "save", SaveRow(h),
           NEW s \in Sources, form[h].source = s
    PROVE  /\ Effective(s)'.key = setting[h].key
           /\ form[h].key = Keep /\ ~overlapped[h] =>
                  Effective(s)'.key = Effective(s).key
           /\ \/ form[h].key \in ApiKeys
              \/ setting[h].key = NoKey
              \/ form[h].key = Keep
<1>1. /\ TypeOK /\ Prepared(h)
      /\ form[h] \in Form /\ setting[h] \in Setting
  BY DEF IInv, TypeOK
<1>2. saved'[form[h].source] = setting[h]
  BY SaveRowFacts
<1>3. Effective(s)' = setting[h]
  BY <1>1, <1>2, NoRowAssumption DEF Effective, SaveRow
<1>4. QED
  BY <1>1, <1>3 DEF Prepared, Form

(* A request, the saved settings and the log are always well-formed, and a *)
(* source that uses no API key never has one saved.                        *)
THEOREM TypeCorrect == Spec => []TypeOK
<1>1. IInv => TypeOK
  BY DEF IInv
<1>2. QED
  BY <1>1, InvariantHolds, PTL

(* However requests overlap and fail, the log tells only of settings that  *)
(* were saved.                                                             *)
THEOREM LogIsTrue == Spec => []LoggedWasSaved
<1>1. IInv => LoggedWasSaved
  BY DEF IInv
<1>2. QED
  BY <1>1, InvariantHolds, PTL

(* A form with a blank key field that nobody overlaps keeps the API key.   *)
THEOREM BlankKeyKeeps == Spec => BlankKeepsKeyAlone
<1>1. IInv /\ [Next]_vars
        => [\A h \in Handlers, s \in Sources :
              Saves(h, s) /\ form[h].key = Keep /\ ~overlapped[h] =>
                  Effective(s)'.key = Effective(s).key]_vars
  <2> SUFFICES ASSUME IInv, Next, NEW h \in Handlers, NEW s \in Sources,
                      Saves(h, s), form[h].key = Keep, ~overlapped[h]
               PROVE  Effective(s)'.key = Effective(s).key
    OBVIOUS
  <2>1. pc \in [Handlers -> {"idle", "read", "save", "log"}]
    BY DEF IInv, TypeOK
  <2>2. form[h].source = s /\ pc[h] = "save" /\ pc'[h] = "log"
    BY DEF Saves
  <2>3. SaveRow(h)
    <3>1. ASSUME NEW g \in Handlers, NEW f \in Form, Post(g, f) PROVE FALSE
      BY <2>1, <2>2, <3>1 DEF Post
    <3>2. ASSUME NEW g \in Handlers, ReadEffective(g) PROVE FALSE
      BY <2>1, <2>2, <3>2 DEF ReadEffective
    <3>3. ASSUME NEW g \in Handlers, SaveFails(g) \/ RecordLog(g) \/ GiveUp(g)
          PROVE  FALSE
      BY <2>1, <2>2, <3>3 DEF SaveFails, RecordLog, GiveUp, Return
    <3>4. ASSUME Restart PROVE FALSE
      BY <2>2, <3>4 DEF Restart, Idle
    <3>5. ASSUME NEW g \in Handlers, Save(g) PROVE SaveRow(h)
      BY <2>1, <2>2, <3>5 DEF Save
    <3>6. QED
      BY <3>1, <3>2, <3>3, <3>4, <3>5 DEF Next
  <2>4. QED
    BY <2>2, <2>3, KeyComesFrom
<1>2. QED
  BY <1>1, InvariantHolds, PTL DEF Spec, BlankKeepsKeyAlone

(* A saved setting without a key gets one only where one is entered.       *)
THEOREM KeysAreEntered == Spec => KeyNeedsEntry
<1> DEFINE Entered(s) ==
             \E h \in Handlers : /\ pc[h] = "save"
                                 /\ form[h].source = s
                                 /\ form[h].key \in ApiKeys \/ overlapped[h]
<1>1. IInv /\ [Next]_vars
        => [\A s \in Sources :
              /\ saved[s] # NoRow
              /\ Effective(s).key = NoKey
              /\ Effective(s)'.key # NoKey
              => Entered(s)]_vars
  <2> SUFFICES ASSUME IInv, Next, NEW s \in Sources,
                      saved[s] # NoRow,
                      Effective(s).key = NoKey, Effective(s)'.key # NoKey
               PROVE  Entered(s)
    OBVIOUS
  <2>1. saved'[s] # saved[s]
    BY DEF Effective
  <2>2. PICK h \in Handlers : pc[h] = "save" /\ SaveRow(h)
    BY <2>1 DEF Next, Post, ReadEffective, Save, SaveFails, RecordLog, GiveUp,
                Restart
  <2>3. form[h].source = s
    BY <2>1, <2>2, SaveRowFacts
  <2>4. form[h].key \in ApiKeys \/ overlapped[h]
    BY <2>2, <2>3, KeyComesFrom DEF IInv, TypeOK
  <2>5. QED
    BY <2>2, <2>3, <2>4
<1>2. QED
  BY <1>1, InvariantHolds, PTL DEF Spec, KeyNeedsEntry
=============================================================================
