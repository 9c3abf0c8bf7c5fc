----------------------------- MODULE SourceSettings -----------------------------
(***************************************************************************)
(* The forms of the status page that change a feed source                  *)
(* (serveSourceConfig in internal/gui/handler.go over feed_source_config   *)
(* and operational_logs): a request reads the effective configuration,     *)
(* makes the new setting of it and of the form, saves it, and then writes  *)
(* a log entry.  The three are statements of their own, with no            *)
(* transaction around them, under r.Context(); requests overlap.           *)
(*                                                                         *)
(* A form always carries the enabled mark, the endpoint and the delay: the *)
(* model has one value for the three.  The API key it carries only when    *)
(* the operator types a new one.  The forms here passed the session, CSRF  *)
(* and validity checks.                                                    *)
(***************************************************************************)
EXTENDS Naturals

CONSTANTS Handlers,
          Sources, Keyed,          \* the sources, and those that use an API key
          Fields,                  \* enabled, base_url, request_delay
          ApiKeys, NoKey,          \* NoKey: the empty string
          Keep, Clear,             \* a blank key field; clear_api_key ticked
          NoRow

ASSUME KeyedAssumption == Keyed \subseteq Sources
ASSUME NonEmptyAssumption == Sources # {} /\ Fields # {}
ASSUME KeyAssumption == /\ {NoKey, Keep, Clear} \intersect ApiKeys = {}
                        /\ Keep # Clear

Setting == [fields : Fields, key : ApiKeys \union {NoKey}]
ASSUME NoRowAssumption == NoRow \notin Setting

Form == [source : Sources, fields : Fields, key : ApiKeys \union {Keep, Clear}]

(* The detail of a log entry tells whether there is a key, not which.      *)
Detail(s, setting) == [source |-> s, fields |-> setting.fields,
                       keyed |-> setting.key # NoKey]

VARIABLES environment,  \* the sources of the process's environment variables
          saved,        \* feed_source_config
          log,          \* the "source configuration updated" entries
          pc, form,     \* where a handler is, and what was posted to it
          setting       \* what it is about to save
(* For the properties: another form for the source was saved since the     *)
(* handler read the configuration; the details of all settings ever saved. *)
VARIABLES overlapped, written

vars == <<environment, saved, log, pc, form, setting, overlapped, written>>

Environments ==
    {e \in [Sources -> Setting] : \A s \in Sources \ Keyed : e[s].key = NoKey}

TypeOK ==
    /\ environment \in Environments
    /\ saved \in [Sources -> Setting \union {NoRow}]
    /\ log \subseteq {Detail(s, x) : s \in Sources, x \in Setting}
    /\ pc \in [Handlers -> {"idle", "read", "save", "log"}]
    /\ form \in [Handlers -> Form]
    /\ setting \in [Handlers -> Setting]
    /\ \A s \in Sources \ Keyed :
          saved[s] # NoRow => saved[s].key = NoKey
    /\ overlapped \in [Handlers -> BOOLEAN]
    /\ written \subseteq {Detail(s, x) : s \in Sources, x \in Setting}

Idle == [h \in Handlers |-> "idle"]
Unlapped == [h \in Handlers |-> FALSE]
AnyForm == CHOOSE f \in Form : f.key = Keep
AnySetting == CHOOSE x \in Setting : x.key = NoKey

Init ==
    /\ environment \in Environments
    /\ saved = [s \in Sources |-> NoRow]
    /\ log = {}
    /\ pc = Idle
    /\ form = [h \in Handlers |-> AnyForm]
    /\ setting = [h \in Handlers |-> AnySetting]
    /\ overlapped = Unlapped
    /\ written = {}

(* A bug for comparison: a saved key that is empty counts as not saved.    *)
EffectiveWithFallback(s) ==
    IF saved[s] = NoRow THEN environment[s]
    ELSE IF saved[s].key # NoKey THEN saved[s]
    ELSE [saved[s] EXCEPT !.key = environment[s].key]

(* ApplySourceSettings: a saved setting replaces the environment's, its    *)
(* key even when it is empty.                                              *)
Effective(s) == IF saved[s] = NoRow THEN environment[s] ELSE saved[s]

(* A bug for comparison: a blank key field is taken for the key.           *)
KeyAsPosted(f, current) ==
    IF f.key \in ApiKeys /\ f.source \in Keyed THEN f.key ELSE NoKey

(* A bug for comparison: the key is read from every source's form.         *)
KeyOfAnySource(f, current) ==
    IF f.key = Clear THEN NoKey
    ELSE IF f.key = Keep THEN current.key ELSE f.key

(* The key of sourceSettingFromForm.                                       *)
KeyFromForm(f, current) ==
    IF f.source \notin Keyed \/ f.key = Clear THEN NoKey
    ELSE IF f.key = Keep THEN current.key ELSE f.key

(* The handler returns.                                                    *)
Return(h) ==
    /\ pc' = [pc EXCEPT ![h] = "idle"]
    /\ form' = [form EXCEPT ![h] = AnyForm]
    /\ setting' = [setting EXCEPT ![h] = AnySetting]

Post(h, f) ==
    /\ pc[h] = "idle"
    /\ pc' = [pc EXCEPT ![h] = "read"]
    /\ form' = [form EXCEPT ![h] = f]
    /\ UNCHANGED <<environment, saved, log, setting, overlapped, written>>

(* effectiveConfig and sourceSettingFromForm.                              *)
ReadEffective(h) ==
    LET s == form[h].source
    IN  /\ pc[h] = "read"
        /\ pc' = [pc EXCEPT ![h] = "save"]
        /\ setting' = [setting EXCEPT ![h] =
                         [fields |-> form[h].fields,
                          key |-> KeyFromForm(form[h], Effective(s))]]
        /\ overlapped' = [overlapped EXCEPT ![h] = FALSE]
        /\ UNCHANGED <<environment, saved, log, form, written>>

(* The row that the UPSERT of handler h leaves.                            *)
SaveRow(h) ==
    LET s == form[h].source
    IN  /\ saved' = [saved EXCEPT ![s] = setting[h]]
        /\ written' = written \union {Detail(s, setting[h])}
        /\ overlapped' = [g \in Handlers |->
                            IF g = h THEN FALSE
                            ELSE \/ overlapped[g]
                                 \/ pc[g] = "save" /\ form[g].source = s]

(* UpsertFeedSourceConfig.                                                 *)
Save(h) ==
    /\ pc[h] = "save"
    /\ SaveRow(h)
    /\ pc' = [pc EXCEPT ![h] = "log"]
    /\ UNCHANGED <<environment, log, form, setting>>

(* A bug for comparison: the error of the UPSERT is not looked at.         *)
SaveFailsButGoesOn(h) ==
    /\ pc[h] = "save"
    /\ pc' = [pc EXCEPT ![h] = "log"]
    /\ UNCHANGED <<environment, saved, log, form, setting, overlapped, written>>

(* The statement fails, or its result is lost with the row saved: a 500,   *)
(* and no log entry.                                                       *)
SaveFails(h) ==
    /\ pc[h] = "save"
    /\ SaveRow(h) \/ UNCHANGED <<saved, written, overlapped>>
    /\ Return(h)
    /\ UNCHANGED <<environment, log>>

(* RecordOperationalLog.                                                   *)
RecordLog(h) ==
    /\ pc[h] = "log"
    /\ log' = log \union {Detail(form[h].source, setting[h])}
    /\ Return(h)
    /\ UNCHANGED <<environment, saved, overlapped, written>>

(* Reading or logging fails, or the client is gone: the handler returns.   *)
GiveUp(h) ==
    /\ pc[h] \in {"read", "log"}
    /\ Return(h)
    /\ UNCHANGED <<environment, saved, log, overlapped, written>>

(* The process stops and is started again, in an environment of any kind.  *)
Restart ==
    /\ environment' \in Environments
    /\ pc' = Idle
    /\ form' = [h \in Handlers |-> AnyForm]
    /\ setting' = [h \in Handlers |-> AnySetting]
    /\ overlapped' = Unlapped
    /\ UNCHANGED <<saved, log, written>>

Next ==
    \/ \E h \in Handlers : \/ \E f \in Form : Post(h, f)
                           \/ ReadEffective(h)
                           \/ Save(h)
                           \/ SaveFails(h)
                           \/ RecordLog(h)
                           \/ GiveUp(h)
    \/ Restart

Spec == Init /\ [][Next]_vars
-----------------------------------------------------------------------------
Saves(h, s) == form[h].source = s /\ pc[h] = "save" /\ pc'[h] = "log"

(* A form with a blank key field keeps the API key that is in effect when  *)
(* it is saved, unless another form for the source was saved since this    *)
(* one read the configuration: then the code writes back the key it read   *)
(* (gui/handler.go:145-155), and what the other form entered is lost.      *)
BlankKeepsKeyAlone ==
    [][\A h \in Handlers, s \in Sources :
          Saves(h, s) /\ form[h].key = Keep /\ ~overlapped[h] =>
              Effective(s)'.key = Effective(s).key]_vars

(* A source that has saved settings without a key gets one only from a     *)
(* form that enters it, or by two forms at a time: not from a restart with *)
(* another environment, and not from a form that changes something else.   *)
KeyNeedsEntry ==
    [][\A s \in Sources :
          /\ saved[s] # NoRow
          /\ Effective(s).key = NoKey
          /\ Effective(s)'.key # NoKey
          => \E h \in Handlers : /\ pc[h] = "save"
                                 /\ form[h].source = s
                                 /\ form[h].key \in ApiKeys \/ overlapped[h]]_vars

(* A log entry tells of a setting that was saved.                          *)
LoggedWasSaved == log \subseteq written
=============================================================================
