----------------------------- MODULE SettingsForm -----------------------------
(***************************************************************************)
(* The Settings section of the admin page (Admin.tsx: SettingsSection) and *)
(* the three runtime settings it edits (internal/settings,                 *)
(* admin_settings_handler.go): the form is filled once from the cached     *)
(* settings, every save sends all of it, and the server writes a batch one *)
(* key at a time.                                                          *)
(*                                                                         *)
(* Time is counted in half minutes: the form's date and time field has no  *)
(* seconds.  What the server holds after its n-th write is "asOf n".       *)
(***************************************************************************)
EXTENDS QueryCache, Integers

CONSTANTS
  CronKeys, Crons,       \* results_cron, weekly_cron: valid expressions
  LockKey, Instants,     \* bonus_lock_at
  BadCron, Empty,
  NoRequest,
  MaxSettingPuts, MaxSettingWrites   \* bounds

SettingKeys == CronKeys \union {LockKey}
ValidFor(k) == IF k = LockKey THEN Instants ELSE Crons
Typed(k) == ValidFor(k) \union (IF k = LockKey THEN {Empty} ELSE {BadCron})
Batch == {b \in [SettingKeys -> Crons \union Instants \union {BadCron}] :
            \A k \in SettingKeys : b[k] \in Typed(k)}

ASSUME SettingsFormAssumption ==
  /\ LockKey \notin CronKeys /\ Instants \subseteq Nat
  /\ \A t \in Instants : t - (t % 2) \in Instants
  /\ BadCron \notin Crons
  /\ MaxSettingPuts \in Nat /\ MaxSettingWrites \in Nat

VARIABLES
  stored,        \* the settings table
  settingWrites, \* how often it was written
  settingsQ,     \* the query ["admin", "settings"]
  formUp,        \* the section is mounted
  seeded,        \* initialisedRef
  form, formAsOf,
  batchJob,      \* the request the section waits for, or 0
  batches,       \* PUT requests
  sentBatches,
  savedAsOf      \* history: the newest save the section was told of

settingsTable == <<stored, settingWrites>>
settingsTab   == <<settingsQ, formUp, seeded, form, formAsOf>>
settingsVars  == <<settingsTable, settingsTab, batchJob, batches, sentBatches, savedAsOf>>

Snapshot == [val : [SettingKeys -> Crons \union Instants], asOf : Nat]
Table == [val |-> stored, asOf |-> settingWrites]

\* What the form shows of a stored value, and what it sends for it
\* (rfc3339ToIstInput, istInputToIstRfc3339): the instant without its seconds.
FormValue(k, v) == IF k = LockKey THEN v - (v % 2) ELSE v

BlankForm == [k \in SettingKeys |-> Empty]
FormOf(s) == [k \in SettingKeys |-> FormValue(k, s.val[k])]

FormReady == formUp /\ settingsQ.data # NoData /\ ~settingsQ.failed

-----------------------------------------------------------------------------
SettingsInit ==
  /\ stored \in [SettingKeys -> Crons \union Instants]
  /\ \A k \in SettingKeys : stored[k] \in ValidFor(k)
  /\ settingWrites = 0
  /\ settingsQ = Unasked /\ formUp = FALSE /\ seeded = FALSE
  /\ form = BlankForm /\ formAsOf = 0
  /\ batchJob = 0 /\ batches = [n \in 1 .. MaxSettingPuts |-> NoRequest] /\ sentBatches = 0
  /\ savedAsOf = 0

WriteSetting(k, v) ==
  /\ settingWrites < MaxSettingWrites
  /\ stored' = [stored EXCEPT ![k] = v]
  /\ settingWrites' = settingWrites + 1

\* Another admin changes a setting.
SetElsewhere(k, v) ==
  /\ v # stored[k]
  /\ WriteSetting(k, v)
  /\ UNCHANGED <<settingsTab, batchJob, batches, sentBatches, savedAsOf>>

\* A render with the query q: the form is filled by the first settings it sees.
Fill(q) ==
  /\ settingsQ' = q
  /\ IF formUp' /\ q.data # NoData /\ ~(seeded /\ formUp)
     THEN seeded' = TRUE /\ form' = FormOf(q.data) /\ formAsOf' = q.data.asOf
     ELSE UNCHANGED <<seeded, form, formAsOf>>

\* The Admin page is opened, and left: the form is forgotten, the query is not.
OpenSettings ==
  /\ ~formUp /\ formUp' = TRUE
  /\ Fill(Fetch(settingsQ))
  /\ UNCHANGED <<settingsTable, batchJob, batches, sentBatches, savedAsOf>>

CloseSettings ==
  /\ formUp /\ formUp' = FALSE
  /\ seeded' = FALSE /\ form' = BlankForm /\ formAsOf' = 0
  /\ batchJob' = 0 /\ savedAsOf' = 0
  /\ UNCHANGED <<settingsTable, settingsQ, batches, sentBatches>>

FocusSettings ==
  /\ formUp /\ settingsQ.flight = "idle"
  /\ settingsQ' = Fetch(settingsQ)
  /\ UNCHANGED <<settingsTable, formUp, seeded, form, formAsOf, batchJob, batches,
                 sentBatches, savedAsOf>>

ServeSettings ==
  /\ settingsQ.flight = "sent"
  /\ settingsQ' = Served(settingsQ, Table)
  /\ UNCHANGED <<settingsTable, formUp, seeded, form, formAsOf, batchJob, batches,
                 sentBatches, savedAsOf>>

SettingsCome ==
  /\ UNCHANGED formUp
  /\ \/ settingsQ.flight = "served" /\ Fill(Arrived(settingsQ))
     \/ settingsQ.flight # "idle" /\ Fill(Failed(settingsQ))
  /\ UNCHANGED <<settingsTable, batchJob, batches, sentBatches, savedAsOf>>

-----------------------------------------------------------------------------
TypeSetting(k, v) ==
  /\ FormReady /\ batchJob = 0 /\ v # form[k]
  /\ form' = [form EXCEPT ![k] = v]
  /\ UNCHANGED <<settingsTable, settingsQ, formUp, seeded, formAsOf, batchJob, batches,
                 sentBatches, savedAsOf>>

\* handleSave: an empty date is refused on the spot; all keys are sent.
SaveSettings ==
  /\ FormReady /\ batchJob = 0 /\ form[LockKey] # Empty
  /\ sentBatches < MaxSettingPuts
  /\ sentBatches' = sentBatches + 1 /\ batchJob' = sentBatches + 1
  /\ batches' = [batches EXCEPT ![sentBatches + 1] =
       [val |-> form, left |-> SettingKeys, answer |-> NoData, at |-> "sent",
        deaf |-> FALSE]]
  /\ UNCHANGED <<settingsTable, settingsTab, savedAsOf>>

MutCheckAsYouGo(b) ==
  IF \E k \in SettingKeys : b[k] \in ValidFor(k) THEN "writing" ELSE "refused"

\* PutAdminSettings checks every value before the first is written.
Checked(b) == IF \A k \in SettingKeys : b[k] \in ValidFor(k) THEN "writing" ELSE "refused"

ServeBatch(n) ==
  /\ batches[n] # NoRequest /\ batches[n].at = "sent"
  /\ batches' = [batches EXCEPT ![n].at = Checked(batches[n].val)]
  /\ UNCHANGED <<settingsTable, settingsTab, batchJob, sentBatches, savedAsOf>>

\* SetAll: one key, any of those left (it ranges over a map).
WriteKey(n, k) ==
  /\ batches[n] # NoRequest /\ batches[n].at = "writing" /\ k \in batches[n].left
  /\ batches[n].val[k] \in ValidFor(k)
  /\ WriteSetting(k, batches[n].val[k])
  /\ batches' = [batches EXCEPT ![n].left = @ \ {k}]
  /\ UNCHANGED <<settingsTab, batchJob, sentBatches, savedAsOf>>

\* A statement fails: what was written stays.
BatchFails(n) ==
  /\ batches[n] # NoRequest /\ batches[n].at = "writing"
  /\ batches' = [batches EXCEPT ![n].at = "refused"]
  /\ UNCHANGED <<settingsTable, settingsTab, batchJob, sentBatches, savedAsOf>>

\* All is written; the answer is the table as it is now.
AnswerBatch(n) ==
  /\ batches[n] # NoRequest /\ batches[n].at = "writing" /\ batches[n].left = {}
  /\ batches' = [batches EXCEPT ![n].at = "stored", ![n].answer = Table]
  /\ UNCHANGED <<settingsTable, settingsTab, batchJob, sentBatches, savedAsOf>>

Waits(n) == formUp /\ n = batchJob

MutReseed(n) == FALSE

\* onSuccess writes the answer into the form; it stays filled.
SeededAfter(n) == seeded

HearStoredBatch(n) ==
  /\ batches[n] # NoRequest /\ batches[n].at = "stored" /\ ~batches[n].deaf
  /\ settingsQ' = IF formUp THEN Refetch(settingsQ) ELSE settingsQ
  /\ IF Waits(n)
     THEN /\ form' = FormOf(batches[n].answer) /\ formAsOf' = batches[n].answer.asOf
          /\ savedAsOf' = batches[n].answer.asOf
          /\ seeded' = SeededAfter(n)
          /\ batchJob' = 0
     ELSE UNCHANGED <<form, formAsOf, savedAsOf, seeded, batchJob>>
  /\ batches' = [batches EXCEPT ![n] = NoRequest]
  /\ UNCHANGED <<settingsTable, formUp, sentBatches>>

\* Refused, failed, or the answer is lost while the server goes on: the form
\* keeps what it holds.
HearBatchError(n) ==
  /\ batches[n] # NoRequest /\ ~batches[n].deaf
  /\ batchJob' = IF n = batchJob THEN 0 ELSE batchJob
  /\ batches' = [batches EXCEPT ![n].deaf = TRUE]
  /\ UNCHANGED <<settingsTable, settingsTab, sentBatches, savedAsOf>>

SettingsNext ==
  \/ OpenSettings \/ CloseSettings \/ FocusSettings \/ ServeSettings \/ SettingsCome
  \/ SaveSettings
  \/ \E k \in SettingKeys : \E v \in Typed(k) :
       TypeSetting(k, v) \/ (v \in ValidFor(k) /\ SetElsewhere(k, v))
  \/ \E n \in 1 .. MaxSettingPuts :
       \/ ServeBatch(n) \/ BatchFails(n) \/ AnswerBatch(n)
       \/ HearStoredBatch(n) \/ HearBatchError(n)
       \/ \E k \in SettingKeys : WriteKey(n, k)

SettingsSpec == SettingsInit /\ [][SettingsNext]_settingsVars

-----------------------------------------------------------------------------
(* Properties.                                                             *)

\* Every variable has its type.
SettingsTypeOK ==
  /\ Table \in Snapshot
  /\ settingsQ \in Query(Snapshot)
  /\ formUp \in BOOLEAN /\ seeded \in BOOLEAN
  /\ \A k \in SettingKeys : form[k] \in Typed(k) \union {Empty}
  /\ formAsOf \in Nat /\ savedAsOf \in Nat
  /\ batchJob \in 0 .. MaxSettingPuts /\ sentBatches \in 0 .. MaxSettingPuts
  /\ \A n \in 1 .. MaxSettingPuts : batches[n] # NoRequest =>
       /\ batches[n].val \in Batch /\ batches[n].left \subseteq SettingKeys
       /\ batches[n].answer \in Snapshot \union {NoData}
       /\ batches[n].at \in {"sent", "writing", "stored", "refused"}
       /\ batches[n].deaf \in BOOLEAN

\* What a confirmed save put into the form is never replaced by older settings,
\* whichever answers are under way (SettingsSection: initialisedRef stays set).
SavedFormStays == formAsOf >= savedAsOf

\* A batch with an invalid value writes none of its keys (settings/service.go: "A
\* single invalid entry rejects the entire batch"); a failing statement may still
\* leave a valid batch half written.
BadBatchWritesNothing ==
  \A n \in 1 .. MaxSettingPuts :
    batches[n] # NoRequest /\ (\E k \in SettingKeys : batches[n].val[k] \notin ValidFor(k))
      => batches[n].left = SettingKeys
=============================================================================
