---------------------------- MODULE AdminSettings ----------------------------
(***************************************************************************)
(* The server's settings (server/store/admin_settings.go): saved one by one by  *)
(* the form (server/webui/handlers_admin_settings.go), by the choice of a source *)
(* and by the first-run wizard (handlers_setup.go), and in force in three ways:   *)
(* the fetch of the catalogue is scheduled anew after each save                 *)
(* (server/schedule/pcgw_cron.go), the registration policy is held by two        *)
(* handlers that the wizard tells, and the backups are scheduled at the start    *)
(* (server/runtime.go).  An environment variable goes before what is saved.      *)
(*                                                                         *)
(* One setting stands for each of the three; those that are read each time they   *)
(* are used (excludes, notifications, retention) have no copy to go stale.       *)
(***************************************************************************)
EXTENDS Naturals

CONSTANTS
  Forms,      \* requests that save settings at a time
  MaxForms,   \* bound: requests
  MaxLapses   \* bound: statements that fail, and restarts

ASSUME SettingsBounds == {MaxForms, MaxLapses} \subseteq Nat

VARIABLES
  setting,    \* the rows of admin_settings
  pinned,     \* settings that the environment gives
  inForce,    \* what the process works with
  saving,     \* the requests
  wizard,     \* the first-run wizard: it waits, has saved a policy, or is over
  excused,    \* history: settings in force other than saved, for a cause named where it is added
  begun, lapses  \* bookkeeping of the bounds

settingsVars == <<setting, pinned, inForce, saving, wizard, excused, begun, lapses>>

\* What a form can give; the default is what no row stands for.
Schedules == {"other", "off"}
NoForm == [at |-> "none", schedule |-> "unset", backup |-> FALSE]

\* PCGWBundleCronFromSettings.
FetchSchedule(row) ==
  IF "schedule" \in pinned THEN "env" ELSE IF row = "unset" THEN "default" ELSE row

\* The registration policy of newServerApp: open unless said otherwise.
Policy(row) == IF "register" \in pinned THEN "env" ELSE IF row = "unset" THEN "open" ELSE row

\* BackupEnabled.
BackupsOn(row) == "backup" \in pinned \/ row

\* What a start makes of the rows.
Started ==
  [schedule |-> FetchSchedule(setting.schedule), web |-> Policy(setting.register),
   api |-> Policy(setting.register), backup |-> BackupsOn(setting.backup)]

SettingsInit ==
  /\ \/ wizard = "waits" /\ setting = [schedule |-> "unset", register |-> "unset", backup |-> FALSE]
     \/ wizard = "over" /\ setting \in [schedule : {"unset", "off"}, register : {"closed"}, backup : {FALSE}]
  /\ pinned \in SUBSET {"schedule", "register", "backup"}
  /\ inForce = Started
  /\ saving = [f \in Forms |-> NoForm]
  /\ excused = {} /\ begun = 0 /\ lapses = 0

Lapses == lapses < MaxLapses /\ lapses' = lapses + 1

Moves(f, at) == saving' = [saving EXCEPT ![f].at = at]

\* The settings whose copy is right need no excuse any more.
Right(now) == {s \in {"schedule", "web", "api", "backup"} : now[s] = Started[s]}

---------------------------------------------------------------------------
(* The form, and the choice of a source. *)

\* handleAdminSettingsSave, past its first look at the form, or
\* handleAdminChooseSource, which saves nothing of these and reschedules.
SaveBegins(f) ==
  /\ saving[f].at = "none" /\ wizard = "over" /\ begun < MaxForms /\ begun' = begun + 1
  /\ \/ \E schedule \in Schedules, backup \in BOOLEAN :
          saving' = [saving EXCEPT ![f] = [at |-> "schedule", schedule |-> schedule, backup |-> backup]]
     \/ saving' = [saving EXCEPT ![f] = [NoForm EXCEPT !.at = "read"]]
  /\ UNCHANGED <<setting, pinned, inForce, wizard, excused, lapses>>

\* The schedule is checked and saved, when it is not the environment's.
SavesSchedule(f) ==
  /\ saving[f].at = "schedule" /\ Moves(f, "backup")
  /\ setting' = IF "schedule" \in pinned THEN setting ELSE [setting EXCEPT !.schedule = saving[f].schedule]
  /\ UNCHANGED <<pinned, inForce, wizard, excused, begun, lapses>>

\* The backups' settings are checked and saved: they wait for a restart.
SavesBackup(f) ==
  /\ saving[f].at = "backup" /\ Moves(f, "read")
  /\ setting' = [setting EXCEPT !.backup = saving[f].backup]
  /\ excused' = excused \cup {"backup"}
  /\ UNCHANGED <<pinned, inForce, wizard, begun, lapses>>

\* A later field does not pass, or a row cannot be written: what was saved
\* before stays, and nobody reschedules.
SaveEnds(f) ==
  /\ saving[f].at \in {"schedule", "backup", "read"} /\ Lapses
  /\ saving' = [saving EXCEPT ![f] = NoForm]
  /\ excused' = IF saving[f].at = "schedule" THEN excused ELSE excused \cup {"schedule"}
  /\ UNCHANGED <<setting, pinned, inForce, wizard, begun>>

\* Reschedule reads the rows, without its lock ...
ReadsSettings(f) ==
  /\ saving[f].at = "read"
  /\ saving' = [saving EXCEPT ![f] = [@ EXCEPT !.at = "reschedule", !.schedule = setting.schedule]]
  /\ UNCHANGED <<setting, pinned, inForce, wizard, excused, begun, lapses>>

\* ... or cannot, and goes on with the defaults ...
ReadFails(f) ==
  /\ saving[f].at = "read" /\ Lapses
  /\ saving' = [saving EXCEPT ![f] = [@ EXCEPT !.at = "reschedule", !.schedule = "unset"]]
  /\ UNCHANGED <<setting, pinned, inForce, wizard, excused, begun>>

\* ... and puts the new entry in the place of the old, under the lock.  Rows
\* saved since the reading are the other request's to schedule, unless it has
\* done so.
Reschedules(f) ==
  LET now == [inForce EXCEPT !.schedule = FetchSchedule(saving[f].schedule)]
  IN /\ saving[f].at = "reschedule" /\ saving' = [saving EXCEPT ![f] = NoForm]
     /\ inForce' = now
     /\ excused' = (excused \cup (IF saving[f].schedule # setting.schedule THEN {"schedule"} ELSE {})) \ Right(now)
     /\ UNCHANGED <<setting, pinned, wizard, begun, lapses>>

---------------------------------------------------------------------------
(* The wizard. *)

\* handleSetupSubmit: each row that cannot be written is passed over.
WizardSaves ==
  /\ wizard = "waits"
  /\ \E policy \in {"open", "closed"}, backup \in BOOLEAN, lost \in SUBSET {"register", "backup"} :
       /\ lost # {} => Lapses
       /\ lost = {} => UNCHANGED lapses
       /\ wizard' = policy
       /\ setting' = [setting EXCEPT !.register = IF "register" \in lost THEN @ ELSE policy,
                                 !.backup = IF "backup" \in lost THEN @ ELSE @ \/ backup]
       /\ excused' = excused \cup {"backup"} \cup (IF "register" \in lost THEN {"web", "api"} ELSE {})
  /\ UNCHANGED <<pinned, inForce, saving, begun>>

\* Mutant: as it was, the handlers learn of it at the next start.
WizardKeepsIt ==
  /\ wizard \in {"open", "closed"} /\ wizard' = "over"
  /\ UNCHANGED <<setting, pinned, inForce, saving, excused, begun, lapses>>

\* The handler of the pages and that of the API are told.
WizardApplies ==
  LET now == IF "register" \in pinned THEN inForce ELSE [inForce EXCEPT !.web = wizard, !.api = wizard]
  IN /\ wizard \in {"open", "closed"} /\ wizard' = "over"
     /\ inForce' = now /\ excused' = excused \ Right(now)
     /\ UNCHANGED <<setting, pinned, saving, begun, lapses>>

\* newServerApp and Start, with another environment perhaps: a request that is
\* under way is lost.  A wizard that has created its user does not come back.
RestartSettings ==
  /\ Lapses /\ UNCHANGED <<setting, begun>>
  /\ pinned' \in SUBSET {"schedule", "register", "backup"}
  /\ inForce' = Started'
  /\ saving' = [f \in Forms |-> NoForm]
  /\ wizard' = IF wizard = "waits" THEN "waits" ELSE "over"
  /\ excused' = {}

SettingsNext ==
  \/ \E f \in Forms : \/ SaveBegins(f) \/ SavesSchedule(f) \/ SavesBackup(f) \/ SaveEnds(f)
                      \/ ReadsSettings(f) \/ ReadFails(f) \/ Reschedules(f)
  \/ WizardSaves \/ WizardApplies \/ RestartSettings

SettingsSpec == SettingsInit /\ [][SettingsNext]_settingsVars

---------------------------------------------------------------------------
(* Properties. *)

SettingsTypeOK ==
  /\ setting \in [schedule : Schedules \cup {"unset"}, register : {"unset", "open", "closed"}, backup : BOOLEAN]
  /\ pinned \subseteq {"schedule", "register", "backup"}
  /\ inForce \in [schedule : Schedules \cup {"default", "env"}, web : {"open", "closed", "env"},
                  api : {"open", "closed", "env"}, backup : BOOLEAN]
  /\ saving \in [Forms -> [at : {"none", "schedule", "backup", "read", "reschedule"},
                         schedule : Schedules \cup {"unset"}, backup : BOOLEAN]]
  /\ wizard \in {"waits", "open", "closed", "over"}
  /\ excused \subseteq {"schedule", "web", "api", "backup"}
  /\ begun \in 0 .. MaxForms /\ lapses \in 0 .. MaxLapses

\* What works is what was saved: once no request and no wizard is under way,
\* a server that started anew would fetch and let register as this one does,
\* and back up as it does unless the backups' settings were saved since it
\* began - except after a save that ended half way, a row that could not be
\* written or read, or a rescheduling with rows that had been replaced since
\* (pcgw_cron.go:71-77 reads before it locks).
SettingsInForce ==
  (wizard \in {"waits", "over"} /\ \A f \in Forms : saving[f].at = "none") =>
    \A s \in {"schedule", "web", "api", "backup"} : inForce[s] = Started[s] \/ s \in excused
=============================================================================
