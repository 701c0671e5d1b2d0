---------------------------- MODULE MCServices -----------------------------
(***************************************************************************)
(* The components whose properties are safety only, which share no state,     *)
(* side by side for TLC: in a behaviour one of them runs, and the others stay   *)
(* as they begin.                                                           *)
(***************************************************************************)
EXTENDS EventHub, ConflictCentre, Backups, Accounts, LoginLock, Migrations, Updater, Users,
        ClientControl, TrayState, AdminSettings, Encryption, Archive, CoverCache

VARIABLE service   \* the component that runs

services == <<hubVars, centreVars, backupsVars, accountsVars, lockVars, migrationVars, updaterVars,
     usersVars, controlVars, trayVars, settingsVars, encryptionVars, archiveVars, coverVars,
     service>>

ServicesInit ==
  /\ service \in {"hub", "centre", "backups", "accounts", "lock", "migrations", "updater",
                 "users", "control", "tray", "settings",
                 "encryption", "archive", "covers"}
  /\ HubInit /\ CentreInit /\ BackupsInit /\ AccountsInit /\ LockInit /\ UsersInit
  /\ MigrationInit /\ (service # "migrations" => \A o \in Owners : original[o] = {})
  /\ UpdaterInit /\ (service # "updater" => platform = "linux")
  /\ ControlInit /\ (service # "control" => ~saved)
  /\ TrayInit /\ (service # "tray" => status = "idle" /\ recorded = {} /\ \A g \in Games : row[g] = "none")
  /\ SettingsInit /\ (service # "settings" => wizard = "waits" /\ pinned = {})
  /\ EncryptionInit /\ (service # "encryption" => account = 1 /\ ~passphrase /\ remembered = Never)
  /\ ArchiveInit /\ (service # "archive" => There = {})
  /\ CoverInit /\ (service # "covers" => ~art /\ marker = "none")

ServicesNext ==
  /\ UNCHANGED service
  /\ \/ /\ service = "hub" /\ HubNext
        /\ UNCHANGED <<centreVars, backupsVars, accountsVars, lockVars, migrationVars, updaterVars,
                       usersVars, controlVars, trayVars, settingsVars,
                       encryptionVars, archiveVars, coverVars>>
     \/ /\ service = "centre" /\ CentreNext
        /\ UNCHANGED <<hubVars, backupsVars, accountsVars, lockVars, migrationVars, updaterVars,
                       usersVars, controlVars, trayVars, settingsVars,
                       encryptionVars, archiveVars, coverVars>>
     \/ /\ service = "backups" /\ BackupsNext
        /\ UNCHANGED <<hubVars, centreVars, accountsVars, lockVars, migrationVars, updaterVars,
                       usersVars, controlVars, trayVars, settingsVars,
                       encryptionVars, archiveVars, coverVars>>
     \/ /\ service = "accounts" /\ AccountsNext
        /\ UNCHANGED <<hubVars, centreVars, backupsVars, lockVars, migrationVars, updaterVars,
                       usersVars, controlVars, trayVars, settingsVars,
                       encryptionVars, archiveVars, coverVars>>
     \/ /\ service = "lock" /\ LockNext
        /\ UNCHANGED <<hubVars, centreVars, backupsVars, accountsVars, migrationVars, updaterVars,
                       usersVars, controlVars, trayVars, settingsVars,
                       encryptionVars, archiveVars, coverVars>>
     \/ /\ service = "migrations" /\ MigrationNext
        /\ UNCHANGED <<hubVars, centreVars, backupsVars, accountsVars, lockVars, updaterVars,
                       usersVars, controlVars, trayVars, settingsVars,
                       encryptionVars, archiveVars, coverVars>>
     \/ /\ service = "updater" /\ UpdaterNext
        /\ UNCHANGED <<hubVars, centreVars, backupsVars, accountsVars, lockVars, migrationVars,
                       usersVars, controlVars, trayVars, settingsVars,
                       encryptionVars, archiveVars, coverVars>>
     \/ /\ service = "users" /\ UsersNext
        /\ UNCHANGED <<hubVars, centreVars, backupsVars, accountsVars, lockVars, migrationVars,
                       updaterVars, controlVars, trayVars, settingsVars,
                       encryptionVars, archiveVars, coverVars>>
     \/ /\ service = "control" /\ ControlNext
        /\ UNCHANGED <<hubVars, centreVars, backupsVars, accountsVars, lockVars, migrationVars,
                       updaterVars, usersVars, trayVars, settingsVars,
                       encryptionVars, archiveVars, coverVars>>
     \/ /\ service = "tray" /\ TrayNext
        /\ UNCHANGED <<hubVars, centreVars, backupsVars, accountsVars, lockVars, migrationVars,
                       updaterVars, usersVars, controlVars, settingsVars,
                       encryptionVars, archiveVars, coverVars>>
     \/ /\ service = "settings" /\ SettingsNext
        /\ UNCHANGED <<hubVars, centreVars, backupsVars, accountsVars, lockVars, migrationVars,
                       updaterVars, usersVars, controlVars, trayVars,
                       encryptionVars, archiveVars, coverVars>>
     \/ /\ service = "encryption" /\ EncryptionNext
        /\ UNCHANGED <<hubVars, centreVars, backupsVars, accountsVars, lockVars, migrationVars,
                       updaterVars, usersVars, controlVars, trayVars, settingsVars, archiveVars, coverVars>>
     \/ /\ service = "archive" /\ ArchiveNext
        /\ UNCHANGED <<hubVars, centreVars, backupsVars, accountsVars, lockVars, migrationVars,
                       updaterVars, usersVars, controlVars, trayVars, settingsVars, encryptionVars, coverVars>>
     \/ /\ service = "covers" /\ CoverNext
        /\ UNCHANGED <<hubVars, centreVars, backupsVars, accountsVars, lockVars, migrationVars,
                       updaterVars, usersVars, controlVars, trayVars, settingsVars, encryptionVars, archiveVars>>

ServicesSpec == ServicesInit /\ [][ServicesNext]_services

\* Every variable of the component that runs has its type.
ServicesTypeOK ==
  /\ service = "hub" => HubTypeOK
  /\ service = "centre" => CentreTypeOK
  /\ service = "backups" => BackupsTypeOK
  /\ service = "accounts" => AccountsTypeOK
  /\ service = "lock" => LockTypeOK
  /\ service = "migrations" => MigrationTypeOK
  /\ service = "updater" => UpdaterTypeOK
  /\ service = "users" => UsersTypeOK
  /\ service = "control" => ControlTypeOK
  /\ service = "tray" => TrayTypeOK
  /\ service = "settings" => SettingsTypeOK
  /\ service = "encryption" => EncryptionTypeOK
  /\ service = "archive" => ArchiveTypeOK
  /\ service = "covers" => CoverTypeOK
=============================================================================
