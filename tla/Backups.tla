------------------------------ MODULE Backups ------------------------------
(***************************************************************************)
(* The backup job (server/job/backup.go), the restore command               *)
(* (server/restore.go) and the integrity check (server/store/integrity.go),  *)
(* beside the uploads and deletions that go on meanwhile                     *)
(* (server/store/sqlite.go, in filesystem mode).                            *)
(*                                                                         *)
(* A save is a row, which carries the hash of its content, and a file.      *)
(* Contents are numbered in the order they are uploaded; 0 is none.         *)
(***************************************************************************)
EXTENDS Naturals, FiniteSets, Sequences

CONSTANTS
  Kept,        \* the saves of the server
  Sealed,      \* contents that their device encrypts
  KeepNewest,  \* archives kept (7 unless set)
  MaxUploads,  \* bound: uploads
  MaxBackups,  \* bound: backup runs
  MaxDamages   \* bound: files lost or damaged, jobs and commands cut short

ASSUME BackupBounds == KeepNewest \in Nat \ {0}

VARIABLES
  saveRows,  \* the row of a save: the content its hash is of
  blobs,     \* its file
  promoted,  \* saves whose file is replaced and whose row is not yet
  doomed,    \* saves whose row is deleted and whose file is not yet
  uploads,   \* how many contents there have been
  archives,  \* the archives under their final names, oldest first
  backup,    \* RunBackup
  taken,     \* how many backups have begun
  named,     \* how many archives have been given their name
  checking,  \* RunIntegrityCheck
  findings,  \* integrity_findings
  server,    \* "up" or "down"
  restoring, \* runRestore
  wal,       \* "none", or whose -wal file lies beside gsbs.db: "own", "foreign"
  damages    \* bookkeeping of the bound MaxDamages

diskVars == <<saveRows, blobs, promoted, doomed, uploads>>
checkVars == <<checking, findings>>
backupVars == <<archives, backup, taken, named>>
restoreVars == <<server, restoring, wal>>
backupsVars == <<diskVars, backupVars, checkVars, restoreVars, damages>>

Nothing == [s \in Kept |-> 0]
NoBackup == [at |-> "idle", db |-> Nothing, found |-> {}, files |-> Nothing, todo |-> {}, calm |-> TRUE]
NoCheck == [at |-> "idle", db |-> Nothing, todo |-> {}, bad |-> {}, calm |-> {}]
NoRestore == [at |-> "idle", from |-> 0, todo |-> {}]

BackupsInit ==
  /\ saveRows = Nothing /\ blobs = Nothing /\ promoted = {} /\ doomed = {} /\ uploads = 0
  /\ archives = <<>> /\ backup = NoBackup /\ taken = 0 /\ named = 0
  /\ checking = NoCheck /\ findings = {}
  /\ server = "up" /\ restoring = NoRestore /\ wal = "own"
  /\ damages = 0

Damage == damages < MaxDamages /\ damages' = damages + 1

\* History: what was archived or checked while it changed.
Touches(s) ==
  /\ backup' = [backup EXCEPT !.calm = FALSE]
  /\ checking' = [checking EXCEPT !.calm = @ \ {s}]

---------------------------------------------------------------------------
(* Uploads and deletions (see SaveStore for the whole of them). *)

\* The file is renamed into place inside the transaction ...
Promote(s) ==
  /\ server = "up" /\ s \notin promoted \cup doomed /\ uploads < MaxUploads
  /\ uploads' = uploads + 1 /\ blobs' = [blobs EXCEPT ![s] = uploads + 1]
  /\ promoted' = promoted \cup {s} /\ Touches(s)
  /\ UNCHANGED <<saveRows, doomed, archives, taken, named, findings, damages>> /\ UNCHANGED restoreVars

\* ... which then commits.
Commit(s) ==
  /\ server = "up" /\ s \in promoted
  /\ saveRows' = [saveRows EXCEPT ![s] = blobs[s]] /\ promoted' = promoted \ {s} /\ Touches(s)
  /\ UNCHANGED <<blobs, doomed, uploads, archives, taken, named, findings, damages>> /\ UNCHANGED restoreVars

\* DeleteSave: the row, then the file.
DeleteRow(s) ==
  /\ server = "up" /\ s \notin promoted /\ saveRows[s] # 0
  /\ saveRows' = [saveRows EXCEPT ![s] = 0] /\ doomed' = doomed \cup {s} /\ Touches(s)
  /\ UNCHANGED <<blobs, promoted, uploads, archives, taken, named, findings, damages>> /\ UNCHANGED restoreVars

DeleteFile(s) ==
  /\ server = "up" /\ s \in doomed
  /\ blobs' = [blobs EXCEPT ![s] = 0] /\ doomed' = doomed \ {s} /\ Touches(s)
  /\ UNCHANGED <<saveRows, promoted, uploads, archives, taken, named, findings, damages>> /\ UNCHANGED restoreVars

\* The disk loses or spoils a file: 0 stands for both.
Spoil(s) ==
  /\ server = "up" /\ blobs[s] # 0 /\ s \notin promoted \cup doomed /\ Damage
  /\ blobs' = [blobs EXCEPT ![s] = 0] /\ Touches(s)
  /\ UNCHANGED <<saveRows, promoted, doomed, uploads, archives, taken, named, findings>> /\ UNCHANGED restoreVars

---------------------------------------------------------------------------
(* The backup job.  Its temporary files never have an archive's name. *)

\* VACUUM INTO: the database as of one moment.
Snapshot ==
  /\ server = "up" /\ backup.at = "idle" /\ taken < MaxBackups
  /\ taken' = taken + 1
  /\ backup' = [at |-> "saves", db |-> saveRows, found |-> findings, files |-> Nothing, todo |-> Kept,
                calm |-> promoted \cup doomed = {} /\ \A s \in Kept : saveRows[s] \in {0, blobs[s]}]
  /\ UNCHANGED <<archives, named>> /\ UNCHANGED diskVars /\ UNCHANGED checkVars
  /\ UNCHANGED restoreVars /\ UNCHANGED damages

\* tarAddPath: one file of the save root after another, as it is by then.
ArchiveFile(s) ==
  /\ server = "up" /\ backup.at = "saves" /\ s \in backup.todo
  /\ backup' = [backup EXCEPT !.files[s] = blobs[s], !.todo = @ \ {s}]
  /\ UNCHANGED <<archives, taken, named>> /\ UNCHANGED diskVars /\ UNCHANGED checkVars
  /\ UNCHANGED restoreVars /\ UNCHANGED damages

Archive(whole) ==
  Append(archives, [db |-> backup.db, found |-> backup.found, files |-> backup.files,
                    no |-> named + 1, whole |-> whole, calm |-> backup.calm])

\* pruneOldBackups.
Newest(seq) ==
  IF Len(seq) <= KeepNewest THEN seq ELSE SubSeq(seq, Len(seq) + 1 - KeepNewest, Len(seq))

\* Mutant: the archive has its name from the start.
FinishEarly ==
  /\ server = "up" /\ backup.at = "saves"
  /\ archives' = Archive(backup.todo = {}) /\ named' = named + 1 /\ backup' = [NoBackup EXCEPT !.at = "prune"]
  /\ UNCHANGED taken /\ UNCHANGED diskVars /\ UNCHANGED checkVars
  /\ UNCHANGED restoreVars /\ UNCHANGED damages

\* Everything is written and synced: the rename gives it its name.
Finish ==
  /\ server = "up" /\ backup.at = "saves" /\ backup.todo = {}
  /\ archives' = Archive(TRUE) /\ named' = named + 1 /\ backup' = [NoBackup EXCEPT !.at = "prune"]
  /\ UNCHANGED taken /\ UNCHANGED diskVars /\ UNCHANGED checkVars
  /\ UNCHANGED restoreVars /\ UNCHANGED damages

\* Old archives go, then the new one is sent to the bucket, or that fails and
\* the run with it: the archive stays.
Prune ==
  /\ server = "up" /\ backup.at = "prune"
  /\ archives' = Newest(archives) /\ backup' = NoBackup
  /\ UNCHANGED <<taken, named>> /\ UNCHANGED diskVars /\ UNCHANGED checkVars
  /\ UNCHANGED restoreVars /\ UNCHANGED damages

\* An error, a full disk, a cancelled run or one beyond two hours.
BackupFails ==
  /\ server = "up" /\ backup.at = "saves" /\ Damage
  /\ backup' = NoBackup
  /\ UNCHANGED <<archives, taken, named>> /\ UNCHANGED diskVars /\ UNCHANGED checkVars
  /\ UNCHANGED restoreVars

---------------------------------------------------------------------------
(* The integrity check. *)

CheckBegins ==
  /\ server = "up" /\ checking.at = "idle"
  /\ checking' = [at |-> "reading", db |-> saveRows, todo |-> {s \in Kept : saveRows[s] # 0}, bad |-> {},
                  calm |-> Kept \ (promoted \cup doomed)]
  /\ UNCHANGED findings /\ UNCHANGED diskVars /\ UNCHANGED backupVars
  /\ UNCHANGED restoreVars /\ UNCHANGED damages

\* The file is missing, unreadable or of another hash than that of content c.
\* The hash of an encrypted save is not its file's: it is not looked at.
\* (Rows without a hash, of old releases, are left out.)
Faulty(s, c) == c \notin Sealed /\ blobs[s] # c

\* A row of the cursor, which shows the database as of the beginning, and the
\* file as it is now.
CheckFile(s) ==
  /\ server = "up" /\ checking.at = "reading" /\ s \in checking.todo
  /\ checking' = [checking EXCEPT !.todo = @ \ {s},
                                  !.bad = IF Faulty(s, checking.db[s]) THEN @ \cup {s} ELSE @]
  /\ UNCHANGED findings /\ UNCHANGED diskVars /\ UNCHANGED backupVars
  /\ UNCHANGED restoreVars /\ UNCHANGED damages

\* The findings of the slots read are replaced.
Recorded == (findings \ {s \in Kept : checking.db[s] # 0}) \cup checking.bad

\* One transaction; the history is kept until the next run.
CheckEnds ==
  /\ server = "up" /\ checking.at = "reading" /\ checking.todo = {}
  /\ findings' = Recorded /\ checking' = [checking EXCEPT !.at = "idle"]
  /\ UNCHANGED diskVars /\ UNCHANGED backupVars /\ UNCHANGED restoreVars /\ UNCHANGED damages

CheckFails ==
  /\ server = "up" /\ checking.at = "reading" /\ Damage
  /\ checking' = NoCheck
  /\ UNCHANGED findings /\ UNCHANGED diskVars /\ UNCHANGED backupVars /\ UNCHANGED restoreVars

---------------------------------------------------------------------------
(* Stopping, and the restore command. *)

\* A clean stop leaves no log; a crash, which may cut an upload between its
\* rename and its commit, leaves the database's own.
StopServer(clean) ==
  /\ server = "up" /\ (clean => promoted \cup doomed = {})
  /\ server' = "down" /\ wal' = IF clean THEN "none" ELSE "own"
  /\ promoted' = {} /\ doomed' = {}
  /\ backup' = NoBackup /\ checking' = NoCheck
  /\ UNCHANGED <<saveRows, blobs, uploads, archives, taken, named, findings, restoring, damages>>

StartServer ==
  /\ server = "down" /\ restoring.at \in {"idle", "done"} /\ wal # "foreign"
  /\ server' = "up" /\ wal' = "own" /\ restoring' = NoRestore
  /\ UNCHANGED damages /\ UNCHANGED diskVars /\ UNCHANGED backupVars /\ UNCHANGED checkVars

\* restore --force, as the data directory has a database: the first entry is
\* the database, whose log is then another's.
RestoreBegins(i) ==
  /\ server = "down" /\ restoring.at # "unpacking"
  /\ saveRows' = archives[i].db
  /\ wal' = IF wal = "none" THEN "none" ELSE "foreign"
  /\ restoring' = [at |-> "unpacking", from |-> i, todo |-> {s \in Kept : archives[i].files[s] # 0}]
  /\ findings' = archives[i].found
  /\ UNCHANGED <<blobs, promoted, doomed, uploads, server, checking, damages>> /\ UNCHANGED backupVars

RestoreFile(s) ==
  /\ restoring.at = "unpacking" /\ s \in restoring.todo
  /\ blobs' = [blobs EXCEPT ![s] = archives[restoring.from].files[s]]
  /\ restoring' = [restoring EXCEPT !.todo = @ \ {s}]
  /\ UNCHANGED <<saveRows, promoted, doomed, uploads, server, wal, damages>>
  /\ UNCHANGED backupVars /\ UNCHANGED checkVars

\* The end of the archive: the log goes last.
RestoreEnds ==
  /\ restoring.at = "unpacking" /\ restoring.todo = {}
  /\ wal' = "none" /\ restoring' = [restoring EXCEPT !.at = "done"]
  /\ UNCHANGED <<server, damages>> /\ UNCHANGED diskVars
  /\ UNCHANGED backupVars /\ UNCHANGED checkVars

\* A damaged archive, a full disk, an interrupt: what is unpacked stays, and
\* so does the log; the command must be run again.
RestoreFails ==
  /\ restoring.at = "unpacking" /\ Damage
  /\ restoring' = [restoring EXCEPT !.at = "failed"]
  /\ UNCHANGED <<server, wal>> /\ UNCHANGED diskVars
  /\ UNCHANGED backupVars /\ UNCHANGED checkVars

BackupsNext ==
  \/ \E s \in Kept :
       \/ Promote(s) \/ Commit(s) \/ DeleteRow(s) \/ DeleteFile(s) \/ Spoil(s)
       \/ ArchiveFile(s) \/ CheckFile(s) \/ RestoreFile(s)
  \/ Snapshot \/ Finish \/ Prune \/ BackupFails
  \/ CheckBegins \/ CheckEnds \/ CheckFails
  \/ \E clean \in BOOLEAN : StopServer(clean)
  \/ StartServer
  \/ \E i \in DOMAIN archives : RestoreBegins(i)
  \/ RestoreEnds \/ RestoreFails

BackupsSpec == BackupsInit /\ [][BackupsNext]_backupsVars

---------------------------------------------------------------------------
(* Properties. *)

Contents == [Kept -> 0 .. uploads]

BackupsTypeOK ==
  /\ saveRows \in Contents /\ blobs \in Contents /\ promoted \subseteq Kept /\ doomed \subseteq Kept /\ uploads \in Nat
  /\ \A i \in DOMAIN archives :
       archives[i] \in [db : Contents, found : SUBSET Kept, files : Contents,
                         no : 1 .. named, whole : BOOLEAN, calm : BOOLEAN]
  /\ backup \in [at : {"idle", "saves", "prune"}, db : Contents, found : SUBSET Kept,
                 files : Contents, todo : SUBSET Kept, calm : BOOLEAN]
  /\ checking \in [at : {"idle", "reading"}, db : Contents, todo : SUBSET Kept,
                   bad : SUBSET Kept, calm : SUBSET Kept]
  /\ findings \subseteq Kept
  /\ server \in {"up", "down"} /\ wal \in {"none", "own", "foreign"}
  /\ restoring.at \in {"idle", "unpacking", "done", "failed"}

\* A file with an archive's name is a whole archive, wherever a run was cut
\* short, and the newest is never pruned.  A restore that ran to its end leaves
\* the database of its archive, without the log of the one it replaced, and
\* beside every row the file that was archived - the row's own content, if every
\* file was sound when the archive was begun and nothing changed meanwhile.
RestoredAsArchived ==
  /\ \A i \in DOMAIN archives : archives[i].whole
  /\ named > 0 => archives # <<>> /\ archives[Len(archives)].no = named
  /\ restoring.at = "done" =>
       LET a == archives[restoring.from]
       IN /\ wal = "none" /\ saveRows = a.db
          /\ a.calm => \A s \in Kept : saveRows[s] # 0 => blobs[s] = saveRows[s]

\* After a check, a save that nothing touched since it began has a finding
\* exactly if its file is not the content its row stands for - and none, not
\* even one from before, if it is encrypted (integrity.go:76-80).
CheckTells ==
  checking.at = "idle" =>
    \A s \in checking.calm :
      checking.db[s] # 0 => (s \in findings <=> Faulty(s, saveRows[s]))

\* What an administrator relies on after a damage: archives that restore what
\* was there, and a check that tells what is wrong with the saves it can verify.
DamageIsRepairable == RestoredAsArchived /\ CheckTells
=============================================================================
