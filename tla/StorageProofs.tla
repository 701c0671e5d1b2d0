---------------------------- MODULE StorageProofs ----------------------------
(***************************************************************************)
(* What TLAPS proves of the ways saves are kept beside the store: backups and*)
(* restores, the migration of the schema, export and import.                *)
(***************************************************************************)
EXTENDS Backups, Migrations, Archive,
        SequenceTheorems, FiniteSetTheorems, WellFoundedInduction, NaturalsInduction, TLAPS

---------------------------------------------------------------------------
(* Backup, restore and check: damage is repairable.                         *)

Saved == [Kept -> Nat]
BackupFiles == [db : Saved, found : SUBSET Kept, files : Saved, no : Nat, whole : BOOLEAN, calm : BOOLEAN]
BackupRuns == [at : {"idle", "saves", "prune"}, db : Saved, found : SUBSET Kept, files : Saved,
               todo : SUBSET Kept, calm : BOOLEAN]
Checks == [at : {"idle", "reading"}, db : Saved, todo : SUBSET Kept, bad : SUBSET Kept, calm : SUBSET Kept]
Restores == [at : {"idle", "unpacking", "done", "failed"}, from : Nat, todo : SUBSET Kept]
BackupTypes ==
  /\ saveRows \in Saved /\ blobs \in Saved /\ uploads \in Nat /\ findings \subseteq Kept
  /\ archives \in Seq(BackupFiles) /\ named \in Nat
  /\ backup \in BackupRuns /\ checking \in Checks /\ restoring \in Restores /\ server \in {"up", "down"}

\* No job outlives the server, and nothing is restored beside it.
ServerAlone ==
  /\ server = "down" => backup.at = "idle" /\ checking.at = "idle" /\ checking.calm = {}
  /\ server = "up" => restoring.at = "idle"

\* A calm run has what the rows stand for, or will find it.
RunInv ==
  backup.at = "saves" /\ backup.calm =>
    \A s \in Kept : backup.db[s] # 0 => (IF s \in backup.todo THEN blobs[s] ELSE backup.files[s]) = backup.db[s]

ArchivesInv ==
  /\ \A i \in 1 .. Len(archives) :
       /\ archives[i].whole
       /\ archives[i].calm => \A s \in Kept : archives[i].db[s] # 0 => archives[i].files[s] = archives[i].db[s]
  /\ named > 0 => Len(archives) > 0 /\ archives[Len(archives)].no = named

\* What is unpacked is the archive's.
RestoreInv ==
  restoring.at \in {"unpacking", "done"} =>
    /\ restoring.from \in 1 .. Len(archives) /\ saveRows = archives[restoring.from].db
    /\ \A s \in Kept : archives[restoring.from].files[s] # 0 =>
         s \in restoring.todo \/ blobs[s] = archives[restoring.from].files[s]
    /\ restoring.at = "done" => wal = "none" /\ restoring.todo = {}

\* What a check has read of a save that nothing touched is what there is.
CheckInv ==
  \A s \in checking.calm : checking.db[s] # 0 =>
    IF checking.at = "reading" THEN /\ saveRows[s] = checking.db[s]
                                    /\ s \in checking.bad <=> s \notin checking.todo /\ Faulty(s, checking.db[s])
    ELSE s \in findings <=> Faulty(s, saveRows[s])

BackupsInv == BackupTypes /\ ServerAlone /\ RunInv /\ ArchivesInv /\ RestoreInv /\ CheckInv

LEMMA NothingTypes ==
  /\ Nothing \in Saved /\ NoBackup \in BackupRuns /\ NoBackup.at = "idle"
  /\ NoCheck \in Checks /\ NoCheck.at = "idle" /\ NoCheck.calm = {}
  /\ NoRestore \in Restores /\ NoRestore.at = "idle"
  <1>1. Nothing \in Saved
    BY DEF Nothing, Saved
  <1> QED
    BY <1>1 DEF NoBackup, NoCheck, NoRestore, BackupRuns, Checks, Restores

LEMMA BackupsBegin == BackupsInit => BackupsInv
  <1> SUFFICES ASSUME BackupsInit PROVE BackupsInv
    OBVIOUS
  <1>1. BackupTypes
    BY NothingTypes DEF BackupsInit, BackupTypes
  <1>2. ServerAlone /\ RunInv /\ RestoreInv /\ CheckInv
    BY NothingTypes DEF BackupsInit, ServerAlone, RunInv, RestoreInv, CheckInv, Faulty
  <1>3. ArchivesInv
    BY DEF BackupsInit, ArchivesInv
  <1> QED
    BY <1>1, <1>2, <1>3 DEF BackupsInv

\* A save that changes: the run under way is no longer calm, and the save not
\* for the check.
LEMMA TouchKeeps ==
  ASSUME BackupsInv, NEW s \in Kept, server = "up", Touches(s),
         saveRows' \in Saved, blobs' \in Saved, uploads' \in Nat,
         \A r \in Kept \ {s} : saveRows'[r] = saveRows[r] /\ blobs'[r] = blobs[r],
         UNCHANGED <<archives, taken, named, findings>>, UNCHANGED restoreVars
  PROVE  BackupsInv'
  <1>1. backup' \in BackupRuns /\ backup'.at = backup.at /\ ~backup'.calm
    BY DEF Touches, BackupsInv, BackupTypes, BackupRuns
  <1>2. /\ checking' \in Checks /\ checking'.at = checking.at /\ checking'.calm = checking.calm \ {s}
        /\ checking'.db = checking.db /\ checking'.todo = checking.todo /\ checking'.bad = checking.bad
    BY DEF Touches, BackupsInv, BackupTypes, Checks
  <1>3. BackupTypes' /\ ServerAlone' /\ RunInv' /\ ArchivesInv' /\ RestoreInv'
    BY <1>1, <1>2 DEF BackupsInv, BackupTypes, ServerAlone, RunInv, ArchivesInv, RestoreInv, restoreVars
  <1>4. CheckInv'
    <2>1. checking.calm \subseteq Kept
      BY DEF BackupsInv, BackupTypes, Checks
    <2> QED
      BY <1>2, <2>1 DEF BackupsInv, CheckInv, Faulty
  <1> QED
    BY <1>3, <1>4 DEF BackupsInv

LEMMA SavesKeep ==
  ASSUME BackupsInv, NEW s \in Kept, Promote(s) \/ Commit(s) \/ DeleteRow(s) \/ DeleteFile(s) \/ Spoil(s)
  PROVE  BackupsInv'
  <1>1. /\ server = "up" /\ Touches(s) /\ UNCHANGED <<archives, taken, named, findings>> /\ UNCHANGED restoreVars
    BY DEF Promote, Commit, DeleteRow, DeleteFile, Spoil
  <1>2. saveRows \in Saved /\ blobs \in Saved /\ uploads \in Nat
    BY DEF BackupsInv, BackupTypes
  <1>3. uploads' \in Nat
    BY <1>2 DEF Promote, Commit, DeleteRow, DeleteFile, Spoil
  <1>4. saveRows' = saveRows \/ \E c \in Nat : saveRows' = [saveRows EXCEPT ![s] = c]
    BY <1>2 DEF Promote, Commit, DeleteRow, DeleteFile, Spoil, Saved
  <1>5. blobs' = blobs \/ \E c \in Nat : blobs' = [blobs EXCEPT ![s] = c]
    BY <1>2 DEF Promote, Commit, DeleteRow, DeleteFile, Spoil, Saved
  <1>6. saveRows' \in Saved /\ \A r \in Kept \ {s} : saveRows'[r] = saveRows[r]
    BY <1>2, <1>4 DEF Saved
  <1>7. blobs' \in Saved /\ \A r \in Kept \ {s} : blobs'[r] = blobs[r]
    BY <1>2, <1>5 DEF Saved
  <1> QED
    BY <1>1, <1>3, <1>6, <1>7, TouchKeeps

\* Pruning keeps what it keeps as it is, the newest among them.
LEMMA NewestIsLast ==
  ASSUME NEW S, NEW q \in Seq(S)
  PROVE  /\ Newest(q) \in Seq(S)
         /\ \A i \in 1 .. Len(Newest(q)) : \E j \in 1 .. Len(q) : Newest(q)[i] = q[j]
         /\ Len(q) > 0 => Len(Newest(q)) > 0 /\ Newest(q)[Len(Newest(q))] = q[Len(q)]
  <1>1. KeepNewest \in Nat \ {0} /\ Len(q) \in Nat
    BY BackupBounds
  <1>2. CASE Len(q) <= KeepNewest
    BY <1>1, <1>2 DEF Newest
  <1>3. CASE ~(Len(q) <= KeepNewest)
    <2> DEFINE m == Len(q) + 1 - KeepNewest
    <2>1. m \in 1 .. Len(q) /\ Len(q) \in 1 .. Len(q) /\ Len(q) - m + 1 = KeepNewest
      BY <1>1, <1>3
    <2>2. Newest(q) = SubSeq(q, m, Len(q))
      BY <1>3 DEF Newest
    <2> HIDE DEF m
    <2>3. /\ SubSeq(q, m, Len(q)) \in Seq(S) /\ Len(SubSeq(q, m, Len(q))) = KeepNewest
          /\ \A i \in 1 .. KeepNewest : SubSeq(q, m, Len(q))[i] = q[m + i - 1] /\ m + i - 1 \in 1 .. Len(q)
      BY <1>1, <2>1
    <2>4. m + KeepNewest - 1 = Len(q) /\ KeepNewest \in 1 .. KeepNewest
      BY <1>1, <2>1
    <2> QED
      BY <1>1, <2>2, <2>3, <2>4
  <1> QED
    BY <1>2, <1>3

LEMMA BackupKeeps ==
  ASSUME BackupsInv, Snapshot \/ (\E s \in Kept : ArchiveFile(s)) \/ BackupFails
  PROVE  BackupsInv'
  <1>1. /\ server = "up" /\ UNCHANGED <<archives, named>> /\ UNCHANGED diskVars /\ UNCHANGED checkVars /\ UNCHANGED restoreVars
    BY DEF Snapshot, ArchiveFile, BackupFails
  <1>2. backup' \in BackupRuns /\ RunInv'
    <2>1. CASE Snapshot
      <3>1. backup' = [at |-> "saves", db |-> saveRows, found |-> findings, files |-> Nothing, todo |-> Kept,
                calm |-> promoted \cup doomed = {} /\ \A s \in Kept : saveRows[s] \in {0, blobs[s]}]
        BY <2>1 DEF Snapshot
      <3>2. /\ backup' \in BackupRuns /\ backup'.db = saveRows /\ backup'.todo = Kept
            /\ backup'.calm => \A s \in Kept : saveRows[s] \in {0, blobs[s]}
        BY <3>1, NothingTypes DEF BackupRuns, BackupsInv, BackupTypes
      <3> QED
        BY <1>1, <3>2 DEF RunInv, diskVars
    <2>2. CASE \E s \in Kept : ArchiveFile(s)
      <3>1. PICK s \in Kept : /\ backup' = [backup EXCEPT !.files[s] = blobs[s], !.todo = @ \ {s}]
                             /\ backup.at = "saves" /\ s \in backup.todo
        BY <2>2 DEF ArchiveFile
      <3>2. backup \in BackupRuns /\ blobs[s] \in Nat /\ blobs' = blobs
        BY <1>1 DEF BackupsInv, BackupTypes, Saved, diskVars
      <3>3. backup' = [backup EXCEPT !.files = [backup.files EXCEPT ![s] = blobs[s]], !.todo = backup.todo \ {s}]
        BY <3>1, <3>2 DEF BackupRuns
      <3>4. [backup.files EXCEPT ![s] = blobs[s]] \in Saved
        BY <3>2 DEF BackupRuns, Saved
      <3>5. /\ backup' \in BackupRuns /\ backup'.at = "saves" /\ backup'.db = backup.db /\ backup'.calm = backup.calm
            /\ backup'.todo = backup.todo \ {s} /\ backup'.files = [backup.files EXCEPT ![s] = blobs[s]]
        BY <3>1, <3>2, <3>3, <3>4 DEF BackupRuns
      <3>6. \A r \in Kept : backup'.files[r] = IF r = s THEN blobs[s] ELSE backup.files[r]
        BY <3>2, <3>5 DEF BackupRuns, Saved
      <3> QED
        <4> SUFFICES ASSUME backup.calm, NEW r \in Kept, backup.db[r] # 0
                     PROVE  (IF r \in backup'.todo THEN blobs[r] ELSE backup'.files[r]) = backup.db[r]
          BY <3>2, <3>5 DEF RunInv
        <4>1. (IF r \in backup.todo THEN blobs[r] ELSE backup.files[r]) = backup.db[r]
          BY <3>1 DEF BackupsInv, RunInv
        <4> QED
          BY <4>1, <3>1, <3>5, <3>6
    <2>3. CASE BackupFails
      BY <2>3, NothingTypes DEF BackupFails, RunInv
    <2> QED
      BY <2>1, <2>2, <2>3
  <1> QED
    BY <1>1, <1>2 DEF BackupsInv, BackupTypes, ServerAlone, ArchivesInv, RestoreInv, CheckInv, Faulty, diskVars, checkVars, restoreVars

\* A finished archive is the newest.
LEMMA ArchivesKeep ==
  ASSUME BackupsInv, Finish \/ Prune
  PROVE  BackupsInv'
  <1>1. /\ server = "up" /\ UNCHANGED diskVars /\ UNCHANGED checkVars /\ UNCHANGED restoreVars
        /\ restoring.at = "idle" /\ archives \in Seq(BackupFiles) /\ backup \in BackupRuns
    BY DEF Finish, Prune, BackupsInv, BackupTypes, ServerAlone
  <1>2. backup' \in BackupRuns /\ backup'.at # "saves"
    BY NothingTypes DEF Finish, Prune, BackupRuns
  <1>3. archives' \in Seq(BackupFiles) /\ named' \in Nat /\ ArchivesInv'
    <2>1. CASE Finish
      <3> DEFINE a == [db |-> backup.db, found |-> backup.found, files |-> backup.files,
                    no |-> named + 1, whole |-> TRUE, calm |-> backup.calm]
      <3>1. archives' = Append(archives, a) /\ named' = named + 1 /\ backup.at = "saves" /\ backup.todo = {} /\ named \in Nat
        BY <2>1 DEF Finish, Archive, BackupsInv, BackupTypes
      <3>2. a \in BackupFiles
        BY <1>1, <3>1 DEF BackupRuns, BackupFiles
      <3>3. a.whole /\ a.no = named + 1 /\ (a.calm => \A s \in Kept : a.db[s] # 0 => a.files[s] = a.db[s])
        BY <3>1 DEF BackupsInv, RunInv
      <3> HIDE DEF a
      <3>4. /\ archives' \in Seq(BackupFiles) /\ Len(archives') = Len(archives) + 1 /\ Len(archives) \in Nat
            /\ archives'[Len(archives) + 1] = a /\ \A i \in 1 .. Len(archives) : archives'[i] = archives[i]
        BY <1>1, <3>1, <3>2
      <3>5. \A i \in 1 .. Len(archives') : i = Len(archives) + 1 \/ i \in 1 .. Len(archives)
        BY <3>4
      <3> QED
        BY <3>1, <3>3, <3>4, <3>5 DEF BackupsInv, ArchivesInv
    <2>2. CASE Prune
      <3>1. archives' = Newest(archives) /\ UNCHANGED named
        BY <2>2 DEF Prune
      <3> QED
        BY <1>1, <3>1, NewestIsLast DEF BackupsInv, BackupTypes, ArchivesInv
    <2> QED
      BY <2>1, <2>2
  <1> QED
    BY <1>1, <1>2, <1>3 DEF BackupsInv, BackupTypes, ServerAlone, RunInv, RestoreInv, CheckInv, Faulty, diskVars, checkVars, restoreVars

LEMMA CheckKeeps ==
  ASSUME BackupsInv, CheckBegins \/ (\E s \in Kept : CheckFile(s)) \/ CheckEnds \/ CheckFails
  PROVE  BackupsInv'
  <1>1. server = "up" /\ UNCHANGED diskVars /\ UNCHANGED backupVars /\ UNCHANGED restoreVars
    BY DEF CheckBegins, CheckFile, CheckEnds, CheckFails
  <1>2. checking \in Checks /\ findings \subseteq Kept /\ saveRows \in Saved
    BY DEF BackupsInv, BackupTypes
  <1>3. checking' \in Checks /\ findings' \subseteq Kept /\ CheckInv'
    <2>1. CASE CheckBegins
      <3>1. /\ checking' \in Checks /\ checking'.at = "reading" /\ checking'.db = saveRows /\ checking'.bad = {}
            /\ checking'.todo = {s \in Kept : saveRows[s] # 0} /\ findings' = findings
        BY <1>2, <2>1 DEF CheckBegins, Checks
      <3> QED
        BY <1>1, <1>2, <3>1 DEF CheckInv, Faulty, Checks, diskVars
    <2>2. CASE \E s \in Kept : CheckFile(s)
      <3>1. PICK s \in Kept : CheckFile(s)
        BY <2>2
      <3>2. /\ checking.at = "reading" /\ s \in checking.todo /\ findings' = findings
            /\ checking' = [checking EXCEPT !.todo = checking.todo \ {s},
                              !.bad = IF Faulty(s, checking.db[s]) THEN checking.bad \cup {s} ELSE checking.bad]
        BY <1>2, <3>1 DEF CheckFile, Checks
      <3>3. /\ checking' \in Checks /\ checking'.at = checking.at /\ checking'.db = checking.db /\ checking'.calm = checking.calm
            /\ checking'.todo = checking.todo \ {s}
            /\ checking'.bad = IF Faulty(s, checking.db[s]) THEN checking.bad \cup {s} ELSE checking.bad
        BY <1>2, <3>2 DEF Checks
      <3> QED
        BY <1>1, <1>2, <3>2, <3>3 DEF BackupsInv, CheckInv, Faulty, diskVars
    <2>3. CASE CheckEnds
      <3>1. /\ checking' \in Checks /\ checking'.at = "idle" /\ checking'.db = checking.db /\ checking'.calm = checking.calm
            /\ checking.at = "reading" /\ checking.todo = {}
        BY <1>2, <2>3 DEF CheckEnds, Checks
      <3>2. findings' = (findings \ {s \in Kept : checking.db[s] # 0}) \cup checking.bad
        BY <2>3 DEF CheckEnds, Recorded
      <3>3. \A s \in Kept : checking.db[s] # 0 => (s \in findings' <=> s \in checking.bad)
        BY <3>2
      <3> QED
        BY <1>1, <1>2, <3>1, <3>2, <3>3 DEF BackupsInv, CheckInv, Faulty, Checks, diskVars
    <2>4. CASE CheckFails
      BY <1>2, <2>4, NothingTypes DEF CheckFails, CheckInv, Faulty
    <2> QED
      BY <2>1, <2>2, <2>3, <2>4
  <1> QED
    BY <1>1, <1>3 DEF BackupsInv, BackupTypes, ServerAlone, RunInv, ArchivesInv, RestoreInv, diskVars, backupVars, restoreVars

\* The server stops and starts; the restore command runs in between.
LEMMA StopKeeps ==
  ASSUME BackupsInv, (\E clean \in BOOLEAN : StopServer(clean)) \/ StartServer
  PROVE  BackupsInv'
  <1>1. CASE \E clean \in BOOLEAN : StopServer(clean)
    <2>1. /\ server' = "down" /\ backup' = NoBackup /\ checking' = NoCheck /\ restoring.at = "idle"
          /\ UNCHANGED <<saveRows, blobs, uploads, archives, named, findings, restoring>>
      BY <1>1 DEF StopServer, BackupsInv, ServerAlone
    <2> QED
      BY <2>1, NothingTypes DEF BackupsInv, BackupTypes, ServerAlone, RunInv, ArchivesInv, RestoreInv, CheckInv, Faulty
  <1>2. CASE StartServer
    <2>1. /\ server' = "up" /\ restoring' = NoRestore /\ UNCHANGED diskVars /\ UNCHANGED backupVars /\ UNCHANGED checkVars
      BY <1>2 DEF StartServer
    <2> QED
      BY <2>1, NothingTypes DEF BackupsInv, BackupTypes, ServerAlone, RunInv, ArchivesInv, RestoreInv, CheckInv, Faulty,
         diskVars, backupVars, checkVars
  <1> QED
    BY <1>1, <1>2

LEMMA RestoreKeeps ==
  ASSUME BackupsInv, (\E i \in DOMAIN archives : RestoreBegins(i)) \/ (\E s \in Kept : RestoreFile(s)) \/ RestoreEnds \/ RestoreFails
  PROVE  BackupsInv'
  <1>1. UNCHANGED <<server, uploads, checking>> /\ UNCHANGED backupVars
    BY DEF RestoreBegins, RestoreFile, RestoreEnds, RestoreFails, diskVars, checkVars
  <1>2. server = "down" /\ checking.calm = {} /\ backup.at = "idle"
    BY DEF RestoreBegins, RestoreFile, RestoreEnds, RestoreFails, BackupsInv, ServerAlone, BackupTypes
  <1>3. archives \in Seq(BackupFiles) /\ restoring \in Restores /\ blobs \in Saved /\ saveRows \in Saved
    BY DEF BackupsInv, BackupTypes
  <1>4. restoring' \in Restores /\ blobs' \in Saved /\ saveRows' \in Saved /\ findings' \subseteq Kept /\ RestoreInv'
    <2>1. CASE \E i \in DOMAIN archives : RestoreBegins(i)
      <3>1. PICK i \in 1 .. Len(archives) :
              /\ saveRows' = archives[i].db /\ findings' = archives[i].found /\ UNCHANGED blobs
              /\ restoring' = [at |-> "unpacking", from |-> i, todo |-> {s \in Kept : archives[i].files[s] # 0}]
        <4>1. DOMAIN archives = 1 .. Len(archives)
          BY <1>3
        <4>2. PICK i \in DOMAIN archives : RestoreBegins(i)
          BY <2>1
        <4> QED
          BY <4>1, <4>2 DEF RestoreBegins
      <3>2. archives[i] \in BackupFiles /\ i \in Nat
        BY <1>3
      <3> QED
        BY <1>1, <1>3, <3>1, <3>2 DEF BackupFiles, Restores, RestoreInv, backupVars
    <2>2. CASE \E s \in Kept : RestoreFile(s)
      <3>1. PICK s \in Kept :
              /\ restoring.at = "unpacking" /\ s \in restoring.todo /\ UNCHANGED <<saveRows, findings>>
              /\ blobs' = [blobs EXCEPT ![s] = archives[restoring.from].files[s]]
              /\ restoring' = [restoring EXCEPT !.todo = restoring.todo \ {s}]
        BY <1>3, <2>2 DEF RestoreFile, Restores, checkVars
      <3>2. restoring.from \in 1 .. Len(archives)
        BY <3>1 DEF BackupsInv, RestoreInv
      <3>3. archives[restoring.from].files[s] \in Nat
        <4>1. archives[restoring.from] \in BackupFiles
          BY <1>3, <3>2
        <4> QED
          BY <4>1 DEF BackupFiles, Saved
      <3>4. blobs' \in Saved /\ \A r \in Kept : blobs'[r] = IF r = s THEN archives[restoring.from].files[s] ELSE blobs[r]
        BY <1>3, <3>1, <3>3 DEF Saved
      <3>5. /\ restoring' \in Restores /\ restoring'.at = "unpacking" /\ restoring'.from = restoring.from
            /\ restoring'.todo = restoring.todo \ {s}
        BY <1>3, <3>1 DEF Restores
      <3> QED
        BY <1>1, <1>3, <3>1, <3>4, <3>5 DEF BackupsInv, BackupTypes, RestoreInv, backupVars
    <2>3. CASE RestoreEnds \/ RestoreFails
      <3>1. UNCHANGED <<saveRows, blobs, findings>> /\ restoring.at = "unpacking"
        BY <2>3 DEF RestoreEnds, RestoreFails, diskVars, checkVars
      <3>2. \/ wal' = "none" /\ restoring' = [restoring EXCEPT !.at = "done"] /\ restoring.todo = {}
            \/ restoring' = [restoring EXCEPT !.at = "failed"]
        BY <2>3 DEF RestoreEnds, RestoreFails
      <3>3. /\ restoring' \in Restores /\ restoring'.from = restoring.from /\ restoring'.todo = restoring.todo
            /\ restoring'.at = "failed" \/ (restoring'.at = "done" /\ wal' = "none" /\ restoring.todo = {})
        BY <1>3, <3>2 DEF Restores
      <3> QED
        BY <1>1, <1>3, <3>1, <3>3 DEF BackupsInv, BackupTypes, RestoreInv, backupVars
    <2> QED
      BY <2>1, <2>2, <2>3
  <1>5. CheckInv' /\ RunInv' /\ ServerAlone' /\ ArchivesInv'
    BY <1>1, <1>2 DEF BackupsInv, CheckInv, Faulty, RunInv, ServerAlone, ArchivesInv, backupVars
  <1> QED
    BY <1>1, <1>4, <1>5 DEF BackupsInv, BackupTypes, backupVars

LEMMA BackupsSteps == BackupsInv /\ [BackupsNext]_backupsVars => BackupsInv'
  <1>1. BackupsInv /\ UNCHANGED backupsVars => BackupsInv'
    BY DEF backupsVars, diskVars, backupVars, checkVars, restoreVars,
           BackupsInv, BackupTypes, ServerAlone, RunInv, ArchivesInv, RestoreInv, CheckInv, Faulty
  <1> QED
    BY <1>1, SavesKeep, BackupKeeps, ArchivesKeep, CheckKeeps, StopKeeps, RestoreKeeps DEF BackupsNext

\* After a damage there is a whole archive, which restores what it was made of,
\* and a check that tells what is wrong with the saves that are not encrypted,
\* wherever a job or a command was cut short (server/job/backup.go, server/restore.go, server/store/integrity.go).
THEOREM DamageIsRepairableHolds == BackupsSpec => []DamageIsRepairable
  <1>1. BackupsInv => DamageIsRepairable
    <2> SUFFICES ASSUME BackupsInv PROVE DamageIsRepairable
      OBVIOUS
    <2>1. archives \in Seq(BackupFiles) /\ DOMAIN archives = 1 .. Len(archives)
      BY DEF BackupsInv, BackupTypes
    <2>2. (\A i \in DOMAIN archives : archives[i].whole) /\ (named > 0 => archives # <<>> /\ archives[Len(archives)].no = named)
      BY <2>1 DEF BackupsInv, ArchivesInv
    <2>3. ASSUME restoring.at = "done", archives[restoring.from].calm, NEW s \in Kept, saveRows[s] # 0
          PROVE  blobs[s] = saveRows[s]
      BY <2>3 DEF BackupsInv, ArchivesInv, RestoreInv
    <2>4. restoring.at = "done" => wal = "none" /\ saveRows = archives[restoring.from].db
      BY DEF BackupsInv, RestoreInv
    <2>5. CheckTells
      BY DEF BackupsInv, CheckInv, Faulty, CheckTells
    <2> QED
      BY <2>2, <2>3, <2>4, <2>5 DEF DamageIsRepairable, RestoredAsArchived
  <1> QED
    BY <1>1, BackupsBegin, BackupsSteps, PTL DEF BackupsSpec

---------------------------------------------------------------------------
(* The migrations: saves are kept.                                          *)

Slots == [c : Nat, file : SlotKeys]
Ops == [gone : SUBSET SlotKeys, from : SUBSET SlotKeys]
Tables == [Owners -> [SlotKeys -> Slots]]
Archives == [Owners -> [SlotKeys -> SUBSET Nat]]
OpsOf == [Owners -> Ops]
Starts == [at : {"down", "steps", "tx", "ops", "serving"}, dry : BOOLEAN, step : Nat, todo : SUBSET Owners,
           slots : Tables, versions : Archives, ops : OpsOf]
MigrationTypes ==
  /\ schema \in Nat /\ slots \in Tables /\ versions \in Archives /\ start \in Starts
  /\ disk \in [Owners -> [SlotKeys -> Nat]]
  /\ original \in [Owners -> SUBSET (Nat \ {0})]

\* Every key has the save, the file and the version it had.
Untouched(o) ==
  /\ \A k \in SlotKeys :
       /\ slots[o][k] = IF disk[o][k] = 0 THEN NoSlot ELSE [c |-> disk[o][k], file |-> k]
       /\ disk[o][k] <= Cardinality(SlotKeys)
       /\ disk[o][k] # 0 => Archived + disk[o][k] \in versions[o][k]
  /\ original[o] = {disk[o][k] : k \in SlotKeys} \ {0}

\* The new key has the newest save, its versions have the rest, and the file is
\* where the row says, or will be once its rename is run, or was cut short.
KeptIn(kept) == UNION {kept[k] : k \in SlotKeys}
NoOp == [gone |-> {}, from |-> {}]
Located(d, cut, slot, op) ==
  \/ /\ slot.file = Merged
     /\ \E f \in SlotKeys \ {Merged} : op.from = {f} /\ f \notin op.gone /\ d[f] = slot.c
  \/ op.from = {} /\ slot.file \notin op.gone /\ d[slot.file] = slot.c
  \/ op.from = {} /\ cut /\ \E f \in SlotKeys : f \notin op.gone /\ d[f] = slot.c
MergedInv(d, old, cut, table, kept, op) ==
  /\ Present(table) \subseteq {Merged}
  /\ \A c \in old : /\ c <= table[Merged].c
                    /\ c = table[Merged].c \/ c \in KeptIn(kept)
                    /\ Archived + c \in KeptIn(kept)
  /\ table[Merged].c # 0 => Located(d, cut, table[Merged], op)

\* Before the merge is committed ...
Before ==
  /\ start.at # "ops" /\ \A o \in Owners : Untouched(o)
  /\ start.at # "tx" => start.ops = NoOps
  /\ \/ dryMerged
     \/ schema < MergeStep /\ start.at # "serving" /\ (start.at # "down" => start.step <= MergeStep)
  /\ start.at = "tx" =>
       /\ start.step = MergeStep
       /\ \A o \in Owners :
            IF o \in start.todo
            THEN start.slots[o] = slots[o] /\ start.versions[o] = versions[o] /\ start.ops[o] = NoOp
            ELSE MergedInv(disk[o], original[o], cutShort, start.slots[o], start.versions[o], start.ops[o])

\* ... and after.
After ==
  /\ schema >= MergeStep /\ start.at # "tx"
  /\ start.at = "steps" => start.step > MergeStep
  /\ start.at = "ops" => start.step = MergeStep
  /\ start.at # "ops" => start.ops = NoOps
  /\ \A o \in Owners : MergedInv(disk[o], original[o], cutShort, slots[o], versions[o], start.ops[o])

MigrationInv == MigrationTypes /\ (Before \/ After)

LEMMA MergedIsAKey == Merged \in SlotKeys
  BY DEF SlotKeys

LEMMA DownTypes == Down \in Starts /\ Down.at = "down" /\ Down.ops = NoOps /\ NoOps \in OpsOf
  <1>1. NoSlot \in Slots
    BY MergedIsAKey DEF NoSlot, Slots
  <1>2. NoOps \in OpsOf
    BY DEF NoOps, OpsOf, Ops
  <1>3. [o \in Owners |-> [k \in SlotKeys |-> NoSlot]] \in Tables
    BY <1>1 DEF Tables
  <1>4. [o \in Owners |-> [k \in SlotKeys |-> {}]] \in Archives
    BY DEF Archives
  <1> QED
    BY <1>2, <1>3, <1>4 DEF Down, Starts

LEMMA MigrationBegins == MigrationInit => MigrationInv
  <1> SUFFICES ASSUME MigrationInit PROVE MigrationInv
    OBVIOUS
  <1>1. PICK age \in [Owners -> [SlotKeys -> 0 .. Cardinality(SlotKeys)]] :
       /\ slots = [o \in Owners |-> [k \in SlotKeys |->
                     IF age[o][k] = 0 THEN NoSlot ELSE [c |-> age[o][k], file |-> k]]]
       /\ disk = age
       /\ versions = [o \in Owners |-> [k \in SlotKeys |->
                        IF age[o][k] = 0 THEN {} ELSE {Archived + age[o][k]}]]
       /\ original = [o \in Owners |-> {age[o][k] : k \in SlotKeys} \ {0}]
    BY DEF MigrationInit
  <1>2. start = Down /\ schema = MergeStep - 1 /\ schema \in Nat /\ schema < MergeStep
    BY MigrationBounds DEF MigrationInit
  <1>3. \A o \in Owners, k \in SlotKeys : age[o][k] \in 0 .. Cardinality(SlotKeys)
    OBVIOUS
  <1>4. \A o \in Owners : Untouched(o)
    BY <1>1, <1>3 DEF Untouched
  <1>5. slots \in Tables
    BY <1>1, <1>3, MergedIsAKey DEF Tables, Slots, NoSlot
  <1>6. versions \in Archives
    BY <1>1, <1>3 DEF Archives, Archived
  <1>7. disk \in [Owners -> [SlotKeys -> Nat]] /\ original \in [Owners -> SUBSET (Nat \ {0})]
    BY <1>1, <1>3
  <1>8. MigrationTypes
    BY <1>2, <1>5, <1>6, <1>7, DownTypes DEF MigrationTypes
  <1>9. Before
    BY <1>2, <1>4, DownTypes DEF Before
  <1> QED
    BY <1>8, <1>9 DEF MigrationInv

\* Before the merge everything is where it was.
LEMMA UntouchedTells ==
  ASSUME MigrationTypes, NEW o \in Owners, Untouched(o)
  PROVE  /\ \A k \in SlotKeys : k \in Present(slots[o]) <=> disk[o][k] # 0
         /\ \A k \in Present(slots[o]) : slots[o][k].c = disk[o][k] /\ slots[o][k].file = k
         /\ \A c \in original[o] : \E k \in Present(slots[o]) : c = disk[o][k]
  <1>1. ASSUME NEW k \in SlotKeys
        PROVE  slots[o][k].c = disk[o][k] /\ (disk[o][k] # 0 => slots[o][k].file = k)
    <2>1. slots[o][k] = IF disk[o][k] = 0 THEN NoSlot ELSE [c |-> disk[o][k], file |-> k]
      BY DEF Untouched
    <2> QED
      BY <2>1 DEF NoSlot
  <1>2. Present(slots[o]) = {k \in SlotKeys : slots[o][k].c # 0}
    BY DEF Present
  <1>3. ASSUME NEW c \in original[o] PROVE \E k \in Present(slots[o]) : c = disk[o][k]
    <2>1. c \in {disk[o][k] : k \in SlotKeys} /\ c # 0
      BY DEF Untouched
    <2> QED
      BY <2>1, <1>1, <1>2
  <1> QED
    BY <1>1, <1>2, <1>3

\* The newest of the saves of a group.
LEMMA SurvivorExists ==
  ASSUME MigrationTypes, NEW o \in Owners, Untouched(o), Present(slots[o]) # {}
  PROVE  \E k \in Present(slots[o]) : \A j \in Present(slots[o]) : slots[o][j].c <= slots[o][k].c
  <1> DEFINE P == Present(slots[o])
             B == Cardinality(SlotKeys)
             D == {B - slots[o][k].c : k \in P}
  <1>1. B \in Nat
    BY MigrationBounds, FS_Singleton, FS_Union, FS_CardinalityType DEF SlotKeys
  <1> HIDE DEF B
  <1>2. \A k \in P : k \in SlotKeys /\ slots[o][k].c \in Nat /\ slots[o][k].c <= B
    <2> SUFFICES ASSUME NEW k \in P PROVE k \in SlotKeys /\ slots[o][k].c \in Nat /\ slots[o][k].c <= B
      OBVIOUS
    <2>1. k \in SlotKeys
      BY DEF Present
    <2>2. slots[o][k].c = disk[o][k]
      BY UntouchedTells
    <2>3. disk[o][k] \in Nat /\ disk[o][k] <= B
      <3>1. disk[o][k] \in Nat
        BY <2>1 DEF MigrationTypes
      <3>2. disk[o][k] <= Cardinality(SlotKeys)
        BY <2>1 DEF Untouched
      <3> QED
        BY <3>1, <3>2 DEF B
    <2> QED
      BY <2>1, <2>2, <2>3
  <1>3. D \in SUBSET Nat /\ D # {}
    BY <1>1, <1>2
  <1>4. \E m \in D : \A c \in D : m <= c
    <2> HIDE DEF D
    <2> DEFINE R == OpToRel(<, Nat)
    <2>1. PICK m \in D : \A c \in D : <<c, m>> \notin R
      BY <1>3, NatLessThanWellFounded, WFMin
    <2>2. ASSUME NEW c \in D PROVE m <= c
      <3>1. m \in Nat /\ c \in Nat
        BY <1>3
      <3>2. ~(c < m)
        BY <2>1, <3>1 DEF OpToRel
      <3> QED
        BY <3>1, <3>2
    <2> QED
      BY <2>2
  <1>5. PICK k \in P : \A j \in P : B - slots[o][k].c <= B - slots[o][j].c
    BY <1>4
  <1>6. \A j \in P : slots[o][j].c <= slots[o][k].c
    BY <1>1, <1>2, <1>5
  <1> QED
    BY <1>6

\* A group that needs no merge is as merged as it gets.
LEMMA NothingToMerge ==
  ASSUME MigrationTypes, NEW o \in Owners, Untouched(o), Present(slots[o]) \subseteq {Merged}
  PROVE  MergedInv(disk[o], original[o], cutShort, slots[o], versions[o], NoOp)
  <1>1. \A c \in original[o] : c = disk[o][Merged] /\ c = slots[o][Merged].c /\ c # 0 /\ c \in Nat
    BY UntouchedTells DEF MigrationTypes
  <1>2. \A c \in original[o] : Archived + c \in KeptIn(versions[o])
    <2>1. \A c \in original[o] : Archived + c \in versions[o][Merged]
      BY <1>1, MergedIsAKey DEF Untouched
    <2> QED
      BY <2>1, MergedIsAKey DEF KeptIn
  <1>3. slots[o][Merged].c # 0 => Located(disk[o], cutShort, slots[o][Merged], NoOp)
    BY UntouchedTells, MergedIsAKey DEF Located, NoOp, Present
  <1> QED
    BY <1>1, <1>2, <1>3 DEF MergedInv

\* The merge of a group.
LEMMA GroupIsMerged ==
  ASSUME MigrationTypes, NEW o \in Owners, Untouched(o),
         NEW s \in Present(slots[o]), \A j \in Present(slots[o]) : slots[o][j].c <= slots[o][s].c,
         NEW table, table = [k \in SlotKeys |-> IF k = Merged THEN [c |-> slots[o][s].c, file |-> Merged] ELSE NoSlot],
         NEW kept, kept = [k \in SlotKeys |-> IF k = Merged
                     THEN KeptIn(versions[o]) \cup {disk[o][slots[o][j].file] : j \in Present(slots[o]) \ {s}}
                     ELSE {}],
         NEW op, op = [gone |-> {slots[o][j].file : j \in Present(slots[o]) \ {s}},
                       from |-> IF s # Merged THEN {slots[o][s].file} ELSE {}]
  PROVE  MergedInv(disk[o], original[o], cutShort, table, kept, op)
  <1>1. /\ \A k \in Present(slots[o]) : k \in SlotKeys /\ slots[o][k].c = disk[o][k] /\ slots[o][k].file = k
        /\ \A c \in original[o] : \E k \in Present(slots[o]) : c = disk[o][k]
    BY UntouchedTells DEF Present
  <1>2. table[Merged].c = disk[o][s] /\ table[Merged].file = Merged /\ Present(table) \subseteq {Merged}
    BY <1>1, MergedIsAKey DEF Present, NoSlot
  <1>3. KeptIn(kept) = KeptIn(versions[o]) \cup {disk[o][j] : j \in Present(slots[o]) \ {s}}
    <2>1. KeptIn(kept) = kept[Merged]
      BY MergedIsAKey DEF KeptIn
    <2> QED
      BY <1>1, <2>1, MergedIsAKey
  <1>4. op.gone = Present(slots[o]) \ {s} /\ op.from = IF s # Merged THEN {s} ELSE {}
    <2>1. {slots[o][j].file : j \in Present(slots[o]) \ {s}} = Present(slots[o]) \ {s}
      BY <1>1
    <2> QED
      BY <1>1, <2>1
  <1>5. ASSUME NEW c \in original[o]
        PROVE  c <= table[Merged].c /\ (c = table[Merged].c \/ c \in KeptIn(kept)) /\ Archived + c \in KeptIn(kept)
    <2>1. PICK k \in Present(slots[o]) : c = disk[o][k]
      BY <1>1
    <2>2. c <= table[Merged].c
      BY <1>1, <1>2, <2>1
    <2>3. c = table[Merged].c \/ c \in KeptIn(kept)
      BY <1>2, <1>3, <2>1
    <2>4. Archived + c \in KeptIn(kept)
      <3>1. k \in SlotKeys /\ disk[o][k] # 0
        BY <1>1, <2>1, UntouchedTells
      <3>2. Archived + c \in versions[o][k]
        BY <2>1, <3>1 DEF Untouched
      <3> QED
        BY <1>3, <3>1, <3>2 DEF KeptIn
    <2> QED
      BY <2>2, <2>3, <2>4
  <1>6. Located(disk[o], cutShort, table[Merged], op)
    <2>1. CASE s = Merged
      BY <1>2, <1>4, <2>1 DEF Located
    <2>2. CASE s # Merged
      BY <1>1, <1>2, <1>4, <2>2 DEF Located
    <2> QED
      BY <2>1, <2>2
  <1> QED
    BY <1>2, <1>5, <1>6 DEF MergedInv

\* Files that are cut short, or not, still hold the save.
LEMMA CutKeeps ==
  ASSUME NEW d, NEW old, NEW cut, NEW cut2, NEW table, NEW kept, NEW op, MergedInv(d, old, cut, table, kept, op), cut => cut2
  PROVE  MergedInv(d, old, cut2, table, kept, op)
  BY DEF MergedInv, Located

LEMMA OpsLost ==
  ASSUME NEW d, NEW old, NEW cut, NEW table \in [SlotKeys -> Slots], NEW kept, NEW op, MergedInv(d, old, cut, table, kept, op)
  PROVE  MergedInv(d, old, TRUE, table, kept, NoOp)
  <1>1. table[Merged].file \in SlotKeys
    BY MergedIsAKey DEF Slots
  <1>2. table[Merged].c # 0 => Located(d, TRUE, table[Merged], NoOp)
    <2>1. table[Merged].c # 0 => \E f \in SlotKeys : d[f] = table[Merged].c
      BY <1>1 DEF MergedInv, Located
    <2> QED
      BY <2>1 DEF Located, NoOp
  <1> QED
    BY <1>2 DEF MergedInv

\* Steps that change neither the saves nor what is to be merged.
LEMMA UntouchedStays ==
  ASSUME UNCHANGED <<slots, disk, versions, original>>, NEW o \in Owners
  PROVE  Untouched(o)' <=> Untouched(o)
  BY DEF Untouched

LEMMA StartsAndEnds ==
  ASSUME MigrationInv, (\E dry \in BOOLEAN : ServerMigrates(dry)) \/ PlainStep \/ DryRunOfMerge \/ OpsEnd \/ Serve
  PROVE  MigrationInv'
  <1>1. UNCHANGED <<slots, disk, versions, original, cutShort>>
    BY DEF ServerMigrates, PlainStep, DryRunOfMerge, OpsEnd, Serve, storeVars
  <1>2. start \in Starts /\ schema \in Nat /\ MergeStep \in Nat /\ LastStep \in Nat /\ MergeStep < LastStep
    BY MigrationBounds DEF MigrationInv, MigrationTypes
  <1>3. CASE \E dry \in BOOLEAN : ServerMigrates(dry)
    <2>1. PICK dry \in BOOLEAN : start' = [Down EXCEPT !.at = "steps", !.dry = dry, !.step = schema + 1]
      BY <1>3 DEF ServerMigrates
    <2>2. start' \in Starts /\ start'.at = "steps" /\ start'.step = schema + 1 /\ start'.ops = NoOps
      <3>1. schema + 1 \in Nat /\ dry \in BOOLEAN
        BY <1>2
      <3>2. ASSUME NEW d \in Starts, start' = [d EXCEPT !.at = "steps", !.dry = dry, !.step = schema + 1]
            PROVE  start' \in Starts /\ start'.at = "steps" /\ start'.step = schema + 1 /\ start'.ops = d.ops
        BY <3>1, <3>2 DEF Starts
      <3> QED
        BY <2>1, <3>2, DownTypes
    <2>3. UNCHANGED <<schema, dryMerged>> /\ start.at = "down"
      BY <1>3 DEF ServerMigrates, storeVars
    <2>4. Before => Before'
      BY <1>1, <1>2, <2>2, <2>3, UntouchedStays DEF Before
    <2>5. After => After'
      <3>1. After => start.ops = NoOps
        BY <2>3 DEF After
      <3> QED
        BY <1>1, <1>2, <2>2, <2>3, <3>1 DEF After
    <2> QED
      BY <1>1, <2>2, <2>3, <2>4, <2>5 DEF MigrationInv, MigrationTypes
  <1>4. CASE PlainStep \/ DryRunOfMerge
    <2>1. start' = [start EXCEPT !.step = start.step + 1] /\ start.at = "steps"
      BY <1>2, <1>4 DEF PlainStep, DryRunOfMerge, Starts
    <2>2. start' \in Starts /\ start'.at = "steps" /\ start'.step = start.step + 1 /\ start'.ops = start.ops
      BY <1>2, <2>1 DEF Starts
    <2>3. /\ schema' \in Nat /\ (dryMerged => dryMerged')
          /\ (PlainStep => schema' = start.step /\ start.step # MergeStep) /\ (DryRunOfMerge => dryMerged' /\ schema' = schema /\ start.step = MergeStep)
      BY <1>2, <1>4 DEF PlainStep, DryRunOfMerge, storeVars, Starts
    <2>4. Before => Before'
      BY <1>1, <1>2, <1>4, <2>1, <2>2, <2>3, UntouchedStays DEF Before, Starts
    <2>5. After => After'
      BY <1>1, <1>2, <1>4, <2>1, <2>2, <2>3 DEF After, Starts
    <2> QED
      BY <1>1, <2>2, <2>3, <2>4, <2>5 DEF MigrationInv, MigrationTypes
  <1>5. CASE OpsEnd
    <2>1. start' = [start EXCEPT !.at = "steps", !.step = start.step + 1] /\ start.at = "ops" /\ start.ops = NoOps /\ UNCHANGED schema
      BY <1>2, <1>5 DEF OpsEnd, Starts, storeVars
    <2>2. start' \in Starts /\ start'.at = "steps" /\ start'.step = start.step + 1 /\ start'.ops = NoOps
      <3>1. start.step + 1 \in Nat
        BY <1>2 DEF Starts
      <3> QED
        BY <1>2, <2>1, <3>1 DEF Starts
    <2>3. After /\ After'
      BY <1>1, <1>2, <2>1, <2>2 DEF MigrationInv, Before, After
    <2> QED
      BY <1>1, <2>1, <2>2, <2>3 DEF MigrationInv, MigrationTypes
  <1>6. CASE Serve
    <2>1. start' = [start EXCEPT !.at = "serving"] /\ start.at = "steps" /\ start.step > LastStep /\ UNCHANGED <<schema, dryMerged>>
      BY <1>6 DEF Serve, storeVars
    <2>2. start' \in Starts /\ start'.at = "serving" /\ start'.step = start.step /\ start'.ops = start.ops
      BY <1>2, <2>1 DEF Starts
    <2>3. Before => Before'
      BY <1>1, <1>2, <2>1, <2>2, UntouchedStays DEF Before, Starts
    <2>4. After => After'
      BY <1>1, <2>1, <2>2 DEF After
    <2> QED
      BY <1>1, <2>1, <2>2, <2>3, <2>4 DEF MigrationInv, MigrationTypes
  <1> QED
    BY <1>3, <1>4, <1>5, <1>6

LEMMA FailingKeeps ==
  ASSUME MigrationInv, StartFails
  PROVE  MigrationInv'
  <1>1. /\ start' = Down /\ cutShort' = (cutShort \/ (start.at = "ops" /\ start.ops # NoOps))
        /\ UNCHANGED <<schema, slots, disk, versions, original, dryMerged>>
    BY DEF StartFails, storeVars
  <1>2. MigrationTypes'
    BY <1>1, DownTypes DEF MigrationInv, MigrationTypes
  <1>3. Before => Before'
    BY <1>1, DownTypes, UntouchedStays DEF Before
  <1>4. ASSUME After PROVE After'
    <2> SUFFICES ASSUME NEW o \in Owners
                 PROVE  MergedInv(disk[o], original[o], cutShort', slots[o], versions[o], NoOp)
      <3>1. \A o \in Owners : NoOps[o] = NoOp
        BY DEF NoOps, NoOp
      <3> QED
        BY <1>1, <1>4, <3>1, DownTypes DEF After
    <2>1. MergedInv(disk[o], original[o], cutShort, slots[o], versions[o], start.ops[o]) /\ slots[o] \in [SlotKeys -> Slots]
      BY <1>4 DEF After, MigrationInv, MigrationTypes, Tables
    <2>2. CASE start.ops = NoOps
      <3>1. start.ops[o] = NoOp /\ (cutShort => cutShort')
        BY <1>1, <2>2 DEF NoOps, NoOp
      <3> QED
        BY <2>1, <3>1, CutKeeps
    <2>3. CASE start.ops # NoOps
      <3>1. cutShort'
        BY <1>1, <1>4, <2>3 DEF After
      <3>2. MergedInv(disk[o], original[o], TRUE, slots[o], versions[o], NoOp)
        BY <2>1, OpsLost
      <3> QED
        BY <3>1, <3>2, CutKeeps
    <2> QED
      BY <2>2, <2>3
  <1> QED
    BY <1>2, <1>3, <1>4 DEF MigrationInv

\* The step takes its transaction.
LEMMA MergeBeginsKeeps ==
  ASSUME MigrationInv, MergeBegins
  PROVE  MigrationInv'
  <1>1. /\ start' = [start EXCEPT !.at = "tx", !.todo = Owners, !.slots = slots, !.versions = versions]
        /\ UNCHANGED <<schema, slots, disk, versions, original, dryMerged, cutShort>>
        /\ start.at = "steps" /\ start.step = MergeStep /\ MergeStep \in Nat
    BY MigrationBounds DEF MergeBegins, storeVars
  <1>2. MigrationTypes /\ Before
    BY <1>1 DEF MigrationInv, After
  <1>3. /\ start'.at = "tx" /\ start'.todo = Owners /\ start'.slots = slots /\ start'.versions = versions
        /\ start'.ops = NoOps /\ start'.step = MergeStep /\ start' \in Starts
    <2>1. start \in Starts /\ slots \in Tables /\ versions \in Archives /\ start.ops = NoOps
      BY <1>1, <1>2 DEF MigrationTypes, Before
    <2>2. start' \in Starts
      BY <1>1, <2>1 DEF Starts
    <2> QED
      BY <1>1, <2>1, <2>2 DEF Starts
  <1>4. Before'
    <2>1. \A o \in Owners : NoOps[o] = NoOp
      BY DEF NoOps, NoOp
    <2>2. \A o \in Owners : Untouched(o)'
      BY <1>1, <1>2, UntouchedStays DEF Before
    <2>3. dryMerged' \/ (schema' < MergeStep /\ start'.step <= MergeStep)
      BY <1>1, <1>2, <1>3 DEF Before
    <2> QED
      BY <1>1, <1>3, <2>1, <2>2, <2>3 DEF Before
  <1> QED
    BY <1>1, <1>2, <1>3, <1>4 DEF MigrationInv, MigrationTypes

\* One group in the transaction: what it was to be is what it is.
LEMMA GroupKeeps ==
  ASSUME MigrationInv, NEW o \in Owners, start.at = "tx", o \in start.todo,
         NEW table \in [SlotKeys -> Slots], NEW kept \in [SlotKeys -> SUBSET Nat], NEW op \in Ops,
         start' = [start EXCEPT !.todo = start.todo \ {o}, !.slots = [start.slots EXCEPT ![o] = table],
                                !.versions = [start.versions EXCEPT ![o] = kept], !.ops = [start.ops EXCEPT ![o] = op]],
         MergedInv(disk[o], original[o], cutShort, table, kept, op),
         UNCHANGED <<schema, slots, disk, versions, original, dryMerged, cutShort>>
  PROVE  MigrationInv'
  <1>1. MigrationTypes /\ Before
    BY DEF MigrationInv, After
  <1>2. start \in Starts /\ start.slots \in Tables /\ start.versions \in Archives /\ start.ops \in OpsOf
    BY <1>1 DEF MigrationTypes, Starts
  <1>3. /\ [start.slots EXCEPT ![o] = table] \in Tables
        /\ [start.versions EXCEPT ![o] = kept] \in Archives
        /\ [start.ops EXCEPT ![o] = op] \in OpsOf
    BY <1>2 DEF Tables, Archives, OpsOf
  <1>4. start' \in Starts
    BY <1>2, <1>3 DEF Starts
  <1>5. /\ start'.at = "tx" /\ start'.step = start.step /\ start'.todo = start.todo \ {o}
        /\ start'.slots = [start.slots EXCEPT ![o] = table]
        /\ start'.versions = [start.versions EXCEPT ![o] = kept]
        /\ start'.ops = [start.ops EXCEPT ![o] = op]
    BY <1>2 DEF Starts
  <1>6. Before'
    <2>1. ASSUME NEW p \in Owners
          PROVE  IF p \in start'.todo
                 THEN start'.slots[p] = slots[p] /\ start'.versions[p] = versions[p] /\ start'.ops[p] = NoOp
                 ELSE MergedInv(disk[p], original[p], cutShort, start'.slots[p], start'.versions[p], start'.ops[p])
      <3>1. CASE p = o
        <4>1. p \notin start'.todo /\ start'.slots[p] = table /\ start'.versions[p] = kept /\ start'.ops[p] = op
          BY <1>2, <1>5, <3>1 DEF Tables, Archives, OpsOf
        <4> QED
          BY <3>1, <4>1
      <3>2. CASE p # o
        <4>1. /\ p \in start'.todo <=> p \in start.todo
              /\ start'.slots[p] = start.slots[p] /\ start'.versions[p] = start.versions[p] /\ start'.ops[p] = start.ops[p]
          BY <1>2, <1>5, <3>2 DEF Tables, Archives, OpsOf
        <4>2. IF p \in start.todo
              THEN start.slots[p] = slots[p] /\ start.versions[p] = versions[p] /\ start.ops[p] = NoOp
              ELSE MergedInv(disk[p], original[p], cutShort, start.slots[p], start.versions[p], start.ops[p])
          BY <1>1 DEF Before
        <4> QED
          BY <4>1, <4>2
      <3> QED
        BY <3>1, <3>2
    <2>2. \A p \in Owners : Untouched(p)'
      BY <1>1, UntouchedStays DEF Before
    <2>3. start'.step = MergeStep /\ (dryMerged' \/ (schema' < MergeStep /\ start'.step <= MergeStep))
      BY <1>1, <1>5 DEF Before
    <2> QED
      BY <1>5, <2>1, <2>2, <2>3 DEF Before
  <1> QED
    BY <1>1, <1>4, <1>6 DEF MigrationInv, MigrationTypes

LEMMA MergeGroupKeeps ==
  ASSUME MigrationInv, NEW o \in Owners, MergeGroup(o)
  PROVE  MigrationInv'
  <1> DEFINE table == slots[o]
             s == CHOOSE k \in Present(table) : \A j \in Present(table) : table[j].c <= table[k].c
             losers == Present(table) \ {s}
             table2 == [k \in SlotKeys |-> IF k = Merged THEN [c |-> table[s].c, file |-> Merged] ELSE NoSlot]
             kept2 == [k \in SlotKeys |-> IF k = Merged
                         THEN KeptIn(versions[o]) \cup {disk[o][table[j].file] : j \in losers} ELSE {}]
             op2 == [gone |-> {table[j].file : j \in losers}, from |-> IF s # Merged THEN {table[s].file} ELSE {}]
  <1>1. /\ start.at = "tx" /\ o \in start.todo
        /\ UNCHANGED <<schema, slots, disk, versions, original, dryMerged, cutShort>>
    BY DEF MergeGroup, storeVars
  <1>2. /\ MigrationTypes /\ Untouched(o) /\ start.ops[o] = NoOp
        /\ start.slots[o] = table /\ start.versions[o] = versions[o]
    BY <1>1 DEF MigrationInv, Before, After
  <1>3. /\ start \in Starts /\ start.slots \in Tables /\ start.versions \in Archives /\ start.ops \in OpsOf
        /\ table \in [SlotKeys -> Slots] /\ versions[o] \in [SlotKeys -> SUBSET Nat] /\ disk[o] \in [SlotKeys -> Nat]
        /\ NoOp \in Ops
    BY <1>2 DEF MigrationTypes, Starts, Tables, Archives, Ops, NoOp
  <1>4. CASE Present(table) \subseteq {Merged}
    <2>1. start' = [start EXCEPT !.todo = start.todo \ {o}]
      BY <1>2, <1>3, <1>4 DEF MergeGroup, Starts
    <2>2. /\ [start.slots EXCEPT ![o] = table] = start.slots
          /\ [start.versions EXCEPT ![o] = versions[o]] = start.versions
          /\ [start.ops EXCEPT ![o] = NoOp] = start.ops
      BY <1>2, <1>3 DEF Tables, Archives, OpsOf
    <2>3. start' = [start EXCEPT !.todo = start.todo \ {o}, !.slots = start.slots,
                                 !.versions = start.versions, !.ops = start.ops]
      BY <1>3, <2>1 DEF Starts
    <2>4. MergedInv(disk[o], original[o], cutShort, table, versions[o], NoOp)
      BY <1>2, <1>4, NothingToMerge
    <2> HIDE DEF table
    <2> QED
      BY <1>1, <1>3, <2>2, <2>3, <2>4, GroupKeeps
  <1>5. CASE ~(Present(table) \subseteq {Merged})
    <2>1. s \in Present(table) /\ \A j \in Present(table) : table[j].c <= table[s].c
      <3>1. \E k \in Present(table) : \A j \in Present(table) : table[j].c <= table[k].c
        BY <1>2, <1>5, SurvivorExists
      <3> QED
        BY <3>1
    <2>2. start' = [start EXCEPT !.todo = start.todo \ {o}, !.slots = [start.slots EXCEPT ![o] = table2],
                                 !.versions = [start.versions EXCEPT ![o] = kept2], !.ops = [start.ops EXCEPT ![o] = op2]]
      <3> DEFINE here == start.slots[o]
                 first == CHOOSE k \in Present(here) : \A j \in Present(here) : here[j].c <= here[k].c
                 rest == Present(here) \ {first}
                 table3 == [k \in SlotKeys |-> IF k = Merged THEN [c |-> here[first].c, file |-> Merged] ELSE NoSlot]
                 kept3 == [k \in SlotKeys |-> IF k = Merged
                             THEN (UNION {start.versions[o][j] : j \in SlotKeys}) \cup {disk[o][here[j].file] : j \in rest}
                             ELSE {}]
                 op3 == [gone |-> {here[j].file : j \in rest}, from |-> IF first # Merged THEN {here[first].file} ELSE {}]
      <3>1. ~(Present(here) \subseteq {Merged})
        BY <1>2, <1>5
      <3>2. start' = [start EXCEPT !.todo = @ \ {o}, !.slots[o] = table3, !.versions[o] = kept3, !.ops[o] = op3]
        BY <3>1 DEF MergeGroup
      <3>3. table3 = table2 /\ kept3 = kept2 /\ op3 = op2
        BY <1>2 DEF KeptIn
      <3> HIDE DEF table2, kept2, op2, table3, kept3, op3
      <3> QED
        BY <1>3, <3>2, <3>3 DEF Starts
    <2>3. MergedInv(disk[o], original[o], cutShort, table2, kept2, op2)
      <3> HIDE DEF s
      <3> QED
        BY <1>2, <2>1, GroupIsMerged
    <2>4. \A k \in Present(table) : k \in SlotKeys /\ table[k].file \in SlotKeys /\ table[k].c \in Nat
      BY <1>3 DEF Present, Slots
    <2>5. table2 \in [SlotKeys -> Slots]
      <3> HIDE DEF s
      <3> QED
        BY <2>1, <2>4, MergedIsAKey DEF Slots, NoSlot
    <2>6. kept2 \in [SlotKeys -> SUBSET Nat]
      <3> HIDE DEF s
      <3>1. KeptIn(versions[o]) \subseteq Nat
        BY <1>3 DEF KeptIn
      <3>2. {disk[o][table[j].file] : j \in losers} \subseteq Nat
        BY <1>3, <2>4
      <3> QED
        BY <3>1, <3>2
    <2>7. op2 \in Ops
      <3> HIDE DEF s
      <3> QED
        BY <2>1, <2>4 DEF Ops
    <2> HIDE DEF table2, kept2, op2
    <2> QED
      BY <1>1, <2>2, <2>3, <2>5, <2>6, <2>7, GroupKeeps
  <1> QED
    BY <1>4, <1>5

LEMMA CommitKeeps ==
  ASSUME MigrationInv, MergeCommits
  PROVE  MigrationInv'
  <1>1. /\ start.at = "tx" /\ start.todo = {}
        /\ slots' = start.slots /\ versions' = start.versions /\ schema' = MergeStep
        /\ start' = [Down EXCEPT !.at = "ops", !.dry = start.dry, !.step = start.step, !.ops = start.ops]
        /\ UNCHANGED <<disk, original, dryMerged, cutShort>> /\ MergeStep \in Nat
    BY MigrationBounds DEF MergeCommits
  <1>2. MigrationTypes /\ Before /\ start \in Starts /\ start.step = MergeStep
    BY <1>1 DEF MigrationInv, MigrationTypes, After, Before
  <1>3. start' \in Starts /\ start'.at = "ops" /\ start'.step = MergeStep /\ start'.ops = start.ops
    <2>1. start.dry \in BOOLEAN /\ start.step \in Nat /\ start.ops \in OpsOf
      BY <1>2 DEF Starts
    <2>2. ASSUME NEW d \in Starts, start' = [d EXCEPT !.at = "ops", !.dry = start.dry, !.step = start.step, !.ops = start.ops]
          PROVE  start' \in Starts /\ start'.at = "ops" /\ start'.step = start.step /\ start'.ops = start.ops
      <3>1. start' \in Starts
        BY <2>1, <2>2 DEF Starts
      <3> QED
        BY <2>2, <3>1 DEF Starts
    <2> QED
      BY <1>1, <1>2, <2>2, DownTypes
  <1>4. MigrationTypes'
    BY <1>1, <1>2, <1>3 DEF MigrationTypes, Starts
  <1>5. After'
    <2>1. \A o \in Owners : MergedInv(disk[o], original[o], cutShort, start.slots[o], start.versions[o], start.ops[o])
      BY <1>1, <1>2 DEF Before
    <2> QED
      BY <1>1, <1>3, <2>1 DEF After
  <1> QED
    BY <1>4, <1>5 DEF MigrationInv

\* A file operation of one game: the others' files and rows are their own.
LEMMA OpKeeps ==
  ASSUME MigrationInv, NEW o \in Owners, start.at = "ops",
         NEW d \in [SlotKeys -> Nat], NEW table \in [SlotKeys -> Slots], NEW op \in Ops,
         disk' = [disk EXCEPT ![o] = d], slots' = [slots EXCEPT ![o] = table],
         start' = [start EXCEPT !.ops = [start.ops EXCEPT ![o] = op]],
         UNCHANGED <<schema, versions, original, dryMerged>>, cutShort => cutShort',
         MergedInv(disk[o], original[o], cutShort, slots[o], versions[o], start.ops[o])
           => MergedInv(d, original[o], cutShort', table, versions[o], op)
  PROVE  MigrationInv'
  <1>1. MigrationTypes /\ After
    BY DEF MigrationInv, Before
  <1>2. start \in Starts /\ start.ops \in OpsOf /\ slots \in Tables /\ disk \in [Owners -> [SlotKeys -> Nat]]
    BY <1>1 DEF MigrationTypes, Starts
  <1>3. [start.ops EXCEPT ![o] = op] \in OpsOf /\ slots' \in Tables /\ disk' \in [Owners -> [SlotKeys -> Nat]]
    BY <1>2 DEF OpsOf, Tables
  <1>4. start' \in Starts
    BY <1>2, <1>3 DEF Starts
  <1>5. start'.at = "ops" /\ start'.step = start.step /\ start'.ops = [start.ops EXCEPT ![o] = op]
    BY <1>2 DEF Starts
  <1>6. ASSUME NEW p \in Owners
        PROVE  MergedInv(disk'[p], original[p], cutShort', slots'[p], versions[p], start'.ops[p])
    <2>1. MergedInv(disk[p], original[p], cutShort, slots[p], versions[p], start.ops[p])
      BY <1>1 DEF After
    <2>2. CASE p = o
      <3>1. disk'[p] = d /\ slots'[p] = table /\ start'.ops[p] = op
        BY <1>2, <1>5, <2>2 DEF OpsOf, Tables
      <3> QED
        BY <2>1, <2>2, <3>1
    <2>3. CASE p # o
      <3>1. disk'[p] = disk[p] /\ slots'[p] = slots[p] /\ start'.ops[p] = start.ops[p]
        BY <1>2, <1>5, <2>3 DEF OpsOf, Tables
      <3> QED
        BY <2>1, <3>1, CutKeeps
    <2> QED
      BY <2>2, <2>3
  <1>7. After'
    BY <1>1, <1>5, <1>6 DEF After
  <1> QED
    BY <1>1, <1>3, <1>4, <1>7 DEF MigrationInv, MigrationTypes

LEMMA OperandTypes ==
  ASSUME MigrationInv, NEW o \in Owners
  PROVE  /\ start \in Starts /\ start.ops \in OpsOf /\ slots \in Tables /\ disk \in [Owners -> [SlotKeys -> Nat]]
         /\ slots[o] \in [SlotKeys -> Slots] /\ disk[o] \in [SlotKeys -> Nat] /\ start.ops[o] \in Ops
         /\ slots = [slots EXCEPT ![o] = slots[o]] /\ disk = [disk EXCEPT ![o] = disk[o]]
  BY DEF MigrationInv, MigrationTypes, Starts, OpsOf, Tables

LEMMA RemoveBlobKeeps ==
  ASSUME MigrationInv, NEW o \in Owners, NEW path \in SlotKeys, NEW ok \in BOOLEAN, RemoveBlob(o, path, ok)
  PROVE  MigrationInv'
  <1> DEFINE d == IF ok THEN [disk[o] EXCEPT ![path] = 0] ELSE disk[o]
             op == [start.ops[o] EXCEPT !.gone = start.ops[o].gone \ {path}]
  <1>1. /\ start.at = "ops" /\ path \in start.ops[o].gone
        /\ UNCHANGED <<schema, slots, versions, original, dryMerged, cutShort>>
    BY DEF RemoveBlob
  <1>2. disk' = [disk EXCEPT ![o] = d]
    BY OperandTypes DEF RemoveBlob
  <1>3. start' = [start EXCEPT !.ops = [start.ops EXCEPT ![o] = op]]
    BY OperandTypes DEF RemoveBlob, Starts, OpsOf
  <1>4. d \in [SlotKeys -> Nat] /\ op \in Ops /\ op.gone = start.ops[o].gone \ {path} /\ op.from = start.ops[o].from
    BY OperandTypes DEF Ops
  <1>5. \A f \in SlotKeys : f # path => d[f] = disk[o][f]
    BY OperandTypes
  <1> HIDE DEF d, op
  <1>6. ASSUME MergedInv(disk[o], original[o], cutShort, slots[o], versions[o], start.ops[o])
        PROVE  MergedInv(d, original[o], cutShort, slots[o], versions[o], op)
    <2>1. slots[o][Merged].file \in SlotKeys
      BY OperandTypes, MergedIsAKey DEF Slots
    <2>2. Located(disk[o], cutShort, slots[o][Merged], start.ops[o]) => Located(d, cutShort, slots[o][Merged], op)
      BY <1>1, <1>4, <1>5, <2>1 DEF Located
    <2> QED
      BY <1>6, <2>2 DEF MergedInv
  <1> QED
    BY <1>1, <1>2, <1>3, <1>4, <1>6, OperandTypes, OpKeeps

LEMMA RenameBlobKeeps ==
  ASSUME MigrationInv, NEW o \in Owners, RenameBlob(o)
  PROVE  MigrationInv'
  <1>1. PICK path \in start.ops[o].from :
          /\ start.at = "ops" /\ start.ops[o].gone = {}
          /\ disk' = [disk EXCEPT ![o][Merged] = disk[o][path], ![o][path] = 0]
          /\ start' = [start EXCEPT !.ops[o].from = {}]
          /\ UNCHANGED <<schema, slots, versions, original, dryMerged, cutShort>>
    BY DEF RenameBlob
  <1> DEFINE d == [disk[o] EXCEPT ![Merged] = disk[o][path], ![path] = 0]
             op == [start.ops[o] EXCEPT !.from = {}]
  <1>2. path \in SlotKeys
    BY OperandTypes DEF Ops
  <1>3. disk' = [disk EXCEPT ![o] = d]
    BY <1>1, OperandTypes
  <1>4. start' = [start EXCEPT !.ops = [start.ops EXCEPT ![o] = op]]
    BY <1>1, OperandTypes DEF Starts, OpsOf
  <1>5. d \in [SlotKeys -> Nat] /\ op \in Ops /\ op.gone = {} /\ op.from = {}
    BY <1>1, <1>2, OperandTypes, MergedIsAKey DEF Ops
  <1>6. path # Merged => d[Merged] = disk[o][path]
    BY <1>2, OperandTypes, MergedIsAKey
  <1> HIDE DEF d, op
  <1>7. ASSUME MergedInv(disk[o], original[o], cutShort, slots[o], versions[o], start.ops[o])
        PROVE  MergedInv(d, original[o], cutShort, slots[o], versions[o], op)
    <2>1. Located(disk[o], cutShort, slots[o][Merged], start.ops[o]) => Located(d, cutShort, slots[o][Merged], op)
      BY <1>1, <1>5, <1>6 DEF Located
    <2> QED
      BY <1>7, <2>1 DEF MergedInv
  <1>8. slots' = [slots EXCEPT ![o] = slots[o]] /\ slots[o] \in [SlotKeys -> Slots]
    BY <1>1, OperandTypes
  <1>9. UNCHANGED <<schema, versions, original, dryMerged>> /\ cutShort' = cutShort /\ start.at = "ops"
    BY <1>1
  <1> QED
    BY <1>3, <1>4, <1>5, <1>7, <1>8, <1>9, OpKeeps

LEMMA RenameFailsKeeps ==
  ASSUME MigrationInv, NEW o \in Owners, NEW pointed \in BOOLEAN, RenameFails(o, pointed)
  PROVE  MigrationInv'
  <1>1. PICK path \in start.ops[o].from :
          /\ start.at = "ops" /\ start.ops[o].gone = {}
          /\ slots' = IF pointed THEN [slots EXCEPT ![o][Merged].file = path] ELSE slots
          /\ cutShort' = (cutShort \/ ~pointed)
          /\ start' = [start EXCEPT !.ops[o].from = {}]
          /\ UNCHANGED <<schema, disk, versions, original, dryMerged>>
    BY DEF RenameFails
  <1> DEFINE row2 == [slots[o][Merged] EXCEPT !.file = path]
             table == IF pointed THEN [slots[o] EXCEPT ![Merged] = row2] ELSE slots[o]
             op == [start.ops[o] EXCEPT !.from = {}]
  <1>2. path \in SlotKeys /\ slots[o][Merged] \in Slots
    BY OperandTypes, MergedIsAKey DEF Ops
  <1>3. slots' = [slots EXCEPT ![o] = table]
    BY <1>1, OperandTypes, MergedIsAKey
  <1>4. start' = [start EXCEPT !.ops = [start.ops EXCEPT ![o] = op]]
    BY <1>1, OperandTypes DEF Starts, OpsOf
  <1>5. row2 \in Slots /\ row2.file = path /\ row2.c = slots[o][Merged].c
    BY <1>2 DEF Slots
  <1> HIDE DEF row2
  <1>6. table \in [SlotKeys -> Slots] /\ \A k \in SlotKeys : table[k].c = slots[o][k].c
    BY <1>5, OperandTypes, MergedIsAKey
  <1>7. op \in Ops /\ op.gone = {} /\ op.from = {}
    BY <1>1, OperandTypes DEF Ops
  <1>8. table[Merged].file = IF pointed THEN path ELSE slots[o][Merged].file
    BY <1>5, OperandTypes, MergedIsAKey
  <1> HIDE DEF table, op
  <1>9. ASSUME MergedInv(disk[o], original[o], cutShort, slots[o], versions[o], start.ops[o])
        PROVE  MergedInv(disk[o], original[o], cutShort', table, versions[o], op)
    <2>1. ASSUME Located(disk[o], cutShort, slots[o][Merged], start.ops[o])
          PROVE  Located(disk[o], cutShort', table[Merged], op)
      <3>1. disk[o][path] = slots[o][Merged].c
        BY <1>1, <2>1 DEF Located
      <3>2. table[Merged].c = slots[o][Merged].c
        BY <1>6, MergedIsAKey
      <3>3. CASE pointed
        BY <1>7, <1>8, <3>1, <3>2, <3>3 DEF Located
      <3>4. CASE ~pointed
        BY <1>1, <1>2, <1>7, <3>1, <3>2, <3>4 DEF Located
      <3> QED
        BY <3>3, <3>4
    <2>2. Present(table) = Present(slots[o]) /\ table[Merged].c = slots[o][Merged].c
      BY <1>6, MergedIsAKey DEF Present
    <2> QED
      BY <1>9, <2>1, <2>2 DEF MergedInv
  <1>10. disk' = [disk EXCEPT ![o] = disk[o]] /\ disk[o] \in [SlotKeys -> Nat]
    BY <1>1, OperandTypes
  <1>11. UNCHANGED <<schema, versions, original, dryMerged>> /\ (cutShort => cutShort') /\ start.at = "ops"
    BY <1>1
  <1> QED
    BY <1>3, <1>4, <1>6, <1>7, <1>9, <1>10, <1>11, OpKeeps

LEMMA MigrationSteps == MigrationInv /\ [MigrationNext]_migrationVars => MigrationInv'
  <1> SUFFICES ASSUME MigrationInv, [MigrationNext]_migrationVars PROVE MigrationInv'
    OBVIOUS
  <1>1. CASE \/ \E dry \in BOOLEAN : ServerMigrates(dry)
             \/ PlainStep \/ DryRunOfMerge \/ OpsEnd \/ Serve
    BY <1>1, StartsAndEnds
  <1>2. CASE MergeBegins
    BY <1>2, MergeBeginsKeeps
  <1>3. CASE MergeCommits
    BY <1>3, CommitKeeps
  <1>4. CASE StartFails
    BY <1>4, FailingKeeps
  <1>5. CASE \E o \in Owners : MergeGroup(o)
    BY <1>5, MergeGroupKeeps
  <1>6. CASE \E o \in Owners : RenameBlob(o)
    BY <1>6, RenameBlobKeeps
  <1>7. CASE \E o \in Owners, path \in SlotKeys, ok \in BOOLEAN : RemoveBlob(o, path, ok)
    BY <1>7, RemoveBlobKeeps
  <1>8. CASE \E o \in Owners, pointed \in BOOLEAN : RenameFails(o, pointed)
    BY <1>8, RenameFailsKeeps
  <1>9. CASE UNCHANGED migrationVars
    BY <1>9 DEF migrationVars, storeVars, MigrationInv, MigrationTypes, Before, After, Untouched
  <1> QED
    BY <1>1, <1>2, <1>3, <1>4, <1>5, <1>6, <1>7, <1>8, <1>9 DEF MigrationNext

\* What the invariant says of one game.
LEMMA SavesAreKept == MigrationInv => MigrationKeepsSaves
  <1> SUFFICES ASSUME MigrationInv, NEW o \in Owners
               PROVE  /\ original[o] \subseteq KeptIn(versions[o]) \cup {disk[o][k] : k \in SlotKeys}
                      /\ {Archived + c : c \in original[o]} \subseteq KeptIn(versions[o])
                      /\ start.at = "serving" /\ ~cutShort =>
                           /\ \A k \in Present(slots[o]) : disk[o][slots[o][k].file] = slots[o][k].c
                           /\ \/ dryMerged
                              \/ /\ Present(slots[o]) \subseteq {Merged}
                                 /\ \A c \in original[o] : c <= slots[o][Merged].c
    BY DEF MigrationKeepsSaves, KeptIn
  <1>1. CASE Before
    <2>1. MigrationTypes /\ Untouched(o)
      BY <1>1 DEF MigrationInv, Before
    <2>2. original[o] \subseteq {disk[o][k] : k \in SlotKeys}
      BY <2>1 DEF Untouched
    <2>3. {Archived + c : c \in original[o]} \subseteq KeptIn(versions[o])
      <3> SUFFICES ASSUME NEW c \in original[o] PROVE Archived + c \in KeptIn(versions[o])
        OBVIOUS
      <3>1. PICK k \in SlotKeys : c = disk[o][k] /\ disk[o][k] # 0
        BY <2>1 DEF Untouched
      <3>2. Archived + c \in versions[o][k]
        BY <2>1, <3>1 DEF Untouched
      <3> QED
        BY <3>2 DEF KeptIn
    <2>4. \A k \in Present(slots[o]) : disk[o][slots[o][k].file] = slots[o][k].c
      BY <2>1, UntouchedTells
    <2>5. start.at = "serving" => dryMerged
      BY <1>1 DEF Before
    <2> QED
      BY <2>2, <2>3, <2>4, <2>5
  <1>2. CASE After
    <2>1. MergedInv(disk[o], original[o], cutShort, slots[o], versions[o], start.ops[o])
      BY <1>2 DEF After
    <2>2. slots[o][Merged] \in Slots /\ original[o] \subseteq Nat \ {0}
      BY MergedIsAKey, OperandTypes DEF MigrationInv, MigrationTypes
    <2>3. slots[o][Merged].c # 0 => \E f \in SlotKeys : disk[o][f] = slots[o][Merged].c
      BY <2>1, <2>2 DEF MergedInv, Located, Slots
    <2>4. original[o] \subseteq KeptIn(versions[o]) \cup {disk[o][k] : k \in SlotKeys}
      BY <2>1, <2>2, <2>3 DEF MergedInv
    <2>5. {Archived + c : c \in original[o]} \subseteq KeptIn(versions[o])
      BY <2>1 DEF MergedInv
    <2>6. Present(slots[o]) \subseteq {Merged} /\ \A c \in original[o] : c <= slots[o][Merged].c
      BY <2>1 DEF MergedInv
    <2>7. ASSUME start.at = "serving", ~cutShort, NEW k \in Present(slots[o])
          PROVE  disk[o][slots[o][k].file] = slots[o][k].c
      <3>1. k = Merged /\ slots[o][Merged].c # 0
        BY <2>6, <2>7 DEF Present
      <3>2. start.ops[o].from = {}
        BY <1>2, <2>7 DEF After, NoOps
      <3> QED
        BY <2>1, <2>7, <3>1, <3>2 DEF MergedInv, Located
    <2> QED
      BY <2>4, <2>5, <2>6, <2>7
  <1> QED
    BY <1>1, <1>2 DEF MigrationInv

\* Wherever a migration fails or is cut short, no save and no version of a game
\* is lost, and what the server serves has its content in the file it names,
\* merged under the new key (server/store/migrate.go, stepMergeOSSlots and
\* runPendingBlobOps).
THEOREM MigrationKeepsSavesHolds == MigrationSpec => []MigrationKeepsSaves
  <1>1. MigrationSpec => []MigrationInv
    BY MigrationBegins, MigrationSteps, PTL DEF MigrationSpec
  <1> QED
    BY <1>1, SavesAreKept, PTL

---------------------------------------------------------------------------
(* Export and import: an archive keeps its meaning.                         *)

AllBytes == [ver : Nat, cipher : BOOLEAN]
ZipRows == [hash : AllBytes, sealed : BOOLEAN, bytes : AllBytes, there : BOOLEAN]
ZipRuns == [at : {"idle", "reads"}, list : [Places -> ZipRows], left : SUBSET Places,
            entries : [Places -> ZipRows], omitted : SUBSET Places]
ZipFiles == [made : BOOLEAN, chosen : SUBSET Places, entries : [Places -> ZipRows],
             omitted : SUBSET Places, torn : SUBSET Places]
ZipImports == [at : {"idle", "stores"}, left : SUBSET Places, failed : Nat]
ZipTypes ==
  /\ shelf \in [Places -> ZipRows] /\ export \in ZipRuns /\ download \in ZipRuns
  /\ archive \in ZipFiles /\ import \in ZipImports /\ writes \in Nat
  /\ torn \subseteq Places /\ mixed \subseteq Places

\* A listed place is yet to be read, or an entry, or omitted; what was listed
\* and read without being torn, as t has it, is right.
ZipRunInv(e, t) ==
  \A p \in Places :
    /\ e.list[p].there => p \in e.left \/ e.entries[p].there \/ p \in e.omitted
    /\ p \in e.left => e.list[p].there /\ ~e.entries[p].there /\ p \notin e.omitted
    /\ e.entries[p].there => e.list[p].there /\ p \notin e.omitted
    /\ p \in e.omitted => e.list[p].there
    /\ e.list[p].there /\ p \notin t => MeansItself(e.list[p])
    /\ e.entries[p].there /\ p \notin t => MeansItself(e.entries[p])

\* What the page's export has yet to read is as it was listed, or torn.
ExportInv ==
  export.at = "reads" => /\ ZipRunInv(export, torn)
                         /\ \A p \in export.left \ torn : shelf[p] = export.list[p]
DownloadInv == download.at = "reads" => ZipRunInv(download, torn) /\ download.omitted = {}
OneAtATime ==
  /\ export.at = "idle" \/ download.at = "idle"
  /\ import.at = "stores" => export.at = "idle" /\ download.at = "idle"

\* Rows and entries that are not known to be mixed mean what they say.
EntriesMean == \A p \in Places : archive.entries[p].there /\ p \notin archive.torn => MeansItself(archive.entries[p])
RowsMean == \A p \in Places : shelf[p].there /\ p \notin mixed => MeansItself(shelf[p])

ArchiveInv ==
  ZipTypes /\ ExportInv /\ DownloadInv /\ OneAtATime /\ EntriesMean /\ RowsMean /\ ArchiveIsWhole

LEMMA GoneTypes == Gone \in ZipRows /\ ~Gone.there /\ NoExport \in ZipRuns /\ NoExport.at = "idle"
  <1>1. Gone \in ZipRows /\ ~Gone.there
    BY DEF Gone, ZipRows, AllBytes, Plain
  <1> QED
    BY <1>1 DEF NoExport, ZipRuns

LEMMA RowOfMeans ==
  ASSUME NEW b \in AllBytes PROVE RowOf(b) \in ZipRows /\ MeansItself(RowOf(b))
  BY DEF RowOf, ZipRows, AllBytes, MeansItself, Plain

LEMMA ArchiveBegins == ArchiveInit => ArchiveInv
  <1> SUFFICES ASSUME ArchiveInit PROVE ArchiveInv
    OBVIOUS
  <1>1. \A p \in Places : shelf[p] = Gone \/ \E b \in AllBytes : shelf[p] = RowOf(b)
    BY DEF ArchiveInit, AllBytes
  <1>2. shelf \in [Places -> ZipRows]
    <2>1. \A p \in Places : shelf[p] \in ZipRows
      BY <1>1, GoneTypes, RowOfMeans
    <2>2. shelf = [p \in Places |-> shelf[p]]
      BY DEF ArchiveInit
    <2> QED
      BY <2>1, <2>2
  <1>3. archive = NoZip /\ NoZip \in ZipFiles /\ \A p \in Places : ~NoZip.entries[p].there
    BY GoneTypes DEF ArchiveInit, NoZip, ZipFiles
  <1>4. import \in ZipImports /\ import.at = "idle"
    BY DEF ArchiveInit, ZipImports
  <1>5. ZipTypes
    BY <1>2, <1>3, <1>4, GoneTypes DEF ArchiveInit, ZipTypes
  <1>6. ExportInv /\ DownloadInv /\ OneAtATime
    BY <1>4, GoneTypes DEF ArchiveInit, ExportInv, DownloadInv, OneAtATime
  <1>7. EntriesMean /\ ArchiveIsWhole
    BY <1>3 DEF EntriesMean, ArchiveIsWhole, NoZip
  <1>8. RowsMean
    BY <1>1, GoneTypes, RowOfMeans DEF RowsMean
  <1> QED
    BY <1>5, <1>6, <1>7, <1>8 DEF ArchiveInv

\* A save that is written to, whole or not, or deleted.
LEMMA TableRowChanges ==
  ASSUME ArchiveInv, NEW p \in Places, NEW r \in ZipRows,
         \/ mixed' = mixed \ {p} /\ (r.there => MeansItself(r))
         \/ mixed' = mixed \cup {p},
         shelf' = [shelf EXCEPT ![p] = r], Tears(p), writes' \in Nat,
         UNCHANGED <<export, download, archive, import>>
  PROVE  ArchiveInv'
  <1>1. torn' \subseteq Places /\ torn \subseteq torn' /\ (p \in export.left => p \in torn')
    BY DEF ArchiveInv, ZipTypes, Tears
  <1>2. shelf' \in [Places -> ZipRows] /\ \A q \in Places : shelf'[q] = IF q = p THEN r ELSE shelf[q]
    BY DEF ArchiveInv, ZipTypes
  <1>3. ZipTypes'
    BY <1>1, <1>2 DEF ArchiveInv, ZipTypes
  <1>4. ExportInv' /\ DownloadInv'
    BY <1>1, <1>2 DEF ArchiveInv, ExportInv, DownloadInv, ZipRunInv, MeansItself, ZipTypes, ZipRuns
  <1>5. RowsMean'
    BY <1>2 DEF ArchiveInv, RowsMean, MeansItself
  <1> QED
    BY <1>3, <1>4, <1>5 DEF ArchiveInv, OneAtATime, EntriesMean, ArchiveIsWhole, MeansItself

LEMMA SavesGoOn ==
  ASSUME ArchiveInv, NEW p \in Places, Uploads(p) \/ PromotesOnly(p) \/ Deletes(p) \/ Spoils(p)
  PROVE  ArchiveInv'
  <1>1. CASE Uploads(p)
    <2>1. PICK cipher \in BOOLEAN : shelf' = [shelf EXCEPT ![p] = RowOf([ver |-> writes', cipher |-> cipher])]
      BY <1>1 DEF Uploads
    <2>2. writes' \in Nat
      BY <1>1 DEF Uploads, ArchiveInv, ZipTypes
    <2>3. [ver |-> writes', cipher |-> cipher] \in AllBytes
      BY <2>2 DEF AllBytes
    <2> DEFINE r == RowOf([ver |-> writes', cipher |-> cipher])
    <2>4. r \in ZipRows /\ MeansItself(r) /\ shelf' = [shelf EXCEPT ![p] = r]
      BY <2>1, <2>3, RowOfMeans
    <2>5. mixed' = mixed \ {p} /\ Tears(p) /\ UNCHANGED <<export, download, archive, import>>
      BY <1>1 DEF Uploads
    <2> HIDE DEF r
    <2> QED
      BY <2>2, <2>4, <2>5, TableRowChanges
  <1>2. CASE Deletes(p)
    <2>1. shelf' = [shelf EXCEPT ![p] = Gone] /\ mixed' = mixed \ {p} /\ Tears(p) /\ writes' \in Nat
          /\ UNCHANGED <<export, download, archive, import>>
      BY <1>2 DEF Deletes, ArchiveInv, ZipTypes
    <2> QED
      BY <2>1, GoneTypes, TableRowChanges
  <1>3. CASE Spoils(p)
    BY <1>3 DEF Spoils, ArchiveInv, ZipTypes, ExportInv, DownloadInv, ZipRunInv, OneAtATime, EntriesMean, RowsMean, ArchiveIsWhole, MeansItself
  <1>4. CASE PromotesOnly(p)
    <2>1. PICK cipher \in BOOLEAN : shelf' = [shelf EXCEPT ![p].bytes = [ver |-> writes', cipher |-> cipher]]
      BY <1>4 DEF PromotesOnly
    <2>2. writes' \in Nat /\ shelf[p] \in ZipRows /\ shelf \in [Places -> ZipRows]
      BY <1>4 DEF PromotesOnly, ArchiveInv, ZipTypes
    <2> DEFINE b == [ver |-> writes', cipher |-> cipher]
               r == [shelf[p] EXCEPT !.bytes = b]
    <2>3. b \in AllBytes
      BY <2>2 DEF AllBytes
    <2>4. shelf' = [shelf EXCEPT ![p] = r]
      BY <2>1, <2>2
    <2> HIDE DEF b
    <2>5. r \in ZipRows
      BY <2>2, <2>3 DEF ZipRows
    <2>6. mixed' = mixed \cup {p} /\ Tears(p) /\ UNCHANGED <<export, download, archive, import>>
      BY <1>4 DEF PromotesOnly
    <2> HIDE DEF r
    <2> QED
      BY <2>2, <2>4, <2>5, <2>6, TableRowChanges
  <1> QED
    BY <1>1, <1>2, <1>3, <1>4

\* A listing begins a run in which places that were mixed are torn.
LEMMA ListingBegins ==
  ASSUME ArchiveInv, ExportLists \/ DownloadLists
  PROVE  ArchiveInv'
  <1> DEFINE listed(chosen) == [p \in Places |-> IF p \in chosen THEN shelf[p] ELSE Gone]
             begun(chosen) == [NoExport EXCEPT !.at = "reads", !.left = chosen, !.list = listed(chosen)]
  <1>1. PICK chosen \in SUBSET There \ {{}} :
          /\ torn' = mixed \cap chosen
          /\ (ExportLists /\ export' = begun(chosen)) \/ (DownloadLists /\ download' = begun(chosen))
    <2>1. CASE ExportLists
      <3>1. PICK chosen \in SUBSET There \ {{}} : torn' = mixed \cap chosen /\ export' = begun(chosen)
        BY <2>1, Zenon DEF ExportLists
      <3> QED
        BY <2>1, <3>1
    <2>2. CASE DownloadLists
      <3>1. PICK chosen \in SUBSET There \ {{}} : torn' = mixed \cap chosen /\ download' = begun(chosen)
        BY <2>2, Zenon DEF DownloadLists
      <3> QED
        BY <2>2, <3>1
    <2> QED
      BY <2>1, <2>2
  <1>2. chosen \subseteq Places
    BY DEF There
  <1>3. listed(chosen) \in [Places -> ZipRows]
    BY GoneTypes DEF ArchiveInv, ZipTypes
  <1>4. \A p \in Places : listed(chosen)[p] = IF p \in chosen THEN shelf[p] ELSE Gone
    OBVIOUS
  <1>5. PICK e \in ZipRuns : e = begun(chosen) /\ e.at = "reads" /\ e.left = chosen /\ e.list = listed(chosen)
                             /\ e.entries = [p \in Places |-> Gone] /\ e.omitted = {}
    <2> HIDE DEF listed
    <2>1. NoExport \in ZipRuns /\ NoExport.entries = [p \in Places |-> Gone] /\ NoExport.omitted = {}
      BY GoneTypes DEF NoExport
    <2>2. /\ begun(chosen) \in ZipRuns /\ begun(chosen).at = "reads" /\ begun(chosen).left = chosen
          /\ begun(chosen).list = listed(chosen) /\ begun(chosen).entries = NoExport.entries
          /\ begun(chosen).omitted = NoExport.omitted
      BY <1>2, <1>3, <2>1 DEF ZipRuns
    <2> HIDE DEF begun
    <2> QED
      BY <2>1, <2>2
  <1>6. /\ (export' = e /\ UNCHANGED download) \/ (download' = e /\ UNCHANGED export)
        /\ torn' = mixed \cap chosen
        /\ UNCHANGED <<shelf, archive, import, mixed, writes>>
        /\ export.at = "idle" /\ download.at = "idle" /\ import.at = "idle"
    <2>1. /\ torn' = mixed \cap chosen /\ UNCHANGED <<shelf, archive, import, mixed, writes>>
          /\ export.at = "idle" /\ download.at = "idle" /\ import.at = "idle"
      BY <1>1 DEF ExportLists, DownloadLists
    <2>2. (ExportLists => UNCHANGED download) /\ (DownloadLists => UNCHANGED export)
      BY DEF ExportLists, DownloadLists
    <2>3. (export' = e /\ UNCHANGED download) \/ (download' = e /\ UNCHANGED export)
      BY <1>1, <1>5, <2>2
    <2> QED
      BY <2>1, <2>3
  <1>7. \A p \in Places : e.list[p] = IF p \in chosen THEN shelf[p] ELSE Gone
    BY <1>4, <1>5
  <1> HIDE DEF listed, begun
  <1>8. ZipRunInv(e, mixed \cap chosen)
    <2> SUFFICES ASSUME NEW p \in Places
                 PROVE  /\ e.list[p].there <=> p \in chosen
                        /\ ~e.entries[p].there
                        /\ p \in chosen /\ p \notin mixed => MeansItself(e.list[p])
      BY <1>5 DEF ZipRunInv
    <2> QED
      BY <1>2, <1>5, <1>7, GoneTypes DEF ArchiveInv, RowsMean, There
  <1>9. ZipTypes'
    BY <1>2, <1>6 DEF ArchiveInv, ZipTypes
  <1>10. ExportInv' /\ DownloadInv' /\ OneAtATime'
    BY <1>2, <1>5, <1>6, <1>7, <1>8 DEF ExportInv, DownloadInv, OneAtATime
  <1> QED
    BY <1>6, <1>9, <1>10 DEF ArchiveInv, EntriesMean, RowsMean, ArchiveIsWhole, MeansItself

\* A place is read, or found wanting.
LEMMA ExportReadsOn ==
  ASSUME ArchiveInv, NEW p \in Places, ExportReads(p)
  PROVE  ArchiveInv'
  <1>1. /\ export \in ZipRuns /\ export.at = "reads" /\ p \in export.left
        /\ UNCHANGED <<shelf, download, archive, import, torn, mixed, writes>>
    BY DEF ExportReads, ArchiveInv, ZipTypes
  <1>2. CASE shelf[p].there /\ p \notin spoiled
    <2> DEFINE r == [export.list[p] EXCEPT !.bytes = shelf[p].bytes]
    <2>1. r \in ZipRows /\ r.there = export.list[p].there /\ (p \notin torn => r = shelf[p])
      <3>1. export.list[p] \in ZipRows /\ shelf[p] \in ZipRows /\ (p \notin torn => shelf[p] = export.list[p])
        BY <1>1 DEF ZipRuns, ArchiveInv, ZipTypes, ExportInv
      <3> QED
        BY <3>1 DEF ZipRows
    <2>2. export' = [export EXCEPT !.left = export.left \ {p}, !.entries[p] = r]
      BY <1>1, <1>2 DEF ExportReads, ZipRuns
    <2> HIDE DEF r
    <2>3. /\ export' \in ZipRuns /\ export'.at = "reads" /\ export'.left = export.left \ {p}
          /\ export'.list = export.list /\ export'.omitted = export.omitted
          /\ \A q \in Places : export'.entries[q] = IF q = p THEN r ELSE export.entries[q]
      BY <1>1, <2>1, <2>2 DEF ZipRuns
    <2>4. ZipRunInv(export', torn)
      BY <1>1, <2>1, <2>3 DEF ArchiveInv, ExportInv, ZipRunInv
    <2> QED
      BY <1>1, <2>3, <2>4 DEF ArchiveInv, ZipTypes, ExportInv, DownloadInv, OneAtATime, EntriesMean, RowsMean, ArchiveIsWhole, MeansItself
  <1>3. CASE ~(shelf[p].there /\ p \notin spoiled)
    <2>1. export' = [export EXCEPT !.left = export.left \ {p}, !.omitted = export.omitted \cup {p}]
      BY <1>1, <1>3 DEF ExportReads, ZipRuns
    <2>2. /\ export' \in ZipRuns /\ export'.at = "reads" /\ export'.left = export.left \ {p}
          /\ export'.list = export.list /\ export'.omitted = export.omitted \cup {p} /\ export'.entries = export.entries
      BY <1>1, <2>1 DEF ZipRuns
    <2>3. ZipRunInv(export', torn)
      BY <1>1, <2>2 DEF ArchiveInv, ExportInv, ZipRunInv
    <2> QED
      BY <1>1, <2>2, <2>3 DEF ArchiveInv, ZipTypes, ExportInv, DownloadInv, OneAtATime, EntriesMean, RowsMean, ArchiveIsWhole, MeansItself
  <1> QED
    BY <1>2, <1>3

\* What the command decodes is the plaintext that the listing's hash is of.
LEMMA DownloadReadsOn ==
  ASSUME ArchiveInv, NEW p \in Places, DownloadReads(p)
  PROVE  ArchiveInv'
  <1>1. /\ download \in ZipRuns /\ download.at = "reads" /\ p \in download.left
        /\ UNCHANGED <<shelf, export, archive, import, torn, mixed, writes>>
    BY DEF DownloadReads, ArchiveInv, ZipTypes
  <1> DEFINE d == Decoded(shelf[p])
             r == [hash |-> d, sealed |-> FALSE, bytes |-> d, there |-> TRUE]
  <1>2. d \in AllBytes /\ d = download.list[p].hash
    BY DEF DownloadReads, Decoded, Plain, ArchiveInv, ZipTypes, ZipRows, AllBytes
  <1>3. p \notin torn => ~d.cipher
    <2>1. p \notin torn => MeansItself(download.list[p])
      BY <1>1 DEF ArchiveInv, DownloadInv, ZipRunInv
    <2> QED
      BY <1>1, <1>2, <2>1 DEF MeansItself, Plain, ZipRuns, ZipRows, AllBytes
  <1>4. download' = [download EXCEPT !.left = download.left \ {p}, !.entries[p] = r]
    BY <1>1 DEF DownloadReads, ZipRuns
  <1> HIDE DEF d
  <1>5. r \in ZipRows /\ r.there /\ (p \notin torn => MeansItself(r))
    BY <1>2, <1>3 DEF ZipRows, AllBytes, MeansItself, Plain
  <1> HIDE DEF r
  <1>6. /\ download' \in ZipRuns /\ download'.at = "reads" /\ download'.left = download.left \ {p}
        /\ download'.list = download.list /\ download'.omitted = download.omitted
        /\ \A q \in Places : download'.entries[q] = IF q = p THEN r ELSE download.entries[q]
    BY <1>1, <1>4, <1>5 DEF ZipRuns
  <1>7. ZipRunInv(download', torn)
    BY <1>1, <1>5, <1>6 DEF ArchiveInv, DownloadInv, ZipRunInv
  <1> QED
    BY <1>1, <1>6, <1>7 DEF ArchiveInv, ZipTypes, ExportInv, DownloadInv, OneAtATime, EntriesMean, RowsMean, ArchiveIsWhole, MeansItself

\* A run ends with a zip file, or without.
LEMMA RunEnds ==
  ASSUME ArchiveInv, ExportEnds \/ DownloadEnds \/ ExportBreaks \/ (\E p \in Places : DownloadFails(p))
  PROVE  ArchiveInv'
  <1>1. torn' = {} /\ UNCHANGED <<shelf, import, mixed, writes>>
    BY DEF ExportEnds, DownloadEnds, ExportBreaks, DownloadFails
  <1>2. \/ export' = NoExport /\ UNCHANGED download /\ export.at = "reads"
        \/ download' = NoExport /\ UNCHANGED export /\ download.at = "reads"
    BY DEF ExportEnds, DownloadEnds, ExportBreaks, DownloadFails
  <1>3. archive' \in ZipFiles /\ EntriesMean' /\ ArchiveIsWhole'
    <2>1. CASE UNCHANGED archive
      BY <2>1 DEF ArchiveInv, ZipTypes, EntriesMean, ArchiveIsWhole, MeansItself
    <2>2. CASE ExportEnds
      <3>1. export \in ZipRuns /\ ZipRunInv(export, torn) /\ export.left = {}
        BY <2>2 DEF ExportEnds, ArchiveInv, ZipTypes, ExportInv
      <3>2. archive' = [made |-> TRUE, chosen |-> Listed(export), entries |-> export.entries,
                        omitted |-> export.omitted, torn |-> torn]
        BY <2>2 DEF ExportEnds
      <3> QED
        BY <3>1, <3>2 DEF ArchiveInv, ZipTypes, ZipFiles, ZipRuns, ZipRunInv, EntriesMean, ArchiveIsWhole, Listed, MeansItself
    <2>3. CASE DownloadEnds
      <3>1. download \in ZipRuns /\ ZipRunInv(download, torn) /\ download.left = {} /\ download.omitted = {}
        BY <2>3 DEF DownloadEnds, ArchiveInv, ZipTypes, DownloadInv
      <3>2. archive' = [made |-> TRUE, chosen |-> Listed(download), entries |-> download.entries,
                        omitted |-> {}, torn |-> torn]
        BY <2>3 DEF DownloadEnds
      <3> QED
        BY <3>1, <3>2 DEF ArchiveInv, ZipTypes, ZipFiles, ZipRuns, ZipRunInv, EntriesMean, ArchiveIsWhole, Listed, MeansItself
    <2> QED
      BY <2>1, <2>2, <2>3 DEF ExportBreaks, DownloadFails
  <1>4. ExportInv' /\ DownloadInv' /\ OneAtATime'
    BY <1>1, <1>2, GoneTypes DEF ArchiveInv, ExportInv, DownloadInv, OneAtATime
  <1> QED
    BY <1>1, <1>2, <1>3, <1>4, GoneTypes DEF ArchiveInv, ZipTypes, RowsMean, MeansItself

\* What an import stores means what it says, if the entry did.
LEMMA ImportGoesOn ==
  ASSUME ArchiveInv, ImportBegins \/ ImportEnds \/ (\E p \in Places : ImportStores(p) \/ ImportFails(p))
  PROVE  ArchiveInv'
  <1>1. /\ UNCHANGED <<export, download, archive, torn, writes>>
        /\ (ImportBegins \/ import.at = "stores") /\ import \in ZipImports
    BY DEF ImportBegins, ImportEnds, ImportStores, ImportFails, ArchiveInv, ZipTypes
  <1>2. export.at = "idle" /\ download.at = "idle"
    BY <1>1 DEF ArchiveInv, OneAtATime, ImportBegins, ZipTypes, ZipRuns
  <1>3. import' \in ZipImports
    <2>1. CASE ImportBegins
      BY <2>1 DEF ImportBegins, ZipImports
    <2>2. CASE ~ImportBegins
      <3>1. \/ import' = [import EXCEPT !.at = "idle", !.failed = 0]
            \/ \E p \in Places : \/ import' = [import EXCEPT !.left = @ \ {p}]
                                \/ import' = [import EXCEPT !.left = @ \ {p}, !.failed = @ + 1]
        BY <2>2 DEF ImportEnds, ImportStores, ImportFails
      <3> QED
        <4>1. CASE import' = [import EXCEPT !.at = "idle", !.failed = 0]
          BY <1>1, <4>1 DEF ZipImports
        <4>2. CASE \E p \in Places : import' = [import EXCEPT !.left = @ \ {p}]
          BY <1>1, <4>2 DEF ZipImports
        <4>3. CASE \E p \in Places : import' = [import EXCEPT !.left = @ \ {p}, !.failed = @ + 1]
          <5>1. PICK p \in Places : import' = [import EXCEPT !.left = import.left \ {p}, !.failed = import.failed + 1]
            BY <1>1, <4>3 DEF ZipImports
          <5>2. import.left \ {p} \in SUBSET Places /\ import.failed + 1 \in Nat
            BY <1>1 DEF ZipImports
          <5> QED
            BY <1>1, <5>1, <5>2 DEF ZipImports
        <4> QED
          BY <3>1, <4>1, <4>2, <4>3
    <2> QED
      BY <2>1, <2>2
  <1>4. shelf' \in [Places -> ZipRows] /\ RowsMean' /\ mixed' \subseteq Places
    <2>1. CASE UNCHANGED <<shelf, mixed>>
      BY <2>1 DEF ArchiveInv, ZipTypes, RowsMean, MeansItself
    <2>2. CASE \E p \in Places : ImportStores(p) /\ ~UNCHANGED <<shelf, mixed>>
      <3>1. PICK p \in Places : ImportStores(p) /\ ~UNCHANGED <<shelf, mixed>>
        BY <2>2
      <3> DEFINE e == archive.entries[p]
                 r == [e EXCEPT !.hash = StoredHash(e)]
      <3>2. shelf' = [shelf EXCEPT ![p] = r] /\ mixed' = IF p \in archive.torn THEN mixed \cup {p} ELSE mixed \ {p}
        BY <3>1 DEF ImportStores
      <3>3. e \in ZipRows /\ (e.there /\ p \notin archive.torn => MeansItself(e))
        BY DEF ArchiveInv, ZipTypes, ZipFiles, EntriesMean
      <3>4. r \in ZipRows /\ r.there = e.there /\ (MeansItself(e) => MeansItself(r))
        BY <3>3 DEF ZipRows, AllBytes, StoredHash, MeansItself, Plain
      <3> HIDE DEF e, r
      <3>5. shelf' \in [Places -> ZipRows] /\ \A q \in Places : shelf'[q] = IF q = p THEN r ELSE shelf[q]
        BY <3>2, <3>4 DEF ArchiveInv, ZipTypes
      <3> QED
        BY <3>2, <3>3, <3>4, <3>5 DEF ArchiveInv, ZipTypes, RowsMean, MeansItself
    <2> QED
      BY <2>1, <2>2 DEF ImportBegins, ImportEnds, ImportStores, ImportFails
  <1> QED
    BY <1>1, <1>2, <1>3, <1>4 DEF ArchiveInv, ZipTypes, ExportInv, DownloadInv, OneAtATime, EntriesMean, ArchiveIsWhole, MeansItself

LEMMA ArchiveSteps == ArchiveInv /\ [ArchiveNext]_archiveVars => ArchiveInv'
  <1> SUFFICES ASSUME ArchiveInv, [ArchiveNext]_archiveVars PROVE ArchiveInv'
    OBVIOUS
  <1>1. CASE UNCHANGED archiveVars
    BY <1>1 DEF archiveVars, ArchiveInv, ZipTypes, ExportInv, DownloadInv, ZipRunInv, OneAtATime, EntriesMean, RowsMean,
       ArchiveIsWhole, MeansItself
  <1>2. CASE ArchiveNext
    BY <1>2, SavesGoOn, ListingBegins, ExportReadsOn, DownloadReadsOn, RunEnds, ImportGoesOn DEF ArchiveNext
  <1> QED
    BY <1>1, <1>2

\* Export and import keep every save readable: the flag and the hash of every
\* entry, and of every row, are those of its bytes (handlers_export_import.go),
\* and an archive names all it was asked for.  But for the entries that were
\* written to while a page exported them, for the rows whose file an upload
\* replaced that was not committed (sqlite.go), and for what was imported from
\* either.
THEOREM ArchiveKeepsMeaningHolds == ArchiveSpec => []ArchiveKeepsMeaning
  <1>1. ArchiveInv => ArchiveKeepsMeaning
    BY DEF ArchiveInv, ArchiveKeepsMeaning, EntriesMean, RowsMean
  <1> QED
    BY <1>1, ArchiveBegins, ArchiveSteps, PTL DEF ArchiveSpec
=============================================================================
