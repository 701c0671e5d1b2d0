----------------------------- MODULE Migrations -----------------------------
(***************************************************************************)
(* The migrations of the server's database at start                          *)
(* (server/store/migrate.go): one transaction per step, which also advances   *)
(* user_version, and the step that moves files, stepMergeOSSlots.  It puts    *)
(* the saves that several operating systems kept under keys of their own      *)
(* under one key: the newest stays the save, the others become versions.      *)
(* Files are renamed and removed after the commit only.                      *)
(*                                                                         *)
(* Contents of one game are numbered by age; those of versions are above      *)
(* Archived.  Version numbers are left out, and so is the order of the file    *)
(* operations of different games, which share no file.                       *)
(***************************************************************************)
EXTENDS Naturals, FiniteSets

CONSTANTS
  Owners,      \* the users' games that have saves
  OldKeys,     \* the keys a save had before the merge, one per system
  MergeStep,   \* the version of stepMergeOSSlots (16)
  LastStep,    \* schemaVersion
  MaxFalls     \* bound: failing steps and file operations, crashes

ASSUME MigrationBounds ==
  /\ {MergeStep, LastStep} \subseteq Nat /\ 0 < MergeStep /\ MergeStep < LastStep
  /\ MaxFalls \in Nat /\ IsFiniteSet(OldKeys) /\ "merged" \notin OldKeys

VARIABLES
  schema,    \* user_version
  slots,     \* the rows of saves: the content and the path of the file
  disk,      \* the files: what lies under a path
  versions,  \* save_versions: the contents kept under a key
  start,     \* migrate(): where it is, the step, the transaction, what is deferred
  original,  \* history: the contents there were
  dryMerged, \* history: a dry run of the merge
  cutShort,  \* history: cut between the commit and the last file operation
  falls      \* bookkeeping of the bound MaxFalls

storeVars == <<schema, slots, disk, versions>>
migrationVars == <<storeVars, start, original, dryMerged, cutShort, falls>>

\* The OS-neutral key of migSlotKey, and all keys: a file has the path of the
\* key its save had when it was written.
Merged == "merged"
SlotKeys == OldKeys \cup {Merged}
Archived == 100
NoSlot == [c |-> 0, file |-> Merged]
NoOps == [o \in Owners |-> [gone |-> {}, from |-> {}]]
Down == [at |-> "down", dry |-> FALSE, step |-> 0, todo |-> {},
         slots |-> [o \in Owners |-> [k \in SlotKeys |-> NoSlot]],
         versions |-> [o \in Owners |-> [k \in SlotKeys |-> {}]], ops |-> NoOps]

Present(table) == {k \in SlotKeys : table[k].c # 0}

\* Some keys have a save, in any order of age, and a version of an older one.
MigrationInit ==
  /\ schema = MergeStep - 1
  /\ \E age \in [Owners -> [SlotKeys -> 0 .. Cardinality(SlotKeys)]] :
       /\ \A o \in Owners : \A j, k \in SlotKeys :
            /\ j # k /\ age[o][j] # 0 => age[o][j] # age[o][k]
            /\ age[o][j] > 1 => \E l \in SlotKeys : age[o][l] = age[o][j] - 1
       /\ slots = [o \in Owners |-> [k \in SlotKeys |->
                     IF age[o][k] = 0 THEN NoSlot ELSE [c |-> age[o][k], file |-> k]]]
       /\ disk = age
       /\ versions = [o \in Owners |-> [k \in SlotKeys |->
                        IF age[o][k] = 0 THEN {} ELSE {Archived + age[o][k]}]]
       /\ original = [o \in Owners |-> {age[o][k] : k \in SlotKeys} \ {0}]
  /\ start = Down /\ dryMerged = FALSE /\ cutShort = FALSE /\ falls = 0

Fall == falls < MaxFalls /\ falls' = falls + 1

\* GSBS_DRY_RUN_MIGRATION is read when the step runs; it is the process's.
ServerMigrates(dry) ==
  /\ start.at = "down"
  /\ start' = [Down EXCEPT !.at = "steps", !.dry = dry, !.step = schema + 1]
  /\ UNCHANGED storeVars /\ UNCHANGED <<original, dryMerged, cutShort, falls>>

\* Every other step changes the tables and user_version in its transaction.
PlainStep ==
  /\ start.at = "steps" /\ start.step \in 1 .. LastStep /\ start.step # MergeStep
  /\ schema' = start.step /\ start' = [start EXCEPT !.step = @ + 1]
  /\ UNCHANGED <<slots, disk, versions, original, dryMerged, cutShort, falls>>

MergeBegins ==
  /\ start.at = "steps" /\ start.step = MergeStep /\ ~start.dry
  /\ start' = [start EXCEPT !.at = "tx", !.todo = Owners, !.slots = slots, !.versions = versions]
  /\ UNCHANGED storeVars /\ UNCHANGED <<original, dryMerged, cutShort, falls>>

\* The transaction is rolled back and the steps after it go on.
DryRunOfMerge ==
  /\ start.at = "steps" /\ start.step = MergeStep /\ start.dry
  /\ start' = [start EXCEPT !.step = @ + 1] /\ dryMerged' = TRUE
  /\ UNCHANGED storeVars /\ UNCHANGED <<original, cutShort, falls>>

\* One group: the newest survives, the others' contents, read from their
\* files, and all versions go under the new key.  The survivor's row already
\* names the path it will have.
MergeGroup(o) ==
  LET table == start.slots[o]
      survivor == CHOOSE k \in Present(table) : \A j \in Present(table) : table[j].c <= table[k].c
      losers == Present(table) \ {survivor}
      moved == survivor # Merged
  IN /\ start.at = "tx" /\ o \in start.todo
     /\ start' =
          IF Present(table) \subseteq {Merged} THEN [start EXCEPT !.todo = @ \ {o}]
          ELSE [start EXCEPT
                  !.todo = @ \ {o},
                  !.slots[o] = [k \in SlotKeys |->
                    IF k = Merged THEN [c |-> table[survivor].c, file |-> Merged] ELSE NoSlot],
                  !.versions[o] = [k \in SlotKeys |->
                    IF k = Merged
                    THEN (UNION {start.versions[o][j] : j \in SlotKeys}) \cup
                         {disk[o][table[j].file] : j \in losers}
                    ELSE {}],
                  !.ops[o] = [gone |-> {table[j].file : j \in losers},
                              from |-> IF moved THEN {table[survivor].file} ELSE {}]]
     /\ UNCHANGED storeVars /\ UNCHANGED <<original, dryMerged, cutShort, falls>>

MergeCommits ==
  /\ start.at = "tx" /\ start.todo = {}
  /\ slots' = start.slots /\ versions' = start.versions /\ schema' = MergeStep
  /\ start' = [Down EXCEPT !.at = "ops", !.dry = start.dry, !.step = start.step, !.ops = start.ops]
  /\ UNCHANGED <<disk, original, dryMerged, cutShort, falls>>

---------------------------------------------------------------------------
(* runPendingBlobOps. *)

\* A file that cannot be removed stays, an orphan.
RemoveBlob(o, path, ok) ==
  /\ start.at = "ops" /\ path \in start.ops[o].gone
  /\ IF ok THEN UNCHANGED falls ELSE Fall
  /\ disk' = IF ok THEN [disk EXCEPT ![o][path] = 0] ELSE disk
  /\ start' = [start EXCEPT !.ops[o].gone = @ \ {path}]
  /\ UNCHANGED <<schema, slots, versions, original, dryMerged, cutShort>>

\* Mutant: the renames are run before the removals.
RenameBlobFirst(o) ==
  \E path \in start.ops[o].from :
    /\ start.at = "ops"
    /\ disk' = [disk EXCEPT ![o][Merged] = disk[o][path], ![o][path] = 0]
    /\ start' = [start EXCEPT !.ops[o].from = {}]
    /\ UNCHANGED <<schema, slots, versions, original, dryMerged, cutShort, falls>>

\* The removals of a group are queued before its rename: a loser's file may
\* have the very path the survivor's is to have.
RenameBlob(o) ==
  \E path \in start.ops[o].from :
    /\ start.at = "ops" /\ start.ops[o].gone = {}
    /\ disk' = [disk EXCEPT ![o][Merged] = disk[o][path], ![o][path] = 0]
    /\ start' = [start EXCEPT !.ops[o].from = {}]
    /\ UNCHANGED <<schema, slots, versions, original, dryMerged, cutShort, falls>>

\* The row is pointed back at the file that is there - or that fails too, and
\* the log tells to restore a backup.
RenameFails(o, pointed) ==
  \E path \in start.ops[o].from :
    /\ start.at = "ops" /\ start.ops[o].gone = {} /\ Fall
    /\ slots' = IF pointed THEN [slots EXCEPT ![o][Merged].file = path] ELSE slots
    /\ cutShort' = (cutShort \/ ~pointed)
    /\ start' = [start EXCEPT !.ops[o].from = {}]
    /\ UNCHANGED <<schema, disk, versions, original, dryMerged>>

OpsEnd ==
  /\ start.at = "ops" /\ start.ops = NoOps
  /\ start' = [start EXCEPT !.at = "steps", !.step = @ + 1]
  /\ UNCHANGED storeVars /\ UNCHANGED <<original, dryMerged, cutShort, falls>>

Serve ==
  /\ start.at = "steps" /\ start.step > LastStep
  /\ start' = [start EXCEPT !.at = "serving"]
  /\ UNCHANGED storeVars /\ UNCHANGED <<original, dryMerged, cutShort, falls>>

\* An error rolls the step back and ends the start; a crash does the same, and
\* after the commit what is deferred is lost.
StartFails ==
  /\ start.at # "down" /\ Fall
  /\ cutShort' = (cutShort \/ (start.at = "ops" /\ start.ops # NoOps)) /\ start' = Down
  /\ UNCHANGED storeVars /\ UNCHANGED <<original, dryMerged>>

MigrationNext ==
  \/ \E dry \in BOOLEAN : ServerMigrates(dry)
  \/ PlainStep \/ MergeBegins \/ DryRunOfMerge \/ MergeCommits \/ OpsEnd \/ Serve \/ StartFails
  \/ \E o \in Owners :
       \/ MergeGroup(o) \/ RenameBlob(o)
       \/ \E path \in SlotKeys, ok \in BOOLEAN : RemoveBlob(o, path, ok)
       \/ \E pointed \in BOOLEAN : RenameFails(o, pointed)

MigrationSpec == MigrationInit /\ [][MigrationNext]_migrationVars

---------------------------------------------------------------------------
(* Properties. *)

SlotContents == 0 .. Cardinality(SlotKeys)
SlotTables == [Owners -> [SlotKeys -> [c : SlotContents, file : SlotKeys]]]
VersionTables == [Owners -> [SlotKeys -> SUBSET (SlotContents \cup {Archived + c : c \in SlotContents})]]

MigrationTypeOK ==
  /\ schema \in 0 .. LastStep /\ slots \in SlotTables /\ versions \in VersionTables
  /\ disk \in [Owners -> [SlotKeys -> SlotContents]]
  /\ start.at \in {"down", "steps", "tx", "ops", "serving"} /\ start.step \in 0 .. LastStep + 1
  /\ start.slots \in SlotTables /\ start.versions \in VersionTables /\ start.todo \subseteq Owners
  /\ start.ops \in [Owners -> [gone : SUBSET SlotKeys, from : SUBSET SlotKeys]]
  /\ falls \in 0 .. MaxFalls

\* Wherever a migration fails or is cut short, every content there was is
\* still in a file or among the versions, and so is every version; when the
\* server serves, every row has its content in the file it names, and all
\* saves of a game are merged under the new key with the newest as the save,
\* unless the merge was a dry run or the process died between its commit and
\* the last file operation.
MigrationKeepsSaves ==
  \A o \in Owners :
    LET kept == UNION {versions[o][k] : k \in SlotKeys}
    IN /\ original[o] \subseteq kept \cup {disk[o][k] : k \in SlotKeys}
       /\ {Archived + c : c \in original[o]} \subseteq kept
       /\ start.at = "serving" /\ ~cutShort =>
            /\ \A k \in Present(slots[o]) : disk[o][slots[o][k].file] = slots[o][k].c
            /\ \/ dryMerged
               \/ /\ Present(slots[o]) \subseteq {Merged}
                  /\ \A c \in original[o] : c <= slots[o][Merged].c
=============================================================================
