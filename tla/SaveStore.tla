------------------------------ MODULE SaveStore ------------------------------
(***************************************************************************)
(* The server's save store in filesystem mode (server/store/sqlite.go,     *)
(* save_storage.go): one database row and one file per save slot, and a    *)
(* history of versions kept inline in the database.  Request handlers run  *)
(* concurrently; SQLite serialises their write transactions, but nothing   *)
(* serialises the file system with the database.                           *)
(*                                                                         *)
(* All slots belong to one user and one game, so "delete the game" is the  *)
(* delete of any set of slots.  A blob stands for the stored bytes: hash   *)
(* is the SHA-256 of the plaintext, enc says that the bytes are its        *)
(* ciphertext, size is their length.                                       *)
(***************************************************************************)
EXTENDS Integers, FiniteSets, FiniteSetsExt

CONSTANTS
    Procs,          \* concurrent request handlers
    Slots,          \* save slots: (user, game, path key)
    Blobs,          \* stored contents, records [hash, enc, size]
    NoHash,         \* the empty content hash of a row that is not there
    NoBlob,         \* no bytes: a file that does not exist
    NoRow,          \* no row in table saves
    Legacy,         \* a storage path of an old release, shared by slots
    LegacySlots,    \* the slots that still point at it when the server starts
    LegacyBlob,     \* what the shared file holds
    Limits,         \* the byte limits in force (user quota, global limit)
    Retentions,     \* version retention, per-game overrides included
    VersionFloor,   \* versions that age-based pruning always keeps
    MaxVersion      \* bound on version numbers, for TLC

IfAbsent == "if-absent"            \* X-GSBS-If-Absent: 1
Unconditional == "unconditional"   \* no precondition header, or a restore

Hashes == {b.hash : b \in Blobs}
Preconditions == Hashes \cup {IfAbsent, Unconditional}
Paths == Slots \cup {Legacy}

ASSUME BlobAssumption ==
    /\ \A b \in Blobs : b = [hash |-> b.hash, enc |-> b.enc, size |-> b.size]
    /\ \A b \in Blobs : b.enc \in BOOLEAN /\ b.size \in Nat
    /\ \A b, c \in Blobs : (b.hash = c.hash /\ ~b.enc /\ ~c.enc) => b = c
    /\ Hashes \cap {NoHash, IfAbsent, Unconditional} = {}
    /\ NoBlob \notin Blobs
    /\ LegacyBlob \in Blobs
ASSUME SlotAssumption == Legacy \notin Slots /\ LegacySlots \subseteq Slots
\* A table has finitely many rows: what is counted against limits is a sum.
ASSUME FiniteSlots == IsFiniteSet(Slots)
ASSUME LimitAssumption == Limits \subseteq Nat
ASSUME RetentionAssumption ==
    /\ Retentions \subseteq Nat \ {0}
    /\ VersionFloor \in Nat \ {0}
    /\ MaxVersion \in Nat \ {0}

\* What a write records about its bytes.
Meta == [hash : Hashes, enc : BOOLEAN]
MetaOf(b) == [hash |-> b.hash, enc |-> b.enc]

Row == [meta : Meta, size : Nat, path : Paths]
Version == [ver : Nat \ {0}, blob : Blobs, meta : Meta]

ASSUME RowAssumption == NoRow \notin Row \cup Meta

VARIABLES
    row,        \* table saves: [Slots -> Row or NoRow]
    versions,   \* table save_versions: [Slots -> set of Version]
    file,       \* the save root: [Paths -> Blobs or NoBlob]
    temps,      \* handlers whose staged temp file is on disk
    txOwner,    \* handlers holding SQLite's single write lock
    up,         \* is the server process running?
    op          \* what each handler is doing, with what it read so far

vars == <<row, versions, file, temps, txOwner, up, op>>

-----------------------------------------------------------------------------
(* The local state of a handler.                                           *)

Idle == [pc |-> "idle"]
Push == [pc : {"requested", "staged", "promoted", "committed"},
         slot : Slots, blob : Blobs, meta : Meta, pre : Preconditions,
         limited : BOOLEAN, keep : Nat \ {0}, old : Paths]
Restore == [pc : {"restoring"}, slot : Slots, ver : Nat \ {0}, blob : Blobs]
Delete == [pc : {"deleting", "unlinking"}, slots : SUBSET Slots,
           paths : SUBSET Paths]
Read == [pc : {"reading"}, row : Row]
Served == [pc : {"served"}, row : Row, blob : Blobs]

\* The tables, the save root and every handler's local state are well formed:
\* version numbers start at one, paths are a slot's own or the shared one.
TypeOK ==
    /\ row \in [Slots -> Row \cup {NoRow}]
    /\ versions \in [Slots -> SUBSET Version]
    /\ file \in [Paths -> Blobs \cup {NoBlob}]
    /\ temps \subseteq Procs
    /\ txOwner \subseteq Procs
    /\ up \in BOOLEAN
    /\ op \in [Procs -> {Idle} \cup Push \cup Restore \cup Delete
                         \cup Read \cup Served]

Init ==
    /\ row = [s \in Slots |->
                IF s \in LegacySlots
                THEN [meta |-> MetaOf(LegacyBlob), size |-> LegacyBlob.size,
                      path |-> Legacy]
                ELSE NoRow]
    /\ versions = [s \in Slots |->
                IF s \in LegacySlots
                THEN {[ver |-> 1, blob |-> LegacyBlob,
                       meta |-> MetaOf(LegacyBlob)]}
                ELSE {}]
    /\ file = [q \in Paths |->
                IF q = Legacy /\ LegacySlots # {} THEN LegacyBlob ELSE NoBlob]
    /\ temps = {}
    /\ txOwner = {}
    /\ up = TRUE
    /\ op = [p \in Procs |-> Idle]

-----------------------------------------------------------------------------
(* Operators on the tables.                                                *)

CurrentHash(s) == IF row[s] = NoRow THEN NoHash ELSE row[s].meta.hash

\* Variant with a bug: an If-Hash upload is let into a slot that is gone.
SatisfiedWhenGone(pre, existing, hash) ==
    \/ pre = Unconditional
    \/ pre = IfAbsent /\ existing \in {NoHash, hash}
    \/ existing \in {NoHash, pre}

\* The precondition of a write that found `existing` in the slot.
Satisfied(pre, existing, hash) ==
    \/ pre = Unconditional
    \/ pre = IfAbsent /\ existing \in {NoHash, hash}
    \/ pre = existing

NewestVer(vs) == CHOOSE n \in {v.ver : v \in vs} : \A v \in vs : v.ver <= n
NextVer(vs) == IF vs = {} THEN 1 ELSE NewestVer(vs) + 1

Rank(v, vs) == Cardinality({w \in vs : w.ver >= v.ver})

\* Variant with a bug: the cut-off version itself goes too.
TrimmedPastCutoff(vs, keep) ==
    {v \in vs : ~\E c \in vs : Rank(c, vs) = keep /\ v.ver <= c.ver}

\* Pruning inside an upsert: everything older than the keep-th newest.
Trimmed(vs, keep) ==
    {v \in vs : ~\E c \in vs : Rank(c, vs) = keep /\ v.ver < c.ver}

NewRow(o) == [meta |-> o.meta, size |-> o.blob.size, path |-> o.slot]
NewVersions(vs, o) ==
    Trimmed(vs \cup {[ver |-> NextVer(vs), blob |-> o.blob, meta |-> o.meta]},
            o.keep)

\* Bytes counted against the limits: current saves and their history.
Usage(rows, vers) ==
    MapThenSumSet(LAMBDA s : IF rows[s] = NoRow THEN 0 ELSE rows[s].size, Slots)
    + MapThenSumSet(LAMBDA s : MapThenSumSet(LAMBDA v : v.blob.size, vers[s]), Slots)

RowsAfter(o) == [row EXCEPT ![o.slot] = NewRow(o)]
VersionsAfter(o) == [versions EXCEPT ![o.slot] = NewVersions(versions[o.slot], o)]

\* Variant with a bug: version history is not counted.
WithinLimitsOfCurrent(o) ==
    LET none == [s \in Slots |-> {}]
        pre == Usage(row, none)
        post == Usage(RowsAfter(o), none)
    IN  o.limited => \A limit \in Limits : post <= limit \/ post <= pre

\* Already-over users are only blocked from growing.
WithinLimits(o) ==
    LET pre == Usage(row, versions)
        post == Usage(RowsAfter(o), VersionsAfter(o))
    IN  o.limited => \A limit \in Limits : post <= limit \/ post <= pre

\* Variant with a bug: transactions begin deferred, without the write lock.
CanWriteDeferred == TRUE
CanWrite == txOwner = {}
Finish(p) == op' = [op EXCEPT ![p] = Idle]
Goto(p, label) == op' = [op EXCEPT ![p].pc = label]

-----------------------------------------------------------------------------
(* UpsertSaveWithMeta.                                                     *)

\* BEGIN IMMEDIATE; the precondition holds under the write lock and the bytes
\* are not there yet: they are staged in a temp file and the rows are written
\* in the transaction.  (Otherwise nothing is written and the caller is told.)
Stage(p, o) ==
    /\ CanWrite
    /\ Satisfied(o.pre, CurrentHash(o.slot), o.meta.hash)
    /\ CurrentHash(o.slot) # o.meta.hash
    /\ NextVer(versions[o.slot]) <= MaxVersion
    /\ txOwner' = {p}
    /\ temps' = temps \cup {p}
    /\ op' = [op EXCEPT ![p] =
                [o EXCEPT !.pc = "staged",
                          !.old = IF row[o.slot] = NoRow THEN o.slot
                                  ELSE row[o.slot].path]]
    /\ UNCHANGED <<row, versions, file, up>>

\* A push or an import: its arrival reads nothing, so it begins here.
StagePush(p, s, b, pre, keep) ==
    /\ up /\ op[p] = Idle
    /\ Stage(p, [pc |-> "requested", slot |-> s, blob |-> b, meta |-> MetaOf(b),
                 pre |-> pre, limited |-> TRUE, keep |-> keep, old |-> s])

\* The in-transaction limit check fails: roll back, drop the temp file.
RejectOverLimit(p) ==
    /\ op[p].pc = "staged" /\ ~WithinLimits(op[p])
    /\ temps' = temps \ {p}
    /\ txOwner' = txOwner \ {p}
    /\ Finish(p)
    /\ UNCHANGED <<row, versions, file, up>>

\* Rename the temp file over the slot's own path, before the commit.
Promote(p) ==
    /\ op[p].pc = "staged" /\ WithinLimits(op[p])
    /\ file' = [file EXCEPT ![op[p].slot] = op[p].blob]
    /\ temps' = temps \ {p}
    /\ Goto(p, "promoted")
    /\ UNCHANGED <<row, versions, txOwner, up>>

Commit(p) ==
    /\ op[p].pc = "promoted"
    /\ row' = RowsAfter(op[p])
    /\ versions' = VersionsAfter(op[p])
    /\ txOwner' = txOwner \ {p}
    /\ IF op[p].old = op[p].slot THEN Finish(p) ELSE Goto(p, "committed")
    /\ UNCHANGED <<file, temps, up>>

\* Variant with a bug: the old file goes without counting its references.
DropOldPathUncounted(p) ==
    /\ op[p].pc = "committed"
    /\ file' = [file EXCEPT ![op[p].old] = NoBlob]
    /\ Finish(p)
    /\ UNCHANGED <<row, versions, temps, txOwner, up>>

\* The row moved off an old path: the old file goes with its last reference.
DropOldPath(p) ==
    /\ op[p].pc = "committed"
    /\ file' = IF \E s \in Slots : row[s] # NoRow /\ row[s].path = op[p].old
               THEN file ELSE [file EXCEPT ![op[p].old] = NoBlob]
    /\ Finish(p)
    /\ UNCHANGED <<row, versions, temps, txOwner, up>>

\* The caller hangs up, SQLite is busy, the disk is full or COMMIT fails:
\* the transaction rolls back and the temp file goes, a promoted file stays;
\* after the commit, the old path is not looked at any more.
Abort(p) ==
    /\ op[p].pc \in {"requested", "staged", "promoted", "committed",
                     "restoring", "deleting", "reading"}
    /\ temps' = temps \ {p}
    /\ txOwner' = txOwner \ {p}
    /\ Finish(p)
    /\ UNCHANGED <<row, versions, file, up>>

-----------------------------------------------------------------------------
(* RestoreSaveVersion: two reads outside any transaction, then an upsert.  *)

RestoreReadBlob(p, s, v) ==
    /\ up /\ op[p] = Idle
    /\ v \in versions[s]
    /\ op' = [op EXCEPT ![p] = [pc |-> "restoring", slot |-> s, ver |-> v.ver,
                                blob |-> v.blob]]
    /\ UNCHANGED <<row, versions, file, temps, txOwner, up>>

\* The hash and the encrypted flag are read by version number again.
RestoreReadMeta(p, keep) ==
    LET s == op[p].slot IN
    /\ op[p].pc = "restoring"
    /\ \/ \E v \in versions[s] :
            /\ v.ver = op[p].ver
            /\ op' = [op EXCEPT ![p] =
                  [pc |-> "requested", slot |-> s, blob |-> op[p].blob,
                   meta |-> v.meta, pre |-> Unconditional, limited |-> FALSE,
                   keep |-> keep, old |-> s]]
       \/ /\ \A v \in versions[s] : v.ver # op[p].ver
          /\ Finish(p)
    /\ UNCHANGED <<row, versions, file, temps, txOwner, up>>

StageRestore(p) ==
    /\ op[p].pc = "requested"
    /\ Stage(p, op[p])

\* The restored version is the current content already.
RestoreUnchanged(p) ==
    /\ op[p].pc = "requested" /\ CanWrite
    /\ CurrentHash(op[p].slot) = op[p].meta.hash
    /\ Finish(p)
    /\ UNCHANGED <<row, versions, file, temps, txOwner, up>>

-----------------------------------------------------------------------------
(* DeleteSave and DeleteSavesForGame.                                      *)

\* The storage paths are read before the transaction begins.
DeleteReadPaths(p, S) ==
    /\ up /\ op[p] = Idle
    /\ op' = [op EXCEPT ![p] =
                [pc |-> "deleting", slots |-> S,
                 paths |-> {row[s].path : s \in {t \in S : row[t] # NoRow}}]]
    /\ UNCHANGED <<row, versions, file, temps, txOwner, up>>

DeleteCommit(p) ==
    /\ op[p].pc = "deleting" /\ CanWrite
    /\ row' = [s \in Slots |-> IF s \in op[p].slots THEN NoRow ELSE row[s]]
    /\ versions' = [s \in Slots |->
                       IF s \in op[p].slots THEN {} ELSE versions[s]]
    /\ Goto(p, "unlinking")
    /\ UNCHANGED <<file, temps, txOwner, up>>

\* After the commit the files that were read go, one by one.
Unlink(p, q) ==
    /\ op[p].pc = "unlinking" /\ q \in op[p].paths
    /\ file' = [file EXCEPT ![q] = NoBlob]
    /\ op' = [op EXCEPT ![p].paths = @ \ {q}]
    /\ UNCHANGED <<row, versions, temps, txOwner, up>>

DeleteDone(p) ==
    /\ op[p].pc = "unlinking" /\ op[p].paths = {}
    /\ Finish(p)
    /\ UNCHANGED <<row, versions, file, temps, txOwner, up>>

-----------------------------------------------------------------------------
(* GetSave: the row, then the file, with the hash check between them.      *)

ReadRow(p, s) ==
    /\ up /\ op[p] = Idle
    /\ row[s] # NoRow
    /\ op' = [op EXCEPT ![p] = [pc |-> "reading", row |-> row[s]]]
    /\ UNCHANGED <<row, versions, file, temps, txOwner, up>>

\* Variant with a bug: the exemption follows the bytes, not the row's flag.
VerifiedUnlessCipher(r, b) == r.meta.enc \/ b.enc \/ b.hash = r.meta.hash

\* Unencrypted bytes must have the recorded hash; ciphertext is not checked.
Verified(r, b) == r.meta.enc \/ (~b.enc /\ b.hash = r.meta.hash)

ReadFile(p) ==
    LET b == file[op[p].row.path] IN
    /\ op[p].pc = "reading"
    /\ IF b # NoBlob /\ Verified(op[p].row, b)
       THEN op' = [op EXCEPT ![p] = [pc |-> "served", row |-> op[p].row,
                                     blob |-> b]]
       ELSE Finish(p)
    /\ UNCHANGED <<row, versions, file, temps, txOwner, up>>

ReadAnswer(p) ==
    /\ op[p].pc = "served"
    /\ Finish(p)
    /\ UNCHANGED <<row, versions, file, temps, txOwner, up>>

-----------------------------------------------------------------------------
(* Pruning jobs: one statement, hence one transaction, over all slots.     *)

\* PruneVersionsForGame: everything ranked beyond the retention goes.
PruneVersions(keep) ==
    /\ up /\ CanWrite
    /\ versions' = [s \in Slots |->
          {v \in versions[s] : ~(Rank(v, versions[s]) > keep)}]
    /\ UNCHANGED <<row, file, temps, txOwner, up, op>>

\* PruneHistory: versions older than some date go, but for the newest few.
PruneByAge(oldest) ==
    /\ up /\ CanWrite
    /\ versions' = [s \in Slots |->
          {v \in versions[s] : \/ v.ver >= oldest[s]
                               \/ Rank(v, versions[s]) <= VersionFloor}]
    /\ UNCHANGED <<row, file, temps, txOwner, up, op>>

-----------------------------------------------------------------------------
(* The process dies at any moment; at startup NewSQLite sweeps the temp    *)
(* files before it accepts a write.                                        *)

Crash ==
    /\ up
    /\ up' = FALSE
    /\ txOwner' = {}
    /\ op' = [p \in Procs |-> Idle]
    /\ UNCHANGED <<row, versions, file, temps>>

\* Variant with a bug: no sweep at startup.
RestartWithoutSweep ==
    /\ ~up
    /\ up' = TRUE
    /\ UNCHANGED <<row, versions, file, temps, txOwner, op>>

Restart ==
    /\ ~up
    /\ up' = TRUE
    /\ temps' = {}
    /\ UNCHANGED <<row, versions, file, txOwner, op>>

-----------------------------------------------------------------------------
PushStep(p) ==
    \/ \E s \in Slots, b \in Blobs, pre \in Preconditions, keep \in Retentions :
          StagePush(p, s, b, pre, keep)
    \/ RejectOverLimit(p)
    \/ Promote(p)
    \/ Commit(p)
    \/ DropOldPath(p)
    \/ Abort(p)

RestoreStep(p) ==
    \/ \E s \in Slots : \E v \in versions[s] : RestoreReadBlob(p, s, v)
    \/ \E keep \in Retentions : RestoreReadMeta(p, keep)
    \/ StageRestore(p)
    \/ RestoreUnchanged(p)

DeleteStep(p) ==
    \/ \E S \in (SUBSET Slots) \ {{}} : DeleteReadPaths(p, S)
    \/ DeleteCommit(p)
    \/ \E q \in Paths : Unlink(p, q)
    \/ DeleteDone(p)

ReadStep(p) ==
    \/ \E s \in Slots : ReadRow(p, s)
    \/ ReadFile(p)
    \/ ReadAnswer(p)

PruneStep ==
    \/ \E keep \in Retentions : PruneVersions(keep)
    \/ \E oldest \in [Slots -> 1..MaxVersion] : PruneByAge(oldest)

Next ==
    \/ \E p \in Procs : PushStep(p) \/ RestoreStep(p) \/ DeleteStep(p) \/ ReadStep(p)
    \/ PruneStep
    \/ Crash
    \/ Restart

Spec == Init /\ [][Next]_vars

-----------------------------------------------------------------------------
(* Safety.                                                                 *)

\* The current row and its history never part: a slot without a row has no
\* version, and a slot with one has it as its newest version, whatever order
\* upserts, restores, deletes and the two pruning jobs run in; no version
\* number is used twice.  (UpsertSaveWithMeta, DeleteSave, PruneHistory.)
HistoryHead ==
    \A s \in Slots :
        /\ row[s] = NoRow => versions[s] = {}
        /\ row[s] # NoRow =>
             \E v \in versions[s] :
                /\ v.meta = row[s].meta /\ v.blob.size = row[s].size
                /\ \A w \in versions[s] : w.ver <= v.ver
        /\ \A v, w \in versions[s] : v.ver = w.ver => v = w

\* A file that was promoted and never committed, or replaced while GetSave was
\* between its two reads, is never served under the hash of another content.
ReadsFailClosed ==
    \A p \in Procs : op[p].pc = "served" /\ ~op[p].row.meta.enc =>
        MetaOf(op[p].blob) = op[p].row.meta

\* Staged temp files never outlive the request that staged them: while the
\* server is up they belong to a request that is still between stage and
\* promote, through rejections, aborts, crashes and the startup sweep.
NoStrayTemps == up => temps = {p \in Procs : op[p].pc = "staged"}

\* Is the file at q the bytes of a row, or about to be?
Needed(q) ==
    \/ \E s \in Slots : row[s] # NoRow /\ row[s].path = q
    \/ \E p \in Procs : op[p].pc = "promoted" /\ op[p].slot = q

\* No step but the unlink of a delete takes away a file that a row, or an
\* upsert about to commit, needs: not the cleanup of a legacy path shared by
\* several slots, not an abort, not a crash or the sweep at startup.
OnlyDeletesLoseFiles ==
    [][\A q \in Paths :
         Needed(q) /\ file[q] # NoBlob /\ file'[q] = NoBlob
         => \E p \in Procs : op[p].pc = "unlinking" /\ q \in op[p].paths]_vars

\* The row an upsert commits describes its own bytes: no other request has
\* put its content into the slot's file between the promotion and the commit
\* (a delete may have unlinked it).
CommittedBytes ==
    [][\A p \in Procs :
         op[p].pc = "promoted" /\ row' # row /\ op'[p].pc \in {"idle", "committed"}
         => file'[op[p].slot] \in {op[p].blob, NoBlob}]_vars

\* Quotas are exact under concurrency: stored bytes, history included, never
\* grow beyond a limit, except by restoring an old version (RestoreSaveVersion
\* passes no limits).
GrowthStaysWithinLimits ==
    [][versions' # versions /\ Usage(row', versions') > Usage(row, versions)
         => \/ \A limit \in Limits : Usage(row', versions') <= limit
            \/ \E p \in Procs : op[p].pc = "promoted" /\ ~op[p].limited]_vars

\* Every row has its file.
NoDanglingRow ==
    \A s \in Slots : row[s] # NoRow => file[row[s].path] # NoBlob

-----------------------------------------------------------------------------
(* The store implements a register per slot.                               *)

registers == [s \in Slots |-> IF row[s] = NoRow THEN NoRow ELSE row[s].meta]

requests == [p \in Procs |->
    CASE op[p].pc \in {"requested", "staged", "promoted"} ->
            [kind |-> "write", slot |-> op[p].slot, meta |-> op[p].meta,
             pre |-> op[p].pre]
      [] op[p].pc = "deleting" -> [kind |-> "remove", slots |-> op[p].slots]
      [] OTHER -> [kind |-> "none"]]

Register == INSTANCE SaveRegister
    WITH reg <- registers, req <- requests, Absent <- NoRow

\* Conditional writes are atomic and linearizable: the precondition a device
\* sent is still true of the slot when its upload takes effect, and a lost,
\* refused or interrupted request takes no effect at all.
ImplementsRegister == Register!RegSpec
=============================================================================
