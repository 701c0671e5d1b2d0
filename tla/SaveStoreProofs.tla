--------------------------- MODULE SaveStoreProofs ---------------------------
(***************************************************************************)
(* What TLAPS proves of SaveStore, for any handlers, slots, contents,      *)
(* limits, retentions and bounds that satisfy the assumptions: tables and  *)
(* files agree, steps take or overwrite no file that is needed, stored     *)
(* bytes keep to the limits, and each slot is an atomic register.          *)
(***************************************************************************)
EXTENDS SaveStore, TLAPS, FiniteSetTheorems, WellFoundedInduction,
        NaturalsInduction

OpStates == {Idle} \cup Push \cup Restore \cup Delete \cup Read \cup Served

\* The label of a handler tells which record its local state is.
LEMMA OpRecords ==
    ASSUME NEW o \in OpStates
    PROVE  /\ o.pc \in {"requested", "staged", "promoted", "committed"} => o \in Push
           /\ o.pc = "restoring" => o \in Restore
           /\ o.pc \in {"deleting", "unlinking"} => o \in Delete
           /\ o.pc = "reading" => o \in Read
           /\ o.pc = "served" => o \in Served
           /\ o = Idle => o.pc = "idle"
  BY DEF OpStates, Idle, Push, Restore, Delete, Read, Served

\* Metadata taken from stored bytes is well formed.
LEMMA MetaOfType ==
    ASSUME NEW b \in Blobs
    PROVE  MetaOf(b) \in Meta /\ b.hash \in Hashes /\ b.size \in Nat
  BY BlobAssumption DEF MetaOf, Meta, Hashes

\* The next version number is a positive integer.
LEMMA NextVerType ==
    ASSUME NEW vs \in SUBSET Version,
           vs # {} => \E v \in vs : \A w \in vs : w.ver <= v.ver
    PROVE  /\ NextVer(vs) \in Nat \ {0}
           /\ \A w \in vs : w.ver < NextVer(vs)
  <1>1. CASE vs = {}
    BY <1>1 DEF NextVer
  <1>2. CASE vs # {}
    <2> DEFINE ns == {v.ver : v \in vs}
    <2>1. \E n \in ns : \A v \in vs : v.ver <= n
      BY <1>2
    <2>2. NewestVer(vs) \in ns /\ \A v \in vs : v.ver <= NewestVer(vs)
      BY <2>1 DEF NewestVer
    <2>3. ns \subseteq Nat \ {0}
      BY DEF Version
    <2>4. \A v \in vs : v.ver \in Nat
      BY DEF Version
    <2> QED
      BY <1>2, <2>2, <2>3, <2>4 DEF NextVer
  <1> QED
    BY <1>1, <1>2

\* Pruning inside an upsert only removes versions, and never the newest.
LEMMA TrimmedKeepsNewest ==
    ASSUME NEW vs \in SUBSET Version, NEW keep,
           NEW v \in vs, \A w \in vs : w.ver <= v.ver
    PROVE  Trimmed(vs, keep) \subseteq vs /\ v \in Trimmed(vs, keep)
  BY DEF Trimmed, Version

\* The newest version of a history without duplicate numbers has rank one.
LEMMA NewestRank ==
    ASSUME NEW vs \in SUBSET Version, NEW v \in vs,
           \A w \in vs : w.ver <= v.ver,
           \A u, w \in vs : u.ver = w.ver => u = w
    PROVE  Rank(v, vs) = 1
  <1>1. {w \in vs : w.ver >= v.ver} = {v}
    BY DEF Version
  <1> QED
    BY <1>1, FS_Singleton DEF Rank

-----------------------------------------------------------------------------
(* The inductive invariant.                                                *)

\* A handler between stage and commit holds the write lock alone.
LockInv ==
    \A p \in Procs : op[p].pc \in {"staged", "promoted"} => txOwner = {p}

\* ... so what it checked under the lock is still true.
PreconditionInv ==
    \A p \in Procs : op[p].pc \in {"staged", "promoted"} =>
        /\ Satisfied(op[p].pre, CurrentHash(op[p].slot), op[p].meta.hash)
        /\ CurrentHash(op[p].slot) # op[p].meta.hash

\* A row's file is its slot's own or the shared one, and an upsert only ever
\* cleans up the shared one.
PathInv ==
    /\ \A s \in Slots : row[s] # NoRow => row[s].path \in {s, Legacy}
    /\ \A p \in Procs : op[p] \in Push => op[p].old \in {op[p].slot, Legacy}
    /\ \A p \in Procs : op[p].pc = "committed" => op[p].old = Legacy

\* Nobody overwrites a promoted file before its commit.
PromotedInv ==
    \A p \in Procs : op[p].pc = "promoted" =>
        file[op[p].slot] \in {op[p].blob, NoBlob}

TempInv ==
    /\ NoStrayTemps
    /\ ~up => \A p \in Procs : op[p] = Idle

IInv ==
    /\ TypeOK
    /\ LockInv
    /\ PreconditionInv
    /\ HistoryHead
    /\ PathInv
    /\ PromotedInv
    /\ TempInv
    /\ ReadsFailClosed

\* TypeOK: every state of every behaviour is well formed.
LEMMA InitTypeOK == Init => TypeOK
  <1> SUFFICES ASSUME Init PROVE TypeOK
    OBVIOUS
  <1>1. LegacyBlob \in Blobs /\ MetaOf(LegacyBlob) \in Meta /\ LegacyBlob.size \in Nat
    BY BlobAssumption, MetaOfType
  <1>2. row \in [Slots -> Row \cup {NoRow}]
    BY <1>1 DEF Init, Row, Paths
  <1>3. versions \in [Slots -> SUBSET Version]
    BY <1>1 DEF Init, Version
  <1>4. file \in [Paths -> Blobs \cup {NoBlob}]
    BY <1>1 DEF Init
  <1>5. temps \subseteq Procs /\ txOwner \subseteq Procs /\ up \in BOOLEAN
    BY DEF Init
  <1>6. op \in [Procs -> {Idle} \cup Push \cup Restore \cup Delete \cup Read \cup Served]
    BY DEF Init
  <1> QED
    BY <1>2, <1>3, <1>4, <1>5, <1>6 DEF TypeOK

\* The inductive invariant holds initially, legacy slots included.
LEMMA InitIInv == Init => IInv
  <1> SUFFICES ASSUME Init PROVE IInv
    OBVIOUS
  <1>1. /\ TypeOK
        /\ MetaOf(LegacyBlob) \in Meta /\ LegacyBlob.size \in Nat
    BY InitTypeOK, MetaOfType, BlobAssumption
  <1>2. \A p \in Procs : op[p] = Idle /\ op[p].pc = "idle"
    BY DEF Init, Idle
  <1>3. HistoryHead
    <2> SUFFICES ASSUME NEW s \in Slots
                 PROVE  HistoryHead!(s)
      BY DEF HistoryHead
    <2>1. CASE s \in LegacySlots
      <3>1. row[s] # NoRow
        BY <2>1, <1>1, RowAssumption DEF TypeOK, Init, Row, Paths
      <3>2. /\ versions[s] = {[ver |-> 1, blob |-> LegacyBlob, meta |-> MetaOf(LegacyBlob)]}
            /\ row[s] = [meta |-> MetaOf(LegacyBlob), size |-> LegacyBlob.size, path |-> Legacy]
        BY <2>1 DEF Init
      <3> QED
        BY <3>1, <3>2
    <2>2. CASE s \notin LegacySlots
      BY <2>2 DEF Init
    <2> QED
      BY <2>1, <2>2
  <1>4. LockInv /\ PreconditionInv /\ PromotedInv /\ ReadsFailClosed
    BY <1>2 DEF LockInv, PreconditionInv, PromotedInv, ReadsFailClosed
  <1>5. PathInv
    BY <1>2 DEF Init, PathInv, Push
  <1>6. TempInv
    BY <1>2 DEF Init, TempInv, NoStrayTemps
  <1> QED
    BY <1>1, <1>3, <1>4, <1>5, <1>6 DEF IInv

-----------------------------------------------------------------------------
(* Steps that change one handler's local state.                            *)

\* A step that only changes the local state of one handler changes no other's.
LEMMA OpUpdate ==
    ASSUME TypeOK, NEW p \in Procs, NEW o \in OpStates,
           op' = [op EXCEPT ![p] = o]
    PROVE  /\ op' \in [Procs -> OpStates]
           /\ op'[p] = o
           /\ \A x \in Procs \ {p} : op'[x] = op[x]
  BY DEF TypeOK, OpStates

\* A handler outside its write transaction moves to a state outside it, and
\* nothing else happens.
LEMMA LocalStep ==
    ASSUME IInv, NEW p \in Procs, NEW o \in OpStates,
           op[p].pc \notin {"staged", "promoted"},
           o.pc \notin {"staged", "promoted", "committed"},
           o = Idle \/ up,
           o \in Push => o.old = o.slot,
           o.pc = "served" /\ ~o.row.meta.enc => MetaOf(o.blob) = o.row.meta,
           op' = [op EXCEPT ![p] = o],
           UNCHANGED <<row, versions, file, temps, txOwner, up>>
    PROVE  IInv'
  <1> USE DEF IInv
  <1>1. /\ op' \in [Procs -> OpStates]
        /\ op'[p] = o
        /\ \A x \in Procs \ {p} : op'[x] = op[x]
    BY OpUpdate
  <1>2. TypeOK'
    BY <1>1 DEF TypeOK, OpStates
  <1>3. LockInv'
    BY <1>1 DEF LockInv
  <1>4. PreconditionInv'
    BY <1>1 DEF PreconditionInv, CurrentHash
  <1>5. HistoryHead'
    BY DEF HistoryHead
  <1>6. PathInv'
    BY <1>1 DEF PathInv
  <1>7. PromotedInv'
    BY <1>1 DEF PromotedInv
  <1>8. TempInv'
    <2>1. {x \in Procs : op'[x].pc = "staged"} = {x \in Procs : op[x].pc = "staged"}
      BY <1>1
    <2> QED
      BY <1>1, <2>1 DEF TempInv, NoStrayTemps, Idle
  <1>9. ReadsFailClosed'
    BY <1>1 DEF ReadsFailClosed
  <1> QED
    BY <1>2, <1>3, <1>4, <1>5, <1>6, <1>7, <1>8, <1>9

-----------------------------------------------------------------------------
(* The upsert.                                                             *)

\* Staging under the write lock (BEGIN IMMEDIATE) preserves the invariant.
LEMMA StageStep ==
    ASSUME IInv, NEW p \in Procs, NEW o \in Push, up,
           o.pc = "requested", o.old = o.slot,
           op[p].pc \in {"idle", "requested"}, Stage(p, o)
    PROVE  IInv'
  <1> USE DEF IInv
  <1> DEFINE n == [o EXCEPT !.pc = "staged",
                            !.old = IF row[o.slot] = NoRow THEN o.slot
                                    ELSE row[o.slot].path]
  <1>1. /\ n \in Push /\ n.pc = "staged" /\ n.slot = o.slot /\ n.pre = o.pre
        /\ n.meta = o.meta /\ n.old \in {o.slot, Legacy}
    BY DEF TypeOK, Push, PathInv, Paths
  <1>2. op' = [op EXCEPT ![p] = n] /\ UNCHANGED <<row, versions, file, up>>
    BY DEF Stage
  <1>3. /\ op' \in [Procs -> OpStates]
        /\ op'[p] = n
        /\ \A x \in Procs \ {p} : op'[x] = op[x]
    BY <1>1, <1>2, OpUpdate DEF OpStates
  <1> HIDE DEF n
  <1>4. \A x \in Procs : op[x].pc \notin {"staged", "promoted"}
    BY DEF Stage, CanWrite, LockInv
  <1>5. TypeOK'
    BY <1>2, <1>3 DEF TypeOK, OpStates, Stage
  <1>6. LockInv'
    BY <1>3, <1>4 DEF LockInv, Stage
  <1>7. PreconditionInv'
    BY <1>1, <1>2, <1>3, <1>4 DEF PreconditionInv, CurrentHash, Stage
  <1>8. HistoryHead'
    BY <1>2 DEF HistoryHead
  <1>9. PathInv'
    BY <1>1, <1>2, <1>3 DEF PathInv
  <1>10. PromotedInv'
    BY <1>1, <1>3, <1>4 DEF PromotedInv
  <1>11. TempInv'
    <2>1. {x \in Procs : op'[x].pc = "staged"}
          = {x \in Procs : op[x].pc = "staged"} \cup {p}
      BY <1>1, <1>3
    <2> QED
      BY <1>2, <2>1 DEF TempInv, NoStrayTemps, Stage
  <1>12. ReadsFailClosed'
    BY <1>1, <1>3 DEF ReadsFailClosed
  <1> QED
    BY <1>5, <1>6, <1>7, <1>8, <1>9, <1>10, <1>11, <1>12

\* A handler gives up whatever it was doing: rejection, abort, end.
LEMMA GiveUpStep ==
    ASSUME IInv, NEW p \in Procs,
           op[p].pc # "staged" => p \notin temps \/ op[p] = Idle,
           temps' = temps \ {p}, txOwner' = txOwner \ {p}, Finish(p),
           up' = up, row' = row, versions' = versions, file' = file
    PROVE  IInv'
  <1> USE DEF IInv
  <1>1. /\ op' \in [Procs -> OpStates]
        /\ op'[p] = Idle
        /\ \A x \in Procs \ {p} : op'[x] = op[x]
    BY OpUpdate DEF Finish, OpStates
  <1>2. Idle.pc = "idle" /\ Idle \notin Push
    BY DEF Idle, Push
  <1>3. TypeOK'
    BY <1>1 DEF TypeOK, OpStates
  <1>4. LockInv'
    BY <1>1, <1>2 DEF LockInv
  <1>5. PreconditionInv'
    BY <1>1, <1>2 DEF PreconditionInv, CurrentHash
  <1>6. HistoryHead'
    BY DEF HistoryHead
  <1>7. PathInv'
    BY <1>1, <1>2 DEF PathInv
  <1>8. PromotedInv'
    BY <1>1, <1>2 DEF PromotedInv
  <1>9. TempInv'
    <2>1. {x \in Procs : op'[x].pc = "staged"}
          = {x \in Procs : op[x].pc = "staged"} \ {p}
      BY <1>1, <1>2
    <2> QED
      BY <1>1, <2>1 DEF TempInv, NoStrayTemps
  <1>10. ReadsFailClosed'
    BY <1>1, <1>2 DEF ReadsFailClosed
  <1> QED
    BY <1>3, <1>4, <1>5, <1>6, <1>7, <1>8, <1>9, <1>10

\* Moving a Push record to another label of an upsert.
LEMMA Relabel ==
    ASSUME NEW o \in Push,
           NEW l \in {"requested", "staged", "promoted", "committed"}
    PROVE  LET n == [o EXCEPT !.pc = l] IN
           /\ n \in Push /\ n.pc = l /\ n.slot = o.slot /\ n.blob = o.blob
           /\ n.meta = o.meta /\ n.pre = o.pre /\ n.old = o.old
           /\ n.keep = o.keep /\ n.limited = o.limited
  BY DEF Push

\* The rename over the slot's own path preserves the invariant.
LEMMA PromoteStep ==
    ASSUME IInv, NEW p \in Procs, Promote(p)
    PROVE  IInv'
  <1> USE DEF IInv
  <1> DEFINE n == [op[p] EXCEPT !.pc = "promoted"]
  <1>1. op[p] \in Push /\ op[p].pc = "staged" /\ up
    BY OpRecords DEF Promote, TypeOK, OpStates, TempInv, Idle
  <1>2. /\ n \in Push /\ n.pc = "promoted" /\ n.slot = op[p].slot
        /\ n.pre = op[p].pre /\ n.meta = op[p].meta /\ n.old = op[p].old
        /\ n.blob = op[p].blob /\ n.slot \in Slots /\ n.blob \in Blobs
    BY <1>1, Relabel DEF Push
  <1>3. /\ op' \in [Procs -> OpStates]
        /\ op'[p] = n
        /\ \A x \in Procs \ {p} : op'[x] = op[x]
    BY <1>2, OpUpdate DEF Promote, Goto, OpStates
  <1> HIDE DEF n
  <1>4. \A x \in Procs \ {p} : op[x].pc \notin {"staged", "promoted"}
    BY <1>1 DEF LockInv
  <1>5. /\ UNCHANGED <<row, versions, txOwner, up>>
        /\ file' = [file EXCEPT ![op[p].slot] = op[p].blob]
        /\ temps' = temps \ {p}
    BY DEF Promote
  <1>6. TypeOK'
    BY <1>2, <1>3, <1>5 DEF TypeOK, OpStates, Paths
  <1>7. LockInv'
    BY <1>1, <1>3, <1>4, <1>5 DEF LockInv
  <1>8. PreconditionInv'
    BY <1>1, <1>2, <1>3, <1>5 DEF PreconditionInv, CurrentHash
  <1>9. HistoryHead'
    BY <1>5 DEF HistoryHead
  <1>10. PathInv'
    BY <1>1, <1>2, <1>3, <1>5 DEF PathInv
  <1>11. PromotedInv'
    BY <1>2, <1>3, <1>4, <1>5 DEF PromotedInv, TypeOK, Paths
  <1>12. TempInv'
    <2>1. {x \in Procs : op'[x].pc = "staged"}
          = {x \in Procs : op[x].pc = "staged"} \ {p}
      BY <1>2, <1>3
    <2> QED
      BY <1>1, <1>5, <2>1 DEF TempInv, NoStrayTemps
  <1>13. ReadsFailClosed'
    BY <1>2, <1>3 DEF ReadsFailClosed
  <1> QED
    BY <1>6, <1>7, <1>8, <1>9, <1>10, <1>11, <1>12, <1>13

\* A committed upsert leaves its own version as the newest of the slot.
LEMMA CommittedHistory ==
    ASSUME NEW vs \in SUBSET Version, NEW o \in Push,
           vs # {} => \E v \in vs : \A w \in vs : w.ver <= v.ver,
           \A v, w \in vs : v.ver = w.ver => v = w
    PROVE  /\ NewVersions(vs, o) \in SUBSET Version
           /\ \E v \in NewVersions(vs, o) :
                /\ v.meta = o.meta /\ v.blob = o.blob
                /\ \A w \in NewVersions(vs, o) : w.ver <= v.ver
           /\ \A v, w \in NewVersions(vs, o) : v.ver = w.ver => v = w
  <1> DEFINE v0 == [ver |-> NextVer(vs), blob |-> o.blob, meta |-> o.meta]
             all == vs \cup {v0}
  <1>1. v0 \in Version /\ v0.ver = NextVer(vs) /\ \A w \in vs : w.ver < v0.ver
    BY NextVerType DEF Push, Version
  <1>2. all \in SUBSET Version /\ v0 \in all /\ \A w \in all : w.ver <= v0.ver
    BY <1>1 DEF Version
  <1>3. Trimmed(all, o.keep) \subseteq all /\ v0 \in Trimmed(all, o.keep)
    BY <1>2, TrimmedKeepsNewest
  <1>4. \A v, w \in all : v.ver = w.ver => v = w
    BY <1>1 DEF Version
  <1>5. NewVersions(vs, o) = Trimmed(all, o.keep)
    BY DEF NewVersions
  <1>6. v0.meta = o.meta /\ v0.blob = o.blob
    OBVIOUS
  <1> HIDE DEF v0, all
  <1> QED
    BY <1>2, <1>3, <1>4, <1>5, <1>6

\* COMMIT of an upsert preserves the invariant.
LEMMA CommitStep ==
    ASSUME IInv, NEW p \in Procs, Commit(p)
    PROVE  IInv'
  <1> USE DEF IInv
  <1> DEFINE o == op[p]
             n == IF o.old = o.slot THEN Idle ELSE [o EXCEPT !.pc = "committed"]
  <1>1. o \in Push /\ o.pc = "promoted" /\ up /\ o.slot \in Slots /\ o.blob \in Blobs
        /\ o.meta \in Meta
    BY OpRecords DEF Commit, TypeOK, OpStates, TempInv, Idle, Push
  <1>2. /\ n \in OpStates /\ n.pc \in {"idle", "committed"}
        /\ n \in Push => n.old \in {n.slot, Legacy}
        /\ n.pc = "committed" => n.old = Legacy
    <2>1. o.old \in {o.slot, Legacy}
      BY <1>1 DEF PathInv
    <2>2. CASE o.old = o.slot
      BY <2>2 DEF OpStates, Idle, Push
    <2>3. CASE o.old # o.slot
      <3> DEFINE m == [o EXCEPT !.pc = "committed"]
      <3>1. m \in Push /\ m.pc = "committed" /\ m.slot = o.slot /\ m.old = o.old
        BY <1>1, Relabel
      <3> HIDE DEF m
      <3>2. n = m
        BY <2>3 DEF m
      <3> QED
        BY <2>1, <2>3, <3>1, <3>2 DEF OpStates
    <2> QED
      BY <2>2, <2>3
  <1>3. /\ op' = [op EXCEPT ![p] = n]
        /\ row' = [row EXCEPT ![o.slot] = NewRow(o)]
        /\ versions' = [versions EXCEPT ![o.slot] = NewVersions(versions[o.slot], o)]
        /\ txOwner' = txOwner \ {p} /\ UNCHANGED <<file, temps, up>>
    BY DEF Commit, Finish, Goto, RowsAfter, VersionsAfter
  <1>4. /\ op' \in [Procs -> OpStates]
        /\ op'[p] = n
        /\ \A x \in Procs \ {p} : op'[x] = op[x]
    BY <1>2, <1>3, OpUpdate
  <1> HIDE DEF n
  <1>5. \A x \in Procs \ {p} : op[x].pc \notin {"staged", "promoted"}
    BY <1>1 DEF LockInv
  <1>6. NewRow(o) \in Row /\ NewRow(o).path = o.slot /\ NewRow(o).meta = o.meta
        /\ NewRow(o).size = o.blob.size /\ NewRow(o) # NoRow
    BY <1>1, MetaOfType, RowAssumption DEF NewRow, Row, Paths
  <1>7. \A s \in Slots : versions[s] \in SUBSET Version
    BY DEF TypeOK
  <1>8. /\ versions[o.slot] # {} =>
             \E v \in versions[o.slot] : \A w \in versions[o.slot] : w.ver <= v.ver
        /\ \A v, w \in versions[o.slot] : v.ver = w.ver => v = w
    BY <1>1 DEF HistoryHead
  <1> DEFINE vs == NewVersions(versions[o.slot], o)
  <1>9. /\ vs \in SUBSET Version
        /\ \E v \in vs : /\ v.meta = o.meta /\ v.blob = o.blob
                          /\ \A w \in vs : w.ver <= v.ver
        /\ \A v, w \in vs : v.ver = w.ver => v = w
    BY <1>1, <1>7, <1>8, CommittedHistory
  <1> HIDE DEF vs
  <1>10. /\ row'[o.slot] = NewRow(o) /\ versions'[o.slot] = vs
         /\ \A s \in Slots \ {o.slot} : row'[s] = row[s] /\ versions'[s] = versions[s]
    BY <1>1, <1>3 DEF TypeOK, vs
  <1>11. TypeOK'
    BY <1>1, <1>3, <1>4, <1>6, <1>9 DEF TypeOK, OpStates, vs
  <1>12. LockInv'
    BY <1>2, <1>4, <1>5 DEF LockInv
  <1>13. PreconditionInv'
    BY <1>2, <1>4, <1>5 DEF PreconditionInv
  <1>14. HistoryHead'
    <2> SUFFICES ASSUME NEW s \in Slots
                 PROVE  HistoryHead!(s)'
      BY DEF HistoryHead
    <2>1. CASE s = o.slot
      BY <2>1, <1>6, <1>9, <1>10
    <2>2. CASE s # o.slot
      BY <2>2, <1>10 DEF HistoryHead
    <2> QED
      BY <2>1, <2>2
  <1>15. PathInv'
    BY <1>1, <1>2, <1>4, <1>6, <1>10 DEF PathInv
  <1>16. PromotedInv'
    BY <1>2, <1>4, <1>5 DEF PromotedInv
  <1>17. TempInv'
    <2>1. {x \in Procs : op'[x].pc = "staged"} = {x \in Procs : op[x].pc = "staged"}
      BY <1>1, <1>2, <1>4
    <2> QED
      BY <1>1, <1>3, <2>1 DEF TempInv, NoStrayTemps
  <1>18. ReadsFailClosed'
    BY <1>2, <1>4 DEF ReadsFailClosed
  <1> QED
    BY <1>11, <1>12, <1>13, <1>14, <1>15, <1>16, <1>17, <1>18

-----------------------------------------------------------------------------
(* Steps that remove files, rows or versions.                              *)

\* Removing one file (an old path, a deleted row's) preserves the invariant.
LEMMA RemoveFileStep ==
    ASSUME IInv, NEW p \in Procs, NEW q \in Paths, NEW o \in OpStates, up,
           op[p].pc \in {"committed", "unlinking"}, o.pc \in {"idle", "unlinking"},
           op' = [op EXCEPT ![p] = o],
           file' \in {file, [file EXCEPT ![q] = NoBlob]},
           UNCHANGED <<row, versions, temps, txOwner, up>>
    PROVE  IInv'
  <1> USE DEF IInv
  <1>1. /\ op' \in [Procs -> OpStates]
        /\ op'[p] = o
        /\ \A x \in Procs \ {p} : op'[x] = op[x]
    BY OpUpdate
  <1>2. o \notin Push
    BY DEF Push
  <1>3. TypeOK'
    BY <1>1 DEF TypeOK, OpStates
  <1>4. LockInv'
    BY <1>1 DEF LockInv
  <1>5. PreconditionInv'
    BY <1>1 DEF PreconditionInv, CurrentHash
  <1>6. HistoryHead'
    BY DEF HistoryHead
  <1>7. PathInv'
    BY <1>1, <1>2 DEF PathInv
  <1>8. PromotedInv'
    <2> SUFFICES ASSUME NEW x \in Procs, op'[x].pc = "promoted"
                 PROVE  file'[op'[x].slot] \in {op'[x].blob, NoBlob}
      BY DEF PromotedInv
    <2>1. op'[x] = op[x] /\ op[x].pc = "promoted"
      BY <1>1
    <2>2. op[x] \in Push
      BY <2>1, OpRecords DEF TypeOK, OpStates
    <2>3. op[x].slot \in Paths
      BY <2>2 DEF Push, Paths
    <2>4. file'[op[x].slot] \in {file[op[x].slot], NoBlob}
      BY <2>3 DEF TypeOK
    <2>5. file[op[x].slot] \in {op[x].blob, NoBlob}
      BY <2>1 DEF PromotedInv
    <2> QED
      BY <2>1, <2>4, <2>5
  <1>9. TempInv'
    <2>1. {x \in Procs : op'[x].pc = "staged"} = {x \in Procs : op[x].pc = "staged"}
      BY <1>1
    <2> QED
      BY <1>1, <2>1 DEF TempInv, NoStrayTemps
  <1>10. ReadsFailClosed'
    BY <1>1 DEF ReadsFailClosed
  <1> QED
    BY <1>3, <1>4, <1>5, <1>6, <1>7, <1>8, <1>9, <1>10

\* The delete transaction, rows and history together, preserves the invariant.
LEMMA DeleteCommitStep ==
    ASSUME IInv, NEW p \in Procs, DeleteCommit(p)
    PROVE  IInv'
  <1> USE DEF IInv
  <1> DEFINE n == [op[p] EXCEPT !.pc = "unlinking"]
  <1>1. op[p] \in Delete /\ op[p].pc = "deleting" /\ up
    BY OpRecords DEF DeleteCommit, TypeOK, OpStates, TempInv, Idle
  <1>2. n \in Delete /\ n \in OpStates /\ n.pc = "unlinking" /\ n \notin Push
    BY <1>1 DEF Delete, OpStates, Push
  <1>3. /\ op' \in [Procs -> OpStates]
        /\ op'[p] = n
        /\ \A x \in Procs \ {p} : op'[x] = op[x]
    BY <1>2, OpUpdate DEF DeleteCommit, Goto
  <1> HIDE DEF n
  <1>4. \A x \in Procs : op'[x].pc \notin {"staged", "promoted"}
                        /\ op[x].pc \notin {"staged", "promoted"}
    BY <1>1, <1>2, <1>3 DEF DeleteCommit, CanWrite, LockInv
  <1>5. \A s \in Slots :
           /\ row'[s] = IF s \in op[p].slots THEN NoRow ELSE row[s]
           /\ versions'[s] = IF s \in op[p].slots THEN {} ELSE versions[s]
    BY DEF DeleteCommit
  <1>6. TypeOK'
    <2>1. row' \in [Slots -> Row \cup {NoRow}] /\ versions' \in [Slots -> SUBSET Version]
      BY DEF DeleteCommit, TypeOK
    <2> QED
      BY <1>3, <2>1 DEF TypeOK, OpStates, DeleteCommit
  <1>7. LockInv' /\ PreconditionInv' /\ PromotedInv'
    BY <1>4 DEF LockInv, PreconditionInv, PromotedInv
  <1>8. HistoryHead'
    <2> SUFFICES ASSUME NEW s \in Slots
                 PROVE  HistoryHead!(s)'
      BY DEF HistoryHead
    <2>1. CASE s \in op[p].slots
      BY <2>1, <1>5
    <2>2. CASE s \notin op[p].slots
      BY <2>2, <1>5 DEF HistoryHead
    <2> QED
      BY <2>1, <2>2
  <1>9. PathInv'
    BY <1>2, <1>3, <1>5 DEF PathInv
  <1>10. TempInv'
    <2>1. {x \in Procs : op'[x].pc = "staged"} = {x \in Procs : op[x].pc = "staged"}
      BY <1>4
    <2> QED
      BY <1>1, <2>1 DEF TempInv, NoStrayTemps, DeleteCommit
  <1>11. ReadsFailClosed'
    BY <1>2, <1>3 DEF ReadsFailClosed
  <1> QED
    BY <1>6, <1>7, <1>8, <1>9, <1>10, <1>11

\* Any pruning that keeps each slot's newest version.
LEMMA PruneStepInv ==
    ASSUME IInv, versions' \in [Slots -> SUBSET Version],
           \A s \in Slots : versions'[s] \subseteq versions[s],
           \A s \in Slots : \A v \in versions[s] :
              Rank(v, versions[s]) = 1 => v \in versions'[s],
           UNCHANGED <<row, file, temps, txOwner, up, op>>
    PROVE  IInv'
  <1> USE DEF IInv
  <1>1. HistoryHead'
    <2> SUFFICES ASSUME NEW s \in Slots
                 PROVE  HistoryHead!(s)'
      BY DEF HistoryHead
    <2>1. CASE row[s] = NoRow
      BY <2>1, RowAssumption DEF HistoryHead
    <2>2. CASE row[s] # NoRow
      <3>1. PICK v \in versions[s] : /\ v.meta = row[s].meta /\ v.blob.size = row[s].size
                                     /\ \A w \in versions[s] : w.ver <= v.ver
        BY <2>2 DEF HistoryHead
      <3>2. Rank(v, versions[s]) = 1
        BY <3>1, NewestRank DEF HistoryHead, TypeOK
      <3>3. v \in versions'[s]
        BY <3>2
      <3> QED
        BY <2>2, <3>1, <3>3 DEF HistoryHead
    <2> QED
      BY <2>1, <2>2
  <1>2. TypeOK'
    BY DEF TypeOK
  <1>3. LockInv' /\ PreconditionInv' /\ PathInv' /\ PromotedInv' /\ ReadsFailClosed'
    BY DEF LockInv, PreconditionInv, CurrentHash, PathInv, PromotedInv, ReadsFailClosed
  <1>4. TempInv'
    BY DEF TempInv, NoStrayTemps
  <1> QED
    BY <1>1, <1>2, <1>3, <1>4

\* PruneVersionsForGame is such a pruning.
LEMMA PruneVersionsStep ==
    ASSUME IInv, NEW keep \in Retentions, PruneVersions(keep)
    PROVE  IInv'
  <1>1. keep \in Nat \ {0}
    BY RetentionAssumption
  <1>2. \A s \in Slots : versions'[s] = {v \in versions[s] : ~(Rank(v, versions[s]) > keep)}
    BY DEF PruneVersions
  <1>3. versions' \in [Slots -> SUBSET Version]
    BY DEF PruneVersions, IInv, TypeOK
  <1> QED
    BY <1>1, <1>2, <1>3, PruneStepInv DEF PruneVersions

\* PruneHistory is such a pruning, given its floor of versions.
LEMMA PruneByAgeStep ==
    ASSUME IInv, NEW oldest \in [Slots -> 1..MaxVersion], PruneByAge(oldest)
    PROVE  IInv'
  <1>1. VersionFloor \in Nat \ {0}
    BY RetentionAssumption
  <1>2. \A s \in Slots : versions'[s] =
           {v \in versions[s] : v.ver >= oldest[s] \/ Rank(v, versions[s]) <= VersionFloor}
    BY DEF PruneByAge
  <1>3. versions' \in [Slots -> SUBSET Version]
    BY DEF PruneByAge, IInv, TypeOK
  <1> QED
    BY <1>1, <1>2, <1>3, PruneStepInv DEF PruneByAge

\* A crash drops every handler and its lock, and leaves disk and tables alone.
LEMMA CrashStep == ASSUME IInv, Crash PROVE IInv'
  <1> USE DEF IInv
  <1>1. /\ \A p \in Procs : op'[p] = Idle
        /\ Idle.pc = "idle" /\ Idle \notin Push
        /\ UNCHANGED <<row, versions, file, temps>> /\ ~up'
    BY DEF Crash, Idle, Push
  <1>2. TypeOK'
    BY DEF Crash, TypeOK
  <1>3. LockInv' /\ PreconditionInv' /\ PathInv' /\ PromotedInv' /\ ReadsFailClosed'
    BY <1>1 DEF LockInv, PreconditionInv, PathInv, PromotedInv, ReadsFailClosed
  <1>4. HistoryHead' /\ TempInv'
    BY <1>1 DEF HistoryHead, TempInv, NoStrayTemps
  <1> QED
    BY <1>2, <1>3, <1>4

\* The restart's sweep of temp files preserves the invariant.
LEMMA RestartStep == ASSUME IInv, Restart PROVE IInv'
  <1> USE DEF IInv
  <1>1. /\ \A p \in Procs : op[p] = Idle
        /\ Idle.pc = "idle" /\ up' /\ temps' = {}
        /\ UNCHANGED <<row, versions, file, txOwner, op>>
    BY DEF Restart, TempInv, Idle
  <1>2. TypeOK'
    BY <1>1 DEF Restart, TypeOK
  <1>3. LockInv' /\ PreconditionInv' /\ PathInv' /\ PromotedInv' /\ ReadsFailClosed'
    BY <1>1 DEF LockInv, PreconditionInv, CurrentHash, PathInv, PromotedInv, ReadsFailClosed
  <1>4. HistoryHead' /\ TempInv'
    BY <1>1 DEF HistoryHead, TempInv, NoStrayTemps
  <1> QED
    BY <1>2, <1>3, <1>4

-----------------------------------------------------------------------------
(* Every step preserves the invariant.                                     *)

\* The restored upsert's request.
LEMMA RestoreRequest ==
    ASSUME NEW s \in Slots, NEW b \in Blobs, NEW m \in Meta, NEW keep \in Retentions
    PROVE  [pc |-> "requested", slot |-> s, blob |-> b, meta |-> m,
            pre |-> Unconditional, limited |-> FALSE, keep |-> keep, old |-> s] \in Push
  BY RetentionAssumption DEF Push, Preconditions, Paths

\* Every step of a push or import preserves the invariant.
LEMMA PushStepInv == ASSUME IInv, NEW p \in Procs, PushStep(p) PROVE IInv'
  <1>1. ASSUME NEW s \in Slots, NEW b \in Blobs, NEW pre \in Preconditions,
               NEW keep \in Retentions, StagePush(p, s, b, pre, keep)
        PROVE  IInv'
    <2> DEFINE o == [pc |-> "requested", slot |-> s, blob |-> b, meta |-> MetaOf(b),
                     pre |-> pre, limited |-> TRUE, keep |-> keep, old |-> s]
    <2>1. o \in Push
      BY MetaOfType, RetentionAssumption DEF Push, Paths
    <2>2. op[p].pc = "idle" /\ up /\ Stage(p, o)
      BY <1>1 DEF StagePush, Idle
    <2>3. o.pc = "requested" /\ o.old = o.slot
      OBVIOUS
    <2> HIDE DEF o
    <2> QED
      BY <2>1, <2>2, <2>3, StageStep
  <1>2. CASE RejectOverLimit(p)
    BY <1>2, GiveUpStep DEF RejectOverLimit
  <1>3. CASE Promote(p)
    BY <1>3, PromoteStep
  <1>4. CASE Commit(p)
    BY <1>4, CommitStep
  <1>5. CASE DropOldPath(p)
    <2>1. op[p] \in Push /\ op[p].pc = "committed" /\ up /\ op[p].old \in Paths
      BY <1>5, OpRecords DEF DropOldPath, IInv, TypeOK, OpStates, TempInv, Idle, Push
    <2>2. Idle \in OpStates /\ Idle.pc = "idle"
      BY DEF Idle, OpStates
    <2> QED
      BY <1>5, <2>1, <2>2, RemoveFileStep DEF DropOldPath, Finish
  <1>6. CASE Abort(p)
    <2>1. op[p].pc # "idle"
      BY <1>6 DEF Abort
    <2>2. up
      BY <2>1 DEF IInv, TempInv, Idle
    <2>3. op[p].pc # "staged" => p \notin temps
      BY <2>2 DEF IInv, TempInv, NoStrayTemps
    <2> QED
      BY <1>6, <2>3, GiveUpStep DEF Abort
  <1> QED
    BY <1>1, <1>2, <1>3, <1>4, <1>5, <1>6 DEF PushStep

\* Every step of a version restore preserves the invariant.
LEMMA RestoreStepInv == ASSUME IInv, NEW p \in Procs, RestoreStep(p) PROVE IInv'
  <1>1. ASSUME NEW s \in Slots, NEW v \in versions[s], RestoreReadBlob(p, s, v)
        PROVE  IInv'
    <2> DEFINE o == [pc |-> "restoring", slot |-> s, ver |-> v.ver, blob |-> v.blob]
    <2>1. v \in Version
      BY DEF IInv, TypeOK
    <2>2. o \in Restore /\ o \in OpStates /\ o \notin Push /\ o.pc = "restoring"
      BY <2>1 DEF Restore, Version, OpStates, Push
    <2>3. up /\ op[p].pc = "idle"
      BY <1>1 DEF RestoreReadBlob, Idle
    <2> HIDE DEF o
    <2> QED
      BY <1>1, <2>2, <2>3, LocalStep DEF RestoreReadBlob, o
  <1>2. ASSUME NEW keep \in Retentions, RestoreReadMeta(p, keep)
        PROVE  IInv'
    <2>1. op[p] \in Restore /\ op[p].pc = "restoring" /\ up
      BY <1>2, OpRecords DEF RestoreReadMeta, IInv, TypeOK, OpStates, TempInv, Idle
    <2>2. op[p].slot \in Slots /\ op[p].blob \in Blobs
      BY <2>1 DEF Restore
    <2>3. ASSUME NEW v \in versions[op[p].slot],
                 op' = [op EXCEPT ![p] =
                  [pc |-> "requested", slot |-> op[p].slot, blob |-> op[p].blob,
                   meta |-> v.meta, pre |-> Unconditional, limited |-> FALSE,
                   keep |-> keep, old |-> op[p].slot]]
          PROVE  IInv'
      <3> DEFINE o == [pc |-> "requested", slot |-> op[p].slot, blob |-> op[p].blob,
                       meta |-> v.meta, pre |-> Unconditional, limited |-> FALSE,
                       keep |-> keep, old |-> op[p].slot]
      <3>1. v.meta \in Meta
        BY <2>2 DEF IInv, TypeOK, Version
      <3>2. o \in OpStates /\ o.pc = "requested" /\ o.old = o.slot
        BY <2>2, <3>1, RestoreRequest DEF OpStates
      <3>3. op' = [op EXCEPT ![p] = o]
        BY <2>3
      <3> HIDE DEF o
      <3> QED
        BY <1>2, <2>1, <3>2, <3>3, LocalStep DEF RestoreReadMeta
    <2>4. CASE Finish(p)
      <3>1. Idle \in OpStates /\ Idle.pc = "idle" /\ Idle \notin Push
        BY DEF Idle, OpStates, Push
      <3> QED
        BY <1>2, <2>1, <2>4, <3>1, LocalStep DEF RestoreReadMeta, Finish
    <2> QED
      BY <1>2, <2>3, <2>4 DEF RestoreReadMeta
  <1>3. CASE StageRestore(p)
    <2>1. /\ op[p] \in Push /\ op[p].pc = "requested" /\ up
      BY <1>3, OpRecords DEF StageRestore, IInv, TypeOK, OpStates, TempInv, Idle
    <2>2. CASE op[p].old = op[p].slot
      BY <1>3, <2>1, <2>2, StageStep DEF StageRestore
    <2>3. CASE op[p].old # op[p].slot
      <3> DEFINE o == [op[p] EXCEPT !.old = op[p].slot]
      <3>1. o \in Push /\ o.pc = "requested" /\ o.old = o.slot
        BY <2>1 DEF Push, Paths
      <3>2. Stage(p, o)
        BY <1>3, <2>1 DEF StageRestore, Stage, Push
      <3> HIDE DEF o
      <3> QED
        BY <2>1, <3>1, <3>2, StageStep
    <2> QED
      BY <2>2, <2>3
  <1>4. CASE RestoreUnchanged(p)
    <2>1. Idle \in OpStates /\ Idle.pc = "idle" /\ Idle \notin Push
      BY DEF Idle, OpStates, Push
    <2> QED
      BY <1>4, <2>1, LocalStep DEF RestoreUnchanged, Finish
  <1> QED
    BY <1>1, <1>2, <1>3, <1>4 DEF RestoreStep

\* Every step of a save or game delete preserves the invariant.
LEMMA DeleteStepInv == ASSUME IInv, NEW p \in Procs, DeleteStep(p) PROVE IInv'
  <1>1. ASSUME NEW S \in SUBSET Slots, DeleteReadPaths(p, S)
        PROVE  IInv'
    <2> DEFINE o == [pc |-> "deleting", slots |-> S,
                     paths |-> {row[s].path : s \in {t \in S : row[t] # NoRow}}]
    <2>1. {row[s].path : s \in {t \in S : row[t] # NoRow}} \subseteq Paths
      BY DEF IInv, TypeOK, Row
    <2>2. o \in OpStates /\ o.pc = "deleting" /\ o \notin Push
      BY <2>1 DEF Delete, OpStates, Push
    <2>3. up /\ op[p].pc = "idle" /\ op' = [op EXCEPT ![p] = o]
      BY <1>1 DEF DeleteReadPaths, Idle
    <2> HIDE DEF o
    <2> QED
      BY <1>1, <2>2, <2>3, LocalStep DEF DeleteReadPaths
  <1>2. CASE DeleteCommit(p)
    BY <1>2, DeleteCommitStep
  <1>3. ASSUME NEW q \in Paths, Unlink(p, q)
        PROVE  IInv'
    <2> DEFINE o == [op[p] EXCEPT !.paths = @ \ {q}]
    <2>1. op[p] \in Delete /\ op[p].pc = "unlinking" /\ up
      BY <1>3, OpRecords DEF Unlink, IInv, TypeOK, OpStates, TempInv, Idle
    <2>2. o \in OpStates /\ o.pc = "unlinking"
      BY <2>1 DEF Delete, OpStates
    <2>3. op' = [op EXCEPT ![p] = o]
      BY <1>3 DEF Unlink
    <2> HIDE DEF o
    <2> QED
      BY <1>3, <2>1, <2>2, <2>3, RemoveFileStep DEF Unlink
  <1>4. CASE DeleteDone(p)
    <2>1. Idle \in OpStates /\ Idle.pc = "idle" /\ Idle \notin Push
      BY DEF Idle, OpStates, Push
    <2> QED
      BY <1>4, <2>1, LocalStep DEF DeleteDone, Finish
  <1> QED
    BY <1>1, <1>2, <1>3, <1>4 DEF DeleteStep

\* Every step of GetSave preserves the invariant.
LEMMA ReadStepInv == ASSUME IInv, NEW p \in Procs, ReadStep(p) PROVE IInv'
  <1>1. ASSUME NEW s \in Slots, ReadRow(p, s)
        PROVE  IInv'
    <2> DEFINE o == [pc |-> "reading", row |-> row[s]]
    <2>1. o \in OpStates /\ o.pc = "reading" /\ o \notin Push
      BY <1>1 DEF ReadRow, IInv, TypeOK, Read, OpStates, Push
    <2>2. up /\ op[p].pc = "idle" /\ op' = [op EXCEPT ![p] = o]
      BY <1>1 DEF ReadRow, Idle
    <2> HIDE DEF o
    <2> QED
      BY <1>1, <2>1, <2>2, LocalStep DEF ReadRow
  <1>2. CASE ReadFile(p)
    <2> DEFINE b == file[op[p].row.path]
               o == [pc |-> "served", row |-> op[p].row, blob |-> b]
    <2>1. op[p] \in Read /\ op[p].pc = "reading" /\ up
      BY <1>2, OpRecords DEF ReadFile, IInv, TypeOK, OpStates, TempInv, Idle
    <2>2. op[p].row \in Row /\ op[p].row.path \in Paths /\ op[p].row.meta \in Meta
      BY <2>1 DEF Read, Row
    <2>3. CASE b # NoBlob /\ Verified(op[p].row, b)
      <3>1. b \in Blobs
        BY <2>2, <2>3 DEF IInv, TypeOK
      <3>2. o \in OpStates /\ o.pc = "served" /\ o \notin Push
        BY <2>2, <3>1 DEF Served, OpStates, Push
      <3>3. ~op[p].row.meta.enc => MetaOf(b) = op[p].row.meta
        BY <2>2, <2>3, <3>1, BlobAssumption DEF Verified, MetaOf, Meta
      <3>4. op' = [op EXCEPT ![p] = o] /\ o.row = op[p].row /\ o.blob = b
        BY <1>2, <2>3 DEF ReadFile
      <3> HIDE DEF o, b
      <3> QED
        BY <1>2, <2>1, <3>2, <3>3, <3>4, LocalStep DEF ReadFile
    <2>4. CASE ~(b # NoBlob /\ Verified(op[p].row, b))
      <3>1. Idle \in OpStates /\ Idle.pc = "idle" /\ Idle \notin Push
        BY DEF Idle, OpStates, Push
      <3>2. Finish(p)
        BY <1>2, <2>4 DEF ReadFile
      <3> HIDE DEF b
      <3> QED
        BY <1>2, <2>1, <3>1, <3>2, LocalStep DEF ReadFile, Finish
    <2> QED
      BY <2>3, <2>4
  <1>3. CASE ReadAnswer(p)
    <2>1. Idle \in OpStates /\ Idle.pc = "idle" /\ Idle \notin Push
      BY DEF Idle, OpStates, Push
    <2> QED
      BY <1>3, <2>1, LocalStep DEF ReadAnswer, Finish
  <1> QED
    BY <1>1, <1>2, <1>3 DEF ReadStep

\* The invariant is inductive.
LEMMA NextIInv == IInv /\ [Next]_vars => IInv'
  <1> SUFFICES ASSUME IInv, [Next]_vars PROVE IInv'
    OBVIOUS
  <1>1. ASSUME NEW p \in Procs,
               PushStep(p) \/ RestoreStep(p) \/ DeleteStep(p) \/ ReadStep(p)
        PROVE  IInv'
    BY <1>1, PushStepInv, RestoreStepInv, DeleteStepInv, ReadStepInv
  <1>2. CASE PruneStep
    BY <1>2, PruneVersionsStep, PruneByAgeStep DEF PruneStep
  <1>3. CASE Crash
    BY <1>3, CrashStep
  <1>4. CASE Restart
    BY <1>4, RestartStep
  <1>5. CASE UNCHANGED vars
    BY <1>5 DEF vars, IInv, TypeOK, LockInv, PreconditionInv, CurrentHash, HistoryHead,
                PathInv, PromotedInv, TempInv, NoStrayTemps, ReadsFailClosed
  <1> QED
    BY <1>1, <1>2, <1>3, <1>4, <1>5 DEF Next

\* The invariant holds in every reachable state.
THEOREM Invariance == Spec => []IInv
  BY InitIInv, NextIInv, PTL DEF Spec

\* Every state is well formed, for any number of handlers, slots and contents.
THEOREM TypeCorrect == Spec => []TypeOK
  BY Invariance, PTL DEF IInv

\* UpsertSaveWithMeta, the deletes and both pruning jobs keep each slot's row
\* and the newest version of its history one and the same.
THEOREM HistoryHeadHolds == Spec => []HistoryHead
  BY Invariance, PTL DEF IInv

\* GetSave never serves bytes in the clear under a hash that is not theirs.
THEOREM ReadsFailClosedHolds == Spec => []ReadsFailClosed
  BY Invariance, PTL DEF IInv

\* No staged temp file outlives its request or, after a crash, the sweep of the
\* next start.
THEOREM NoStrayTempsHolds == Spec => []NoStrayTemps
  BY Invariance, PTL DEF IInv, TempInv

-----------------------------------------------------------------------------
(* Action properties.                                                      *)

\* The steps that touch the save root.
LEMMA FileSteps ==
    ASSUME Next, file' # file
    PROVE  \E p \in Procs : Promote(p) \/ DropOldPath(p) \/ \E q \in Paths : Unlink(p, q)
  <1>1. ~PruneStep /\ ~Crash /\ ~Restart
    BY DEF PruneStep, PruneVersions, PruneByAge, Crash, Restart
  <1>2. PICK p \in Procs : PushStep(p) \/ RestoreStep(p) \/ DeleteStep(p) \/ ReadStep(p)
    BY <1>1 DEF Next
  <1>3. ~RestoreStep(p)
    BY DEF RestoreStep, RestoreReadBlob, RestoreReadMeta, StageRestore, Stage, RestoreUnchanged
  <1>4. ~ReadStep(p)
    BY DEF ReadStep, ReadRow, ReadFile, ReadAnswer
  <1>5. PushStep(p) => Promote(p) \/ DropOldPath(p)
    <2>1. \A s, b, pre, keep : ~StagePush(p, s, b, pre, keep)
      BY DEF StagePush, Stage
    <2>2. ~RejectOverLimit(p) /\ ~Abort(p)
      BY DEF RejectOverLimit, Abort
    <2>3. ~Commit(p)
      BY DEF Commit
    <2> QED
      BY <2>1, <2>2, <2>3 DEF PushStep
  <1>6. DeleteStep(p) => \E q \in Paths : Unlink(p, q)
    <2>1. \A S \in (SUBSET Slots) \ {{}} : ~DeleteReadPaths(p, S)
      BY DEF DeleteReadPaths
    <2>2. ~DeleteCommit(p) /\ ~DeleteDone(p)
      BY DEF DeleteCommit, DeleteDone
    <2> QED
      BY <2>1, <2>2 DEF DeleteStep
  <1> QED
    BY <1>2, <1>3, <1>4, <1>5, <1>6

\* The steps of handlers that touch the tables.
LEMMA HandlerTables ==
    ASSUME NEW p \in Procs, row' # row \/ versions' # versions,
           PushStep(p) \/ RestoreStep(p) \/ DeleteStep(p) \/ ReadStep(p)
    PROVE  Commit(p) \/ DeleteCommit(p)
  <1>1. ~RestoreStep(p)
    BY DEF RestoreStep, RestoreReadBlob, RestoreReadMeta, StageRestore, Stage, RestoreUnchanged
  <1>2. ~ReadStep(p)
    BY DEF ReadStep, ReadRow, ReadFile, ReadAnswer
  <1>3. PushStep(p) => Commit(p)
    <2>1. \A s, b, pre, keep : ~StagePush(p, s, b, pre, keep)
      BY DEF StagePush, Stage
    <2>2. ~RejectOverLimit(p) /\ ~Promote(p) /\ ~DropOldPath(p) /\ ~Abort(p)
      BY DEF RejectOverLimit, Promote, DropOldPath, Abort
    <2> QED
      BY <2>1, <2>2 DEF PushStep
  <1>4. DeleteStep(p) => DeleteCommit(p)
    <2>1. \A S \in (SUBSET Slots) \ {{}} : ~DeleteReadPaths(p, S)
      BY DEF DeleteReadPaths
    <2>2. ~DeleteDone(p) /\ \A q : ~Unlink(p, q)
      BY DEF Unlink, DeleteDone
    <2> QED
      BY <2>1, <2>2 DEF DeleteStep
  <1> QED
    BY <1>1, <1>2, <1>3, <1>4

\* Rows only change when an upsert commits or a delete does.
LEMMA RowSteps ==
    ASSUME Next, row' # row
    PROVE  \E p \in Procs : Commit(p) \/ DeleteCommit(p)
  <1>1. ~PruneStep /\ ~Crash /\ ~Restart
    BY DEF PruneStep, PruneVersions, PruneByAge, Crash, Restart
  <1> QED
    BY <1>1, HandlerTables DEF Next

\* A file that a row or a promoted upsert needs is only ever taken away by the
\* unlink of a delete: the reference count in UpsertSaveWithMeta is enough for
\* the cleanup of a shared legacy path.
THEOREM OnlyDeletesLoseFilesHolds == Spec => OnlyDeletesLoseFiles
  <1> DEFINE Step ==
        \A q \in Paths :
           Needed(q) /\ file[q] # NoBlob /\ file'[q] = NoBlob
           => \E p \in Procs : op[p].pc = "unlinking" /\ q \in op[p].paths
  <1>1. IInv /\ [Next]_vars => [Step]_vars
    <2> SUFFICES ASSUME IInv, Next, NEW q \in Paths,
                        Needed(q), file[q] # NoBlob, file'[q] = NoBlob
                 PROVE  \E p \in Procs : op[p].pc = "unlinking" /\ q \in op[p].paths
      OBVIOUS
    <2> USE DEF IInv
    <2>1. PICK p \in Procs : Promote(p) \/ DropOldPath(p) \/ \E r \in Paths : Unlink(p, r)
      BY FileSteps
    <2>2. CASE Promote(p)
      <3>1. op[p] \in Push /\ op[p].blob # NoBlob
        BY <2>2, OpRecords, BlobAssumption DEF Promote, TypeOK, OpStates, Push
      <3> QED
        BY <2>2, <3>1 DEF Promote, TypeOK
    <2>3. CASE DropOldPath(p)
      <3>1. op[p].old = Legacy /\ q = Legacy
        BY <2>3 DEF DropOldPath, PathInv, TypeOK
      <3>2. ~\E x \in Procs : op[x].pc = "promoted" /\ op[x].slot = Legacy
        BY OpRecords, SlotAssumption DEF TypeOK, OpStates, Push
      <3> QED
        BY <2>3, <3>1, <3>2 DEF DropOldPath, Needed
    <2>4. ASSUME NEW r \in Paths, Unlink(p, r)
          PROVE  op[p].pc = "unlinking" /\ q \in op[p].paths
      BY <2>4 DEF Unlink, TypeOK
    <2> QED
      BY <2>1, <2>2, <2>3, <2>4
  <1> QED
    BY <1>1, Invariance, PTL DEF Spec, OnlyDeletesLoseFiles

\* The row that an upsert commits describes the bytes it promoted: BEGIN
\* IMMEDIATE keeps every other upsert out from the promotion to the commit.
THEOREM CommittedBytesHolds == Spec => CommittedBytes
  <1> DEFINE Step ==
        \A p \in Procs :
           op[p].pc = "promoted" /\ row' # row /\ op'[p].pc \in {"idle", "committed"}
           => file'[op[p].slot] \in {op[p].blob, NoBlob}
  <1>1. IInv /\ [Next]_vars => [Step]_vars
    <2> SUFFICES ASSUME IInv, Next, NEW p \in Procs,
                        op[p].pc = "promoted", row' # row
                 PROVE  file'[op[p].slot] \in {op[p].blob, NoBlob}
      OBVIOUS
    <2> USE DEF IInv
    <2>1. PICK x \in Procs : Commit(x) \/ DeleteCommit(x)
      BY RowSteps
    <2>2. file' = file
      BY <2>1 DEF Commit, DeleteCommit
    <2> QED
      BY <2>2 DEF PromotedInv
  <1> QED
    BY <1>1, Invariance, PTL DEF Spec, CommittedBytes

-----------------------------------------------------------------------------
(* Sums over finite sets.  A sum of naturals counts cells: f[x] of them for *)
(* each x, so that sums can be compared by comparing sets.                  *)

Cells(f, S) == UNION {{x} \X (1 .. f[x]) : x \in S}

\* What MapThenSumSet computes, as a function of the summands.
IsSum(iter, f, S) ==
    iter = [s \in SUBSET S |->
              IF s = {} THEN 0
              ELSE f[CHOOSE x \in s : TRUE] + iter[s \ {CHOOSE x \in s : TRUE}]]
Total(f, S) == (CHOOSE iter : IsSum(iter, f, S))[S]

\* There are finitely many cells.
LEMMA CellsFinite ==
    ASSUME NEW S, IsFiniteSet(S), NEW f \in [S -> Nat], NEW s \in SUBSET S
    PROVE  IsFiniteSet(Cells(f, s)) /\ Cardinality(Cells(f, s)) \in Nat
  <1> DEFINE cells == [x \in s |-> {x} \X (1 .. f[x])]
             T == {{x} \X (1 .. f[x]) : x \in s}
  <1>1. IsFiniteSet(s)
    BY FS_Subset
  <1>2. cells \in Surjection(s, T)
    BY DEF Surjection
  <1>3. IsFiniteSet(T)
    <2> HIDE DEF cells, T
    <2> QED
      BY <1>1, <1>2, FS_Surjection
  <1>4. \A t \in T : IsFiniteSet(t)
    <2> SUFFICES ASSUME NEW x \in s
                 PROVE  IsFiniteSet({x} \X (1 .. f[x]))
      OBVIOUS
    <2>1. f[x] \in Int
      OBVIOUS
    <2>2. IsFiniteSet({x})
      BY FS_Singleton
    <2>3. IsFiniteSet(1 .. f[x])
      BY <2>1, FS_Interval
    <2> QED
      BY <2>2, <2>3, FS_Product
  <1>5. IsFiniteSet(UNION T)
    BY <1>3, <1>4, FS_UNION
  <1> QED
    BY <1>5, FS_CardinalityType DEF Cells

\* One summand more adds its cells to the others.
LEMMA CellsAdd ==
    ASSUME NEW S, IsFiniteSet(S), NEW f \in [S -> Nat], NEW s \in SUBSET S,
           NEW x \in s
    PROVE  Cardinality(Cells(f, s)) = f[x] + Cardinality(Cells(f, s \ {x}))
  <1> DEFINE mine == {x} \X (1 .. f[x])
             rest == Cells(f, s \ {x})
  <1>1. f[x] \in Nat
    OBVIOUS
  <1>2. IsFiniteSet(mine) /\ Cardinality(mine) = f[x]
    <2>1. IsFiniteSet({x}) /\ Cardinality({x}) = 1
      BY FS_Singleton
    <2>2. IsFiniteSet(1 .. f[x]) /\ Cardinality(1 .. f[x]) = f[x]
      BY <1>1, FS_Interval
    <2> QED
      BY <2>1, <2>2, <1>1, FS_Product
  <1>3. IsFiniteSet(rest) /\ Cardinality(rest) \in Nat
    BY CellsFinite
  <1>4. Cells(f, s) = mine \cup rest
    BY DEF Cells
  <1>5. mine \cap rest = {}
    BY DEF Cells
  <1>6. Cardinality(mine \cup rest) = f[x] + Cardinality(rest)
    <2> HIDE DEF mine, rest
    <2>1. Cardinality(mine \cap rest) = 0
      BY <1>5, FS_EmptySet
    <2>2. Cardinality(mine \cup rest)
            = Cardinality(mine) + Cardinality(rest) - Cardinality(mine \cap rest)
      BY <1>2, <1>3, FS_Union
    <2> QED
      BY <1>1, <1>2, <1>3, <2>1, <2>2
  <1> QED
    BY <1>4, <1>6

\* The recursion of a sum has exactly one solution: the number of cells.  (A
\* smallest subset where two solutions differ would have a smaller one.)
LEMMA TotalIsCount ==
    ASSUME NEW S, IsFiniteSet(S), NEW f \in [S -> Nat]
    PROVE  Total(f, S) = Cardinality(Cells(f, S)) /\ Total(f, S) \in Nat
  <1> DEFINE count == [s \in SUBSET S |-> Cardinality(Cells(f, s))]
             any(s) == CHOOSE x \in s : TRUE
  <1>1. \A s \in SUBSET S : s # {} =>
            /\ any(s) \in s
            /\ count[s] = f[any(s)] + count[s \ {any(s)}]
    <2> SUFFICES ASSUME NEW s \in SUBSET S, s # {}
                 PROVE  any(s) \in s /\ count[s] = f[any(s)] + count[s \ {any(s)}]
      OBVIOUS
    <2>1. any(s) \in s
      OBVIOUS
    <2> HIDE DEF any
    <2>2. Cardinality(Cells(f, s)) = f[any(s)] + Cardinality(Cells(f, s \ {any(s)}))
      BY <2>1, CellsAdd
    <2> QED
      BY <2>1, <2>2
  <1>2. count[{}] = 0
    BY FS_EmptySet DEF Cells
  <1>3. IsSum(count, f, S)
    <2>1. \A s \in SUBSET S :
            count[s] = IF s = {} THEN 0
                       ELSE f[CHOOSE x \in s : TRUE] + count[s \ {CHOOSE x \in s : TRUE}]
      BY <1>1, <1>2
    <2> QED
      BY <2>1 DEF IsSum
  <1>4. ASSUME NEW iter, IsSum(iter, f, S)
        PROVE  iter[S] = count[S]
    <2> DEFINE bad == {s \in SUBSET S : iter[s] # count[s]}
               sizes == {Cardinality(s) : s \in bad}
    <2>1. /\ iter[{}] = 0
          /\ \A s \in SUBSET S : s # {} => iter[s] = f[any(s)] + iter[s \ {any(s)}]
      BY <1>4 DEF IsSum
    <2>2. \A s \in SUBSET S : IsFiniteSet(s) /\ Cardinality(s) \in Nat
      BY FS_Subset, FS_CardinalityType
    <2>3. bad = {}
      <3> SUFFICES ASSUME bad # {} PROVE FALSE
        OBVIOUS
      <3>1. sizes \subseteq Nat /\ sizes # {}
        BY <2>2
      <3>2. PICK n \in sizes : \A m \in sizes : ~(m < n)
        <4> HIDE DEF sizes
        <4>1. PICK n \in sizes : \A m \in sizes : ~(<<m, n>> \in OpToRel(<, Nat))
          BY <3>1, NatLessThanWellFounded, WFMin
        <4> QED
          BY <3>1, <4>1 DEF OpToRel
      <3>3. PICK s \in bad : Cardinality(s) = n
        BY <3>2
      <3>4. s # {}
        BY <2>1, <1>2
      <3>5. Cardinality(s \ {any(s)}) = n - 1 /\ n \in Nat
        BY <3>3, <3>4, <1>1, <2>2, FS_RemoveElement
      <3>6. s \ {any(s)} \in bad
        BY <3>4, <2>1, <1>1
      <3>7. n - 1 \in sizes
        BY <3>5, <3>6
      <3>8. ~(n - 1 < n)
        BY <3>2, <3>7
      <3> QED
        BY <3>5, <3>8
    <2> QED
      BY <2>3
  <1>5. IsSum(CHOOSE iter : IsSum(iter, f, S), f, S)
    BY <1>3
  <1>6. Total(f, S) = count[S]
    BY <1>4, <1>5 DEF Total
  <1> QED
    BY <1>6, CellsFinite

\* A sum does not grow when summands do not, and some are left out.
LEMMA TotalShrinks ==
    ASSUME NEW S, IsFiniteSet(S), NEW f \in [S -> Nat],
           NEW T \in SUBSET S, NEW g \in [T -> Nat], \A x \in T : g[x] <= f[x]
    PROVE  Total(g, T) <= Total(f, S)
  <1>1. Cells(g, T) \subseteq Cells(f, S)
    <2> SUFFICES ASSUME NEW x \in T
                 PROVE  {x} \X (1 .. g[x]) \subseteq {x} \X (1 .. f[x])
      BY DEF Cells
    <2>1. g[x] \in Nat /\ f[x] \in Nat /\ g[x] <= f[x]
      OBVIOUS
    <2>2. 1 .. g[x] \subseteq 1 .. f[x]
      BY <2>1
    <2> QED
      BY <2>2
  <1>2. IsFiniteSet(T) /\ IsFiniteSet(Cells(f, S))
    BY FS_Subset, CellsFinite
  <1> QED
    BY <1>1, <1>2, TotalIsCount, FS_Subset

-----------------------------------------------------------------------------
(* The bytes counted against the limits.                                   *)

RowBytes(rows) == [s \in Slots |-> IF rows[s] = NoRow THEN 0 ELSE rows[s].size]
BlobBytes(vs) == [v \in vs |-> v.blob.size]
HistoryBytes(vers) == [s \in Slots |-> Total(BlobBytes(vers[s]), vers[s])]

\* Tables whose bytes can be counted.
Countable(rows, vers) ==
    /\ rows \in [Slots -> Row \cup {NoRow}]
    /\ vers \in [Slots -> SUBSET Version]
    /\ \A s \in Slots : IsFiniteSet(vers[s])

\* Usage is the sum over the rows and the sum, over the slots, of the sums
\* over their histories.
LEMMA UsageIsTotals ==
    ASSUME NEW rows, NEW vers
    PROVE  Usage(rows, vers) = Total(RowBytes(rows), Slots) + Total(HistoryBytes(vers), Slots)
  <1>1. MapThenSumSet(LAMBDA s : IF rows[s] = NoRow THEN 0 ELSE rows[s].size, Slots)
          = Total(RowBytes(rows), Slots)
    BY DEF MapThenSumSet, MapThenFoldSet, Total, IsSum, RowBytes
  <1>2. \A s \in Slots : MapThenSumSet(LAMBDA v : v.blob.size, vers[s])
                           = Total(BlobBytes(vers[s]), vers[s])
    BY DEF MapThenSumSet, MapThenFoldSet, Total, IsSum, BlobBytes
  <1>3. HistoryBytes(vers) = [s \in Slots |-> MapThenSumSet(LAMBDA v : v.blob.size, vers[s])]
    BY <1>2 DEF HistoryBytes
  <1>4. MapThenSumSet(LAMBDA s : MapThenSumSet(LAMBDA v : v.blob.size, vers[s]), Slots)
          = Total([s \in Slots |-> MapThenSumSet(LAMBDA v : v.blob.size, vers[s])], Slots)
    BY DEF MapThenSumSet, MapThenFoldSet, Total, IsSum
  <1> QED
    BY <1>1, <1>3, <1>4 DEF Usage

\* What is summed are naturals, and so is the sum.
LEMMA CountableTypes ==
    ASSUME NEW rows, NEW vers, Countable(rows, vers)
    PROVE  /\ RowBytes(rows) \in [Slots -> Nat]
           /\ \A s \in Slots : BlobBytes(vers[s]) \in [vers[s] -> Nat]
           /\ HistoryBytes(vers) \in [Slots -> Nat]
           /\ Total(RowBytes(rows), Slots) \in Nat
           /\ Total(HistoryBytes(vers), Slots) \in Nat
           /\ Usage(rows, vers) \in Nat
  <1>1. RowBytes(rows) \in [Slots -> Nat]
    BY DEF Countable, RowBytes, Row
  <1>2. \A s \in Slots : BlobBytes(vers[s]) \in [vers[s] -> Nat]
    BY BlobAssumption DEF Countable, BlobBytes, Version
  <1>3. HistoryBytes(vers) \in [Slots -> Nat]
    BY <1>2, TotalIsCount DEF Countable, HistoryBytes
  <1>4. Total(RowBytes(rows), Slots) \in Nat /\ Total(HistoryBytes(vers), Slots) \in Nat
    BY <1>1, <1>3, FiniteSlots, TotalIsCount
  <1> QED
    BY <1>1, <1>2, <1>3, <1>4, UsageIsTotals

\* Removing rows and versions frees bytes.
LEMMA UsageShrinks ==
    ASSUME NEW rows, NEW vers, Countable(rows, vers),
           NEW rows2, NEW vers2, Countable(rows2, vers2),
           \A s \in Slots : rows2[s] \in {rows[s], NoRow} /\ vers2[s] \subseteq vers[s]
    PROVE  Usage(rows2, vers2) <= Usage(rows, vers)
  <1>1. Total(RowBytes(rows2), Slots) <= Total(RowBytes(rows), Slots)
    <2>1. \A s \in Slots : RowBytes(rows2)[s] <= RowBytes(rows)[s]
      BY DEF RowBytes, Countable, Row
    <2> QED
      BY <2>1, CountableTypes, FiniteSlots, TotalShrinks
  <1>2. Total(HistoryBytes(vers2), Slots) <= Total(HistoryBytes(vers), Slots)
    <2>1. ASSUME NEW s \in Slots
          PROVE  HistoryBytes(vers2)[s] <= HistoryBytes(vers)[s]
      <3>1. /\ BlobBytes(vers[s]) \in [vers[s] -> Nat]
            /\ BlobBytes(vers2[s]) \in [vers2[s] -> Nat]
            /\ IsFiniteSet(vers[s])
            /\ vers2[s] \in SUBSET vers[s]
        BY CountableTypes DEF Countable
      <3>2. \A v \in vers2[s] : BlobBytes(vers2[s])[v] <= BlobBytes(vers[s])[v]
        <4> SUFFICES ASSUME NEW v \in vers2[s]
                     PROVE  BlobBytes(vers2[s])[v] <= BlobBytes(vers[s])[v]
          OBVIOUS
        <4>1. v \in vers[s] /\ v.blob.size \in Nat
          BY <3>1, BlobAssumption DEF Countable, Version
        <4> QED
          BY <4>1 DEF BlobBytes
      <3>3. Total(BlobBytes(vers2[s]), vers2[s]) <= Total(BlobBytes(vers[s]), vers[s])
        BY <3>1, <3>2, TotalShrinks
      <3> QED
        BY <3>3 DEF HistoryBytes
    <2> QED
      BY <2>1, CountableTypes, FiniteSlots, TotalShrinks
  <1> QED
    BY <1>1, <1>2, CountableTypes, UsageIsTotals

\* A history is finite, and the limits that an upload passed before its file
\* was promoted are still kept: it holds the write lock until its commit.
QuotaInv ==
    /\ \A s \in Slots : IsFiniteSet(versions[s])
    /\ \A p \in Procs : op[p].pc = "promoted" => WithinLimits(op[p])

\* History only changes when an upsert or a delete commits or a job prunes it.
LEMMA HistorySteps ==
    ASSUME Next, versions' # versions
    PROVE  \/ \E p \in Procs : Commit(p) \/ DeleteCommit(p)
           \/ PruneStep
  <1>1. ~Crash /\ ~Restart
    BY DEF Crash, Restart
  <1> QED
    BY <1>1, HandlerTables DEF Next

\* A delete or a pruning job takes away rows and versions and adds none, and
\* finds no upload between promotion and commit.
LEMMA Removals ==
    ASSUME IInv, (\E p \in Procs : DeleteCommit(p)) \/ PruneStep
    PROVE  /\ \A s \in Slots : row'[s] \in {row[s], NoRow} /\ versions'[s] \subseteq versions[s]
           /\ \A x \in Procs : op[x].pc # "promoted"
  <1> USE DEF IInv
  <1>1. CASE \E p \in Procs : DeleteCommit(p)
    <2>1. PICK p \in Procs : DeleteCommit(p)
      BY <1>1
    <2>2. txOwner = {}
      BY <2>1 DEF DeleteCommit, CanWrite
    <2> QED
      BY <2>1, <2>2 DEF DeleteCommit, LockInv
  <1>2. CASE PruneStep
    <2>1. txOwner = {} /\ row' = row
      BY <1>2 DEF PruneStep, PruneVersions, PruneByAge, CanWrite
    <2>2. \A s \in Slots : versions'[s] \subseteq versions[s]
      BY <1>2 DEF PruneStep, PruneVersions, PruneByAge
    <2> QED
      BY <2>1, <2>2 DEF LockInv
  <1> QED
    BY <1>1, <1>2

\* What a commit leaves of the history is finite.
LEMMA CommitFinite ==
    ASSUME IInv, QuotaInv, NEW p \in Procs, Commit(p)
    PROVE  \A s \in Slots : IsFiniteSet(versions'[s])
  <1> USE DEF IInv
  <1> DEFINE o == op[p]
             added(s) == versions[s] \cup {[ver |-> NextVer(versions[s]), blob |-> o.blob,
                                            meta |-> o.meta]}
  <1>1. \A s \in Slots : versions'[s] \in {versions[s], Trimmed(added(s), o.keep)}
    BY DEF Commit, VersionsAfter, NewVersions, TypeOK
  <1>2. \A s \in Slots : IsFiniteSet(added(s))
    BY FS_AddElement DEF QuotaInv
  <1>3. \A s \in Slots : Trimmed(added(s), o.keep) \subseteq added(s)
    BY DEF Trimmed
  <1> HIDE DEF added
  <1>4. \A s \in Slots : IsFiniteSet(Trimmed(added(s), o.keep))
    BY <1>2, <1>3, FS_Subset
  <1> QED
    BY <1>1, <1>4 DEF QuotaInv

LEMMA InitQuota == Init => QuotaInv
  <1> SUFFICES ASSUME Init PROVE QuotaInv
    OBVIOUS
  <1>1. \A s \in Slots : IsFiniteSet(versions[s])
    BY FS_EmptySet, FS_Singleton DEF Init
  <1>2. \A p \in Procs : op[p].pc = "idle"
    BY DEF Init, Idle
  <1> QED
    BY <1>1, <1>2 DEF QuotaInv

\* A handler that is promoted after a step was promoted before it, unchanged,
\* or has just passed the limits.
LEMMA PromotedSteps ==
    ASSUME IInv, Next, NEW x \in Procs, op'[x].pc = "promoted"
    PROVE  \/ op'[x] = op[x]
           \/ /\ op[x].pc = "staged" /\ op' = [op EXCEPT ![x].pc = "promoted"]
              /\ WithinLimits(op[x]) /\ UNCHANGED <<row, versions>>
  <1> USE DEF IInv
  <1>1. op \in [Procs -> OpStates]
    BY DEF TypeOK, OpStates
  <1>2. CASE PruneStep \/ Crash \/ Restart
    BY <1>2 DEF PruneStep, PruneVersions, PruneByAge, Crash, Restart, Idle
  <1>3. ASSUME NEW p \in Procs, PushStep(p) \/ RestoreStep(p) \/ DeleteStep(p) \/ ReadStep(p)
        PROVE  op'[x] = op[x] \/ Promote(x)
    <2>1. ASSUME NEW o, op' = [op EXCEPT ![p] = o], o.pc # "promoted"
          PROVE  op'[x] = op[x]
      BY <2>1, <1>1
    <2>2. Idle.pc # "promoted"
      BY DEF Idle
    <2>3. CASE PushStep(p)
      <3>1. ASSUME NEW s, NEW b, NEW pre, NEW keep, StagePush(p, s, b, pre, keep)
            PROVE  op'[x] = op[x]
        BY <3>1, <1>1 DEF StagePush, Stage
      <3>2. CASE RejectOverLimit(p) \/ DropOldPath(p) \/ Abort(p)
        BY <3>2, <2>1, <2>2 DEF RejectOverLimit, DropOldPath, Abort, Finish
      <3>3. CASE Commit(p)
        <4>1. op' = [op EXCEPT ![p] = Idle] \/ op' = [op EXCEPT ![p].pc = "committed"]
          BY <3>3 DEF Commit, Finish, Goto
        <4>2. op[p] \in Push
          BY <3>3, <1>1, OpRecords DEF Commit
        <4> QED
          BY <4>1, <4>2, <1>1, <2>2 DEF Push
      <3>4. CASE Promote(p)
        BY <3>4, <1>1 DEF Promote, Goto
      <3> QED
        BY <2>3, <3>1, <3>2, <3>3, <3>4 DEF PushStep
    <2>4. CASE RestoreStep(p)
      <3>1. ASSUME NEW s, NEW v, RestoreReadBlob(p, s, v) PROVE op'[x] = op[x]
        BY <3>1, <1>1 DEF RestoreReadBlob
      <3>2. ASSUME NEW keep, RestoreReadMeta(p, keep) PROVE op'[x] = op[x]
        BY <3>2, <1>1, <2>2 DEF RestoreReadMeta, Finish
      <3>3. CASE StageRestore(p)
        <4>1. op[p] \in Push
          BY <3>3, <1>1, OpRecords DEF StageRestore
        <4> QED
          BY <3>3, <1>1, <4>1 DEF StageRestore, Stage, Push
      <3>4. CASE RestoreUnchanged(p)
        BY <3>4, <2>1, <2>2 DEF RestoreUnchanged, Finish
      <3> QED
        BY <2>4, <3>1, <3>2, <3>3, <3>4 DEF RestoreStep
    <2>5. CASE DeleteStep(p)
      <3>1. ASSUME NEW S, DeleteReadPaths(p, S) PROVE op'[x] = op[x]
        BY <3>1, <1>1 DEF DeleteReadPaths
      <3>2. CASE DeleteCommit(p)
        BY <3>2, <1>1 DEF DeleteCommit, Goto
      <3>3. ASSUME NEW q, Unlink(p, q) PROVE op'[x] = op[x]
        <4>1. op[p] \in Delete
          BY <3>3, <1>1, OpRecords DEF Unlink
        <4>2. op' = [op EXCEPT ![p] = [op[p] EXCEPT !.paths = op[p].paths \ {q}]]
          BY <3>3 DEF Unlink
        <4>3. [op[p] EXCEPT !.paths = op[p].paths \ {q}].pc = "unlinking"
          BY <3>3, <4>1 DEF Unlink, Delete
        <4> QED
          BY <2>1, <4>2, <4>3
      <3>4. CASE DeleteDone(p)
        BY <3>4, <2>1, <2>2 DEF DeleteDone, Finish
      <3> QED
        BY <2>5, <3>1, <3>2, <3>3, <3>4 DEF DeleteStep
    <2>6. CASE ReadStep(p)
      <3>1. ASSUME NEW s, ReadRow(p, s) PROVE op'[x] = op[x]
        BY <3>1, <1>1 DEF ReadRow
      <3>2. CASE ReadFile(p)
        BY <3>2, <1>1, <2>2 DEF ReadFile, Finish
      <3>3. CASE ReadAnswer(p)
        BY <3>3, <2>1, <2>2 DEF ReadAnswer, Finish
      <3> QED
        BY <2>6, <3>1, <3>2, <3>3 DEF ReadStep
    <2> QED
      BY <1>3, <2>3, <2>4, <2>5, <2>6
  <1>4. Promote(x) => /\ op[x].pc = "staged" /\ op' = [op EXCEPT ![x].pc = "promoted"]
                      /\ WithinLimits(op[x]) /\ UNCHANGED <<row, versions>>
    BY DEF Promote, Goto
  <1> QED
    BY <1>2, <1>3, <1>4 DEF Next

\* The limits look at the content, the slot and the retention of an upload.
LEMMA LimitsOf ==
    ASSUME TypeOK, NEW x \in Procs, op[x].pc = "staged",
           op' = [op EXCEPT ![x].pc = "promoted"], UNCHANGED <<row, versions>>,
           WithinLimits(op[x])
    PROVE  WithinLimits(op[x])'
  <1>1. op[x] \in Push
    BY OpRecords DEF TypeOK, OpStates
  <1>2. /\ op'[x].slot = op[x].slot /\ op'[x].blob = op[x].blob
        /\ op'[x].meta = op[x].meta /\ op'[x].keep = op[x].keep
        /\ op'[x].limited = op[x].limited
    BY <1>1 DEF TypeOK, Push
  <1>3. RowsAfter(op[x])' = RowsAfter(op[x]) /\ VersionsAfter(op[x])' = VersionsAfter(op[x])
    BY <1>2 DEF RowsAfter, VersionsAfter, NewRow, NewVersions
  <1> QED
    BY <1>2, <1>3 DEF WithinLimits

\* A step of an invariant store leaves tables that can be counted.
LEMMA StepCountable ==
    ASSUME IInv, QuotaInv, [Next]_vars
    PROVE  Countable(row, versions) /\ Countable(row', versions')
  <1>1. TypeOK /\ TypeOK'
    BY NextIInv DEF IInv
  <1>2. \A s \in Slots : IsFiniteSet(versions'[s])
    <2>1. CASE versions' = versions
      BY <2>1 DEF QuotaInv
    <2>2. CASE versions' # versions
      <3>1. (\E p \in Procs : Commit(p) \/ DeleteCommit(p)) \/ PruneStep
        BY <2>2, HistorySteps DEF vars
      <3>2. ASSUME NEW p \in Procs, Commit(p) PROVE \A s \in Slots : IsFiniteSet(versions'[s])
        BY <3>2, CommitFinite
      <3>3. CASE (\E p \in Procs : DeleteCommit(p)) \/ PruneStep
        <4>1. \A s \in Slots : versions'[s] \subseteq versions[s]
          BY <3>3, Removals
        <4> QED
          BY <4>1, FS_Subset DEF QuotaInv
      <3> QED
        BY <3>1, <3>2, <3>3
    <2> QED
      BY <2>1, <2>2
  <1> QED
    BY <1>1, <1>2 DEF Countable, QuotaInv, TypeOK

LEMMA QuotaStep == IInv /\ QuotaInv /\ [Next]_vars => QuotaInv'
  <1> SUFFICES ASSUME IInv, QuotaInv, [Next]_vars
               PROVE  QuotaInv'
    OBVIOUS
  <1>1. \A s \in Slots : IsFiniteSet(versions'[s])
    BY StepCountable DEF Countable
  <1>2. ASSUME NEW x \in Procs, op'[x].pc = "promoted"
        PROVE  WithinLimits(op[x])'
    <2>1. CASE UNCHANGED vars
      <3>1. op'[x] = op[x] /\ WithinLimits(op[x]) /\ UNCHANGED <<row, versions>>
        BY <2>1, <1>2 DEF vars, QuotaInv
      <3> QED
        BY <3>1 DEF WithinLimits, RowsAfter, VersionsAfter
    <2>2. CASE Next
      <3>1. CASE op'[x] = op[x]
        <4>1. op[x].pc = "promoted" /\ WithinLimits(op[x]) /\ txOwner = {x}
          BY <3>1, <1>2 DEF QuotaInv, IInv, LockInv
        <4>2. UNCHANGED <<row, versions>>
          <5>1. ~PruneStep /\ \A p \in Procs : ~DeleteCommit(p)
            BY <4>1, Removals
          <5>2. ASSUME NEW p \in Procs, Commit(p) PROVE FALSE
            <6>1. p = x
              BY <5>2, <4>1 DEF Commit, IInv, LockInv
            <6>2. op'[p].pc \in {"idle", "committed"}
              <7>1. op[p] \in Push
                BY <5>2, OpRecords DEF Commit, IInv, TypeOK, OpStates
              <7>2. op' = [op EXCEPT ![p] = Idle] \/ op' = [op EXCEPT ![p].pc = "committed"]
                BY <5>2 DEF Commit, Finish, Goto
              <7> QED
                BY <7>1, <7>2 DEF IInv, TypeOK, Push, Idle
            <6> QED
              BY <6>1, <6>2, <1>2
          <5> QED
            BY <2>2, <5>1, <5>2, RowSteps, HistorySteps
        <4> QED
          BY <3>1, <4>1, <4>2 DEF WithinLimits, RowsAfter, VersionsAfter
      <3>2. CASE op'[x] # op[x]
        <4>1. /\ op[x].pc = "staged" /\ op' = [op EXCEPT ![x].pc = "promoted"]
              /\ WithinLimits(op[x]) /\ UNCHANGED <<row, versions>>
          BY <2>2, <3>2, <1>2, PromotedSteps
        <4> QED
          BY <4>1, <1>2, LimitsOf DEF IInv
      <3> QED
        BY <3>1, <3>2
    <2> QED
      BY <2>1, <2>2
  <1> QED
    BY <1>1, <1>2 DEF QuotaInv

\* Stored bytes, history included, never grow beyond a limit but by the restore
\* of an old version: the limits are checked under the write lock, which the
\* upload keeps until its row is committed.  (checkUserQuotaTx.)
THEOREM GrowthStaysWithinLimitsHolds == Spec => GrowthStaysWithinLimits
  <1> DEFINE Step ==
        versions' # versions /\ Usage(row', versions') > Usage(row, versions)
        => \/ \A limit \in Limits : Usage(row', versions') <= limit
           \/ \E p \in Procs : op[p].pc = "promoted" /\ ~op[p].limited
  <1>1. IInv /\ QuotaInv /\ [Next]_vars => [Step]_vars
    <2> SUFFICES ASSUME IInv, QuotaInv, Next, versions' # versions,
                        Usage(row', versions') > Usage(row, versions)
                 PROVE  \/ \A limit \in Limits : Usage(row', versions') <= limit
                        \/ \E p \in Procs : op[p].pc = "promoted" /\ ~op[p].limited
      OBVIOUS
    <2>1. /\ Countable(row, versions) /\ Countable(row', versions')
          /\ Usage(row, versions) \in Nat /\ Usage(row', versions') \in Nat
      BY StepCountable, CountableTypes
    <2>2. ~PruneStep /\ \A p \in Procs : ~DeleteCommit(p)
      <3> SUFFICES ASSUME (\E p \in Procs : DeleteCommit(p)) \/ PruneStep
                   PROVE  FALSE
        OBVIOUS
      <3>1. Usage(row', versions') <= Usage(row, versions)
        BY <2>1, Removals, UsageShrinks
      <3> QED
        BY <2>1, <3>1
    <2>3. PICK p \in Procs : Commit(p)
      BY <2>2, HistorySteps
    <2>4. /\ op[p].pc = "promoted" /\ WithinLimits(op[p])
          /\ row' = RowsAfter(op[p]) /\ versions' = VersionsAfter(op[p])
      BY <2>3 DEF Commit, QuotaInv
    <2>5. CASE op[p].limited
      <3>1. \A limit \in Limits : \/ Usage(row', versions') <= limit
                                  \/ Usage(row', versions') <= Usage(row, versions)
        BY <2>4, <2>5 DEF WithinLimits
      <3>2. ~(Usage(row', versions') <= Usage(row, versions))
        BY <2>1
      <3> QED
        BY <3>1, <3>2
    <2> QED
      BY <2>4, <2>5
  <1>2. Spec => [](IInv /\ QuotaInv)
    <2>1. Init => IInv /\ QuotaInv
      BY InitIInv, InitQuota
    <2>2. IInv /\ QuotaInv /\ [Next]_vars => (IInv /\ QuotaInv)'
      BY NextIInv, QuotaStep
    <2> QED
      BY <2>1, <2>2, PTL DEF Spec
  <1>3. [](IInv /\ QuotaInv) /\ [][Next]_vars => [][Step]_vars
    BY <1>1, PTL
  <1> QED
    BY <1>2, <1>3, PTL DEF Spec, GrowthStaysWithinLimits

-----------------------------------------------------------------------------
(* The refinement.                                                         *)

\* The request that the register sees in a handler's local state.
RequestOf(o) ==
    CASE o.pc \in {"requested", "staged", "promoted"} ->
            [kind |-> "write", slot |-> o.slot, meta |-> o.meta, pre |-> o.pre]
      [] o.pc = "deleting" -> [kind |-> "remove", slots |-> o.slots]
      [] OTHER -> [kind |-> "none"]

\* The refinement mapping of requests, handler by handler.
LEMMA Requests == requests = [p \in Procs |-> RequestOf(op[p])]
  BY DEF requests, RequestOf

\* Mapped requests are requests of the abstract register.
LEMMA RequestType ==
    ASSUME NEW o \in OpStates
    PROVE  /\ RequestOf(o) \in Register!Writes \cup Register!Removes \cup {Register!NoRequest}
           /\ o.pc \in {"requested", "staged", "promoted"} =>
                /\ RequestOf(o) = [kind |-> "write", slot |-> o.slot,
                                   meta |-> o.meta, pre |-> o.pre]
                /\ RequestOf(o) \in Register!Writes
           /\ o.pc = "deleting" =>
                /\ RequestOf(o) = [kind |-> "remove", slots |-> o.slots]
                /\ RequestOf(o) \in Register!Removes
           /\ o.pc \notin {"requested", "staged", "promoted", "deleting"} =>
                RequestOf(o) = Register!NoRequest
  <1>1. CASE o.pc \in {"requested", "staged", "promoted"}
    <2>1. o \in Push
      BY <1>1, OpRecords
    <2>2. RequestOf(o) = [kind |-> "write", slot |-> o.slot, meta |-> o.meta, pre |-> o.pre]
      BY <1>1 DEF RequestOf
    <2>3. RequestOf(o) \in Register!Writes
      BY <2>1, <2>2 DEF Push, Preconditions, Register!Writes
    <2> QED
      BY <1>1, <2>2, <2>3
  <1>2. CASE o.pc = "deleting"
    <2>1. o \in Delete
      BY <1>2, OpRecords
    <2>2. RequestOf(o) = [kind |-> "remove", slots |-> o.slots]
      BY <1>2 DEF RequestOf
    <2> QED
      BY <1>2, <2>1, <2>2 DEF Delete, Register!Removes
  <1>3. CASE o.pc \notin {"requested", "staged", "promoted", "deleting"}
    BY <1>3 DEF RequestOf, Register!NoRequest
  <1> QED
    BY <1>1, <1>2, <1>3

\* A step of one handler that leaves the rows alone is an arrival, the end of a
\* request without effect, or a stutter.
LEMMA LocalRefines ==
    ASSUME TypeOK, NEW p \in Procs, NEW o \in OpStates,
           op' = [op EXCEPT ![p] = o], row' = row,
           \/ RequestOf(o) = RequestOf(op[p])
           \/ RequestOf(o) = Register!NoRequest
           \/ RequestOf(op[p]) = Register!NoRequest
    PROVE  [Register!RegNext]_Register!regVars
  <1>1. registers' = registers
    BY DEF registers
  <1>2. /\ op' \in [Procs -> OpStates] /\ op'[p] = o
        /\ \A x \in Procs \ {p} : op'[x] = op[x]
    BY OpUpdate
  <1>3. requests[p] = RequestOf(op[p]) /\ requests'[p] = RequestOf(o)
    BY <1>2 DEF requests, RequestOf
  <1>4. requests' = [requests EXCEPT ![p] = RequestOf(o)]
    <2>1. requests' = [x \in Procs |-> RequestOf(op'[x])]
      BY DEF requests, RequestOf
    <2> QED
      BY <1>2, <2>1, Requests
  <1>5. CASE RequestOf(o) = RequestOf(op[p])
    <2>1. requests' = requests
      BY <1>3, <1>4, <1>5, Requests
    <2> QED
      BY <1>1, <2>1 DEF Register!regVars
  <1>6. CASE RequestOf(o) = Register!NoRequest /\ RequestOf(op[p]) # Register!NoRequest
    BY <1>1, <1>3, <1>4, <1>6 DEF Register!RegNext, Register!NoEffect, Register!Answered
  <1>7. CASE RequestOf(op[p]) = Register!NoRequest /\ RequestOf(o) # Register!NoRequest
    <2>1. RequestOf(o) \in Register!Writes \cup Register!Removes
      BY <1>7, RequestType
    <2> QED
      BY <1>1, <1>3, <1>4, <1>7, <2>1 DEF Register!RegNext, Register!Arrive
  <1> QED
    BY <1>5, <1>6, <1>7

\* The steps of a handler that leave the rows alone.
LEMMA HandlerRefines ==
    ASSUME TypeOK, TypeOK', NEW p \in Procs, row' = row,
           PushStep(p) \/ RestoreStep(p) \/ DeleteStep(p) \/ ReadStep(p),
           ~Commit(p), ~DeleteCommit(p)
    PROVE  [Register!RegNext]_Register!regVars
  <1> DEFINE o == op'[p]
  <1>1. o \in OpStates /\ op[p] \in OpStates /\ Idle.pc = "idle"
    BY DEF TypeOK, OpStates, Idle
  <1>2. ASSUME op[p] \in Push, op[p].pc \in {"requested", "staged"},
               NEW l \in {"staged", "promoted"}, NEW q \in Paths,
               o = [op[p] EXCEPT !.pc = l, !.old = q]
        PROVE  RequestOf(o) = RequestOf(op[p])
    BY <1>2 DEF RequestOf, Push
  <1>3. /\ op' = [op EXCEPT ![p] = o]
        /\ \/ RequestOf(o) = RequestOf(op[p])
           \/ o.pc \notin {"requested", "staged", "promoted", "deleting"}
           \/ op[p].pc \notin {"requested", "staged", "promoted", "deleting"}
    <2>1. CASE PushStep(p)
      <3>1. ASSUME NEW s, NEW b, NEW pre, NEW keep, StagePush(p, s, b, pre, keep)
            PROVE  <1>3!1 /\ op[p].pc = "idle"
        BY <3>1, <1>1 DEF StagePush, Stage, TypeOK
      <3>2. CASE Promote(p)
        <4>1. op[p] \in Push
          BY <3>2, <1>1, OpRecords DEF Promote
        <4>2. <1>3!1 /\ o = [op[p] EXCEPT !.pc = "promoted", !.old = op[p].old]
          BY <3>2, <4>1 DEF Promote, Goto, TypeOK, Push
        <4> QED
          BY <3>2, <4>1, <4>2, <1>2 DEF Promote, Push
      <3>3. CASE RejectOverLimit(p) \/ Abort(p) \/ DropOldPath(p)
        BY <3>3, <1>1 DEF RejectOverLimit, Abort, DropOldPath, Finish, TypeOK
      <3> QED
        BY <2>1, <3>1, <3>2, <3>3 DEF PushStep
    <2>2. CASE RestoreStep(p)
      <3>1. ASSUME NEW s, NEW v, RestoreReadBlob(p, s, v)
            PROVE  <1>3!1 /\ op[p].pc = "idle"
        BY <3>1, <1>1 DEF RestoreReadBlob, TypeOK
      <3>2. ASSUME NEW keep, RestoreReadMeta(p, keep)
            PROVE  <1>3!1 /\ op[p].pc = "restoring"
        BY <3>2 DEF RestoreReadMeta, Finish, TypeOK
      <3>3. CASE StageRestore(p)
        <4>1. op[p] \in Push /\ op[p].slot \in Slots
          BY <3>3, <1>1, OpRecords DEF StageRestore, Push
        <4> DEFINE q == IF row[op[p].slot] = NoRow THEN op[p].slot
                        ELSE row[op[p].slot].path
        <4>2. q \in Paths
          BY <4>1 DEF TypeOK, Row, Paths
        <4>3. <1>3!1 /\ o = [op[p] EXCEPT !.pc = "staged", !.old = q]
          BY <3>3 DEF StageRestore, Stage, TypeOK
        <4> HIDE DEF q
        <4> QED
          BY <3>3, <4>1, <4>2, <4>3, <1>2 DEF StageRestore
      <3>4. CASE RestoreUnchanged(p)
        BY <3>4, <1>1 DEF RestoreUnchanged, Finish, TypeOK
      <3> QED
        BY <2>2, <3>1, <3>2, <3>3, <3>4 DEF RestoreStep
    <2>3. CASE DeleteStep(p)
      <3>1. ASSUME NEW S, DeleteReadPaths(p, S)
            PROVE  <1>3!1 /\ op[p].pc = "idle"
        BY <3>1, <1>1 DEF DeleteReadPaths, TypeOK
      <3>2. ASSUME NEW q, Unlink(p, q)
            PROVE  <1>3!1 /\ op[p].pc = "unlinking"
        BY <3>2, <1>1 DEF Unlink, TypeOK
      <3>3. CASE DeleteDone(p)
        BY <3>3, <1>1 DEF DeleteDone, Finish, TypeOK
      <3> QED
        BY <2>3, <3>1, <3>2, <3>3 DEF DeleteStep
    <2>4. CASE ReadStep(p)
      <3>1. ASSUME NEW s, ReadRow(p, s)
            PROVE  <1>3!1 /\ op[p].pc = "idle"
        BY <3>1, <1>1 DEF ReadRow, TypeOK
      <3>2. CASE ReadFile(p)
        BY <3>2, <1>1 DEF ReadFile, Finish, TypeOK
      <3>3. CASE ReadAnswer(p)
        BY <3>3, <1>1 DEF ReadAnswer, Finish, TypeOK
      <3> QED
        BY <2>4, <3>1, <3>2, <3>3 DEF ReadStep
    <2> QED
      BY <2>1, <2>2, <2>3, <2>4
  <1> HIDE DEF o
  <1> QED
    BY <1>1, <1>3, RequestType, LocalRefines

\* The register holds what the row holds.
LEMMA RegisterHash ==
    ASSUME TypeOK, NEW s \in Slots
    PROVE  CurrentHash(s) = Register!HashIn(s)
  <1>1. row[s] # NoRow => row[s].meta \in Meta
    BY DEF TypeOK, Row
  <1> QED
    BY <1>1, RowAssumption DEF CurrentHash, Register!HashIn, registers

\* A commit is the write of its request: the precondition still holds.
LEMMA CommitRefines ==
    ASSUME IInv, NEW p \in Procs, Commit(p)
    PROVE  Register!Write(p)
  <1> DEFINE o == op[p]
  <1>1. /\ o \in Push /\ o \in OpStates /\ o.pc = "promoted" /\ o.slot \in Slots
        /\ TypeOK /\ Satisfied(o.pre, CurrentHash(o.slot), o.meta.hash)
    BY OpRecords DEF IInv, Commit, TypeOK, OpStates, Push, PreconditionInv
  <1>2. /\ requests[p] = [kind |-> "write", slot |-> o.slot, meta |-> o.meta, pre |-> o.pre]
        /\ requests[p] \in Register!Writes
    BY <1>1, Requests, RequestType
  <1>3. Register!Allowed(requests[p])
    BY <1>1, <1>2, RegisterHash DEF Satisfied, Register!Allowed
  <1>4. registers' = [registers EXCEPT ![o.slot] = o.meta]
    <2>1. row' = [row EXCEPT ![o.slot] = NewRow(o)] /\ NewRow(o).meta = o.meta
      BY DEF Commit, RowsAfter, NewRow
    <2>2. NewRow(o) # NoRow
      BY <1>1, MetaOfType, RowAssumption DEF NewRow, Row, Push, Paths
    <2> QED
      BY <1>1, <2>1, <2>2 DEF registers, TypeOK
  <1>5. requests' = [requests EXCEPT ![p] = Register!NoRequest]
    <2>1. /\ \A x \in Procs \ {p} : op'[x] = op[x]
          /\ op'[p].pc \in {"idle", "committed"}
      BY <1>1 DEF Commit, Finish, Goto, TypeOK, Idle, Push
    <2>2. RequestOf(op'[p]) = Register!NoRequest
      BY <2>1 DEF RequestOf, Register!NoRequest
    <2>3. requests' = [x \in Procs |-> RequestOf(op'[x])]
      BY DEF requests, RequestOf
    <2> QED
      BY <2>1, <2>2, <2>3, Requests
  <1> QED
    BY <1>2, <1>3, <1>4, <1>5 DEF Register!Write, Register!Answered

\* The commit of a delete is the removal of its request.
LEMMA DeleteRefines ==
    ASSUME IInv, NEW p \in Procs, DeleteCommit(p)
    PROVE  Register!Remove(p)
  <1> DEFINE o == op[p]
  <1>1. o \in Delete /\ o \in OpStates /\ o.pc = "deleting" /\ TypeOK
    BY OpRecords DEF IInv, DeleteCommit, TypeOK, OpStates
  <1>2. /\ requests[p] = [kind |-> "remove", slots |-> o.slots]
        /\ requests[p] \in Register!Removes
    BY <1>1, Requests, RequestType
  <1>3. registers' = [s \in Slots |-> IF s \in o.slots THEN NoRow ELSE registers[s]]
    BY DEF DeleteCommit, registers
  <1>4. requests' = [requests EXCEPT ![p] = Register!NoRequest]
    <2>1. /\ \A x \in Procs \ {p} : op'[x] = op[x]
          /\ op'[p].pc = "unlinking"
      BY <1>1 DEF DeleteCommit, Goto, TypeOK, Delete
    <2>2. RequestOf(op'[p]) = Register!NoRequest
      BY <2>1 DEF RequestOf, Register!NoRequest
    <2>3. requests' = [x \in Procs |-> RequestOf(op'[x])]
      BY DEF requests, RequestOf
    <2> QED
      BY <2>1, <2>2, <2>3, Requests
  <1> QED
    BY <1>2, <1>3, <1>4 DEF Register!Remove, Register!Answered

\* The initial state maps to an initial state of the register.
LEMMA InitRefines == Init => Register!RegInit
  <1> SUFFICES ASSUME Init PROVE Register!RegInit
    OBVIOUS
  <1>1. TypeOK
    BY InitTypeOK
  <1>2. registers \in [Slots -> Meta \cup {NoRow}]
    BY <1>1 DEF registers, TypeOK, Row
  <1>3. requests = [p \in Procs |-> Register!NoRequest]
    BY DEF Init, Idle, requests, Register!NoRequest
  <1> QED
    BY <1>2, <1>3 DEF Register!RegInit

\* Every step maps to a step of the register or leaves it unchanged.
LEMMA NextRefines ==
    ASSUME IInv, IInv', [Next]_vars
    PROVE  [Register!RegNext]_Register!regVars
  <1>1. ASSUME NEW p \in Procs,
               PushStep(p) \/ RestoreStep(p) \/ DeleteStep(p) \/ ReadStep(p)
        PROVE  [Register!RegNext]_Register!regVars
    <2>1. CASE Commit(p)
      BY <2>1, CommitRefines DEF Register!RegNext
    <2>2. CASE DeleteCommit(p)
      BY <2>2, DeleteRefines DEF Register!RegNext
    <2>3. CASE ~Commit(p) /\ ~DeleteCommit(p)
      <3>1. row' = row
        BY <1>1, <2>3, HandlerTables
      <3> QED
        BY <1>1, <2>3, <3>1, HandlerRefines DEF IInv
    <2> QED
      BY <2>1, <2>2, <2>3
  <1>2. CASE PruneStep \/ Restart
    <2>1. UNCHANGED <<row, op>>
      BY <1>2 DEF PruneStep, PruneVersions, PruneByAge, Restart
    <2> QED
      BY <2>1 DEF registers, requests, Register!regVars
  <1>3. CASE Crash
    <2>1. registers' = registers
      BY <1>3 DEF Crash, registers
    <2>2. requests' = [p \in Procs |-> Register!NoRequest]
      BY <1>3 DEF Crash, Idle, requests, Register!NoRequest
    <2> QED
      BY <2>1, <2>2 DEF Register!RegNext, Register!Lost
  <1>4. CASE UNCHANGED vars
    BY <1>4 DEF vars, registers, requests, Register!regVars
  <1> QED
    BY <1>1, <1>2, <1>3, <1>4 DEF Next

\* Uploads, restores and deletes are atomic and linearizable per slot, and an
\* upload takes effect only while the If-Hash or If-Absent precondition that
\* its device sent is true: every behaviour of the store is one of registers.
THEOREM Refinement == Spec => ImplementsRegister
  <1>1. Init => Register!RegInit
    BY InitRefines
  <1>2. IInv /\ IInv' /\ [Next]_vars => [Register!RegNext]_Register!regVars
    BY NextRefines
  <1> QED
    BY <1>1, <1>2, Invariance, PTL DEF Spec, ImplementsRegister, Register!RegSpec
=============================================================================
