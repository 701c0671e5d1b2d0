------------------------- MODULE UploadQueueProofs -------------------------
(***************************************************************************)
(* What TLAPS proves of UploadQueue, for any files, timers, sequence         *)
(* numbers, entry names and bounds: every map, queue and goroutine keeps its *)
(* shape, and no edit drops out of sight.  A batch changes its shape with    *)
(* the phase, and a goroutine's local state with its place, so that the type *)
(* invariant needs both.  EditInv says who looks after an edit: an event, a  *)
(* rescan, a timer, a goroutine or an entry of the outbox.                   *)
(***************************************************************************)
EXTENDS UploadQueue, TLAPS

PushStates == {Idle} \cup Running \cup Loaded \cup Retry

\* The place of a goroutine tells which record its local state is.
LEMMA PushRecords ==
  ASSUME NEW s \in PushStates
  PROVE  /\ s.pc \in {"start", "dropped", "read", "done"} => s \in Running
         /\ s.pc \in {"settle", "send"} => s \in Loaded
         /\ s.pc = "retry" => s \in Retry
  BY DEF PushStates, Idle, Running, Loaded, Retry

---------------------------------------------------------------------------
(* The inductive invariant, by what steps touch. *)

PhaseTypes == phase \in {"on", "stopping", "flushing", "draining", "off"}
QueueTypes == pending \in [Files -> Seqs \cup {NoSeq}] /\ armed \subseteq Slot
PushTypes == push \in [Pushers -> PushStates]
StoreTypes ==
  /\ outbox \in [Files -> SUBSET Names]
  /\ cached \in [Files -> Versions] /\ handled \in [Files -> Versions]
WatchTypes ==
  /\ ver \in [Files -> Versions]
  /\ events \subseteq Files /\ watched \subseteq Files /\ todo \subseteq Files
  /\ emptied \subseteq Files /\ settle \in [Files -> 0 .. MaxSettle]
  /\ missed \subseteq Files /\ skipped \subseteq Files
WeatherTypes ==
  /\ gate \subseteq Gates /\ deferred \subseteq Files
  /\ catchUp \in BOOLEAN /\ wasQuiet \in BOOLEAN
AuthTypes == authFailed \in BOOLEAN
TroubleTypes == troubles \in 0 .. MaxTroubles

\* A flush works on queued pushes, the outbox on its entries.
BatchTypes ==
  /\ phase = "flushing" => batch \subseteq Slot
  /\ phase # "flushing" => batch \subseteq Files \X Names

Types == /\ PhaseTypes /\ QueueTypes /\ PushTypes /\ StoreTypes /\ WatchTypes
         /\ WeatherTypes /\ AuthTypes /\ BatchTypes

LEMMA InitTypes == Init => Types /\ TroubleTypes
  <1> SUFFICES ASSUME Init PROVE Types /\ TroubleTypes
    OBVIOUS
  <1>1. PushTypes
    BY DEF Init, PushTypes, PushStates
  <1>2. StoreTypes /\ WatchTypes /\ TroubleTypes
    BY QueueAssumption DEF Init, StoreTypes, WatchTypes, TroubleTypes, Versions
  <1>3. QueueTypes /\ BatchTypes /\ PhaseTypes /\ WeatherTypes /\ AuthTypes
    BY DEF Init, QueueTypes, BatchTypes, PhaseTypes, WeatherTypes, AuthTypes
  <1> QED
    BY <1>1, <1>2, <1>3 DEF Types

---------------------------------------------------------------------------
(* What steps are made of. *)

LEMMA PushMoves ==
  ASSUME PushTypes, NEW p \in Pushers, NEW s \in PushStates, Goto(p, s)
  PROVE  PushTypes'
  BY DEF PushTypes, Goto

LEMMA StageTypes ==
  ASSUME QueueTypes, NEW f \in Files, Stage(f)
  PROVE  QueueTypes'
  <1>1. PICK s \in Seqs : pending' = [pending EXCEPT ![f] = s] /\ armed' = armed \cup {<<f, s>>}
    BY DEF Stage, Smallest, FreeSeqs
  <1> QED
    BY <1>1 DEF QueueTypes, Slot

LEMMA EnqueueTypes ==
  ASSUME StoreTypes, NEW f \in Files, Enqueue(f)
  PROVE  outbox' \in [Files -> SUBSET Names]
  <1>1. PICK n \in Names : outbox' = [outbox EXCEPT ![f] = {n}]
    BY DEF Enqueue, Smallest
  <1> QED
    BY <1>1 DEF StoreTypes

LEMMA SettledTypes ==
  ASSUME StoreTypes, NEW f \in Files, NEW v \in Versions, Settled(f, v)
  PROVE  handled' \in [Files -> Versions]
  <1>1. handled[f] \in Versions /\ \A w \in Versions : w \in Nat
    BY QueueAssumption DEF StoreTypes, Versions
  <1>2. Latest(handled[f], v) \in Versions
    <2>1. \E x \in {handled[f], v} : \A y \in {handled[f], v} : x >= y
      BY <1>1
    <2>2. Latest(handled[f], v) \in {handled[f], v}
      BY <2>1 DEF Latest, Max
    <2> QED
      BY <1>1, <2>2
  <1> QED
    BY <1>2 DEF StoreTypes, Settled

---------------------------------------------------------------------------
(* The steps. *)

\* The world's steps.
LEMMA FileStep ==
  ASSUME Types, NEW f \in Files, GameSaves(f) \/ Defer(f) \/ Undefer(f)
  PROVE  Types'
  <1>1. CASE GameSaves(f)
    <2>1. PhaseTypes' /\ QueueTypes' /\ PushTypes' /\ StoreTypes' /\ WeatherTypes' /\ AuthTypes' /\ BatchTypes'
      BY <1>1 DEF GameSaves, queue, store, weather, Types, PhaseTypes, QueueTypes, PushTypes, StoreTypes, WeatherTypes, AuthTypes, BatchTypes
    <2>2. WatchTypes'
      BY <1>1, QueueAssumption DEF GameSaves, queue, store, weather, Types, WatchTypes, Versions
    <2> QED
      BY <2>1, <2>2 DEF Types
  <1>2. CASE Defer(f)
    <2>1. PhaseTypes' /\ QueueTypes' /\ PushTypes' /\ StoreTypes' /\ WatchTypes' /\ AuthTypes' /\ BatchTypes'
      BY <1>2 DEF Defer, WorldUnchanged, queue, store, weather, Types, PhaseTypes, QueueTypes, PushTypes, StoreTypes, WatchTypes, AuthTypes, BatchTypes
    <2>2. WeatherTypes'
      BY <1>2 DEF Defer, WorldUnchanged, queue, store, weather, Types, WeatherTypes
    <2> QED
      BY <2>1, <2>2 DEF Types
  <1>3. CASE Undefer(f)
    <2>1. PhaseTypes' /\ PushTypes' /\ StoreTypes' /\ WatchTypes' /\ AuthTypes' /\ BatchTypes'
      BY <1>3 DEF Undefer, FlushPendingFor, queue, store, weather, Types, PhaseTypes, PushTypes, StoreTypes, WatchTypes, AuthTypes, BatchTypes
    <2>2. WeatherTypes'
      BY <1>3 DEF Undefer, FlushPendingFor, queue, store, weather, Types, WeatherTypes
    <2>3. QueueTypes'
      BY <1>3 DEF Undefer, FlushPendingFor, queue, store, weather, Types, QueueTypes, Slot
    <2> QED
      BY <2>1, <2>2, <2>3 DEF Types
  <1> QED
    BY <1>1, <1>2, <1>3

LEMMA GateStep ==
  ASSUME Types, NEW g \in Gates, Holds(g) \/ Releases(g)
  PROVE  Types'
  <1>1. CASE Holds(g)
    <2>1. PhaseTypes' /\ QueueTypes' /\ PushTypes' /\ StoreTypes' /\ WatchTypes' /\ AuthTypes' /\ BatchTypes'
      BY <1>1 DEF Holds, WorldUnchanged, queue, store, weather, Types, PhaseTypes, QueueTypes, PushTypes, StoreTypes, WatchTypes, AuthTypes, BatchTypes
    <2>2. WeatherTypes'
      BY <1>1 DEF Holds, WorldUnchanged, queue, store, weather, Types, WeatherTypes
    <2> QED
      BY <2>1, <2>2 DEF Types
  <1>2. CASE Releases(g)
    <2>1. PhaseTypes' /\ QueueTypes' /\ PushTypes' /\ StoreTypes' /\ AuthTypes' /\ BatchTypes'
      BY <1>2 DEF Releases, WorldUnchanged, queue, store, weather, Types, PhaseTypes, QueueTypes, PushTypes, StoreTypes, AuthTypes, BatchTypes
    <2>2. WeatherTypes'
      BY <1>2 DEF Releases, WorldUnchanged, queue, store, weather, Types, WeatherTypes
    <2>3. WatchTypes'
      BY <1>2 DEF Releases, WorldUnchanged, queue, store, weather, Types, WatchTypes, Behind
    <2> QED
      BY <2>1, <2>2, <2>3 DEF Types
  <1> QED
    BY <1>1, <1>2

\* The watcher's goroutine.
LEMMA WatchFileStep ==
  ASSUME Types, NEW f \in Files, HandleEvent(f) \/ RescanFile(f) \/ Watch(f) \/ Unwatch(f)
  PROVE  Types'
  <1>1. CASE HandleEvent(f)
    <2>1. PhaseTypes' /\ PushTypes' /\ StoreTypes' /\ WeatherTypes' /\ AuthTypes' /\ BatchTypes'
      BY <1>1 DEF HandleEvent, WatchUnchanged, queue, store, weather, Types, PhaseTypes, PushTypes, StoreTypes, WeatherTypes, AuthTypes, BatchTypes
    <2>2. WatchTypes'
      BY <1>1 DEF HandleEvent, WatchUnchanged, queue, store, weather, Types, WatchTypes
    <2>3. QueueTypes'
      <3>1. PICK s \in Seqs : pending' = [pending EXCEPT ![f] = s] /\ armed' = (armed \ {<<f, pending[f]>>}) \cup {<<f, s>>}
        BY <1>1 DEF HandleEvent, Smallest, FreeSeqs
      <3> QED
        BY <3>1 DEF Types, QueueTypes, Slot
    <2> QED
      BY <2>1, <2>2, <2>3 DEF Types
  <1>2. CASE RescanFile(f)
    <2>1. PhaseTypes' /\ PushTypes' /\ StoreTypes' /\ WeatherTypes' /\ AuthTypes' /\ BatchTypes'
      BY <1>2 DEF RescanFile, WatchUnchanged, queue, store, weather, Types, PhaseTypes, PushTypes, StoreTypes, WeatherTypes, AuthTypes, BatchTypes
    <2>2. WatchTypes'
      BY <1>2 DEF RescanFile, WatchUnchanged, queue, store, weather, Types, WatchTypes
    <2>3. QueueTypes'
      <3>1. CASE Stage(f)
        BY <3>1, StageTypes DEF Types
      <3>2. CASE UNCHANGED queue
        BY <3>2 DEF Types, QueueTypes, queue
      <3> QED
        BY <1>2, <3>1, <3>2 DEF RescanFile
    <2> QED
      BY <2>1, <2>2, <2>3 DEF Types
  <1>3. CASE Watch(f)
    <2>1. PhaseTypes' /\ QueueTypes' /\ PushTypes' /\ StoreTypes' /\ WeatherTypes' /\ AuthTypes' /\ BatchTypes'
      BY <1>3 DEF Watch, WatchUnchanged, queue, store, weather, Types, PhaseTypes, QueueTypes, PushTypes, StoreTypes, WeatherTypes, AuthTypes, BatchTypes
    <2>2. WatchTypes'
      BY <1>3 DEF Watch, WatchUnchanged, queue, store, weather, Types, WatchTypes
    <2> QED
      BY <2>1, <2>2 DEF Types
  <1>4. CASE Unwatch(f)
    <2>1. PhaseTypes' /\ PushTypes' /\ StoreTypes' /\ WeatherTypes' /\ AuthTypes' /\ BatchTypes'
      BY <1>4 DEF Unwatch, WatchUnchanged, queue, store, weather, Types, PhaseTypes, PushTypes, StoreTypes, WeatherTypes, AuthTypes, BatchTypes
    <2>2. WatchTypes'
      BY <1>4 DEF Unwatch, WatchUnchanged, queue, store, weather, Types, WatchTypes
    <2>3. QueueTypes'
      BY <1>4 DEF Unwatch, WatchUnchanged, queue, store, weather, Types, QueueTypes, Slot
    <2> QED
      BY <2>1, <2>2, <2>3 DEF Types
  <1> QED
    BY <1>1, <1>2, <1>3, <1>4

LEMMA WatchStep ==
  ASSUME Types, Overflow \/ Recreate \/ CatchUp \/ QuietTick
  PROVE  Types'
  <1>1. CASE Overflow
    <2>1. PhaseTypes' /\ QueueTypes' /\ PushTypes' /\ StoreTypes' /\ WeatherTypes' /\ AuthTypes' /\ BatchTypes'
      BY <1>1 DEF Overflow, WatchUnchanged, queue, store, weather, Types, PhaseTypes, QueueTypes, PushTypes, StoreTypes, WeatherTypes, AuthTypes, BatchTypes
    <2>2. WatchTypes'
      BY <1>1 DEF Overflow, WatchUnchanged, queue, store, weather, Types, WatchTypes
    <2> QED
      BY <2>1, <2>2 DEF Types
  <1>2. CASE Recreate
    <2>1. PhaseTypes' /\ QueueTypes' /\ PushTypes' /\ StoreTypes' /\ WeatherTypes' /\ AuthTypes' /\ BatchTypes'
      BY <1>2 DEF Recreate, WatchUnchanged, queue, store, weather, Types, PhaseTypes, QueueTypes, PushTypes, StoreTypes, WeatherTypes, AuthTypes, BatchTypes
    <2>2. WatchTypes'
      BY <1>2 DEF Recreate, WatchUnchanged, queue, store, weather, Types, WatchTypes
    <2> QED
      BY <2>1, <2>2 DEF Types
  <1>3. CASE CatchUp
    <2>1. PhaseTypes' /\ QueueTypes' /\ PushTypes' /\ StoreTypes' /\ AuthTypes' /\ BatchTypes'
      BY <1>3 DEF CatchUp, queue, store, weather, Types, PhaseTypes, QueueTypes, PushTypes, StoreTypes, AuthTypes, BatchTypes
    <2>2. WatchTypes'
      BY <1>3 DEF CatchUp, queue, store, weather, Types, WatchTypes
    <2>3. WeatherTypes'
      BY <1>3 DEF CatchUp, queue, store, weather, Types, WeatherTypes
    <2> QED
      BY <2>1, <2>2, <2>3 DEF Types
  <1>4. CASE QuietTick
    <2>1. PhaseTypes' /\ QueueTypes' /\ PushTypes' /\ StoreTypes' /\ AuthTypes' /\ BatchTypes'
      BY <1>4 DEF QuietTick, queue, store, weather, Types, PhaseTypes, QueueTypes, PushTypes, StoreTypes, AuthTypes, BatchTypes
    <2>2. WatchTypes'
      BY <1>4 DEF QuietTick, queue, store, weather, Types, WatchTypes
    <2>3. WeatherTypes'
      BY <1>4 DEF QuietTick, queue, store, weather, Types, WeatherTypes
    <2> QED
      BY <2>1, <2>2, <2>3 DEF Types
  <1> QED
    BY <1>1, <1>2, <1>3, <1>4

\* Where a goroutine goes next.
LEMMA EndsTypes ==
  ASSUME PushTypes, NEW p \in Pushers, Goto(p, Idle)
  PROVE  PushTypes'
  BY PushMoves DEF PushStates

LEMMA DoneTypes ==
  ASSUME PushTypes, NEW p \in Pushers, push[p] \in Running \cup Loaded, Done(p)
  PROVE  PushTypes'
  <1> DEFINE s == [pc |-> "done", file |-> push[p].file, seq |-> push[p].seq]
  <1>1. s \in PushStates
    BY DEF PushStates, Running, Loaded
  <1> QED
    BY <1>1, PushMoves DEF Done

\* A debounce timer.
LEMMA FireStep ==
  ASSUME Types, NEW p \in Pushers, NEW t \in armed, Fire(p, t)
  PROVE  Types'
  <1>1. CASE Fire(p, t)
    <2>1. PhaseTypes' /\ StoreTypes' /\ WatchTypes' /\ WeatherTypes' /\ AuthTypes' /\ BatchTypes'
      BY <1>1 DEF Fire, PushUnchanged, queue, store, weather, Types, PhaseTypes, StoreTypes, WatchTypes, WeatherTypes, AuthTypes, BatchTypes
    <2>2. QueueTypes'
      BY <1>1 DEF Fire, PushUnchanged, queue, store, weather, Types, QueueTypes
    <2>3. PushTypes'
      <3>1. t \in Slot
        BY <1>1 DEF Fire, Types, QueueTypes
      <3> DEFINE s == [pc |-> "start", file |-> t[1], seq |-> t[2]]
      <3>2. s \in PushStates
        BY <3>1 DEF PushStates, Running, Slot
      <3> HIDE DEF s
      <3>3. Goto(p, s)
        BY <1>1 DEF Fire, s
      <3> QED
        BY <3>2, <3>3, PushMoves DEF Types
    <2> QED
      BY <2>1, <2>2, <2>3 DEF Types
  <1> QED
    BY <1>1

\* The two ends of pushDebounced.
LEMMA EndStep ==
  ASSUME Types, NEW p \in Pushers, StartPush(p) \/ Cleanup(p)
  PROVE  Types'
  <1>0. push[p] \in Running /\ push[p].file \in Files
    BY PushRecords DEF StartPush, Cleanup, Types, PushTypes, Running
  <1>1. CASE StartPush(p)
    <2>1. PhaseTypes' /\ StoreTypes' /\ WatchTypes' /\ WeatherTypes' /\ AuthTypes' /\ BatchTypes'
      BY <1>1 DEF StartPush, PushUnchanged, queue, store, weather, Types, PhaseTypes, StoreTypes, WatchTypes, WeatherTypes, AuthTypes, BatchTypes
    <2>2. QueueTypes'
      <3>1. CASE Stage(push[p].file)
        BY <3>1, <1>0, StageTypes DEF Types
      <3>2. CASE UNCHANGED queue
        BY <3>2 DEF Types, QueueTypes, queue
      <3> QED
        BY <1>1, <3>1, <3>2 DEF StartPush
    <2>3. PushTypes'
      <3>1. ASSUME NEW l \in {"dropped", "read"}, Goto(p, [push[p] EXCEPT !.pc = l]) PROVE PushTypes'
        <4>1. [push[p] EXCEPT !.pc = l] \in PushStates
          BY <1>0 DEF PushStates, Running
        <4> QED
          BY <3>1, <4>1, PushMoves DEF Types
      <3>2. CASE Goto(p, Idle)
        BY <3>2, EndsTypes DEF Types
      <3> QED
        BY <1>1, <3>1, <3>2 DEF StartPush
    <2> QED
      BY <2>1, <2>2, <2>3 DEF Types
  <1>2. CASE Cleanup(p)
    <2>1. PhaseTypes' /\ StoreTypes' /\ WatchTypes' /\ WeatherTypes' /\ AuthTypes' /\ BatchTypes'
      BY <1>2 DEF Cleanup, PushUnchanged, queue, store, weather, Types, PhaseTypes, StoreTypes, WatchTypes, WeatherTypes, AuthTypes, BatchTypes
    <2>2. QueueTypes'
      BY <1>2 DEF Cleanup, PushUnchanged, queue, store, weather, Types, QueueTypes
    <2>3. PushTypes'
      BY <1>2, EndsTypes DEF Cleanup, Types
    <2> QED
      BY <2>1, <2>2, <2>3 DEF Types
  <1> QED
    BY <1>1, <1>2

\* The reading of the file.
LEMMA ReadStep ==
  ASSUME Types, NEW p \in Pushers, ReadFile(p) \/ ReadLocked(p) \/ ReadFails(p) \/ ReadEmpty(p)
  PROVE  Types'
  <1>0. push[p] \in Running /\ push[p].file \in Files /\ ver[push[p].file] \in Versions
    BY PushRecords DEF ReadFile, ReadLocked, ReadFails, ReadEmpty, Types, PushTypes, Running, WatchTypes
  <1>1. CASE ReadFile(p)
    <2>1. PhaseTypes' /\ QueueTypes' /\ StoreTypes' /\ WeatherTypes' /\ AuthTypes' /\ BatchTypes'
      BY <1>1 DEF ReadFile, PushUnchanged, queue, store, weather, Types, PhaseTypes, QueueTypes, StoreTypes, WeatherTypes, AuthTypes, BatchTypes
    <2>2. WatchTypes'
      BY <1>1 DEF ReadFile, PushUnchanged, queue, store, weather, Types, WatchTypes
    <2>3. PushTypes'
      <3> DEFINE s == [pc |-> "settle", file |-> push[p].file, seq |-> push[p].seq, snap |-> ver[push[p].file]]
      <3>1. s \in PushStates
        BY <1>0 DEF PushStates, Running, Loaded
      <3> HIDE DEF s
      <3>2. Goto(p, s)
        BY <1>1 DEF ReadFile, s
      <3> QED
        BY <3>1, <3>2, PushMoves DEF Types
    <2> QED
      BY <2>1, <2>2, <2>3 DEF Types
  <1>2. CASE ReadLocked(p)
    <2>1. PhaseTypes' /\ QueueTypes' /\ WatchTypes' /\ WeatherTypes' /\ AuthTypes' /\ BatchTypes'
      BY <1>2 DEF ReadLocked, PushUnchanged, queue, store, weather, Types, PhaseTypes, QueueTypes, WatchTypes, WeatherTypes, AuthTypes, BatchTypes
    <2>2. StoreTypes'
      BY <1>2, <1>0, EnqueueTypes DEF ReadLocked, Types, StoreTypes
    <2>3. PushTypes'
      BY <1>2, <1>0, DoneTypes DEF ReadLocked, Types
    <2> QED
      BY <2>1, <2>2, <2>3 DEF Types
  <1>3. CASE ReadFails(p)
    <2>1. PhaseTypes' /\ QueueTypes' /\ WeatherTypes' /\ AuthTypes' /\ BatchTypes'
      BY <1>3 DEF ReadFails, PushUnchanged, queue, store, weather, Types, PhaseTypes, QueueTypes, WeatherTypes, AuthTypes, BatchTypes
    <2>2. StoreTypes'
      <3>1. handled' \in [Files -> Versions]
        BY <1>3, <1>0, SettledTypes DEF ReadFails, Types, StoreTypes
      <3> QED
        BY <1>3, <3>1 DEF ReadFails, Types, StoreTypes
    <2>3. PushTypes'
      BY <1>3, <1>0, DoneTypes DEF ReadFails, Types
    <2>4. WatchTypes'
      BY <1>3, <1>0 DEF ReadFails, PushUnchanged, queue, store, weather, Types, WatchTypes
    <2> QED
      BY <2>1, <2>2, <2>3, <2>4 DEF Types
  <1>4. CASE ReadEmpty(p)
    <2>1. PhaseTypes' /\ WeatherTypes' /\ AuthTypes' /\ BatchTypes'
      BY <1>4 DEF ReadEmpty, PushUnchanged, queue, store, weather, Types, PhaseTypes, WeatherTypes, AuthTypes, BatchTypes
    <2>2. StoreTypes'
      <3>1. handled' \in [Files -> Versions]
        BY <1>4, <1>0, SettledTypes DEF ReadEmpty, Types, StoreTypes
      <3> QED
        BY <1>4, <3>1 DEF ReadEmpty, Types, StoreTypes
    <2>3. PushTypes'
      <3>1. CASE Done(p)
        BY <1>0, <3>1, DoneTypes DEF Types
      <3>2. CASE Goto(p, Idle)
        BY <3>2, EndsTypes DEF Types
      <3> QED
        BY <1>4, <3>1, <3>2 DEF ReadEmpty
    <2>4. QueueTypes'
      <3>1. CASE Stage(push[p].file)
        BY <3>1, <1>0, StageTypes DEF Types
      <3>2. CASE UNCHANGED queue
        BY <3>2 DEF Types, QueueTypes, queue
      <3> QED
        BY <1>4, <3>1, <3>2 DEF ReadEmpty
    <2>5. WatchTypes'
      BY <1>4, <1>0 DEF ReadEmpty, PushUnchanged, queue, store, weather, Types, WatchTypes
    <2> QED
      BY <2>1, <2>2, <2>3, <2>4, <2>5 DEF Types
  <1> QED
    BY <1>1, <1>2, <1>3, <1>4

\* The stability gate and the upload.
LEMMA SendStep ==
  ASSUME Types, NEW p \in Pushers, Settle(p) \/ SendStored(p) \/ SendRefused(p) \/ SendCancelled(p) \/ SendFails(p)
  PROVE  Types'
  <1>0. push[p] \in Loaded /\ push[p].file \in Files /\ push[p].snap \in Versions
    BY PushRecords DEF Settle, SendStored, SendRefused, SendCancelled, SendFails, Types, PushTypes, Loaded
  <1>1. CASE Settle(p)
    <2>1. PhaseTypes' /\ StoreTypes' /\ WeatherTypes' /\ AuthTypes' /\ BatchTypes'
      BY <1>1 DEF Settle, PushUnchanged, queue, store, weather, Types, PhaseTypes, StoreTypes, WeatherTypes, AuthTypes, BatchTypes
    <2>2. WatchTypes'
      BY <1>1, <1>0, QueueAssumption DEF Settle, PushUnchanged, queue, store, weather, Types, WatchTypes
    <2>3. QueueTypes'
      <3>1. CASE Stage(push[p].file)
        BY <3>1, <1>0, StageTypes DEF Types
      <3>2. CASE UNCHANGED queue
        BY <3>2 DEF Types, QueueTypes, queue
      <3> QED
        BY <1>1, <3>1, <3>2 DEF Settle
    <2>4. PushTypes'
      <3>1. CASE Goto(p, [push[p] EXCEPT !.pc = "send"])
        <4>1. [push[p] EXCEPT !.pc = "send"] \in PushStates
          BY <1>0 DEF PushStates, Loaded
        <4> QED
          BY <3>1, <4>1, PushMoves DEF Types
      <3>2. CASE Goto(p, Idle)
        BY <3>2, EndsTypes DEF Types
      <3> QED
        BY <1>1, <3>1, <3>2 DEF Settle
    <2> QED
      BY <2>1, <2>2, <2>3, <2>4 DEF Types
  <1>2. CASE SendStored(p)
    <2>1. PhaseTypes' /\ QueueTypes' /\ WatchTypes' /\ WeatherTypes' /\ AuthTypes' /\ BatchTypes'
      BY <1>2 DEF SendStored, PushUnchanged, queue, store, weather, Types, PhaseTypes, QueueTypes, WatchTypes, WeatherTypes, AuthTypes, BatchTypes
    <2>2. StoreTypes'
      <3>1. handled' \in [Files -> Versions]
        BY <1>2, <1>0, SettledTypes DEF SendStored, Types, StoreTypes
      <3> QED
        BY <1>2, <1>0, <3>1 DEF SendStored, Types, StoreTypes
    <2>3. PushTypes'
      BY <1>2, <1>0, DoneTypes DEF SendStored, Types
    <2> QED
      BY <2>1, <2>2, <2>3 DEF Types
  <1>3. CASE SendRefused(p)
    <2>1. PhaseTypes' /\ QueueTypes' /\ WatchTypes' /\ WeatherTypes' /\ AuthTypes' /\ BatchTypes'
      BY <1>3 DEF SendRefused, PushUnchanged, queue, store, weather, Types, PhaseTypes, QueueTypes, WatchTypes, WeatherTypes, AuthTypes, BatchTypes
    <2>2. StoreTypes'
      <3>1. handled' \in [Files -> Versions]
        BY <1>3, <1>0, SettledTypes DEF SendRefused, Types, StoreTypes
      <3> QED
        BY <1>3, <3>1 DEF SendRefused, Types, StoreTypes
    <2>3. PushTypes'
      BY <1>3, <1>0, DoneTypes DEF SendRefused, Types
    <2> QED
      BY <2>1, <2>2, <2>3 DEF Types
  <1>4. CASE SendCancelled(p)
    <2>1. PhaseTypes' /\ QueueTypes' /\ StoreTypes' /\ WatchTypes' /\ WeatherTypes' /\ AuthTypes' /\ BatchTypes'
      BY <1>4 DEF SendCancelled, PushUnchanged, queue, store, weather, Types, PhaseTypes, QueueTypes, StoreTypes, WatchTypes, WeatherTypes, AuthTypes, BatchTypes
    <2>2. PushTypes'
      BY <1>4, <1>0, DoneTypes DEF SendCancelled, Types
    <2> QED
      BY <2>1, <2>2 DEF Types
  <1>5. CASE SendFails(p)
    <2>1. PhaseTypes' /\ QueueTypes' /\ WatchTypes' /\ WeatherTypes' /\ AuthTypes' /\ BatchTypes'
      BY <1>5 DEF SendFails, PushUnchanged, queue, store, weather, Types, PhaseTypes, QueueTypes, WatchTypes, WeatherTypes, AuthTypes, BatchTypes
    <2>2. StoreTypes'
      BY <1>5, <1>0, EnqueueTypes DEF SendFails, Types, StoreTypes
    <2>3. PushTypes'
      BY <1>5, <1>0, DoneTypes DEF SendFails, Types
    <2> QED
      BY <2>1, <2>2, <2>3 DEF Types
  <1> QED
    BY <1>1, <1>2, <1>3, <1>4, <1>5

\* ProcessOutbox.
LEMMA OutboxStartStep ==
  ASSUME Types, OutboxBegin \/ AuthHealed
  PROVE  Types'
  <1>1. CASE OutboxBegin
    <2>1. PhaseTypes' /\ QueueTypes' /\ WeatherTypes' /\ AuthTypes'
      BY <1>1 DEF OutboxBegin, OutboxUnchanged, queue, store, weather, Types, PhaseTypes, QueueTypes, WeatherTypes, AuthTypes
    <2>2. StoreTypes'
      BY <1>1 DEF OutboxBegin, OutboxUnchanged, queue, store, weather, Types, StoreTypes
    <2>3. BatchTypes'
      BY <1>1 DEF OutboxBegin, OutboxUnchanged, queue, store, weather, Types, BatchTypes, Entries
    <2>4. WatchTypes'
      <3>1. missed' \subseteq Files
        BY <1>1 DEF OutboxBegin, Types, WatchTypes, Entries
      <3> QED
        BY <1>1, <3>1 DEF OutboxBegin, OutboxUnchanged, Types, WatchTypes
    <2>5. PushTypes'
      BY <1>1 DEF OutboxBegin, OutboxUnchanged, queue, store, weather, Types, PushTypes
    <2> QED
      BY <2>1, <2>2, <2>3, <2>4, <2>5 DEF Types
  <1>2. CASE AuthHealed
    <2>1. PhaseTypes' /\ QueueTypes' /\ PushTypes' /\ StoreTypes' /\ WatchTypes' /\ WeatherTypes' /\ BatchTypes'
      BY <1>2 DEF AuthHealed, OutboxUnchanged, queue, store, weather, Types, PhaseTypes, QueueTypes, PushTypes, StoreTypes, WatchTypes, WeatherTypes, BatchTypes
    <2>2. AuthTypes'
      BY <1>2 DEF AuthHealed, OutboxUnchanged, queue, store, weather, Types, AuthTypes
    <2> QED
      BY <2>1, <2>2 DEF Types
  <1> QED
    BY <1>1, <1>2

LEMMA OutboxLoadStep ==
  ASSUME Types, NEW e, OutboxLoad(e)
  PROVE  Types'
  <1>1. CASE OutboxLoad(e)
    <2>1. PhaseTypes' /\ QueueTypes' /\ StoreTypes' /\ WatchTypes' /\ WeatherTypes' /\ AuthTypes'
      BY <1>1 DEF OutboxLoad, OutboxUnchanged, queue, store, weather, Types, PhaseTypes, QueueTypes, StoreTypes, WatchTypes, WeatherTypes, AuthTypes
    <2>2. BatchTypes'
      BY <1>1 DEF OutboxLoad, OutboxUnchanged, queue, store, weather, Types, BatchTypes
    <2>3. PushTypes'
      <3>1. e \in Files \X Names
        BY <1>1 DEF OutboxLoad, Types, BatchTypes
      <3>2. ver[e[1]] \in Versions
        BY <3>1 DEF Types, WatchTypes
      <3> DEFINE s == [pc |-> "retry", file |-> e[1], name |-> e[2], snap |-> ver[e[1]]]
      <3>3. s \in PushStates
        BY <3>1, <3>2 DEF PushStates, Retry
      <3> HIDE DEF s
      <3>4. CASE Goto(Main, s)
        BY <3>3, <3>4, PushMoves DEF Types, Pushers
      <3>5. CASE UNCHANGED push
        BY <3>5 DEF Types, PushTypes
      <3> QED
        BY <1>1, <3>4, <3>5 DEF OutboxLoad, s
    <2> QED
      BY <2>1, <2>2, <2>3 DEF Types
  <1> QED
    BY <1>1

LEMMA OutboxEndStep ==
  ASSUME Types, OutboxStored \/ OutboxRefused \/ OutboxCancelled \/ OutboxUnauthorized \/ OutboxFails
  PROVE  Types'
  <1>0. /\ push[Main] \in Retry /\ push[Main].file \in Files /\ push[Main].snap \in Versions
        /\ push[Main].name \in Names /\ Main \in Pushers
    BY PushRecords DEF OutboxStored, OutboxRefused, OutboxCancelled, OutboxUnauthorized, OutboxFails, Types, PushTypes, Retry, Pushers
  <1>1. CASE OutboxStored
    <2>1. PhaseTypes' /\ QueueTypes' /\ WatchTypes' /\ WeatherTypes' /\ AuthTypes' /\ BatchTypes'
      BY <1>1 DEF OutboxStored, OutboxUnchanged, queue, store, weather, Types, PhaseTypes, QueueTypes, WatchTypes, WeatherTypes, AuthTypes, BatchTypes
    <2>2. StoreTypes'
      <3>1. handled' \in [Files -> Versions]
        BY <1>1, <1>0, SettledTypes DEF OutboxStored, Types
      <3>2. outbox' \in [Files -> SUBSET Names]
        BY <1>1, <1>0 DEF OutboxStored, RemoveEntry, Types, StoreTypes
      <3>3. cached' \in [Files -> Versions]
        BY <1>1, <1>0 DEF OutboxStored, Types, StoreTypes
      <3> QED
        BY <3>1, <3>2, <3>3 DEF StoreTypes
    <2>3. PushTypes'
      BY <1>1, <1>0, EndsTypes DEF OutboxStored, Types
    <2> QED
      BY <2>1, <2>2, <2>3 DEF Types
  <1>2. CASE OutboxRefused
    <2>1. PhaseTypes' /\ QueueTypes' /\ WatchTypes' /\ WeatherTypes' /\ AuthTypes' /\ BatchTypes'
      BY <1>2 DEF OutboxRefused, OutboxUnchanged, queue, store, weather, Types, PhaseTypes, QueueTypes, WatchTypes, WeatherTypes, AuthTypes, BatchTypes
    <2>2. StoreTypes'
      <3>1. handled' \in [Files -> Versions]
        BY <1>2, <1>0, SettledTypes DEF OutboxRefused, Types
      <3>2. outbox' \in [Files -> SUBSET Names]
        BY <1>2, <1>0 DEF OutboxRefused, RemoveEntry, Types, StoreTypes
      <3>3. cached' \in [Files -> Versions]
        BY <1>2, <1>0 DEF OutboxRefused, Types, StoreTypes
      <3> QED
        BY <3>1, <3>2, <3>3 DEF StoreTypes
    <2>3. PushTypes'
      BY <1>2, <1>0, EndsTypes DEF OutboxRefused, Types
    <2> QED
      BY <2>1, <2>2, <2>3 DEF Types
  <1>3. CASE OutboxCancelled
    <2>1. PhaseTypes' /\ QueueTypes' /\ WatchTypes' /\ WeatherTypes' /\ AuthTypes' /\ BatchTypes'
      BY <1>3 DEF OutboxCancelled, OutboxUnchanged, queue, store, weather, Types, PhaseTypes, QueueTypes, WatchTypes, WeatherTypes, AuthTypes, BatchTypes
    <2>2. StoreTypes'
      BY <1>3, <1>0 DEF OutboxCancelled, RemoveEntry, Types, StoreTypes
    <2>3. PushTypes'
      BY <1>3, <1>0, EndsTypes DEF OutboxCancelled, Types
    <2> QED
      BY <2>1, <2>2, <2>3 DEF Types
  <1>4. CASE OutboxUnauthorized
    <2>1. PhaseTypes' /\ QueueTypes' /\ StoreTypes' /\ WatchTypes' /\ WeatherTypes'
      BY <1>4 DEF OutboxUnauthorized, OutboxUnchanged, queue, store, weather, Types, PhaseTypes, QueueTypes, StoreTypes, WatchTypes, WeatherTypes
    <2>2. AuthTypes'
      BY <1>4 DEF OutboxUnauthorized, OutboxUnchanged, queue, store, weather, Types, AuthTypes
    <2>3. BatchTypes'
      BY <1>4 DEF OutboxUnauthorized, OutboxUnchanged, queue, store, weather, Types, BatchTypes
    <2>4. PushTypes'
      BY <1>4, <1>0, EndsTypes DEF OutboxUnauthorized, Types
    <2> QED
      BY <2>1, <2>2, <2>3, <2>4 DEF Types
  <1>5. CASE OutboxFails
    <2>1. PhaseTypes' /\ QueueTypes' /\ WatchTypes' /\ WeatherTypes' /\ AuthTypes' /\ BatchTypes'
      BY <1>5 DEF OutboxFails, OutboxUnchanged, queue, store, weather, Types, PhaseTypes, QueueTypes, WatchTypes, WeatherTypes, AuthTypes, BatchTypes
    <2>2. StoreTypes'
      BY <1>5, <1>0 DEF OutboxFails, RemoveEntry, Types, StoreTypes
    <2>3. PushTypes'
      BY <1>5, <1>0, EndsTypes DEF OutboxFails, Types
    <2> QED
      BY <2>1, <2>2, <2>3 DEF Types
  <1> QED
    BY <1>1, <1>2, <1>3, <1>4, <1>5

\* The client stops and starts.
LEMMA StopStep ==
  ASSUME Types, Stop \/ FlushBegin \/ FlushEnd \/ Gone \/ Start
  PROVE  Types'
  <1>1. CASE Stop
    <2>1. QueueTypes' /\ PushTypes' /\ StoreTypes' /\ WatchTypes' /\ WeatherTypes' /\ AuthTypes'
      BY <1>1 DEF Stop, StopUnchanged, queue, store, weather, Types, QueueTypes, PushTypes, StoreTypes, WatchTypes, WeatherTypes, AuthTypes
    <2>2. PhaseTypes'
      BY <1>1 DEF Stop, StopUnchanged, queue, store, weather, Types, PhaseTypes
    <2>3. BatchTypes'
      BY <1>1 DEF Stop, StopUnchanged, queue, store, weather, Types, BatchTypes
    <2> QED
      BY <2>1, <2>2, <2>3 DEF Types
  <1>2. CASE FlushBegin
    <2>1. PushTypes' /\ StoreTypes' /\ WeatherTypes' /\ AuthTypes'
      BY <1>2 DEF FlushBegin, StopUnchanged, queue, store, weather, Types, PushTypes, StoreTypes, WeatherTypes, AuthTypes
    <2>2. PhaseTypes'
      BY <1>2 DEF FlushBegin, StopUnchanged, queue, store, weather, Types, PhaseTypes
    <2>3. BatchTypes'
      <3>1. batch' \subseteq Slot
        BY <1>2 DEF FlushBegin, Types, QueueTypes, Slot
      <3> QED
        BY <1>2, <3>1 DEF FlushBegin, BatchTypes
    <2>4. QueueTypes'
      <3>1. armed' \subseteq Slot
        BY <1>2 DEF FlushBegin, Types, QueueTypes
      <3>2. pending' \in [Files -> Seqs \cup {NoSeq}]
        BY <1>2 DEF FlushBegin
      <3> QED
        BY <3>1, <3>2 DEF QueueTypes
    <2>5. WatchTypes'
      BY <1>2 DEF FlushBegin, StopUnchanged, queue, store, weather, Types, WatchTypes
    <2> QED
      BY <2>1, <2>2, <2>3, <2>4, <2>5 DEF Types
  <1>3. CASE FlushEnd
    <2>1. QueueTypes' /\ PushTypes' /\ StoreTypes' /\ WatchTypes' /\ WeatherTypes' /\ AuthTypes'
      BY <1>3 DEF FlushEnd, StopUnchanged, queue, store, weather, Types, QueueTypes, PushTypes, StoreTypes, WatchTypes, WeatherTypes, AuthTypes
    <2>2. PhaseTypes'
      BY <1>3 DEF FlushEnd, StopUnchanged, queue, store, weather, Types, PhaseTypes
    <2>3. BatchTypes'
      BY <1>3 DEF FlushEnd, StopUnchanged, queue, store, weather, Types, BatchTypes
    <2> QED
      BY <2>1, <2>2, <2>3 DEF Types
  <1>4. CASE Gone
    <2>1. StoreTypes' /\ WeatherTypes' /\ AuthTypes'
      BY <1>4 DEF Gone, StopUnchanged, queue, store, weather, Types, StoreTypes, WeatherTypes, AuthTypes
    <2>2. PhaseTypes'
      BY <1>4 DEF Gone, StopUnchanged, queue, store, weather, Types, PhaseTypes
    <2>3. BatchTypes'
      BY <1>4 DEF Gone, StopUnchanged, queue, store, weather, Types, BatchTypes
    <2>4. QueueTypes'
      BY <1>4 DEF Gone, StopUnchanged, queue, store, weather, Types, QueueTypes
    <2>5. PushTypes'
      BY <1>4 DEF Gone, PushTypes, PushStates
    <2>6. WatchTypes'
      BY <1>4, QueueAssumption DEF Gone, StopUnchanged, queue, store, weather, Types, WatchTypes
    <2> QED
      BY <2>1, <2>2, <2>3, <2>4, <2>5, <2>6 DEF Types
  <1>5. CASE Start
    <2>1. QueueTypes' /\ PushTypes' /\ StoreTypes'
      BY <1>5 DEF Start, queue, store, weather, Types, QueueTypes, PushTypes, StoreTypes
    <2>2. PhaseTypes'
      BY <1>5 DEF Start, queue, store, weather, Types, PhaseTypes
    <2>3. BatchTypes'
      BY <1>5 DEF Start, queue, store, weather, Types, BatchTypes
    <2>4. AuthTypes'
      BY <1>5 DEF Start, queue, store, weather, Types, AuthTypes
    <2>5. WatchTypes'
      BY <1>5 DEF Start, queue, store, weather, Types, WatchTypes, Behind
    <2>6. WeatherTypes'
      <3>1. gate' \subseteq Gates /\ deferred' \subseteq Files
        BY <1>5 DEF Start, Types, WeatherTypes
      <3>2. catchUp' \in BOOLEAN /\ (wasQuiet' = ("quiet" \in gate))
        BY <1>5 DEF Start
      <3>3. wasQuiet' \in BOOLEAN
        BY <3>2
      <3> QED
        BY <3>1, <3>2, <3>3 DEF WeatherTypes
    <2> QED
      BY <2>1, <2>2, <2>3, <2>4, <2>5, <2>6 DEF Types
  <1> QED
    BY <1>1, <1>2, <1>3, <1>4, <1>5

LEMMA FlushOneStep ==
  ASSUME Types, NEW t, FlushOne(t)
  PROVE  Types'
  <1>1. CASE FlushOne(t)
    <2>1. PhaseTypes' /\ QueueTypes' /\ StoreTypes' /\ WatchTypes' /\ WeatherTypes' /\ AuthTypes'
      BY <1>1 DEF FlushOne, StopUnchanged, queue, store, weather, Types, PhaseTypes, QueueTypes, StoreTypes, WatchTypes, WeatherTypes, AuthTypes
    <2>2. BatchTypes'
      BY <1>1 DEF FlushOne, StopUnchanged, queue, store, weather, Types, BatchTypes
    <2>3. PushTypes'
      <3>1. t \in Slot
        BY <1>1 DEF FlushOne, Types, BatchTypes
      <3> DEFINE s == [pc |-> "start", file |-> t[1], seq |-> t[2]]
      <3>2. s \in PushStates
        BY <3>1 DEF PushStates, Running, Slot
      <3> HIDE DEF s
      <3>3. Goto(Main, s)
        BY <1>1 DEF FlushOne, s
      <3> QED
        BY <3>2, <3>3, PushMoves DEF Types, Pushers
    <2> QED
      BY <2>1, <2>2, <2>3 DEF Types
  <1> QED
    BY <1>1

LEMMA CalmStep == ASSUME Types, Calm PROVE Types'
  <1>1. CASE \E f \in Files : GameSaves(f) \/ Undefer(f)
    BY <1>1, FileStep
  <1>2. CASE \E g \in Gates : Releases(g)
    BY <1>2, GateStep
  <1>3. CASE WatcherStep
    BY <1>3, WatchFileStep, WatchStep DEF WatcherStep
  <1>4. CASE \E p \in Timers, t \in armed : Fire(p, t)
    BY <1>4, FireStep DEF Pushers
  <1>5. CASE \E p \in Pushers : PushStep(p)
    BY <1>5, EndStep, ReadStep, SendStep DEF PushStep
  <1>6. CASE OutboxStep
    BY <1>6, OutboxStartStep, OutboxLoadStep, OutboxEndStep DEF OutboxStep
  <1>7. CASE Shutdown
    BY <1>7, StopStep, FlushOneStep DEF Shutdown, Close
  <1> QED
    BY <1>1, <1>2, <1>3, <1>4, <1>5, <1>6, <1>7 DEF Calm

LEMMA DisturbedStep == ASSUME Types, Disturbed PROVE Types'
  <1>1. CASE \E g \in Gates : Holds(g)
    BY <1>1, GateStep
  <1>2. CASE \E f \in Files : Defer(f)
    BY <1>2, FileStep
  <1>3. CASE WatcherTrouble
    BY <1>3, WatchFileStep, WatchStep DEF WatcherTrouble
  <1>4. CASE \E p \in Pushers : PushTrouble(p)
    BY <1>4, ReadStep, SendStep DEF PushTrouble
  <1>5. CASE OutboxTrouble
    BY <1>5, OutboxEndStep DEF OutboxTrouble
  <1>6. CASE Stop \/ Crash
    BY <1>6, StopStep DEF Crash
  <1> QED
    BY <1>1, <1>2, <1>3, <1>4, <1>5, <1>6 DEF Disturbed

LEMMA TypesStep == Types /\ TroubleTypes /\ [Next]_vars => (Types /\ TroubleTypes)'
  <1> SUFFICES ASSUME Types, TroubleTypes, [Next]_vars PROVE (Types /\ TroubleTypes)'
    OBVIOUS
  <1>1. CASE Calm /\ UNCHANGED troubles
    BY <1>1, CalmStep DEF TroubleTypes
  <1>2. CASE Disturbed /\ troubles > 0 /\ troubles' = troubles - 1
    <2>1. TroubleTypes'
      BY <1>2, QueueAssumption DEF TroubleTypes
    <2> QED
      BY <1>2, <2>1, DisturbedStep
  <1>3. CASE UNCHANGED vars
    BY <1>3 DEF vars, queue, store, weather, Types, PhaseTypes, QueueTypes, PushTypes, StoreTypes,
       WatchTypes, WeatherTypes, AuthTypes, BatchTypes, TroubleTypes
  <1> QED
    BY <1>1, <1>2, <1>3 DEF Next

---------------------------------------------------------------------------
\* In every reachable state the watcher's maps, the outbox and the goroutines
\* are well formed: a flush never meets an outbox entry, a retry never a queued
\* push (flushPending, ProcessOutbox).
THEOREM QueueTypeCorrect == Spec => []TypeOK
  <1>1. Types /\ TroubleTypes => TypeOK
    BY DEF Types, PhaseTypes, QueueTypes, PushTypes, PushStates, StoreTypes, WatchTypes, WeatherTypes,
       AuthTypes, BatchTypes, TroubleTypes, TypeOK
  <1> QED
    BY <1>1, InitTypes, TypesStep, PTL DEF Spec

---------------------------------------------------------------------------
(* No edit gets out of sight.  That an edit is in sight now says too little  *)
(* of the next state: a queued push must not be one that an older run of it  *)
(* is about to clear, and an entry of the outbox must not be the one that    *)
(* the select loop is retrying and will remove.                              *)

\* An edit in a directory that is not watched is one the queue never hears of.
UnwatchedIsMissed == Behind \ watched \subseteq missed

\* Nothing runs while the client is off.
OffIsIdle == phase = "off" => batch = {} /\ push = [p \in Pushers |-> Idle]

\* The entries ProcessOutbox has picked: still to be tried, or being tried.
Retrying == IF push[Main].pc = "retry" THEN {<<push[Main].file, push[Main].name>>} ELSE {}
Picked == batch \cup Retrying

\* An entry is tried once in a batch.  One that is gone by then was replaced by
\* an entry that the batch does not know (EnqueueOutbox).
PickedOnce == Retrying \cap batch = {}
PickedIsBacked ==
  \A e \in Picked : \/ e[2] \in outbox[e[1]]
                    \/ \E n \in outbox[e[1]] : <<e[1], n>> \notin Picked

\* Does an entry of the file outlast the retry that is running?
InOutbox(f) == \E n \in outbox[f] : <<f, n>> \notin Retrying

FirmSight(f) == f \in events \/ Queued(f) \/ InPush(f) \/ InOutbox(f) \/ RescanDue(f)

BatchInv == phase = "on" => PickedOnce /\ PickedIsBacked
SightInv == phase = "on" => \A f \in Behind \ (missed \cup skipped) : FirmSight(f)

EditInv == UnwatchedIsMissed /\ OffIsIdle /\ BatchInv /\ SightInv

LEMMA InitEdits == Init => EditInv
  <1> SUFFICES ASSUME Init PROVE EditInv
    OBVIOUS
  <1>1. Behind = {}
    BY DEF Init, Behind
  <1>2. Main \in Pushers /\ Retrying = {} /\ batch = {}
    BY DEF Init, Retrying, Idle, Pushers
  <1> QED
    BY <1>1, <1>2 DEF Init, EditInv, UnwatchedIsMissed, OffIsIdle, BatchInv, PickedOnce, PickedIsBacked, Picked, SightInv

\* What was handled stays handled.
LEMMA SettledGrows ==
  ASSUME Types, NEW f \in Files, NEW v \in Versions, Settled(f, v), ver' = ver
  PROVE  Behind' \subseteq Behind /\ (v = ver[f] => f \notin Behind')
  <1>1. /\ \A g \in Files : handled[g] \in Nat /\ ver[g] \in Nat
        /\ v \in Nat /\ handled' = [handled EXCEPT ![f] = Latest(@, v)]
    BY QueueAssumption DEF Types, StoreTypes, WatchTypes, Versions, Settled
  <1>2. Latest(handled[f], v) \in {handled[f], v} /\ \A y \in {handled[f], v} : Latest(handled[f], v) >= y
    <2>1. \E x \in {handled[f], v} : \A y \in {handled[f], v} : x >= y
      BY <1>1
    <2> QED
      BY <2>1 DEF Latest, Max
  <1>3. handled'[f] >= handled[f] /\ handled'[f] >= v /\ handled'[f] \in Nat
    BY <1>1, <1>2 DEF Types, StoreTypes
  <1>4. \A g \in Files : g # f => handled'[g] = handled[g]
    BY <1>1 DEF Types, StoreTypes
  <1> QED
    BY <1>1, <1>3, <1>4 DEF Behind

\* A push that Stage queues has a number of its own.
LEMMA StageQueues ==
  ASSUME Types, NEW f \in Files, Stage(f), NEW p \in Pushers, Goto(p, Idle) \/ UNCHANGED push
  PROVE  /\ Queued(f)'
         /\ \A g \in Files : g # f => pending'[g] = pending[g]
         /\ armed \subseteq armed'
  <1>1. PICK s \in FreeSeqs : pending' = [pending EXCEPT ![f] = s] /\ armed' = armed \cup {<<f, s>>}
    BY DEF Stage, Smallest
  <1>2. s \in Seqs /\ s # NoSeq
    BY <1>1, QueueAssumption DEF FreeSeqs
  <1>3. \A q \in Busy : push[q].pc # "retry" => push[q].seq # s
    BY <1>1 DEF FreeSeqs, SeqsInUse
  <1>4. pending'[f] = s /\ \A g \in Files : g # f => pending'[g] = pending[g]
    BY <1>1 DEF Types, QueueTypes
  <1>5. \A q \in Busy' : q \in Busy /\ push'[q] = push[q]
    BY DEF Goto, Busy, Types, PushTypes
  <1> QED
    BY <1>1, <1>2, <1>3, <1>4, <1>5 DEF Queued, InQueue

\* An entry that EnqueueOutbox writes is not one the batch knows.
LEMMA EnqueueBacks ==
  ASSUME Types, phase = "on", PickedIsBacked, NEW f \in Files, Enqueue(f),
         UNCHANGED batch, Retrying' = Retrying
  PROVE  /\ InOutbox(f)' /\ PickedIsBacked'
         /\ \A g \in Files : g # f => outbox'[g] = outbox[g]
  <1>1. PICK n \in Names \ NamesInUse(f) : outbox' = [outbox EXCEPT ![f] = {n}]
    BY DEF Enqueue, Smallest
  <1>2. outbox'[f] = {n} /\ \A g \in Files : g # f => outbox'[g] = outbox[g]
    BY <1>1 DEF Types, StoreTypes
  <1>3. <<f, n>> \notin batch
    BY <1>1 DEF NamesInUse
  <1>4. <<f, n>> \notin Retrying
    <2>1. push[Main].pc = "retry" => Main \in Busy
      BY DEF Busy, Pushers, Idle
    <2> QED
      BY <1>1, <2>1 DEF NamesInUse, Retrying
  <1>5. Picked' = Picked /\ \A e \in Picked : e[1] \in Files /\ e = <<e[1], e[2]>>
    BY DEF Picked, Retrying, Types, BatchTypes, PushTypes, PushStates, Idle, Running, Loaded, Retry, Pushers
  <1>6. PickedIsBacked'
    BY <1>2, <1>3, <1>4, <1>5 DEF PickedIsBacked, Picked
  <1> QED
    BY <1>2, <1>4, <1>6 DEF InOutbox

\* A goroutine of pushDebounced moves on: what it does to the file of its push
\* has to be looked at, the other files stay as they are.
LEMMA PushFrame ==
  ASSUME Types, EditInv, NEW p \in Pushers, push[p] \in Running \cup Loaded,
         NEW f \in Files, push[p].file = f,
         NEW s \in PushStates, s.pc # "retry", Goto(p, s), s = Idle \/ s.file = f,
         UNCHANGED <<phase, ver, events, watched, todo, weather, skipped, batch>>,
         missed \subseteq missed', Behind' \subseteq Behind,
         \A g \in Files : g # f =>
            outbox'[g] = outbox[g] /\ pending'[g] = pending[g] /\
            \A n \in Seqs : <<g, n>> \in armed => <<g, n>> \in armed',
         phase = "on" => PickedIsBacked',
         phase = "on" /\ f \in Behind' \ (missed' \cup skipped) => FirmSight(f)'
  PROVE  EditInv' /\ Retrying' = Retrying
  <1>1. push[p].pc # "idle" /\ push[p].pc # "retry"
    BY DEF Running, Loaded
  <1>2. push'[p] = s /\ \A q \in Pushers : q # p => push'[q] = push[q]
    BY DEF Goto, Types, PushTypes
  <1>3. Retrying' = Retrying
    BY <1>1, <1>2 DEF Retrying, Pushers
  <1>4. UnwatchedIsMissed'
    BY DEF EditInv, UnwatchedIsMissed
  <1>5. OffIsIdle'
    BY <1>1 DEF EditInv, OffIsIdle, Idle
  <1>6. BatchInv'
    BY <1>3 DEF EditInv, BatchInv, PickedOnce
  <1>7. SightInv'
    <2> SUFFICES ASSUME phase = "on", NEW g \in Behind' \ (missed' \cup skipped), g # f PROVE FirmSight(g)'
      BY DEF SightInv
    <2>1. g \in Files /\ FirmSight(g)
      BY DEF EditInv, SightInv, Behind
    <2>2. Queued(g) => Queued(g)'
      <3>1. InQueue(g) => InQueue(g)'
        BY <2>1 DEF InQueue, Types, QueueTypes
      <3>2. \A q \in Busy' : push'[q].file = g => q \in Busy /\ push'[q] = push[q]
        BY <1>2 DEF Busy, Idle
      <3> QED
        BY <3>1, <3>2, <2>1 DEF Queued
    <2>3. InPush(g) => InPush(g)'
      BY <1>2 DEF InPush, Busy
    <2>4. InOutbox(g) => InOutbox(g)'
      BY <1>3, <2>1 DEF InOutbox
    <2>5. RescanDue(g) => RescanDue(g)'
      BY DEF RescanDue, weather
    <2> QED
      BY <2>1, <2>2, <2>3, <2>4, <2>5 DEF FirmSight
  <1> QED
    BY <1>3, <1>4, <1>5, <1>6, <1>7 DEF EditInv

\* It leaves the queue and the outbox alone, and what it knows of the file is
\* not lost.
LEMMA PushGoesOn ==
  ASSUME Types, EditInv, NEW p \in Pushers, push[p] \in Running \cup Loaded,
         NEW f \in Files, push[p].file = f,
         NEW s \in Running \cup Loaded, Goto(p, s), s.file = f, s.seq = push[p].seq,
         UNCHANGED <<phase, ver, events, watched, todo, weather, skipped, batch, queue, outbox>>,
         missed \subseteq missed', Behind' \subseteq Behind,
         \/ f \notin Behind' \ missed'
         \/ s.pc \in {"start", "read"}
         \/ s.pc \in {"settle", "send"} /\ s.snap = ver[f]
         \/ push[p].pc \in {"done", "dropped"}
         \/ push[p].pc \in {"settle", "send"} /\ push[p].snap # ver[f]
         \/ gate # {}
  PROVE  EditInv' /\ Retrying' = Retrying
  <1>0. /\ push[p].pc # "idle" /\ push[p].pc # "retry"
        /\ s.pc # "idle" /\ s.pc # "retry" /\ s \in PushStates
    BY DEF Running, Loaded, PushStates
  <1>1. push'[p] = s /\ \A q \in Pushers : q # p => push'[q] = push[q]
    BY DEF Goto, Types, PushTypes
  <1>2. Retrying' = Retrying
    BY <1>0, <1>1 DEF Retrying, Pushers
  <1>3. phase = "on" => PickedIsBacked'
    BY <1>2 DEF EditInv, BatchInv, PickedIsBacked, Picked
  <1>4. Busy' = Busy /\ p \in Busy
    BY <1>0, <1>1 DEF Busy, Idle
  <1>5. ASSUME phase = "on", f \in Behind' \ (missed' \cup skipped) PROVE FirmSight(f)'
    <2>1. FirmSight(f)
      BY <1>5 DEF EditInv, SightInv
    <2>2. Queued(f) => Queued(f)'
      <3>1. InQueue(f) => InQueue(f)'
        BY DEF InQueue, queue
      <3>2. \A q \in Busy : push'[q].pc # "retry" /\ push'[q].file = f =>
               push[q].pc # "retry" /\ push[q].file = f /\ push'[q].seq = push[q].seq
        BY <1>0, <1>1 DEF Busy
      <3> QED
        BY <3>1, <3>2, <1>4 DEF Queued, queue
    <2>3. InOutbox(f) => InOutbox(f)'
      BY <1>2 DEF InOutbox
    <2>4. RescanDue(f) => RescanDue(f)'
      BY DEF RescanDue, weather
    <2>5. InPush(f) => InPush(f)' \/ gate # {}
      <3> SUFFICES ASSUME gate = {}, NEW q \in Busy, push[q].file = f,
                          \/ push[q].pc \in {"start", "read"}
                          \/ push[q].pc \in {"settle", "send", "retry"} /\ push[q].snap = ver[f]
                   PROVE  InPush(f)'
        BY DEF InPush
      <3>1. CASE q = p
        <4>1. \/ s.pc \in {"start", "read"}
              \/ s.pc \in {"settle", "send"} /\ s.snap = ver[f]
          BY <3>1, <1>0, <1>5
        <4> QED
          BY <4>1, <1>1, <1>4 DEF InPush
      <3>2. CASE q # p
        <4>1. push'[q] = push[q] /\ q \in Busy'
          BY <3>2, <1>1, <1>4 DEF Busy
        <4> QED
          BY <4>1 DEF InPush
      <3> QED
        BY <3>1, <3>2
    <2>6. gate # {} => RescanDue(f)'
      BY DEF RescanDue, weather
    <2> QED
      BY <2>1, <2>2, <2>3, <2>4, <2>5, <2>6 DEF FirmSight
  <1> QED
    BY <1>0, <1>3, <1>5, PushFrame DEF queue

\* It gives up for now and queues the push again.
LEMMA PushRestages ==
  ASSUME Types, EditInv, NEW p \in Pushers, push[p] \in Running \cup Loaded,
         NEW f \in Files, push[p].file = f, Goto(p, Idle), Stage(f),
         UNCHANGED <<phase, ver, events, watched, todo, weather, skipped, batch, outbox, missed, handled>>
  PROVE  EditInv'
  <1>1. /\ Queued(f)' /\ armed \subseteq armed'
        /\ \A g \in Files : g # f => pending'[g] = pending[g]
    BY StageQueues
  <1>2. Idle \in PushStates /\ Idle.pc # "retry"
    BY DEF PushStates, Idle
  <1>3. Retrying' = Retrying
    BY <1>2 DEF Retrying, Goto, Types, PushTypes, Running, Loaded
  <1>4. phase = "on" => PickedIsBacked'
    BY <1>3 DEF EditInv, BatchInv, PickedIsBacked, Picked
  <1>5. Behind' = Behind
    BY DEF Behind
  <1> QED
    BY <1>1, <1>2, <1>4, <1>5, PushFrame DEF FirmSight

\* It leaves the upload to the outbox.
LEMMA PushEnqueues ==
  ASSUME Types, EditInv, NEW p \in Pushers, push[p] \in Running \cup Loaded,
         NEW f \in Files, push[p].file = f, Done(p), Enqueue(f),
         UNCHANGED <<phase, ver, events, watched, todo, weather, skipped, batch, queue, missed, handled>>
  PROVE  EditInv'
  <1> DEFINE s == [pc |-> "done", file |-> f, seq |-> push[p].seq]
  <1>1. s \in PushStates /\ s.pc # "retry" /\ s.file = f /\ Goto(p, s)
    BY DEF PushStates, Running, Loaded, Done
  <1> HIDE DEF s
  <1>2. Retrying' = Retrying
    BY <1>1 DEF Retrying, Goto, Types, PushTypes, Running, Loaded
  <1>3. Behind' = Behind
    BY DEF Behind
  <1>4. phase = "on" => /\ PickedIsBacked' /\ InOutbox(f)'
    BY <1>2, EnqueueBacks DEF EditInv, BatchInv
  <1>5. \A g \in Files : g # f => outbox'[g] = outbox[g]
    BY DEF Enqueue, Types, StoreTypes
  <1> QED
    BY <1>1, <1>3, <1>4, <1>5, PushFrame DEF FirmSight, queue

LEMMA EndKeepsEdits ==
  ASSUME Types, EditInv, NEW p \in Pushers, StartPush(p) \/ Cleanup(p)
  PROVE  EditInv'
  <1>0. PICK f \in Files : push[p].file = f /\ push[p] \in Running
    BY PushRecords DEF StartPush, Cleanup, Types, PushTypes, Running
  <1>1. CASE StartPush(p)
    <2>1. CASE gate # {}
      <3> DEFINE s == [push[p] EXCEPT !.pc = "dropped"]
      <3>1. s \in Running /\ s.file = f /\ s.seq = push[p].seq
        BY <1>0 DEF Running
      <3> HIDE DEF s
      <3>2. Goto(p, s)
        BY <1>1, <2>1 DEF StartPush, s
      <3>3. Behind' = Behind
        BY <1>1 DEF StartPush, PushUnchanged, store, Behind
      <3> QED
        BY <1>0, <1>1, <2>1, <3>1, <3>2, <3>3, PushGoesOn DEF StartPush, PushUnchanged, store
    <2>2. CASE gate = {} /\ f \in deferred
      BY <1>0, <1>1, <2>2, PushRestages DEF StartPush, PushUnchanged, store
    <2>3. CASE gate = {} /\ f \notin deferred
      <3> DEFINE s == [push[p] EXCEPT !.pc = "read"]
      <3>1. s \in Running /\ s.file = f /\ s.seq = push[p].seq /\ s.pc = "read"
        BY <1>0 DEF Running
      <3> HIDE DEF s
      <3>2. Goto(p, s) /\ UNCHANGED queue
        BY <1>0, <1>1, <2>3 DEF StartPush, s
      <3>3. Behind' = Behind
        BY <1>1 DEF StartPush, PushUnchanged, store, Behind
      <3>4. UNCHANGED <<phase, ver, events, watched, todo, weather, skipped, batch, outbox, missed>>
        BY <1>1 DEF StartPush, PushUnchanged, store
      <3> QED
        BY <1>0, <3>1, <3>2, <3>3, <3>4, PushGoesOn
    <2> QED
      BY <2>1, <2>2, <2>3
  <1>2. CASE Cleanup(p)
    <2>1. Idle \in PushStates /\ Idle.pc # "retry" /\ Goto(p, Idle)
      BY <1>2 DEF PushStates, Idle, Cleanup
    <2>2. Behind' = Behind
      BY <1>2 DEF Cleanup, PushUnchanged, store, Behind
    <2>3. /\ armed' = armed /\ \A g \in Files : g # f => pending'[g] = pending[g]
          /\ pending[f] # push[p].seq => pending'[f] = pending[f]
      BY <1>0, <1>2 DEF Cleanup, Types, QueueTypes
    <2>4. Retrying' = Retrying
      BY <1>0, <2>1 DEF Retrying, Goto, Types, PushTypes, Running
    <2>5. phase = "on" => PickedIsBacked'
      BY <1>2, <2>4 DEF Cleanup, PushUnchanged, store, EditInv, BatchInv, PickedIsBacked, Picked
    <2>6. ASSUME phase = "on", f \in Behind \ (missed \cup skipped) PROVE FirmSight(f)'
      <3>1. FirmSight(f)
        BY <2>6 DEF EditInv, SightInv
      <3>2. p \in Busy /\ push[p].pc \in {"dropped", "done"}
        BY <1>2 DEF Busy, Cleanup, Idle
      <3> push'[p] = Idle /\ \A q \in Pushers : q # p => push'[q] = push[q]
        BY <2>1 DEF Goto, Types, PushTypes
      <3>3. ASSUME NEW q \in Busy, q # p PROVE q \in Busy' /\ push'[q] = push[q]
        BY <3>3 DEF Busy
      <3>4. \A q \in Busy' : q \in Busy /\ push'[q] = push[q]
        BY DEF Busy
      <3>5. Queued(f) => Queued(f)'
        BY <1>0, <2>3, <3>2, <3>4 DEF Queued, InQueue
      <3>6. InPush(f) => InPush(f)'
        BY <1>2, <3>2, <3>3 DEF InPush, Cleanup, PushUnchanged
      <3>7. InOutbox(f) => InOutbox(f)'
        BY <1>2, <2>4 DEF InOutbox, Cleanup, store
      <3>8. (RescanDue(f) => RescanDue(f)') /\ events' = events
        BY <1>2 DEF RescanDue, weather, Cleanup, PushUnchanged
      <3> QED
        BY <3>1, <3>5, <3>6, <3>7, <3>8 DEF FirmSight
    <2> QED
      BY <1>0, <1>2, <2>1, <2>2, <2>3, <2>5, <2>6, PushFrame DEF Cleanup, PushUnchanged, store
  <1> QED
    BY <1>1, <1>2

LEMMA ReadKeepsEdits ==
  ASSUME Types, EditInv, NEW p \in Pushers, ReadFile(p) \/ ReadLocked(p) \/ ReadFails(p) \/ ReadEmpty(p)
  PROVE  EditInv'
  <1>0. PICK f \in Files : push[p].file = f /\ push[p] \in Running /\ ver[f] \in Versions
    BY PushRecords DEF ReadFile, ReadLocked, ReadFails, ReadEmpty, Types, PushTypes, Running, WatchTypes
  <1> DEFINE done == [pc |-> "done", file |-> f, seq |-> push[p].seq]
  <1>a. done \in Running /\ done.file = f /\ done.seq = push[p].seq /\ (Done(p) => Goto(p, done))
    BY <1>0 DEF Running, Done
  <1> HIDE DEF done
  <1>1. CASE ReadFile(p)
    <2> DEFINE s == [pc |-> "settle", file |-> f, seq |-> push[p].seq, snap |-> ver[f]]
    <2>1. s \in Loaded /\ s.file = f /\ s.seq = push[p].seq /\ s.pc = "settle" /\ s.snap = ver[f]
      BY <1>0 DEF Running, Loaded
    <2> HIDE DEF s
    <2>2. Goto(p, s) /\ Behind' = Behind
      BY <1>0, <1>1 DEF ReadFile, PushUnchanged, store, Behind, s
    <2> QED
      BY <1>0, <1>1, <2>1, <2>2, PushGoesOn DEF ReadFile, PushUnchanged, store
  <1>2. CASE ReadLocked(p)
    BY <1>0, <1>2, PushEnqueues DEF ReadLocked, PushUnchanged
  <1>3. CASE ReadFails(p)
    <2>1. CASE missed' = missed \cup {f} /\ UNCHANGED handled
      <3>1. Behind' = Behind /\ Goto(p, done)
        BY <1>3, <1>a, <2>1 DEF ReadFails, PushUnchanged, Behind
      <3> QED
        BY <1>0, <1>3, <1>a, <2>1, <3>1, PushGoesOn DEF ReadFails, PushUnchanged
    <2>2. CASE Settled(f, ver[f]) /\ UNCHANGED missed
      <3>1. Goto(p, done) /\ Behind' \subseteq Behind /\ f \notin Behind'
        BY <1>0, <1>3, <1>a, <2>2, SettledGrows DEF ReadFails, PushUnchanged
      <3> QED
        BY <1>0, <1>3, <1>a, <2>2, <3>1, PushGoesOn DEF ReadFails, PushUnchanged
    <2> QED
      BY <1>0, <1>3, <2>1, <2>2 DEF ReadFails
  <1>4. CASE ReadEmpty(p)
    <2>1. CASE f \in emptied
      <3>1. Goto(p, done) /\ Behind' \subseteq Behind /\ f \notin Behind'
        BY <1>0, <1>4, <1>a, <2>1, SettledGrows DEF ReadEmpty, PushUnchanged
      <3> QED
        BY <1>0, <1>4, <1>a, <2>1, <3>1, PushGoesOn DEF ReadEmpty, PushUnchanged
    <2>2. CASE f \notin emptied
      BY <1>0, <1>4, <2>2, PushRestages DEF ReadEmpty, PushUnchanged
    <2> QED
      BY <2>1, <2>2
  <1> QED
    BY <1>1, <1>2, <1>3, <1>4

LEMMA SendKeepsEdits ==
  ASSUME Types, EditInv, NEW p \in Pushers,
         Settle(p) \/ SendStored(p) \/ SendRefused(p) \/ SendCancelled(p) \/ SendFails(p)
  PROVE  EditInv'
  <1>0. PICK f \in Files : push[p].file = f /\ push[p] \in Loaded /\ push[p].snap \in Versions
    BY PushRecords DEF Settle, SendStored, SendRefused, SendCancelled, SendFails, Types, PushTypes, Loaded
  <1> DEFINE done == [pc |-> "done", file |-> f, seq |-> push[p].seq]
  <1>a. done \in Running /\ done.file = f /\ done.seq = push[p].seq /\ (Done(p) => Goto(p, done))
    BY <1>0 DEF Running, Loaded, Done
  <1> HIDE DEF done
  <1>1. CASE Settle(p)
    <2>1. CASE ver[f] # push[p].snap /\ settle[f] < MaxSettle
      BY <1>0, <1>1, <2>1, PushRestages DEF Settle, PushUnchanged, store
    <2>2. CASE ~(ver[f] # push[p].snap /\ settle[f] < MaxSettle)
      <3> DEFINE s == [push[p] EXCEPT !.pc = "send"]
      <3>1. s \in Loaded /\ s.file = f /\ s.seq = push[p].seq /\ s.pc = "send" /\ s.snap = push[p].snap
        BY <1>0 DEF Loaded
      <3> HIDE DEF s
      <3>2. Goto(p, s) /\ Behind' = Behind /\ push[p].pc = "settle"
        BY <1>0, <1>1, <2>2 DEF Settle, PushUnchanged, store, Behind, s
      <3> QED
        BY <1>0, <1>1, <2>2, <3>1, <3>2, PushGoesOn DEF Settle, PushUnchanged, store
    <2> QED
      BY <2>1, <2>2
  <1>2. CASE SendStored(p)
    <2>1. /\ Goto(p, done) /\ Behind' \subseteq Behind /\ push[p].pc = "send"
          /\ f \notin Behind' \/ push[p].snap # ver[f]
      BY <1>0, <1>2, <1>a, SettledGrows DEF SendStored, PushUnchanged
    <2> QED
      BY <1>0, <1>2, <1>a, <2>1, PushGoesOn DEF SendStored, PushUnchanged
  <1>3. CASE SendRefused(p)
    <2>1. /\ Goto(p, done) /\ Behind' \subseteq Behind /\ push[p].pc = "send"
          /\ f \notin Behind' \/ push[p].snap # ver[f]
      BY <1>0, <1>3, <1>a, SettledGrows DEF SendRefused, PushUnchanged
    <2> QED
      BY <1>0, <1>3, <1>a, <2>1, PushGoesOn DEF SendRefused, PushUnchanged
  <1>4. CASE SendCancelled(p)
    <2>1. /\ Goto(p, done) /\ Behind' = Behind /\ push[p].pc = "send" /\ phase # "on"
      BY <1>0, <1>4, <1>a DEF SendCancelled, PushUnchanged, store, Behind
    <2>2. phase \in {"stopping", "flushing", "draining"} /\ phase' = phase
      BY <1>0, <1>4, <2>1 DEF Types, PhaseTypes, EditInv, OffIsIdle, Idle, SendCancelled, PushUnchanged
    <2>3. UnwatchedIsMissed'
      BY <1>4, <2>1 DEF EditInv, UnwatchedIsMissed, SendCancelled, PushUnchanged
    <2> QED
      BY <2>2, <2>3 DEF EditInv, OffIsIdle, BatchInv, SightInv
  <1>5. CASE SendFails(p)
    BY <1>0, <1>5, PushEnqueues DEF SendFails, PushUnchanged
  <1> QED
    BY <1>1, <1>2, <1>3, <1>4, <1>5

\* The world's and the watcher's steps leave the goroutines and the outbox
\* alone.
LEMMA OutsideFrame ==
  ASSUME Types, EditInv, UNCHANGED <<phase, push, outbox, batch>>, UnwatchedIsMissed',
         \A g \in Behind' \ (missed' \cup skipped') :
            phase = "on" /\ ~InOutbox(g)' => g \in events' \/ Queued(g)' \/ InPush(g)' \/ RescanDue(g)'
  PROVE  EditInv'
  <1>1. Retrying' = Retrying
    BY DEF Retrying
  <1>2. BatchInv'
    BY <1>1 DEF EditInv, BatchInv, PickedOnce, PickedIsBacked, Picked
  <1>3. OffIsIdle' /\ SightInv'
    BY DEF EditInv, OffIsIdle, SightInv, FirmSight
  <1> QED
    BY <1>2, <1>3 DEF EditInv

LEMMA SameOutbox ==
  ASSUME UNCHANGED <<push, outbox>>
  PROVE  \A g : InOutbox(g)' = InOutbox(g)
  BY DEF InOutbox, Retrying

LEMMA SamePush ==
  ASSUME UNCHANGED push, NEW g, ver'[g] = ver[g]
  PROVE  InPush(g)' = InPush(g)
  BY DEF InPush, Busy

LEMMA SameQueue ==
  ASSUME UNCHANGED push, NEW g \in Files, pending'[g] = pending[g],
         \A n : <<g, n>> \in armed => <<g, n>> \in armed'
  PROVE  Queued(g) => Queued(g)'
  BY DEF Queued, InQueue, Busy

LEMMA FileKeepsEdits ==
  ASSUME Types, EditInv, NEW f \in Files, GameSaves(f) \/ Defer(f) \/ Undefer(f)
  PROVE  EditInv'
  <1>1. CASE GameSaves(f)
    <2>1. \A g \in Files : g # f => ver'[g] = ver[g]
      BY <1>1 DEF GameSaves, Types, WatchTypes
    <2>2. \A g \in Files : g # f => (g \in Behind' <=> g \in Behind)
      BY <1>1, <2>1 DEF GameSaves, Behind, store
    <2>3. UnwatchedIsMissed'
      BY <1>1, <2>2 DEF GameSaves, EditInv, UnwatchedIsMissed, Behind
    <2>4. ASSUME NEW g \in Behind' \ (missed' \cup skipped'), phase = "on", g # f
          PROVE  g \in events' \/ Queued(g)' \/ InPush(g)' \/ InOutbox(g)' \/ RescanDue(g)'
      <3>1. g \in Files /\ FirmSight(g)
        BY <1>1, <2>2, <2>4 DEF GameSaves, EditInv, SightInv, Behind
      <3>2. UNCHANGED <<push, queue, outbox>> /\ ver'[g] = ver[g]
        BY <1>1, <2>1, <2>4, <3>1 DEF GameSaves, store
      <3>3. RescanDue(g)' = RescanDue(g)
        BY <1>1 DEF GameSaves, RescanDue, weather
      <3>4. g \in events => g \in events'
        BY <1>1 DEF GameSaves
      <3> QED
        BY <3>1, <3>2, <3>3, <3>4, SameOutbox, SamePush, SameQueue DEF FirmSight, queue
    <2>5. f \in missed' \/ f \in events'
      BY <1>1 DEF GameSaves
    <2> QED
      BY <1>1, <2>3, <2>4, <2>5, OutsideFrame DEF GameSaves, store
  <1>2. CASE Defer(f) \/ Undefer(f)
    <2>1. /\ UNCHANGED <<phase, ver, events, watched, todo, pending, push, store, batch, gate, catchUp, wasQuiet, missed, skipped>>
          /\ armed \subseteq armed'
      BY <1>2 DEF Defer, Undefer, WorldUnchanged, FlushPendingFor, queue
    <2>2. Behind' = Behind /\ UnwatchedIsMissed'
      BY <2>1 DEF Behind, store, EditInv, UnwatchedIsMissed
    <2>3. ASSUME NEW g \in Behind' \ (missed' \cup skipped'), phase = "on"
          PROVE  g \in events' \/ Queued(g)' \/ InPush(g)' \/ InOutbox(g)' \/ RescanDue(g)'
      <3>1. g \in Files /\ FirmSight(g)
        BY <2>1, <2>2, <2>3 DEF EditInv, SightInv, Behind
      <3>2. RescanDue(g)' = RescanDue(g)
        BY <2>1 DEF RescanDue
      <3> QED
        BY <2>1, <3>1, <3>2, SameOutbox, SamePush, SameQueue DEF FirmSight, store
    <2> QED
      BY <2>1, <2>2, <2>3, OutsideFrame DEF store
  <1> QED
    BY <1>1, <1>2

LEMMA GateKeepsEdits ==
  ASSUME Types, EditInv, NEW g \in Gates, Holds(g) \/ Releases(g)
  PROVE  EditInv'
  <1>1. /\ UNCHANGED <<phase, ver, events, watched, todo, queue, push, store, batch, wasQuiet, skipped>>
        /\ missed \subseteq missed'
    <2>1. CASE Holds(g)
      BY <2>1 DEF Holds, WorldUnchanged
    <2>2. CASE Releases(g)
      BY <2>2 DEF Releases, WorldUnchanged
    <2> QED
      BY <2>1, <2>2
  <1>2. Behind' = Behind
    BY <1>1 DEF Behind, store
  <1>3. UnwatchedIsMissed'
    BY <1>1, <1>2 DEF EditInv, UnwatchedIsMissed
  <1>4. ASSUME NEW h \in Behind' \ (missed' \cup skipped'), phase = "on"
        PROVE  h \in events' \/ Queued(h)' \/ InPush(h)' \/ InOutbox(h)' \/ RescanDue(h)'
    <2>1. h \in Files /\ FirmSight(h) /\ h \in watched
      BY <1>1, <1>2, <1>4 DEF EditInv, SightInv, UnwatchedIsMissed, Behind
    <2>2. RescanDue(h) => RescanDue(h)'
      <3>1. CASE Holds(g)
        BY <3>1 DEF Holds, RescanDue
      <3>2. CASE Releases(g) /\ g = "paused"
        BY <3>2 DEF Releases, RescanDue
      <3>3. CASE Releases(g) /\ g = "quiet"
        BY <3>3 DEF Releases, RescanDue
      <3>4. CASE Releases(g) /\ g = "metered"
        BY <1>2, <1>4, <2>1, <3>4 DEF Releases
      <3> QED
        BY <3>1, <3>2, <3>3, <3>4 DEF Gates
    <2> QED
      BY <1>1, <2>1, <2>2, SameOutbox, SamePush, SameQueue DEF FirmSight, store, queue
  <1> QED
    BY <1>1, <1>3, <1>4, OutsideFrame DEF store

LEMMA WatchFileKeepsEdits ==
  ASSUME Types, EditInv, NEW f \in Files, HandleEvent(f) \/ RescanFile(f) \/ Watch(f) \/ Unwatch(f)
  PROVE  EditInv'
  <1>1. /\ UNCHANGED <<phase, ver, push, store, batch, gate, catchUp, wasQuiet>>
        /\ missed \subseteq missed' /\ skipped \subseteq skipped'
    <2>1. CASE HandleEvent(f) \/ Watch(f)
      BY <2>1 DEF HandleEvent, Watch, WatchUnchanged, weather
    <2>2. CASE RescanFile(f)
      BY <2>2 DEF RescanFile, WatchUnchanged, weather
    <2>3. CASE Unwatch(f)
      BY <2>3 DEF Unwatch, WatchUnchanged, weather
    <2> QED
      BY <2>1, <2>2, <2>3
  <1>2. Behind' = Behind /\ Behind \subseteq Files
    BY <1>1 DEF Behind, store
  <1>3. UnwatchedIsMissed'
    <2>1. CASE HandleEvent(f) \/ RescanFile(f) \/ Watch(f)
      BY <1>1, <1>2, <2>1 DEF EditInv, UnwatchedIsMissed, HandleEvent, RescanFile, Watch
    <2>2. CASE Unwatch(f)
      BY <1>1, <1>2, <2>2 DEF EditInv, UnwatchedIsMissed, Unwatch
    <2> QED
      BY <2>1, <2>2
  <1>4. ASSUME NEW g \in Behind' \ (missed' \cup skipped'), phase = "on"
        PROVE  g \in events' \/ Queued(g)' \/ InPush(g)' \/ InOutbox(g)' \/ RescanDue(g)'
    <2>1. g \in Files /\ FirmSight(g)
      BY <1>1, <1>2, <1>4 DEF EditInv, SightInv
    <2>2. InPush(g)' = InPush(g) /\ InOutbox(g)' = InOutbox(g)
      BY <1>1, SameOutbox, SamePush DEF store
    <2>3. /\ Queued(g) => Queued(g)' \/ g = f
          /\ g # f => (g \in events => g \in events') /\ (RescanDue(g) => RescanDue(g)')
      <3>1. g # f => /\ pending'[g] = pending[g] /\ \A n : <<g, n>> \in armed => <<g, n>> \in armed'
                     /\ g \in events => g \in events'
                     /\ g \in todo => g \in todo'
        <4>1. CASE HandleEvent(f)
          BY <2>1, <4>1 DEF HandleEvent, Types, QueueTypes
        <4>2. CASE RescanFile(f)
          BY <2>1, <4>2 DEF RescanFile, Stage, Types, QueueTypes, queue
        <4>3. CASE Watch(f)
          BY <2>1, <4>3 DEF Watch, queue
        <4>4. CASE Unwatch(f)
          BY <2>1, <4>4 DEF Unwatch, Types, QueueTypes
        <4> QED
          BY <4>1, <4>2, <4>3, <4>4
      <3>2. g # f => (RescanDue(g) => RescanDue(g)')
        BY <1>1, <3>1 DEF RescanDue
      <3> QED
        BY <1>1, <2>1, <3>1, <3>2, SameQueue
    <2>4. CASE g = f /\ HandleEvent(f)
      <3>1. PICK s \in FreeSeqs : pending' = [pending EXCEPT ![f] = s] /\ <<f, s>> \in armed'
        BY <2>4 DEF HandleEvent, Smallest
      <3>2. \A q \in Busy' : push'[q].pc # "retry" => push'[q].seq # s
        BY <1>1, <3>1 DEF FreeSeqs, SeqsInUse, Busy
      <3>3. pending'[f] = s /\ s # NoSeq
        BY <3>1, QueueAssumption DEF Types, QueueTypes, FreeSeqs
      <3> QED
        BY <2>4, <3>1, <3>2, <3>3 DEF Queued, InQueue
    <2>5. CASE g = f /\ RescanFile(f)
      <3>1. CASE pending[f] = NoSeq
        <4>1. Main \in Pushers /\ Stage(f) /\ UNCHANGED push
          BY <1>1, <2>5, <3>1 DEF RescanFile, Pushers
        <4> QED
          BY <2>5, <4>1, StageQueues
      <3>2. CASE pending[f] # NoSeq
        <4>1. Queued(f) \/ InPush(f)
          BY <1>2, <1>4, <2>5, <3>2 DEF RescanFile
        <4>2. UNCHANGED queue
          BY <2>5, <3>2 DEF RescanFile
        <4> QED
          BY <1>1, <2>2, <2>5, <4>1, <4>2, SameQueue DEF queue
      <3> QED
        BY <3>1, <3>2
    <2>6. CASE g = f /\ Watch(f)
      <3>1. UNCHANGED <<queue, events, todo>>
        BY <2>6 DEF Watch
      <3>2. RescanDue(g)' = RescanDue(g)
        BY <1>1, <3>1 DEF RescanDue
      <3> QED
        BY <1>1, <2>1, <2>2, <3>1, <3>2, SameQueue DEF FirmSight, queue
    <2>7. CASE g = f /\ Unwatch(f)
      BY <1>2, <1>4, <2>7 DEF Unwatch
    <2> QED
      BY <2>1, <2>2, <2>3, <2>4, <2>5, <2>6, <2>7 DEF FirmSight
  <1> QED
    BY <1>1, <1>3, <1>4, OutsideFrame DEF store

LEMMA WatchKeepsEdits ==
  ASSUME Types, EditInv, Overflow \/ Recreate \/ CatchUp \/ QuietTick
  PROVE  EditInv'
  <1>1. /\ UNCHANGED <<phase, ver, push, queue, store, batch, watched, skipped, gate>>
        /\ missed \subseteq missed' /\ (missed' = missed \/ missed' = missed \cup events)
    <2>1. CASE Overflow \/ Recreate
      BY <2>1 DEF Overflow, Recreate, WatchUnchanged, weather
    <2>2. CASE CatchUp \/ QuietTick
      BY <2>2 DEF CatchUp, QuietTick, weather
    <2> QED
      BY <2>1, <2>2
  <1>2. Behind' = Behind /\ Behind \subseteq Files
    BY <1>1 DEF Behind, store
  <1>3. UnwatchedIsMissed'
    BY <1>1, <1>2 DEF EditInv, UnwatchedIsMissed
  <1>4. ASSUME NEW g \in Behind' \ (missed' \cup skipped'), phase = "on"
        PROVE  g \in events' \/ Queued(g)' \/ InPush(g)' \/ InOutbox(g)' \/ RescanDue(g)'
    <2>1. g \in Files /\ FirmSight(g) /\ g \in watched
      BY <1>1, <1>2, <1>4 DEF EditInv, SightInv, UnwatchedIsMissed
    <2>2. InPush(g)' = InPush(g) /\ InOutbox(g)' = InOutbox(g) /\ (Queued(g) => Queued(g)')
      BY <1>1, <2>1, SameOutbox, SamePush, SameQueue DEF store, queue
    <2>3. g \in events \/ RescanDue(g) => g \in events' \/ RescanDue(g)'
      <3>1. CASE Overflow
        BY <2>1, <3>1 DEF Overflow, RescanDue
      <3>2. CASE Recreate
        BY <1>4, <3>2 DEF Recreate, RescanDue, WatchUnchanged, weather
      <3>3. CASE CatchUp
        BY <2>1, <3>3 DEF CatchUp, RescanDue
      <3>4. CASE QuietTick
        BY <2>1, <3>4 DEF QuietTick, RescanDue
      <3> QED
        BY <3>1, <3>2, <3>3, <3>4
    <2> QED
      BY <2>1, <2>2, <2>3 DEF FirmSight
  <1> QED
    BY <1>1, <1>3, <1>4, OutsideFrame DEF store

LEMMA FireKeepsEdits ==
  ASSUME Types, EditInv, NEW p \in Timers, NEW t \in armed, Fire(p, t)
  PROVE  EditInv'
  <1>1. PICK f \in Files, n \in Seqs : t = <<f, n>>
    BY DEF Types, QueueTypes, Slot
  <1> DEFINE s == [pc |-> "start", file |-> f, seq |-> n]
  <1>2. p \in Pushers /\ p # Main /\ push'[p] = s /\ \A q \in Pushers : q # p => push'[q] = push[q]
    BY <1>1, QueueAssumption DEF Fire, Goto, Pushers, Types, PushTypes
  <1>3. s.pc = "start" /\ s.file = f /\ s.seq = n /\ s # Idle
    BY DEF Idle
  <1> HIDE DEF s
  <1>4. /\ UNCHANGED <<phase, ver, events, watched, todo, weather, pending, store, batch, missed, skipped>>
        /\ armed' = armed \ {t} /\ push[p] = Idle /\ phase # "off"
    BY DEF Fire, PushUnchanged
  <1>5. Behind' = Behind /\ Retrying' = Retrying
    BY <1>2, <1>4 DEF Behind, store, Retrying, Pushers
  <1>6. BatchInv' /\ OffIsIdle' /\ UnwatchedIsMissed'
    BY <1>4, <1>5 DEF EditInv, BatchInv, PickedOnce, PickedIsBacked, Picked, OffIsIdle, UnwatchedIsMissed, store
  <1>7. SightInv'
    <2> SUFFICES ASSUME NEW g \in Behind \ (missed \cup skipped), phase = "on" PROVE FirmSight(g)'
      BY <1>4, <1>5 DEF SightInv
    <2>1. g \in Files /\ FirmSight(g)
      BY DEF EditInv, SightInv, Behind
    <2>2. Busy' = Busy \cup {p} /\ p \notin Busy
      BY <1>2, <1>3, <1>4 DEF Busy
    <2>3. InPush(g) => InPush(g)'
      BY <1>2, <1>4, <2>2 DEF InPush, Busy
    <2>4. Queued(g) => Queued(g)' \/ InPush(g)'
      <3>1. CASE g = f /\ pending[f] = n
        BY <1>2, <1>3, <2>2, <3>1 DEF InPush
      <3>2. CASE ~(g = f /\ pending[f] = n)
        <4>1. InQueue(g) => InQueue(g)'
          BY <1>1, <1>4, <3>2 DEF InQueue
        <4>2. \A q \in Busy : push'[q] = push[q]
          BY <1>2, <2>2 DEF Busy
        <4> QED
          BY <1>2, <1>3, <1>4, <2>2, <3>2, <4>1, <4>2 DEF Queued
      <3> QED
        BY <3>1, <3>2
    <2>5. (InOutbox(g) => InOutbox(g)') /\ (RescanDue(g) => RescanDue(g)')
      BY <1>4, <1>5 DEF InOutbox, RescanDue, store, weather
    <2> QED
      BY <1>4, <2>1, <2>3, <2>4, <2>5 DEF FirmSight
  <1> QED
    BY <1>6, <1>7 DEF EditInv

\* ProcessOutbox moves the select loop and what it has picked; the queue and the
\* watcher it leaves alone.
LEMMA OutboxFrame ==
  ASSUME Types, EditInv, phase # "off", OutboxUnchanged,
         NEW s \in PushStates, push' = push \/ Goto(Main, s),
         push' = push \/ push[Main] = Idle \/ s = Idle, s = Idle \/ s.pc = "retry",
         push[Main] = Idle \/ push[Main].pc = "retry",
         missed \subseteq missed', Behind' \subseteq Behind, BatchInv',
         \A g \in Behind' \ (missed' \cup skipped) :
            phase = "on" /\ (InOutbox(g) \/ InPush(g)) => InOutbox(g)' \/ InPush(g)'
  PROVE  EditInv'
  <1>0. UNCHANGED <<phase, ver, events, watched, todo, queue, weather, skipped>>
    BY DEF OutboxUnchanged
  <1>1. UnwatchedIsMissed' /\ OffIsIdle'
    BY <1>0 DEF EditInv, UnwatchedIsMissed, OffIsIdle
  <1>2. ASSUME NEW g \in Behind' \ (missed' \cup skipped), phase = "on" PROVE FirmSight(g)'
    <2>1. FirmSight(g)
      BY <1>2 DEF EditInv, SightInv
    <2>2. Queued(g) => Queued(g)'
      <3>1. \A q \in Pushers : q # Main => push'[q] = push[q]
        BY DEF Goto, Types, PushTypes
      <3>2. \A q \in Busy' : push'[q].pc # "retry" => q \in Busy /\ push'[q] = push[q]
        <4>1. push' = push \/ push'[Main] = s
          BY DEF Goto, Pushers, Types, PushTypes
        <4> QED
          BY <3>1, <4>1 DEF Busy
      <3>3. InQueue(g) => InQueue(g)'
        BY <1>0 DEF InQueue, queue
      <3> QED
        BY <1>0, <3>2, <3>3 DEF Queued, queue
    <2>3. RescanDue(g) => RescanDue(g)'
      BY <1>0 DEF RescanDue, weather
    <2> QED
      BY <1>0, <1>2, <2>1, <2>2, <2>3 DEF FirmSight
  <1> QED
    BY <1>0, <1>1, <1>2 DEF EditInv, SightInv

LEMMA OutboxStartKeepsEdits ==
  ASSUME Types, EditInv, OutboxBegin \/ AuthHealed
  PROVE  EditInv'
  <1>0. phase # "off" /\ OutboxUnchanged /\ push' = push /\ push[Main] = Idle /\ Idle \in PushStates
    BY DEF OutboxBegin, AuthHealed, PushStates
  <1>1. Retrying' = {} /\ Behind' = Behind
    BY <1>0 DEF OutboxBegin, AuthHealed, OutboxUnchanged, Retrying, Idle, Behind, store
  <1>2. \A g : InPush(g)' = InPush(g)
    BY <1>0, SamePush DEF OutboxUnchanged
  <1>3. CASE OutboxBegin
    <2>1. PICK old \in SUBSET Entries :
            /\ outbox' = [f \in Files |-> {n \in outbox[f] : <<f, n>> \notin old}]
            /\ missed' = missed \cup {e[1] : e \in old}
            /\ batch' \in SUBSET (Entries \ old)
      BY <1>3 DEF OutboxBegin
    <2>2. PickedIsBacked'
      <3>1. \A e \in batch' : e[2] \in outbox'[e[1]]
        BY <2>1 DEF Entries
      <3> QED
        BY <1>1, <3>1 DEF PickedIsBacked, Picked
    <2>3. BatchInv'
      BY <1>1, <2>2 DEF BatchInv, PickedOnce
    <2>4. ASSUME NEW g \in Behind \ missed', InOutbox(g) PROVE InOutbox(g)'
      <3>1. \A n \in outbox[g] : <<g, n>> \notin old
        BY <2>1, <2>4
      <3>2. outbox'[g] = {n \in outbox[g] : <<g, n>> \notin old}
        BY <2>1 DEF Behind
      <3>3. outbox'[g] = outbox[g]
        BY <3>1, <3>2
      <3> QED
        BY <1>1, <2>4, <3>3 DEF InOutbox
    <2> QED
      BY <1>0, <1>1, <1>2, <2>1, <2>3, <2>4, OutboxFrame
  <1>4. CASE AuthHealed
    <2>1. UNCHANGED <<outbox, batch, missed>>
      BY <1>4 DEF AuthHealed, store
    <2>2. BatchInv' /\ \A g : InOutbox(g)' = InOutbox(g)
      BY <1>0, <1>1, <2>1, SameOutbox DEF EditInv, BatchInv, PickedOnce, PickedIsBacked, Picked, OutboxUnchanged, Retrying, Idle
    <2> QED
      BY <1>0, <1>1, <1>2, <2>1, <2>2, OutboxFrame
  <1> QED
    BY <1>3, <1>4

LEMMA OutboxLoadKeepsEdits ==
  ASSUME Types, EditInv, NEW e, OutboxLoad(e)
  PROVE  EditInv'
  <1>0. /\ OutboxUnchanged /\ push[Main] = Idle /\ Idle \in PushStates /\ phase # "flushing"
        /\ UNCHANGED <<store, missed>> /\ batch' = batch \ {e} /\ e \in batch
    BY DEF OutboxLoad, PushStates
  <1>1. phase # "off" /\ Retrying = {} /\ Behind' = Behind
    BY <1>0 DEF EditInv, OffIsIdle, Retrying, Idle, Behind, store, OutboxUnchanged
  <1>2. PICK f \in Files, n \in Names : e = <<f, n>>
    BY <1>0 DEF Types, BatchTypes
  <1> DEFINE s == [pc |-> "retry", file |-> f, name |-> n, snap |-> ver[f]]
  <1>3. s \in PushStates /\ s.pc = "retry" /\ s.file = f /\ s.name = n /\ s.snap = ver[f] /\ s # Idle
    <2>1. ver[f] \in Versions
      BY DEF Types, WatchTypes
    <2> QED
      BY <2>1 DEF PushStates, Retry, Idle
  <1>4. Goto(Main, s) \/ push' = push
    BY <1>2 DEF OutboxLoad
  <1> HIDE DEF s
  <1>5. \A q \in Pushers : q # Main => push'[q] = push[q]
    BY <1>4 DEF Goto, Types, PushTypes
  <1>6. push' # push => push'[Main] = s
    BY <1>4 DEF Goto, Pushers, Types, PushTypes
  <1>7. Retrying' \subseteq {e} /\ (push' = push => Retrying' = {})
    BY <1>1, <1>2, <1>3, <1>6 DEF Retrying
  <1>8. BatchInv'
    <2>1. Picked' \subseteq Picked /\ outbox' = outbox
      BY <1>0, <1>1, <1>7 DEF Picked, store
    <2>2. PickedIsBacked => PickedIsBacked'
      BY <2>1 DEF PickedIsBacked
    <2> QED
      BY <1>0, <1>7, <2>2 DEF EditInv, BatchInv, PickedOnce, OutboxUnchanged
  <1>9. ASSUME NEW g \in Behind, InOutbox(g) \/ InPush(g) PROVE InOutbox(g)' \/ InPush(g)'
    <2>1. InPush(g) => InPush(g)'
      <3>1. \A q \in Busy : q # Main
        BY <1>0 DEF Busy
      <3> QED
        BY <1>0, <1>5, <3>1 DEF InPush, Busy, OutboxUnchanged
    <2>2. CASE InOutbox(g) /\ g # f
      BY <1>0, <1>2, <1>7, <2>2 DEF InOutbox, store
    <2>3. CASE InOutbox(g) /\ g = f /\ push' = push
      BY <1>0, <1>7, <2>3 DEF InOutbox, store
    <2>4. CASE InOutbox(g) /\ g = f /\ push' # push
      BY <1>0, <1>3, <1>6, <2>4 DEF InPush, Busy, Pushers, OutboxUnchanged
    <2> QED
      BY <1>9, <2>1, <2>2, <2>3, <2>4
  <1> QED
    BY <1>0, <1>1, <1>3, <1>4, <1>8, <1>9, OutboxFrame

LEMMA OutboxEndKeepsEdits ==
  ASSUME Types, EditInv, OutboxStored \/ OutboxRefused \/ OutboxCancelled \/ OutboxUnauthorized \/ OutboxFails
  PROVE  EditInv'
  <1>0. /\ push[Main] \in Retry /\ push[Main].pc = "retry" /\ Main \in Pushers /\ Goto(Main, Idle)
        /\ OutboxUnchanged /\ missed' = missed /\ Idle \in PushStates
    BY PushRecords DEF OutboxStored, OutboxRefused, OutboxCancelled, OutboxUnauthorized, OutboxFails, Types,
       PushTypes, PushStates, Pushers
  <1>1. PICK f \in Files, n \in Names : /\ push[Main].file = f /\ push[Main].name = n /\ push[Main].snap \in Versions
                                       /\ Retrying = {<<f, n>>}
    BY <1>0 DEF Retry, Retrying
  <1>2. /\ push'[Main] = Idle /\ \A q \in Pushers : q # Main => push'[q] = push[q]
        /\ Retrying' = {}
    BY <1>0 DEF Goto, Types, PushTypes, Retrying, Idle
  <1>3. phase # "off" /\ UNCHANGED <<phase, ver>>
    BY <1>0 DEF EditInv, OffIsIdle, Idle, OutboxUnchanged
  <1>4. ASSUME NEW g, InPush(g) PROVE InPush(g)' \/ (g = f /\ push[Main].snap = ver[f])
    <2>1. \A q \in Busy : q # Main => q \in Busy' /\ push'[q] = push[q]
      BY <1>2 DEF Busy
    <2> QED
      BY <1>0, <1>1, <1>3, <1>4, <2>1 DEF InPush
  <1>5. /\ \A e \in batch : e \in Files \X Names \/ phase = "flushing"
        /\ \A g \in Files : outbox[g] \subseteq Names
    BY DEF Types, BatchTypes, StoreTypes
  <1>6. ASSUME RemoveEntry, batch' = batch
        PROVE  BatchInv' /\ \A g \in Behind : InOutbox(g) => InOutbox(g)'
    <2>1. /\ outbox'[f] = outbox[f] \ {n} /\ \A g \in Files : g # f => outbox'[g] = outbox[g]
      BY <1>1, <1>6 DEF RemoveEntry, Types, StoreTypes
    <2>2. \A g \in Files : \A m \in outbox[g] : <<g, m>> # <<f, n>> => m \in outbox'[g]
      BY <2>1
    <2>3. ASSUME phase = "on", NEW e \in batch
          PROVE  e[2] \in outbox'[e[1]] \/ \E m \in outbox'[e[1]] : <<e[1], m>> \notin batch
      <3>1. PICK g \in Files, m \in Names : e = <<g, m>> /\ e # <<f, n>>
        BY <1>1, <1>5, <2>3 DEF EditInv, BatchInv, PickedOnce
      <3>2. m \in outbox[g] \/ \E x \in outbox[g] : <<g, x>> \notin Picked
        BY <2>3, <3>1 DEF EditInv, BatchInv, PickedIsBacked, Picked
      <3> QED
        BY <1>1, <2>2, <3>1, <3>2 DEF Picked
    <2>4. BatchInv'
      BY <1>2, <1>3, <1>6, <2>3 DEF BatchInv, PickedOnce, PickedIsBacked, Picked
    <2>5. \A g \in Behind : InOutbox(g) => InOutbox(g)'
      BY <1>1, <1>2, <2>2 DEF InOutbox, Behind
    <2> QED
      BY <2>4, <2>5
  <1>7. CASE OutboxStored \/ OutboxRefused
    <2>1. /\ RemoveEntry /\ batch' = batch /\ Settled(f, push[Main].snap)
      BY <1>1, <1>7 DEF OutboxStored, OutboxRefused
    <2>2. Behind' \subseteq Behind /\ (push[Main].snap = ver[f] => f \notin Behind')
      BY <1>1, <1>3, <2>1, SettledGrows
    <2> QED
      BY <1>0, <1>3, <1>4, <1>6, <2>1, <2>2, OutboxFrame
  <1>8. CASE OutboxCancelled
    <2>1. RemoveEntry /\ batch' = batch /\ phase # "on" /\ Behind' = Behind
      BY <1>3, <1>8 DEF OutboxCancelled, Behind
    <2> QED
      BY <1>0, <1>3, <1>6, <2>1, OutboxFrame
  <1>9. CASE OutboxUnauthorized
    <2>1. UNCHANGED store /\ batch' = {} /\ Behind' = Behind
      BY <1>3, <1>9 DEF OutboxUnauthorized, Behind, store
    <2>2. BatchInv'
      BY <1>2, <2>1 DEF BatchInv, PickedOnce, PickedIsBacked, Picked
    <2>3. phase = "on" => \E m \in outbox[f] : TRUE
      <3>1. <<f, n>> \in Picked
        BY <1>1 DEF Picked
      <3> QED
        BY <3>1 DEF EditInv, BatchInv, PickedIsBacked
    <2>4. ASSUME NEW g \in Behind', phase = "on", InOutbox(g) \/ InPush(g) PROVE InOutbox(g)' \/ InPush(g)'
      BY <1>2, <1>4, <2>1, <2>3, <2>4 DEF InOutbox, store
    <2> QED
      BY <1>0, <1>3, <2>1, <2>2, <2>4, OutboxFrame
  <1>10. CASE OutboxFails
    <2>1. batch' = batch /\ Behind' = Behind
      BY <1>3, <1>10 DEF OutboxFails, Behind
    <2>2. outbox'[f] = outbox[f] \cup {n} /\ \A g \in Files : g # f => outbox'[g] = outbox[g]
      BY <1>1, <1>10 DEF OutboxFails, Types, StoreTypes
    <2>3. BatchInv'
      <3>1. ASSUME phase = "on", NEW e \in batch
            PROVE  e[2] \in outbox'[e[1]] \/ \E m \in outbox'[e[1]] : <<e[1], m>> \notin batch
        <4>1. PICK g \in Files, m \in Names : e = <<g, m>>
          BY <1>5, <3>1
        <4>2. m \in outbox[g] \/ \E x \in outbox[g] : <<g, x>> \notin Picked
          BY <3>1, <4>1 DEF EditInv, BatchInv, PickedIsBacked, Picked
        <4>3. outbox[g] \subseteq outbox'[g]
          BY <2>2
        <4> QED
          BY <4>1, <4>2, <4>3 DEF Picked
      <3> QED
        BY <1>2, <1>3, <2>1, <3>1 DEF BatchInv, PickedOnce, PickedIsBacked, Picked
    <2>4. ASSUME NEW g \in Behind', InOutbox(g) \/ InPush(g) PROVE InOutbox(g)' \/ InPush(g)'
      <3>1. InOutbox(f)'
        BY <1>2, <2>2 DEF InOutbox
      <3>2. g # f => (InOutbox(g) => InOutbox(g)')
        BY <1>2, <2>1, <2>2 DEF InOutbox, Behind
      <3> QED
        BY <1>4, <2>4, <3>1, <3>2
    <2> QED
      BY <1>0, <1>3, <2>1, <2>3, <2>4, OutboxFrame
  <1> QED
    BY <1>7, <1>8, <1>9, <1>10

LEMMA StopKeepsEdits ==
  ASSUME Types, EditInv, Stop \/ FlushBegin \/ FlushEnd \/ Gone \/ Start \/ \E t \in batch : FlushOne(t)
  PROVE  EditInv'
  <1>1. ver' = ver /\ handled' = handled /\ Behind' = Behind
    BY DEF Stop, FlushBegin, FlushEnd, Gone, Start, FlushOne, StopUnchanged, store, Behind
  <1>2. CASE Start
    <2>1. UNCHANGED <<batch, push>> /\ phase = "off" /\ phase' = "on" /\ missed' = missed \cup Behind
      BY <1>2 DEF Start
    <2>2. batch' = {} /\ push'[Main] = Idle
      BY <2>1 DEF EditInv, OffIsIdle, Pushers
    <2>3. Picked' = {} /\ Retrying' = {}
      BY <2>2 DEF Picked, Retrying, Idle
    <2> QED
      BY <1>1, <2>1, <2>2, <2>3 DEF EditInv, UnwatchedIsMissed, OffIsIdle, BatchInv, PickedOnce, PickedIsBacked, SightInv
  <1>3. CASE Stop \/ FlushBegin \/ FlushEnd \/ Gone \/ \E t \in batch : FlushOne(t)
    <2>1. phase' # "on" /\ UNCHANGED <<watched, missed>>
      BY <1>3 DEF Stop, FlushBegin, FlushEnd, Gone, FlushOne, StopUnchanged
    <2>2. OffIsIdle'
      BY <1>3 DEF Stop, FlushBegin, FlushEnd, Gone, FlushOne, OffIsIdle
    <2> QED
      BY <1>1, <2>1, <2>2 DEF EditInv, UnwatchedIsMissed, BatchInv, SightInv
  <1> QED
    BY <1>2, <1>3

LEMMA EditsStep == Types /\ EditInv /\ [Next]_vars => EditInv'
  <1> SUFFICES ASSUME Types, EditInv, [Next]_vars PROVE EditInv'
    OBVIOUS
  <1>1. CASE Calm
    <2>1. CASE \E f \in Files : GameSaves(f) \/ Undefer(f)
      BY <2>1, FileKeepsEdits
    <2>2. CASE \E g \in Gates : Releases(g)
      BY <2>2, GateKeepsEdits
    <2>3. CASE WatcherStep
      BY <2>3, WatchFileKeepsEdits, WatchKeepsEdits DEF WatcherStep
    <2>4. CASE \E p \in Timers, t \in armed : Fire(p, t)
      BY <2>4, FireKeepsEdits
    <2>5. CASE \E p \in Pushers : PushStep(p)
      BY <2>5, EndKeepsEdits, ReadKeepsEdits, SendKeepsEdits DEF PushStep
    <2>6. CASE OutboxStep
      BY <2>6, OutboxStartKeepsEdits, OutboxLoadKeepsEdits, OutboxEndKeepsEdits DEF OutboxStep
    <2>7. CASE Shutdown
      BY <2>7, StopKeepsEdits DEF Shutdown, Close
    <2> QED
      BY <1>1, <2>1, <2>2, <2>3, <2>4, <2>5, <2>6, <2>7 DEF Calm
  <1>2. CASE Disturbed
    <2>1. CASE \E g \in Gates : Holds(g)
      BY <2>1, GateKeepsEdits
    <2>2. CASE \E f \in Files : Defer(f)
      BY <2>2, FileKeepsEdits
    <2>3. CASE WatcherTrouble
      BY <2>3, WatchFileKeepsEdits, WatchKeepsEdits DEF WatcherTrouble
    <2>4. CASE \E p \in Pushers : PushTrouble(p)
      BY <2>4, ReadKeepsEdits, SendKeepsEdits DEF PushTrouble
    <2>5. CASE OutboxTrouble
      BY <2>5, OutboxEndKeepsEdits DEF OutboxTrouble
    <2>6. CASE Stop \/ Crash
      BY <2>6, StopKeepsEdits DEF Crash
    <2> QED
      BY <1>2, <2>1, <2>2, <2>3, <2>4, <2>5, <2>6 DEF Disturbed
  <1>3. CASE UNCHANGED vars
    <2>1. UNCHANGED <<phase, ver, events, watched, todo, pending, armed, push, outbox, handled, batch, gate,
                      catchUp, wasQuiet, missed, skipped>>
      BY <1>3 DEF vars, queue, store, weather
    <2>2. Behind' = Behind
      BY <2>1 DEF Behind
    <2>3. UnwatchedIsMissed'
      BY <2>1, <2>2 DEF EditInv, UnwatchedIsMissed
    <2>4. \A g \in Behind : FirmSight(g) =>
             g \in events' \/ Queued(g)' \/ InPush(g)' \/ InOutbox(g)' \/ RescanDue(g)'
      BY <2>1, SameOutbox, SamePush, SameQueue DEF FirmSight, RescanDue, Behind
    <2> QED
      BY <2>1, <2>2, <2>3, <2>4, OutsideFrame DEF EditInv, SightInv
  <1> QED
    BY <1>1, <1>2, <1>3 DEF Next

\* An edit that the queue hears of never gets out of sight while the client
\* runs: its event, its queued push, a push that has or will read it, an outbox
\* entry or a coming rescan accounts for it until it is stored or refused,
\* however timers, rescans, pauses, retries and the outbox of any number of
\* files interleave (pushDebounced, stagePendingLocked, rescan, ProcessOutbox).
THEOREM EditsStayInSight == Spec => []NoEditOutOfSight
  <1>1. ASSUME EditInv PROVE NoEditOutOfSight
    <2> SUFFICES ASSUME phase = "on", NEW f \in Behind \ (missed \cup skipped) PROVE InSight(f)
      BY DEF NoEditOutOfSight
    <2>1. FirmSight(f)
      BY <1>1 DEF EditInv, SightInv
    <2> QED
      BY <2>1 DEF FirmSight, InSight, Queued, InOutbox
  <1> QED
    BY <1>1, InitTypes, TypesStep, InitEdits, EditsStep, PTL DEF Spec
=============================================================================
