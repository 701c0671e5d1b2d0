-------------------------- MODULE DeviceSyncProofs --------------------------
(***************************************************************************)
(* What TLAPS proves of DeviceSync, for any contents, any number of        *)
(* watcher timers, any policies and bounds that satisfy the assumptions:   *)
(* what the device believes about the server, it has once been told; and,  *)
(* where nobody resolves conflicts in favour of the local file and no      *)
(* policy does, an edit always has somebody who will see it.               *)
(***************************************************************************)
EXTENDS DeviceSync, TLAPS

TaskStates == {Idle} \cup Push \cup Sent \cup Stored \cup Pull \cup Startup

\* The label of a thread tells which record its local state is.
LEMMA TaskRecords ==
    ASSUME NEW s \in TaskStates
    PROVE  /\ s.pc = "ready" => s \in Push
           /\ s.pc = "sent" => s \in Sent
           /\ s.pc = "stored" => s \in Stored
           /\ s.pc \in {"summary", "fetched", "writing"} => s \in Pull
           /\ s.pc = "state" => s \in [pc : {"state"}, hash : Maybe]
  BY DEF TaskStates, Idle, Push, Sent, Stored, Pull, Startup

-----------------------------------------------------------------------------
(* The inductive invariant.                                                *)

\* What a thread carries from step to step, the device has learned: hashes it
\* pulled or compared with, the precondition of its request.
KnownTo(s, S, H) ==
    /\ s.pc \in {"summary", "fetched", "writing"} => s.hash \in S
    /\ s.pc = "state" => s.hash \in S \cup {None}
    /\ s.pc = "sent" => s.req.pre \in S \cup {IfAbsent}
    /\ s.pc = "stored" => s.body \in H

\* The same of what the client stores, and of requests nobody waits for.
StoredKnowledge ==
    /\ srv \in held \cup {None}
    /\ seen \subseteq held
    /\ cache \in seen \cup {None} /\ disk \in seen \cup {None}
    /\ conflict \in seen \cup {None, NoConflict}
    /\ \A req \in late : req.pre \in seen \cup {IfAbsent}

ThreadKnowledge == \A t \in Threads : KnownTo(task[t], seen, held)

\* TypeOK but for the threads.
FieldsOK ==
    /\ srv \in Maybe /\ file \in Maybe /\ cache \in Maybe /\ disk \in Maybe
    /\ rel \in Rels
    /\ queued \in BOOLEAN
    /\ outbox \subseteq Entries
    /\ conflict \in Maybe \cup {NoConflict}
    /\ rejected \in BOOLEAN
    /\ abandoned \in {"no", "refused", "timeout", "expired"}
    /\ phase \in {"off", "starting", "on"}
    /\ late \subseteq Request
    /\ held \subseteq Contents /\ seen \subseteq Contents
    /\ events \in 0..MaxEvents

TasksOK == task \in [Threads -> TaskStates]

\* The select loop pushes on behalf of an outbox entry only.
Retries(t, s) ==
    t = Main /\ s.pc \in {"ready", "sent", "stored"} => s.entry \in Entries

RetryInv == \A t \in Threads : Retries(t, task[t])

IInv ==
    /\ FieldsOK
    /\ TasksOK
    /\ StoredKnowledge
    /\ ThreadKnowledge
    /\ RetryInv

\* The invariant contains the type invariant.
LEMMA IInvType == IInv => TypeOK
  BY DEF IInv, FieldsOK, TasksOK, TypeOK, TaskStates

\* A new device knows nothing.
LEMMA InitIInv == Init => IInv
  <1> SUFFICES ASSUME Init PROVE IInv
    OBVIOUS
  <1>1. FieldsOK
    <2>1. rel \in Rels
      BY DEF Init, Rels
    <2>2. held \subseteq Contents /\ seen \subseteq Contents /\ late \subseteq Request
      BY DEF Init, Maybe
    <2>3. events \in 0..MaxEvents
      BY BoundAssumption DEF Init
    <2>4. /\ srv \in Maybe /\ file \in Maybe /\ cache \in Maybe /\ disk \in Maybe
          /\ conflict \in Maybe \cup {NoConflict}
      BY DEF Init, Maybe
    <2> QED
      BY <2>1, <2>2, <2>3, <2>4 DEF Init, FieldsOK
  <1>2. TasksOK
    BY DEF Init, TasksOK, TaskStates
  <1>3. StoredKnowledge
    BY DEF Init, StoredKnowledge, Maybe
  <1>4. ThreadKnowledge
    BY DEF Init, ThreadKnowledge, KnownTo, Idle
  <1>5. RetryInv
    BY DEF Init, RetryInv, Retries, Idle
  <1> QED
    BY <1>1, <1>2, <1>3, <1>4, <1>5 DEF IInv

\* A step of one thread keeps what the others know: knowledge only grows.
LEMMA ThreadStep ==
    ASSUME IInv, NEW t \in Threads, NEW s \in TaskStates,
           task' = [task EXCEPT ![t] = s],
           seen \subseteq seen', held \subseteq held', KnownTo(s, seen', held'),
           Retries(t, s), FieldsOK', StoredKnowledge'
    PROVE  IInv'
  <1>1. TasksOK'
    BY DEF IInv, TasksOK
  <1>2. task'[t] = s /\ \A x \in Threads \ {t} : task'[x] = task[x]
    BY DEF IInv, TasksOK
  <1>3. ThreadKnowledge'
    BY <1>2 DEF IInv, ThreadKnowledge, KnownTo
  <1>4. RetryInv'
    BY <1>2 DEF IInv, RetryInv, Retries
  <1> QED
    BY <1>1, <1>3, <1>4 DEF IInv

\* A step that moves no thread.
LEMMA QuietStep ==
    ASSUME IInv, task' = task, seen \subseteq seen', held \subseteq held',
           FieldsOK', StoredKnowledge'
    PROVE  IInv'
  BY DEF IInv, TasksOK, ThreadKnowledge, KnownTo, RetryInv, Retries

\* An event of the world uses up one of the bounded number.
LEMMA EventCount ==
    ASSUME events \in 0..MaxEvents, Happens
    PROVE  events' \in 0..MaxEvents
  BY BoundAssumption DEF Happens

\* The comparison of the timestamps comes out one way or another.
LEMMA RelTypes ==
    /\ FileWrittenNow => rel' \in Rels
    /\ SlotWrittenNow => rel' \in Rels
  BY DEF FileWrittenNow, SlotWrittenNow, Rels

-----------------------------------------------------------------------------
(* The world and the process.                                              *)

\* Whatever the game, other devices and crashes do, the device believes
\* nothing new.
LEMMA WorldStep ==
    ASSUME IInv, World
    PROVE  IInv'
  <1> USE DEF IInv
  <1>1. events' \in 0..MaxEvents
    BY EventCount DEF World, FieldsOK, GameWrites, OthersWrite, GameRemoves,
          OthersDelete, Crash
  <1>2. ASSUME NEW c \in Contents, GameWrites(c) PROVE IInv'
    <2>1. FieldsOK'
      BY <1>1, <1>2, RelTypes DEF FieldsOK, GameWrites, server, Maybe
    <2>2. StoredKnowledge'
      BY <1>2 DEF StoredKnowledge, GameWrites, server
    <2> QED
      BY <1>2, <2>1, <2>2, QuietStep DEF GameWrites, server
  <1>3. ASSUME NEW c \in Contents, OthersWrite(c) PROVE IInv'
    <2>1. FieldsOK'
      BY <1>1, <1>3, RelTypes DEF FieldsOK, OthersWrite, local, books, Maybe
    <2>2. StoredKnowledge'
      BY <1>3 DEF StoredKnowledge, OthersWrite, local, books
    <2> QED
      BY <1>3, <2>1, <2>2, QuietStep DEF OthersWrite
  <1>4. CASE GameRemoves
    <2>1. FieldsOK'
      BY <1>1, <1>4 DEF FieldsOK, GameRemoves, server, books, Maybe, Rels
    <2>2. StoredKnowledge'
      BY <1>4 DEF StoredKnowledge, GameRemoves, server, books
    <2> QED
      BY <1>4, <2>1, <2>2, QuietStep DEF GameRemoves, server
  <1>5. CASE OthersDelete
    <2>1. FieldsOK'
      BY <1>1, <1>5 DEF FieldsOK, OthersDelete, local, books, Maybe, Rels
    <2>2. StoredKnowledge'
      BY <1>5 DEF StoredKnowledge, OthersDelete, local, books
    <2> QED
      BY <1>5, <2>1, <2>2, QuietStep DEF OthersDelete
  <1>6. CASE Crash
    <2>1. FieldsOK'
      BY <1>1, <1>6 DEF FieldsOK, Crash, server, local
    <2>2. StoredKnowledge'
      BY <1>6 DEF StoredKnowledge, Crash, server, local
    <2>3. TasksOK' /\ ThreadKnowledge' /\ RetryInv'
      BY <1>6 DEF TasksOK, ThreadKnowledge, Crash, KnownTo, Idle, TaskStates,
            RetryInv, Retries
    <2> QED
      BY <2>1, <2>2, <2>3
  <1> QED
    BY <1>2, <1>3, <1>4, <1>5, <1>6 DEF World

\* Flushing the cache, starting up with or without it, starting the watcher.
LEMMA ProcessStep ==
    ASSUME IInv, Flush \/ Start \/ StartWatcher
    PROVE  IInv'
  <1> USE DEF IInv
  <1>1. CASE Flush
    <2>1. FieldsOK' /\ StoredKnowledge'
      BY <1>1 DEF FieldsOK, StoredKnowledge, Flush, server, local, books
    <2> QED
      BY <1>1, <2>1, QuietStep DEF Flush, server
  <1>2. CASE Start
    <2>1. FieldsOK'
      BY <1>2 DEF FieldsOK, Start, server, books, Maybe
    <2>2. StoredKnowledge'
      BY <1>2 DEF StoredKnowledge, Start, server, books
    <2>3. /\ Main \in Threads /\ [pc |-> "due"] \in TaskStates
          /\ KnownTo([pc |-> "due"], seen', held')
          /\ Retries(Main, [pc |-> "due"])
      BY DEF Threads, TaskStates, Startup, KnownTo, Retries
    <2> QED
      BY <1>2, <2>1, <2>2, <2>3, ThreadStep DEF Start, Goto, server
  <1>3. CASE StartWatcher
    <2>1. FieldsOK' /\ StoredKnowledge'
      BY <1>3 DEF FieldsOK, StoredKnowledge, StartWatcher, server, local, books
    <2>2. CASE Recon \in Optional
      <3>1. /\ Recon \in Threads /\ [pc |-> "due"] \in TaskStates
            /\ KnownTo([pc |-> "due"], seen', held')
            /\ Retries(Recon, [pc |-> "due"])
        BY <2>2 DEF Threads, TaskStates, Startup, KnownTo, Retries
      <3> QED
        BY <1>3, <2>1, <2>2, <3>1, ThreadStep DEF StartWatcher, Goto, server
    <2>3. CASE Recon \notin Optional
      BY <1>3, <2>1, <2>3, QuietStep DEF StartWatcher, server
    <2> QED
      BY <2>2, <2>3
  <1> QED
    BY <1>1, <1>2, <1>3

-----------------------------------------------------------------------------
(* Uploads.                                                                *)

\* A thread that is over with a push is idle, or gave the reconciliation up.
LEMMA EndStates ==
    ASSUME NEW S, NEW H, NEW t
    PROVE  /\ Idle \in TaskStates /\ KnownTo(Idle, S, H) /\ Retries(t, Idle)
           /\ [pc |-> "failed"] \in TaskStates
           /\ KnownTo([pc |-> "failed"], S, H) /\ Retries(t, [pc |-> "failed"])
  BY DEF Idle, TaskStates, Startup, KnownTo, Retries

\* EnqueueOutbox finds a name that is not in use.
LEMMA EnqueueType ==
    ASSUME Enqueue
    PROVE  outbox' \subseteq Entries
  <1>1. \E e \in Entries : Retrying => e # task[Main].entry
    BY DEF Entries
  <1> QED
    BY <1>1 DEF Enqueue

\* A push that is over with a content the device knows.
LEMMA SucceededStep ==
    ASSUME IInv, NEW t \in Threads, NEW body \in Contents, Succeeded(t, body),
           seen \subseteq seen', seen' \subseteq held, body \in seen',
           UNCHANGED <<server, file, rel, disk, queued, phase, late, events>>
    PROVE  IInv'
  <1> USE DEF IInv
  <1>1. FieldsOK'
    BY DEF FieldsOK, Succeeded, server, Maybe
  <1>2. StoredKnowledge'
    BY DEF StoredKnowledge, Succeeded, server
  <1> QED
    BY <1>1, <1>2, ThreadStep, EndStates DEF Succeeded, Finish, Goto, server

\* ShouldSkipPush, or a request whose precondition is a hash it knows.
LEMMA SendStep ==
    ASSUME IInv, NEW t \in Threads, Send(t)
    PROVE  IInv'
  <1> USE DEF IInv
  <1> DEFINE push == task[t]
             s == [pc |-> "sent", attempt |-> push.attempt,
                   req |-> [body |-> push.body, pre |-> Precondition],
                   entry |-> push.entry, seed |-> push.seed]
  <1>1. push \in Push
    BY TaskRecords DEF TasksOK, Send
  <1>2. CASE push.body = cache
    <2>1. push.body \in Contents /\ push.body \in seen
      BY <1>1, <1>2, ContentAssumption DEF Push, StoredKnowledge
    <2>2. Succeeded(t, push.body)
      BY <1>2 DEF Send
    <2> QED
      BY <2>1, <2>2, SucceededStep DEF Send, StoredKnowledge
  <1>3. CASE push.body # cache
    <2>1. Precondition \in Contents \cup {IfAbsent} /\ Precondition \in seen \cup {IfAbsent}
      BY DEF Precondition, FieldsOK, Maybe, StoredKnowledge
    <2>2. s \in TaskStates /\ KnownTo(s, seen, held) /\ Retries(t, s)
      BY <1>1, <2>1 DEF Push, Sent, Request, TaskStates, KnownTo, RetryInv, Retries
    <2>3. task' = [task EXCEPT ![t] = s]
      BY <1>3 DEF Send, Goto
    <2> HIDE DEF s
    <2>4. UNCHANGED <<server, file, rel, disk, queued, phase, late, seen, events,
                      cache, outbox, conflict, rejected, abandoned>>
      BY <1>3 DEF Send
    <2>5. FieldsOK' /\ StoredKnowledge'
      BY <2>4 DEF FieldsOK, StoredKnowledge, server
    <2> QED
      BY <2>2, <2>3, <2>4, <2>5, ThreadStep DEF server
  <1> QED
    BY <1>2, <1>3

\* The server stores a body: it has been held from now on.
LEMMA StoreKnowledge ==
    ASSUME IInv, NEW req \in Request, Store(req)
    PROVE  /\ srv' = req.body /\ srv' \in Contents /\ srv' \in held'
           /\ held \subseteq held' /\ held' \subseteq Contents
           /\ rel' \in Rels
  BY RelTypes DEF IInv, FieldsOK, Store, Request

\* handlePush serves a request that somebody waits for.
LEMMA ServeStep ==
    ASSUME IInv, NEW t \in Threads, Serve(t)
    PROVE  IInv'
  <1> USE DEF IInv
  <1> DEFINE sent == task[t]
             s == [pc |-> "stored", body |-> sent.req.body, entry |-> sent.entry,
                   attempt |-> sent.attempt, seed |-> sent.seed]
  <1>1. sent \in Sent /\ sent.req \in Request
    BY TaskRecords DEF TasksOK, Serve, Sent
  <1>2. /\ srv' = sent.req.body /\ srv' \in Contents /\ srv' \in held'
        /\ held \subseteq held' /\ held' \subseteq Contents
        /\ rel' \in Rels
    BY <1>1, StoreKnowledge DEF Serve
  <1>3. s \in TaskStates /\ KnownTo(s, seen', held') /\ Retries(t, s)
    BY <1>1, <1>2 DEF Sent, Stored, Request, TaskStates, KnownTo, RetryInv, Retries
  <1>4. task' = [task EXCEPT ![t] = s]
    BY DEF Serve, Goto
  <1> HIDE DEF s
  <1>5. UNCHANGED <<local, cache, disk, books, phase, late, seen, events>>
    BY DEF Serve
  <1>6. FieldsOK' /\ StoredKnowledge'
    BY <1>2, <1>5 DEF FieldsOK, StoredKnowledge, local, books, Maybe
  <1> QED
    BY <1>2, <1>3, <1>4, <1>5, <1>6, ThreadStep

\* ... and one that nobody waits for any more.
LEMMA ServeLateStep ==
    ASSUME IInv, NEW req \in late, ServeLate(req)
    PROVE  IInv'
  <1> USE DEF IInv
  <1>1. req \in Request
    BY DEF FieldsOK
  <1>2. /\ srv' \in held' \cup {None} /\ srv' \in Maybe
        /\ held \subseteq held' /\ held' \subseteq Contents
        /\ rel' \in Rels
    <2>1. CASE Accepts(req)
      BY <1>1, <2>1, StoreKnowledge DEF ServeLate, Maybe
    <2>2. CASE ~Accepts(req)
      BY <2>2 DEF ServeLate, FieldsOK, StoredKnowledge, server
    <2> QED
      BY <2>1, <2>2
  <1>3. late' \subseteq late /\ UNCHANGED <<local, cache, disk, books, phase, task, seen, events>>
    BY DEF ServeLate
  <1>4. FieldsOK' /\ StoredKnowledge'
    BY <1>2, <1>3 DEF FieldsOK, StoredKnowledge, local, books
  <1> QED
    BY <1>2, <1>3, <1>4, QuietStep

\* The answers: stored, conflict, refused.
LEMMA AnswerStep ==
    ASSUME IInv, NEW t \in Threads, ReceiveStored(t) \/ Reject(t) \/ Refuse(t)
    PROVE  IInv'
  <1> USE DEF IInv
  <1>1. CASE ReceiveStored(t)
    <2>1. task[t] \in Stored /\ task[t].body \in Contents /\ task[t].body \in held
      BY <1>1, TaskRecords DEF TasksOK, ThreadKnowledge, KnownTo, ReceiveStored, Stored
    <2>2. seen' = seen \cup {task[t].body}
      BY <1>1, <2>1, ContentAssumption DEF ReceiveStored, Learn
    <2> QED
      BY <1>1, <2>1, <2>2, SucceededStep DEF ReceiveStored, StoredKnowledge
  <1>2. CASE Reject(t)
    <2>1. seen' = seen \cup ({srv} \ {None}) /\ conflict' = srv
      BY <1>2 DEF Reject, Learn
    <2>2. FieldsOK'
      BY <1>2, <2>1 DEF FieldsOK, Reject, server, local, Maybe
    <2>3. StoredKnowledge'
      BY <1>2, <2>1 DEF StoredKnowledge, Reject, server, local
    <2> QED
      BY <1>2, <2>1, <2>2, <2>3, ThreadStep, EndStates DEF Reject, Finish, Goto, server
  <1>3. CASE Refuse(t)
    <2>1. FieldsOK' /\ StoredKnowledge'
      BY <1>3 DEF FieldsOK, StoredKnowledge, Refuse, Dropped, server
    <2> QED
      BY <1>3, <2>1, ThreadStep, EndStates DEF Refuse, Dropped, Goto, server
  <1> QED
    BY <1>1, <1>2, <1>3

\* A request that may still arrive carries what its sender knew.
LEMMA LateKnowledge ==
    ASSUME IInv, NEW t \in Threads, MayArriveLate(t)
    PROVE  /\ late' \subseteq Request
           /\ \A req \in late' : req.pre \in seen \cup {IfAbsent}
  <1> USE DEF IInv
  <1>1. CASE late' = late
    BY <1>1 DEF FieldsOK, StoredKnowledge
  <1>2. CASE task[t].pc = "sent" /\ late' = late \cup {task[t].req}
    <2>1. task[t].req \in Request /\ task[t].req.pre \in seen \cup {IfAbsent}
      BY <1>2, TaskRecords DEF TasksOK, ThreadKnowledge, KnownTo, Sent
    <2> QED
      BY <1>2, <2>1 DEF FieldsOK, StoredKnowledge
  <1> QED
    BY <1>1, <1>2 DEF MayArriveLate

\* The two ways to lose an answer.
LEMMA NoAnswerStep ==
    ASSUME IInv, NEW t \in Threads, ConnectionLost(t) \/ TimedOut(t)
    PROVE  IInv'
  <1> USE DEF IInv
  <1>1. /\ late' \subseteq Request
        /\ \A req \in late' : req.pre \in seen \cup {IfAbsent}
    BY LateKnowledge DEF ConnectionLost, TimedOut
  <1>2. CASE TimedOut(t)
    <2>1. FieldsOK' /\ StoredKnowledge'
      BY <1>1, <1>2 DEF FieldsOK, StoredKnowledge, TimedOut, Dropped, server
    <2> QED
      BY <1>2, <2>1, ThreadStep, EndStates DEF TimedOut, Dropped, Goto, server
  <1>3. CASE ConnectionLost(t) /\ t # Main /\ AttemptsLeft(t)
    <2> DEFINE s == [pc |-> "ready", body |-> BodyOf(t),
                     attempt |-> task[t].attempt + 1,
                     entry |-> task[t].entry, seed |-> task[t].seed]
    <2>1. /\ BodyOf(t) \in Contents /\ task[t].attempt \in 1..MaxAttempts
          /\ task[t].entry \in Entries \cup {0} /\ task[t].seed \in Maybe
      <3>1. CASE task[t].pc = "sent"
        BY <3>1, TaskRecords DEF TasksOK, BodyOf, Sent, Request
      <3>2. CASE task[t].pc = "stored"
        BY <3>2, TaskRecords DEF TasksOK, BodyOf, Stored
      <3> QED
        BY <1>3, <3>1, <3>2 DEF ConnectionLost, InFlight
    <2>2. task[t].attempt + 1 \in 1..MaxAttempts
      BY <1>3, <2>1, BoundAssumption DEF AttemptsLeft
    <2>3. s \in TaskStates /\ KnownTo(s, seen', held') /\ Retries(t, s)
      BY <1>3, <2>1, <2>2 DEF Push, TaskStates, KnownTo, Retries
    <2>4. task' = [task EXCEPT ![t] = s]
      BY <1>3 DEF ConnectionLost, Goto
    <2> HIDE DEF s
    <2>5. UNCHANGED <<server, file, rel, disk, queued, phase, seen, events,
                      cache, outbox, conflict, rejected, abandoned>>
      BY <1>3 DEF ConnectionLost
    <2>6. FieldsOK' /\ StoredKnowledge'
      BY <1>1, <2>5 DEF FieldsOK, StoredKnowledge, server
    <2> QED
      BY <2>3, <2>4, <2>5, <2>6, ThreadStep DEF server
  <1>4. CASE ConnectionLost(t) /\ ~(t # Main /\ AttemptsLeft(t))
    <2>1. GaveUp(t) /\ UNCHANGED <<server, file, rel, disk, queued, phase, seen, events>>
      BY <1>4 DEF ConnectionLost
    <2>2. outbox' \subseteq Entries
      <3>1. CASE t = Main
        <4>1. task[t].entry \in Entries
          BY <1>4, <3>1 DEF ConnectionLost, InFlight, RetryInv, Retries
        <4> QED
          BY <2>1, <3>1, <4>1, EnqueueType, ThreadAssumption DEF GaveUp, FieldsOK, Entries
      <3>2. CASE t # Main
        BY <2>1, <3>2, EnqueueType DEF GaveUp, FieldsOK
      <3> QED
        BY <3>1, <3>2
    <2>3. FieldsOK' /\ StoredKnowledge'
      BY <1>1, <2>1, <2>2 DEF FieldsOK, StoredKnowledge, GaveUp, server
    <2> QED
      BY <2>1, <2>3, ThreadStep, EndStates DEF GaveUp, Goto, server
  <1> QED
    BY <1>2, <1>3, <1>4

\* Every step of a push preserves the invariant.
LEMMA PushPreserves ==
    ASSUME IInv, NEW t \in Threads, PushStep(t)
    PROVE  IInv'
  BY SendStep, ServeStep, AnswerStep, NoAnswerStep DEF PushStep

-----------------------------------------------------------------------------
(* The threads.                                                            *)

\* A push of a content that is there begins well formed.
LEMMA ReadyStates ==
    ASSUME NEW S, NEW H, NEW t, NEW body \in Contents, NEW seed \in Maybe,
           NEW entry \in Entries \cup {0}, t = Main => entry \in Entries
    PROVE  /\ ReadyPush(body, entry, seed) \in TaskStates
           /\ KnownTo(ReadyPush(body, entry, seed), S, H)
           /\ Retries(t, ReadyPush(body, entry, seed))
  BY BoundAssumption DEF ReadyPush, Push, TaskStates, KnownTo, Retries

\* The watcher's timers.
LEMMA WatchPreserves ==
    ASSUME IInv, NEW t \in Watchers, WatchStep(t)
    PROVE  IInv'
  <1> USE DEF IInv
  <1>1. t \in Threads /\ t # Main
    BY ThreadAssumption DEF Threads
  <1>2. CASE WatchPush(t)
    <2>1. FieldsOK' /\ StoredKnowledge'
      BY <1>2 DEF FieldsOK, StoredKnowledge, WatchPush, server, local
    <2>2. CASE file \in {None, cache}
      BY <1>2, <2>1, <2>2, QuietStep DEF WatchPush, server
    <2>3. CASE file \notin {None, cache}
      <3>1. file \in Contents /\ None \in Maybe
        BY <2>3 DEF FieldsOK, Maybe
      <3> QED
        BY <1>1, <1>2, <2>1, <2>3, <3>1, ReadyStates, ThreadStep
           DEF WatchPush, Goto, server
    <2> QED
      BY <2>2, <2>3
  <1>3. CASE WatchLocked(t)
    <2>1. FieldsOK' /\ StoredKnowledge'
      BY <1>3, EnqueueType DEF FieldsOK, StoredKnowledge, WatchLocked, server, local
    <2> QED
      BY <1>3, <2>1, QuietStep DEF WatchLocked, server
  <1> QED
    BY <1>2, <1>3 DEF WatchStep

\* An entry of the outbox goes for its age.
LEMMA ExpiryPreserves ==
    ASSUME IInv, NEW e \in Entries, OutboxExpires(e)
    PROVE  IInv'
  <1>1. FieldsOK' /\ StoredKnowledge'
    BY DEF IInv, FieldsOK, StoredKnowledge, OutboxExpires, server
  <1> QED
    BY <1>1, QuietStep DEF OutboxExpires, server

\* The retry of an outbox entry.
LEMMA OutboxPreserves ==
    ASSUME IInv, NEW e \in Entries, OutboxRetry(e)
    PROVE  IInv'
  <1> USE DEF IInv
  <1>1. FieldsOK' /\ StoredKnowledge'
    BY DEF FieldsOK, StoredKnowledge, OutboxRetry, server, local
  <1>2. CASE file = None
    BY <1>1, <1>2, QuietStep DEF OutboxRetry, server
  <1>3. CASE file # None
    <2>1. file \in Contents /\ None \in Maybe /\ Main \in Threads
      BY <1>3 DEF FieldsOK, Maybe, Threads
    <2> QED
      BY <1>1, <1>3, <2>1, ReadyStates, ThreadStep DEF OutboxRetry, Goto, server
  <1> QED
    BY <1>2, <1>3

\* A pulled content overwrites the file and is marked as pushed.
LEMMA WriteStep ==
    ASSUME IInv, NEW t \in Threads, WritePulled(t)
    PROVE  IInv'
  <1> USE DEF IInv
  <1>1. task[t].hash \in Contents /\ task[t].hash \in seen
    BY TaskRecords DEF TasksOK, WritePulled, Pull, ThreadKnowledge, KnownTo
  <1>2. FieldsOK'
    BY <1>1, RelTypes DEF FieldsOK, WritePulled, server, Maybe
  <1>3. StoredKnowledge'
    BY <1>1 DEF StoredKnowledge, WritePulled, server
  <1> QED
    BY <1>2, <1>3, ThreadStep, EndStates DEF WritePulled, Finish, Goto, server

\* A pull that ends early changes nothing else.
LEMMA FailStep ==
    ASSUME IInv, NEW t \in Threads, PullFails(t)
    PROVE  IInv'
  <1> USE DEF IInv
  <1>1. FieldsOK' /\ StoredKnowledge'
    BY DEF FieldsOK, StoredKnowledge, PullFails, PullUnchanged, server, local
  <1> QED
    BY <1>1, ThreadStep, EndStates
       DEF PullFails, PullUnchanged, Finish, Goto, server

\* The select loop's pull: what it fetches, the device has learned.
LEMMA PullPreserves ==
    ASSUME IInv, PullStep
    PROVE  IInv'
  <1> USE DEF IInv
  <1>1. Main \in Threads
    BY DEF Threads
  <1>2. CASE PullBegin
    <2>1. seen' = seen \cup ({srv} \ {None})
      BY <1>2 DEF PullBegin, Learn
    <2>2. UNCHANGED <<srv, held, file, abandoned, rel, cache, disk, queued,
                      outbox, conflict, rejected, phase, late, events>>
      BY <1>2 DEF PullBegin, PullUnchanged, server, local
    <2>3. FieldsOK' /\ StoredKnowledge'
      BY <2>1, <2>2 DEF FieldsOK, StoredKnowledge, Maybe
    <2>4. CASE srv = None
      BY <1>1, <1>2, <2>1, <2>2, <2>3, <2>4, ThreadStep, EndStates
         DEF PullBegin, Finish, Goto
    <2>5. CASE srv # None
      <3>1. PICK pc \in {"summary", "fetched"} :
               task' = [task EXCEPT ![Main] = [pc |-> pc, hash |-> srv]]
        BY <1>2, <2>5 DEF PullBegin, Goto
      <3> DEFINE s == [pc |-> pc, hash |-> srv]
      <3>2. s \in TaskStates /\ KnownTo(s, seen', held') /\ Retries(Main, s)
        BY <2>1, <2>5 DEF FieldsOK, Maybe, Pull, TaskStates, KnownTo, Retries
      <3> HIDE DEF s
      <3> QED
        BY <1>1, <2>1, <2>2, <2>3, <3>1, <3>2, ThreadStep DEF s
    <2> QED
      BY <2>4, <2>5
  <1>3. CASE PullDecide \/ PullApply
    <2> DEFINE pull == task[Main]
    <2>1. /\ pull \in Pull /\ pull.hash \in Contents /\ pull.hash \in seen
          /\ \A pc \in {"fetched", "writing"} :
                LET s == [pull EXCEPT !.pc = pc] IN
                s \in TaskStates /\ KnownTo(s, seen, held) /\ Retries(Main, s)
      <3>1. pull \in Pull /\ pull.hash \in Contents /\ pull.hash \in seen
        BY <1>1, <1>3, TaskRecords DEF TasksOK, PullDecide, PullApply, Pull,
              ThreadKnowledge, KnownTo
      <3>2. ASSUME NEW pc \in {"fetched", "writing"}
            PROVE  /\ [pull EXCEPT !.pc = pc] \in Pull
                   /\ [pull EXCEPT !.pc = pc].pc = pc
                   /\ [pull EXCEPT !.pc = pc].hash = pull.hash
        BY <3>1 DEF Pull
      <3> QED
        BY <3>1, <3>2 DEF TaskStates, KnownTo, Retries
    <2>2. /\ UNCHANGED <<srv, held, file, abandoned, rel, cache, disk, queued,
                         outbox, phase, late, seen, events>>
          /\ conflict' \in {conflict, pull.hash} /\ rejected' \in BOOLEAN
      BY <1>3 DEF PullDecide, PullApply, PullUnchanged, server, local
    <2>3. FieldsOK' /\ StoredKnowledge'
      BY <2>1, <2>2 DEF FieldsOK, StoredKnowledge, Maybe
    <2>4. \/ task' = [task EXCEPT ![Main] = Idle]
          \/ \E pc \in {"fetched", "writing"} :
                task' = [task EXCEPT ![Main] = [pull EXCEPT !.pc = pc]]
      BY <1>3 DEF PullDecide, PullApply, Goto
    <2> QED
      BY <1>1, <2>1, <2>2, <2>3, <2>4, ThreadStep, EndStates
  <1> QED
    BY <1>1, <1>2, <1>3, WriteStep, FailStep DEF PullStep

\* Reconciliation compares with a hash the device has learned.
LEMMA ReconPreserves ==
    ASSUME IInv, ReconStep
    PROVE  IInv'
  <1> USE DEF IInv
  <1>1. Recon \in Threads /\ Recon # Main
    BY ThreadAssumption DEF ReconStep, Threads
  <1>2. CASE ReconFetch
    <2>1. seen' = seen \cup ({srv} \ {None})
      BY <1>2 DEF ReconFetch, Learn
    <2>2. UNCHANGED <<srv, held, file, abandoned, rel, cache, disk, queued,
                      outbox, conflict, rejected, phase, late, events>>
      BY <1>2 DEF ReconFetch, ReconUnchanged, server, local, books
    <2>3. FieldsOK' /\ StoredKnowledge'
      BY <2>1, <2>2 DEF FieldsOK, StoredKnowledge, Maybe
    <2> DEFINE s == [pc |-> "state", hash |-> srv]
    <2>4. s \in TaskStates /\ KnownTo(s, seen', held') /\ Retries(Recon, s)
      BY <2>1 DEF FieldsOK, Startup, TaskStates, KnownTo, Retries
    <2> HIDE DEF s
    <2> QED
      BY <1>1, <1>2, <2>1, <2>2, <2>3, <2>4, ThreadStep DEF ReconFetch, Goto, s
  <1>3. CASE ReconFails
    <2>1. FieldsOK' /\ StoredKnowledge'
      BY <1>3 DEF FieldsOK, StoredKnowledge, ReconFails, ReconUnchanged,
            server, local, books
    <2> QED
      BY <1>1, <1>3, <2>1, ThreadStep, EndStates
         DEF ReconFails, ReconUnchanged, Goto, server
  <1>4. CASE ReconDecide
    <2> DEFINE hash == task[Recon].hash
    <2>1. hash \in Maybe /\ hash \in seen \cup {None}
      BY <1>1, <1>4, TaskRecords DEF TasksOK, ReconDecide, ThreadKnowledge, KnownTo
    <2>2. /\ UNCHANGED <<srv, held, file, abandoned, rel, disk, queued,
                         outbox, conflict, rejected, phase, late, seen, events>>
          /\ cache' \in {cache, hash}
      BY <1>4 DEF ReconDecide, ReconUnchanged, server, local, books
    <2>3. FieldsOK' /\ StoredKnowledge'
      BY <2>1, <2>2 DEF FieldsOK, StoredKnowledge
    <2>4. \/ task' = [task EXCEPT ![Recon] = Idle]
          \/ /\ file # None
             /\ \E seed \in {None, hash} :
                   task' = [task EXCEPT ![Recon] = ReadyPush(file, 0, seed)]
      BY <1>4 DEF ReconDecide, Finish, Goto
    <2>5. None \in Maybe /\ (file # None => file \in Contents)
      BY DEF FieldsOK, Maybe
    <2> HIDE DEF hash
    <2>6. CASE task' = [task EXCEPT ![Recon] = Idle]
      BY <1>1, <2>2, <2>3, <2>6, ThreadStep, EndStates
    <2>7. ASSUME file # None, NEW seed \in {None, hash},
                 task' = [task EXCEPT ![Recon] = ReadyPush(file, 0, seed)]
          PROVE  IInv'
      <3> DEFINE s == ReadyPush(file, 0, seed)
      <3>1. s \in TaskStates /\ KnownTo(s, seen', held') /\ Retries(Recon, s)
        <4>1. file \in Contents /\ seed \in Maybe /\ Recon # Main
          BY <1>1, <2>1, <2>5, <2>7
        <4> QED
          BY <4>1, ReadyStates
      <3> HIDE DEF s
      <3>2. task' = [task EXCEPT ![Recon] = s] /\ UNCHANGED <<seen, held>>
        BY <2>2, <2>7 DEF s
      <3> QED
        BY <1>1, <2>3, <3>1, <3>2, ThreadStep
    <2> QED
      BY <2>4, <2>6, <2>7
  <1> QED
    BY <1>2, <1>3, <1>4 DEF ReconStep

\* The user resolves a conflict.
LEMMA UiPreserves ==
    ASSUME IInv, NEW t \in Optional \ {Recon}, UiStep(t)
    PROVE  IInv'
  <1> USE DEF IInv
  <1>1. t \in Threads /\ t # Main
    BY ThreadAssumption DEF Threads
  <1>2. CASE KeepLocal(t)
    <2>1. conflict \in Maybe /\ conflict \in seen \cup {None} /\ file \in Contents
      BY <1>2 DEF KeepLocal, FieldsOK, StoredKnowledge, Maybe
    <2>2. /\ UNCHANGED <<srv, held, file, abandoned, rel, disk, queued,
                         outbox, conflict, rejected, phase, late, seen, events>>
          /\ cache' \in {cache, conflict}
      BY <1>2 DEF KeepLocal, server, local, books
    <2>3. FieldsOK' /\ StoredKnowledge'
      BY <2>1, <2>2 DEF FieldsOK, StoredKnowledge
    <2>4. task' = [task EXCEPT ![t] = ReadyPush(file, 0, conflict)]
      BY <1>2 DEF KeepLocal, Goto
    <2> QED
      BY <1>1, <2>1, <2>2, <2>3, <2>4, ReadyStates, ThreadStep
  <1>3. CASE UseServer(t)
    <2>1. seen' = seen \cup {srv} /\ srv \in Contents
      BY <1>3 DEF UseServer, Learn, FieldsOK, Maybe
    <2>2. UNCHANGED <<srv, held, file, abandoned, rel, cache, disk, queued,
                      outbox, conflict, rejected, phase, late, events>>
      BY <1>3 DEF UseServer, server, local, books
    <2>3. FieldsOK' /\ StoredKnowledge'
      BY <2>1, <2>2, ContentAssumption DEF FieldsOK, StoredKnowledge
    <2> DEFINE s == [pc |-> "fetched", hash |-> srv]
    <2>4. s \in TaskStates /\ KnownTo(s, seen', held') /\ Retries(t, s)
      BY <2>1 DEF Pull, TaskStates, KnownTo, Retries
    <2>5. task' = [task EXCEPT ![t] = s]
      BY <1>3 DEF UseServer, Goto
    <2> HIDE DEF s
    <2> QED
      BY <1>1, <2>1, <2>2, <2>3, <2>4, <2>5, ThreadStep
  <1>4. CASE ForceApply(t)
    <2> DEFINE s == [task[t] EXCEPT !.pc = "writing"]
    <2>1. task[t] \in Pull /\ task[t].hash \in seen
      BY <1>1, <1>4, TaskRecords DEF ForceApply, TasksOK, ThreadKnowledge, KnownTo
    <2>2. s \in Pull /\ s.pc = "writing" /\ s.hash \in seen
      BY <2>1 DEF Pull
    <2>3. task' = [task EXCEPT ![t] = IF file = task[t].hash THEN Idle ELSE s]
      BY <1>4 DEF ForceApply, Goto
    <2> HIDE DEF s
    <2>4. s \in TaskStates /\ KnownTo(s, seen, held) /\ Retries(t, s)
      BY <2>2 DEF TaskStates, KnownTo, Retries
    <2>5. FieldsOK' /\ StoredKnowledge' /\ UNCHANGED <<seen, held>>
      BY <1>4 DEF FieldsOK, StoredKnowledge, ForceApply, server, local, books
    <2> QED
      BY <1>1, <2>3, <2>4, <2>5, ThreadStep, EndStates
  <1> QED
    BY <1>1, <1>2, <1>3, <1>4, WriteStep, FailStep DEF UiStep

-----------------------------------------------------------------------------
(* The theorems.                                                           *)

\* Every step preserves the invariant.
LEMMA NextPreserves ==
    ASSUME IInv, [Next]_vars
    PROVE  IInv'
  <1>1. CASE World
    BY <1>1, WorldStep
  <1>2. ASSUME NEW t \in Threads, PushStep(t) PROVE IInv'
    BY <1>2, PushPreserves
  <1>3. ASSUME NEW t \in Watchers, WatchStep(t) PROVE IInv'
    BY <1>3, WatchPreserves
  <1>4. ASSUME NEW e \in Entries, OutboxRetry(e) \/ OutboxExpires(e) PROVE IInv'
    BY <1>4, OutboxPreserves, ExpiryPreserves
  <1>5. CASE PullStep
    BY <1>5, PullPreserves
  <1>6. CASE ReconStep
    BY <1>6, ReconPreserves
  <1>7. ASSUME NEW t \in Optional \ {Recon}, UiStep(t) PROVE IInv'
    BY <1>7, UiPreserves
  <1>8. ASSUME NEW req \in late, ServeLate(req) PROVE IInv'
    BY <1>8, ServeLateStep
  <1>9. CASE Flush \/ Start \/ StartWatcher
    BY <1>9, ProcessStep
  <1>10. CASE UNCHANGED vars
    BY <1>10 DEF vars, IInv, FieldsOK, TasksOK, StoredKnowledge,
          ThreadKnowledge, KnownTo, RetryInv, Retries
  <1> QED
    BY <1>1, <1>2, <1>3, <1>4, <1>5, <1>6, <1>7, <1>8, <1>9, <1>10 DEF Next

\* What the device believes about the server, it has learned from the server.
THEOREM DeviceInvariance == Spec => []IInv
  BY InitIInv, NextPreserves, PTL DEF Spec

\* Everything the client and the server store is well formed, whatever fails,
\* arrives late or crashes.
THEOREM DeviceTypeCorrect == Spec => []TypeOK
  BY DeviceInvariance, IInvType, PTL

\* ShouldSkipPush is safe: a hash in the push-hash cache, in memory or on
\* disk, is that of a content that the server has held.
THEOREM CacheHonestHolds == Spec => []CacheHonest
  <1>1. IInv => CacheHonest
    BY DEF IInv, StoredKnowledge, CacheHonest
  <1> QED
    BY <1>1, DeviceInvariance, PTL

\* Only handlePush on behalf of the device, or another client, changes the slot.
LEMMA UploadSteps ==
    ASSUME IInv, Next, Uploads, srv' # srv
    PROVE  \/ \E t \in Threads : Serve(t)
           \/ \E req \in late : ServeLate(req)
  <1>1. ASSUME NEW c \in Contents, OthersWrite(c) PROVE FALSE
    BY <1>1 DEF OthersWrite, Uploads
  <1>2. CASE OthersDelete
    BY <1>2 DEF OthersDelete, Uploads
  <1>3. ASSUME NEW c \in Contents, GameWrites(c) PROVE FALSE
    BY <1>3 DEF GameWrites, server
  <1>4. CASE GameRemoves \/ Crash
    BY <1>4 DEF GameRemoves, Crash, server
  <1>5. ASSUME NEW t \in Threads, PushStep(t), ~Serve(t) PROVE FALSE
    BY <1>5 DEF PushStep, Send, Refuse, ReceiveStored, Reject, ConnectionLost,
          TimedOut, server
  <1>6. ASSUME NEW t \in Watchers, WatchStep(t) PROVE FALSE
    BY <1>6 DEF WatchStep, WatchPush, WatchLocked, server
  <1>7. ASSUME NEW e \in Entries, OutboxRetry(e) \/ OutboxExpires(e) PROVE FALSE
    BY <1>7 DEF OutboxRetry, OutboxExpires, server
  <1>8. CASE PullStep
    BY <1>8 DEF PullStep, PullBegin, PullDecide, PullApply, WritePulled,
          PullFails, PullUnchanged, server
  <1>9. CASE ReconStep
    BY <1>9 DEF ReconStep, ReconFetch, ReconFails, ReconDecide, ReconUnchanged,
          server
  <1>10. ASSUME NEW t \in Optional \ {Recon}, UiStep(t) PROVE FALSE
    BY <1>10 DEF UiStep, KeepLocal, UseServer, ForceApply, WritePulled,
          PullFails, PullUnchanged, server
  <1>11. CASE Flush \/ Start \/ StartWatcher
    BY <1>11 DEF Flush, Start, StartWatcher, server
  <1> QED
    BY <1>1, <1>2, <1>3, <1>4, <1>5, <1>6, <1>7, <1>8, <1>9, <1>10, <1>11
       DEF Next, World

\* An upload of this device, whichever thread sent it, with whatever cache and
\* however late it arrives, replaces only contents the device has learned of:
\* X-GSBS-If-Hash and X-GSBS-If-Absent protect the saves of other devices.
THEOREM NoBlindOverwriteHolds == Spec => NoBlindOverwrite
  <1>1. ASSUME IInv, NEW req \in Request, req.pre \in seen \cup {IfAbsent},
               Accepts(req), Store(req), srv' # srv
        PROVE  srv \in seen \cup {None}
    BY <1>1, ContentAssumption DEF IInv, FieldsOK, Accepts, Store
  <1>2. ASSUME IInv, Next, Uploads, srv' # srv
        PROVE  srv \in seen \cup {None}
    <2>1. ASSUME NEW t \in Threads, Serve(t) PROVE srv \in seen \cup {None}
      <3>1. task[t].req \in Request /\ task[t].req.pre \in seen \cup {IfAbsent}
        BY <1>2, <2>1, TaskRecords DEF IInv, TasksOK, ThreadKnowledge, KnownTo,
              Serve, Sent
      <3> QED
        BY <1>1, <1>2, <2>1, <3>1 DEF Serve
    <2>2. ASSUME NEW req \in late, ServeLate(req) PROVE srv \in seen \cup {None}
      <3>1. req \in Request /\ req.pre \in seen \cup {IfAbsent}
        BY <1>2 DEF IInv, FieldsOK, StoredKnowledge
      <3> QED
        BY <1>1, <1>2, <2>2, <3>1 DEF ServeLate, server
    <2> QED
      BY <1>2, <2>1, <2>2, UploadSteps
  <1>3. IInv /\ [Next]_vars => [Uploads /\ srv' # srv => srv \in seen \cup {None}]_vars
    BY <1>2
  <1> QED
    BY <1>3, DeviceInvariance, PTL DEF Spec, NoBlindOverwrite

-----------------------------------------------------------------------------
(* No edit is forgotten, as long as the reconciliation of a start runs and  *)
(* nobody resolves a conflict: the resolution clears the record the slot    *)
(* has by then, also that of a later edit.  Under keep_local a pull skips   *)
(* what the reconciliation need not upload.                                 *)

Unattended == Optional = {Recon} /\ "keep_local" \notin Policies

\* That the outbox has an entry says too little of the next state: it must not
\* be the one that the select loop retries, with an older content perhaps, and
\* will remove.
Backed == \E e \in outbox : Retrying => e # task[Main].entry

Reconciles == task[Recon].pc \in {"due", "state", "failed"}

Accounted ==
    \/ queued \/ Backed \/ conflict # NoConflict \/ OnItsWay
    \/ rel # "newer" \/ Reconciles \/ abandoned # "no"

EditInv == Unshared => Accounted

\* A push in this state carries the content.
Carries(s, content) ==
    \/ s.pc = "ready" /\ s.body = content
    \/ s.pc = "sent" /\ s.req.body = content
    \/ s.pc = "stored" /\ s.body = content

LEMMA OnItsWayIsCarried ==
    /\ OnItsWay <=> \E t \in Threads : Carries(task[t], file)
    /\ OnItsWay' <=> \E t \in Threads : Carries(task'[t], file')
  BY DEF OnItsWay, InFlight, BodyOf, Carries

LEMMA InitEdit == Init => EditInv
  BY DEF Init, EditInv, Unshared

\* What accounts for the edit still does, unless it was what one thread did:
\* that has to be looked at.
LEMMA EditFrame ==
    ASSUME IInv, EditInv, Unattended, NEW t \in Threads, NEW s,
           task' = [task EXCEPT ![t] = s],
           UNCHANGED <<phase, file, queued>>, held \subseteq held',
           srv # None \/ srv' = srv \/ rel' # "newer",
           rel # "newer" => rel' # "newer",
           conflict # NoConflict => conflict' # NoConflict,
           abandoned # "no" => abandoned' # "no",
           Unshared' /\ Backed => Accounted',
           Unshared' /\ Carries(task[t], file) => Accounted',
           Unshared' /\ t = Recon /\ Reconciles => Accounted'
    PROVE  EditInv'
  <1> SUFFICES ASSUME Unshared' PROVE Accounted'
    BY DEF EditInv
  <1>1. task'[t] = s /\ \A x \in Threads \ {t} : task'[x] = task[x]
    BY DEF IInv, TasksOK
  <1>2. Unshared \/ rel' # "newer"
    BY DEF Unshared
  <1>3. CASE OnItsWay
    <2>1. PICK x \in Threads : Carries(task[x], file)
      BY <1>3, OnItsWayIsCarried
    <2>2. CASE x = t
      BY <2>1, <2>2
    <2>3. CASE x # t
      BY <1>1, <2>1, <2>3, OnItsWayIsCarried DEF Accounted
    <2> QED
      BY <2>2, <2>3
  <1>4. CASE Reconciles
    <2>1. Recon \in Threads
      BY DEF Unattended, Threads
    <2> QED
      BY <1>1, <1>4, <2>1 DEF Accounted, Reconciles
  <1> QED
    BY <1>2, <1>3, <1>4 DEF EditInv, Accounted

\* A new entry does not have the name of the one that is retried.
LEMMA EnqueueBacks ==
    ASSUME Enqueue, UNCHANGED task
    PROVE  Backed'
  <1>1. \E e \in Entries : Retrying => e # task[Main].entry
    BY DEF Entries
  <1> DEFINE e == CHOOSE x \in Entries : Retrying => x # task[Main].entry
  <1>2. outbox' = {e} /\ (Retrying => e # task[Main].entry)
    BY <1>1 DEF Enqueue
  <1> QED
    BY <1>2 DEF Backed, Retrying

\* A thread other than the select loop leaves the entries as they are.
LEMMA OthersKeepEntries ==
    ASSUME IInv, NEW t \in Threads, t # Main, NEW s, task' = [task EXCEPT ![t] = s]
    PROVE  /\ task'[Main] = task[Main] /\ Retrying' = Retrying
           /\ outbox' = outbox => (Backed => Backed')
  <1>1. task'[Main] = task[Main]
    BY DEF IInv, TasksOK, Threads
  <1> QED
    BY <1>1 DEF Backed, Retrying

\* The select loop's own push: the entry it removes is the one it retried.
LEMMA RetryKeepsEntries ==
    ASSUME IInv, NEW s, task' = [task EXCEPT ![Main] = s], Retrying,
           \/ s.pc \notin {"ready", "sent", "stored"} /\ outbox \ {task[Main].entry} \subseteq outbox'
           \/ s.entry = task[Main].entry /\ outbox \subseteq outbox'
    PROVE  Backed => Backed'
  <1>1. task'[Main] = s
    BY DEF IInv, TasksOK, Threads
  <1> QED
    BY <1>1 DEF Backed, Retrying

\* The world: a save of the game is queued, the slot another device writes gets
\* no older.
LEMMA WorldKeepsEdit ==
    ASSUME IInv, EditInv, World
    PROVE  EditInv'
  <1>1. ASSUME NEW c \in Contents, GameWrites(c) PROVE EditInv'
    BY <1>1 DEF GameWrites, EditInv, Unshared, Accounted
  <1>2. CASE GameRemoves
    BY <1>2 DEF GameRemoves, EditInv, Unshared
  <1>3. ASSUME NEW c \in Contents, OthersWrite(c) PROVE EditInv'
    <2>1. /\ UNCHANGED <<file, queued, outbox, conflict, abandoned, phase, task>>
          /\ held \subseteq held' /\ SlotWrittenNow
      BY <1>3 DEF OthersWrite, local, books
    <2>2. file # None => rel' # "newer"
      BY <2>1 DEF SlotWrittenNow
    <2> QED
      BY <2>1, <2>2 DEF EditInv, Unshared, Accounted
  <1>4. CASE OthersDelete
    BY <1>4 DEF OthersDelete, EditInv, Unshared
  <1>5. CASE Crash
    BY <1>5 DEF Crash, EditInv, Unshared
  <1> QED
    BY <1>1, <1>2, <1>3, <1>4, <1>5 DEF World

LEMMA ProcessKeepsEdit ==
    ASSUME IInv, EditInv, Unattended, Flush \/ Start \/ StartWatcher
    PROVE  EditInv'
  <1>1. CASE Flush
    <2>1. UNCHANGED <<srv, held, file, abandoned, rel, queued, outbox, conflict, phase, task>>
      BY <1>1 DEF Flush, server, local, books
    <2> QED
      BY <2>1 DEF EditInv, Unshared, Accounted, Backed, OnItsWay, InFlight, BodyOf, Reconciles, Retrying
  <1>2. CASE Start
    BY <1>2 DEF Start, EditInv, Unshared
  <1>3. CASE StartWatcher
    <2>1. Recon \in Threads /\ task' = [task EXCEPT ![Recon] = [pc |-> "due"]]
      BY <1>3 DEF Unattended, Threads, StartWatcher, Goto
    <2>2. task'[Recon].pc = "due"
      BY <2>1 DEF IInv, TasksOK
    <2> QED
      BY <2>2 DEF EditInv, Accounted, Reconciles
  <1> QED
    BY <1>1, <1>2, <1>3

\* An upload reaches the slot: its content is held from now on, and the file
\* is not newer than the slot.
LEMMA StoreMakesOlder ==
    ASSUME NEW req, Store(req), file # None
    PROVE  /\ held' = held \cup {req.body} /\ srv' = req.body
           /\ srv = srv' \/ rel' # "newer"
           /\ rel # "newer" => rel' # "newer"
  BY DEF Store, SlotWrittenNow

LEMMA SendKeepsEdit ==
    ASSUME IInv, EditInv, Unattended, NEW t \in Threads, Send(t)
    PROVE  EditInv'
  <1>1. /\ UNCHANGED <<srv, held, file, rel, queued, phase, abandoned>>
        /\ task[t] \in Push /\ task[t].pc = "ready"
    BY TaskRecords DEF Send, server, Succeeded, IInv, TasksOK
  <1>2. t # Ui
    BY ThreadAssumption DEF Unattended, Threads
  <1>3. ~(t = Recon /\ Reconciles)
    BY <1>1 DEF Reconciles
  <1>4. CASE task[t].body = cache
    <2>1. Succeeded(t, cache) /\ conflict' = conflict
      BY <1>2, <1>4 DEF Send, Succeeded
    <2>2. task' = [task EXCEPT ![t] = Idle] /\ Idle.pc = "idle"
      BY <2>1 DEF Succeeded, Finish, Goto, Idle
    <2>3. Carries(task[t], file) => ~Unshared'
      <3>1. Carries(task[t], file) => file = cache
        BY <1>1, <1>4 DEF Carries
      <3> QED
        BY <1>1, <3>1 DEF Unshared, IInv, StoredKnowledge
    <2>4. Backed => Backed'
      BY <1>1, <2>1, <2>2, OthersKeepEntries, RetryKeepsEntries DEF Succeeded, Retrying
    <2> QED
      BY <1>1, <1>3, <2>1, <2>2, <2>3, <2>4, EditFrame DEF Accounted
  <1>5. CASE task[t].body # cache
    <2> DEFINE s == [pc |-> "sent", attempt |-> task[t].attempt,
                     req |-> [body |-> task[t].body, pre |-> Precondition],
                     entry |-> task[t].entry, seed |-> task[t].seed]
    <2>1. task' = [task EXCEPT ![t] = s] /\ UNCHANGED <<outbox, conflict>>
      BY <1>5 DEF Send, Goto
    <2>2. s.pc = "sent" /\ s.req.body = task[t].body /\ s.entry = task[t].entry
      OBVIOUS
    <2> HIDE DEF s
    <2>3. Carries(task[t], file) => OnItsWay'
      <3>1. Carries(task[t], file) => Carries(s, file)
        BY <1>1, <2>2 DEF Carries
      <3>2. task'[t] = s
        BY <2>1 DEF IInv, TasksOK
      <3> QED
        BY <1>1, <3>1, <3>2, OnItsWayIsCarried
    <2>4. Backed => Backed'
      BY <1>1, <2>1, <2>2, OthersKeepEntries, RetryKeepsEntries DEF Retrying
    <2> QED
      BY <1>1, <1>3, <2>1, <2>3, <2>4, EditFrame DEF Accounted
  <1> QED
    BY <1>4, <1>5

LEMMA ServeKeepsEdit ==
    ASSUME IInv, EditInv, Unattended, NEW t \in Threads, Serve(t)
    PROVE  EditInv'
  <1> DEFINE s == [pc |-> "stored", body |-> task[t].req.body, entry |-> task[t].entry,
                   attempt |-> task[t].attempt, seed |-> task[t].seed]
  <1>1. /\ UNCHANGED <<file, queued, outbox, conflict, phase, abandoned>>
        /\ task[t].pc = "sent" /\ Store(task[t].req) /\ task' = [task EXCEPT ![t] = s]
    BY DEF Serve, local, books, Goto
  <1>2. s.pc = "stored" /\ s.entry = task[t].entry
    OBVIOUS
  <1> HIDE DEF s
  <1>3. CASE file = None
    BY <1>1, <1>3 DEF EditInv, Unshared
  <1>4. CASE file # None
    <2>1. /\ held' = held \cup {task[t].req.body}
          /\ srv = srv' \/ rel' # "newer"
          /\ rel # "newer" => rel' # "newer"
      BY <1>1, <1>4, StoreMakesOlder
    <2>2. Carries(task[t], file) => ~Unshared'
      BY <1>1, <2>1 DEF Carries, Unshared
    <2>3. ~(t = Recon /\ Reconciles)
      BY <1>1 DEF Reconciles
    <2>4. Backed => Backed'
      BY <1>1, <1>2, OthersKeepEntries, RetryKeepsEntries DEF Retrying
    <2> QED
      BY <1>1, <2>1, <2>2, <2>3, <2>4, EditFrame DEF Accounted
  <1> QED
    BY <1>3, <1>4

LEMMA ServeLateKeepsEdit ==
    ASSUME IInv, EditInv, NEW req \in late, ServeLate(req)
    PROVE  EditInv'
  <1>1. UNCHANGED <<file, queued, outbox, conflict, phase, abandoned, task>>
    BY DEF ServeLate, local, books
  <1>2. CASE Accepts(req) /\ file # None
    <2>1. /\ held \subseteq held'
          /\ srv = srv' \/ rel' # "newer"
          /\ rel # "newer" => rel' # "newer"
      BY <1>2, StoreMakesOlder DEF ServeLate
    <2> QED
      BY <1>1, <2>1 DEF EditInv, Unshared, Accounted, Backed, OnItsWay, InFlight, BodyOf, Reconciles, Retrying
  <1>3. CASE file = None
    BY <1>1, <1>3 DEF EditInv, Unshared
  <1>4. CASE ~Accepts(req)
    <2>1. UNCHANGED <<srv, held, rel>>
      BY <1>4 DEF ServeLate, server
    <2> QED
      BY <1>1, <2>1 DEF EditInv, Unshared, Accounted, Backed, OnItsWay, InFlight, BodyOf, Reconciles, Retrying
  <1> QED
    BY <1>2, <1>3, <1>4

\* The push of a thread is over: the entry of a retry is gone, what it knew is
\* recorded.
LEMMA AnswerKeepsEdit ==
    ASSUME IInv, EditInv, Unattended, NEW t \in Threads, ReceiveStored(t) \/ Reject(t) \/ Refuse(t)
    PROVE  EditInv'
  <1>1. /\ UNCHANGED <<srv, held, file, rel, queued, phase>>
        /\ task[t].pc \in {"sent", "stored"}
    BY DEF ReceiveStored, Reject, Refuse, Succeeded, server, local
  <1>2. t # Ui
    BY ThreadAssumption DEF Unattended, Threads
  <1>3. ~(t = Recon /\ Reconciles)
    BY <1>1 DEF Reconciles
  <1>4. CASE ReceiveStored(t)
    <2>1. Succeeded(t, task[t].body) /\ UNCHANGED <<conflict, abandoned>>
      BY <1>2, <1>4 DEF ReceiveStored, Succeeded
    <2>2. task' = [task EXCEPT ![t] = Idle] /\ Idle.pc = "idle"
      BY <2>1 DEF Succeeded, Finish, Goto, Idle
    <2>3. Carries(task[t], file) => ~Unshared'
      BY <1>1, <1>4 DEF Carries, ReceiveStored, Unshared, IInv, ThreadKnowledge, KnownTo
    <2>4. Backed => Backed'
      BY <1>1, <2>1, <2>2, OthersKeepEntries, RetryKeepsEntries DEF Succeeded, Retrying
    <2> QED
      BY <1>1, <1>3, <2>1, <2>2, <2>3, <2>4, EditFrame DEF Accounted
  <1>5. CASE Reject(t)
    BY <1>5, ContentAssumption DEF Reject, EditInv, Accounted, IInv, FieldsOK
  <1>6. CASE Refuse(t) /\ t # Recon
    BY <1>6 DEF Refuse, Dropped, EditInv, Accounted
  <1>7. CASE Refuse(t) /\ t = Recon
    <2>1. task'[Recon].pc = "failed"
      BY <1>7 DEF Refuse, Dropped, Goto, IInv, TasksOK
    <2> QED
      BY <2>1 DEF EditInv, Accounted, Reconciles
  <1> QED
    BY <1>4, <1>5, <1>6, <1>7

LEMMA NoAnswerKeepsEdit ==
    ASSUME IInv, EditInv, Unattended, NEW t \in Threads, ConnectionLost(t) \/ TimedOut(t)
    PROVE  EditInv'
  <1>1. /\ UNCHANGED <<srv, held, file, rel, queued, phase>>
        /\ task[t].pc \in {"sent", "stored"}
    BY DEF ConnectionLost, TimedOut, InFlight, server
  <1>2. t # Ui
    BY ThreadAssumption DEF Unattended, Threads
  <1>3. ~(t = Recon /\ Reconciles)
    BY <1>1 DEF Reconciles
  <1>4. CASE TimedOut(t) /\ t # Recon
    BY <1>4 DEF TimedOut, Dropped, EditInv, Accounted
  <1>5. CASE t = Recon /\ (TimedOut(t) \/ GaveUp(t))
    <2>1. task'[Recon].pc = "failed"
      BY <1>5 DEF TimedOut, Dropped, GaveUp, Goto, IInv, TasksOK
    <2> QED
      BY <2>1 DEF EditInv, Accounted, Reconciles
  <1>6. CASE ConnectionLost(t) /\ t # Main /\ AttemptsLeft(t)
    <2> DEFINE s == [pc |-> "ready", body |-> BodyOf(t), attempt |-> task[t].attempt + 1,
                     entry |-> task[t].entry, seed |-> task[t].seed]
    <2>1. task' = [task EXCEPT ![t] = s] /\ UNCHANGED <<outbox, conflict, abandoned>>
      BY <1>6 DEF ConnectionLost, Goto
    <2>2. s.pc = "ready" /\ s.body = BodyOf(t)
      OBVIOUS
    <2> HIDE DEF s
    <2>3. Carries(task[t], file) => OnItsWay'
      <3>1. Carries(task[t], file) => Carries(s, file)
        BY <1>1, <2>2 DEF Carries, BodyOf
      <3>2. task'[t] = s
        BY <2>1 DEF IInv, TasksOK
      <3> QED
        BY <1>1, <3>1, <3>2, OnItsWayIsCarried
    <2>4. Backed => Backed'
      BY <1>6, <2>1, OthersKeepEntries
    <2> QED
      BY <1>1, <1>3, <2>1, <2>3, <2>4, EditFrame DEF Accounted
  <1>7. CASE GaveUp(t) /\ t \in Watchers
    <2>1. t # Main /\ t # Recon /\ Goto(t, Idle) /\ Enqueue
      BY <1>7, ThreadAssumption DEF GaveUp, Unattended
    <2>2. \E e \in Entries : Retrying => e # task[Main].entry
      BY DEF Entries
    <2> DEFINE e == CHOOSE x \in Entries : Retrying => x # task[Main].entry
    <2>3. outbox' = {e} /\ (Retrying => e # task[Main].entry)
      BY <2>1, <2>2 DEF Enqueue
    <2> HIDE DEF e
    <2>4. task'[Main] = task[Main] /\ Retrying' = Retrying
      BY <2>1, OthersKeepEntries DEF Goto
    <2>5. Backed'
      BY <2>3, <2>4 DEF Backed
    <2> QED
      BY <2>5 DEF EditInv, Accounted
  <1>8. CASE GaveUp(t) /\ t = Main
    <2>1. outbox' = outbox \cup {task[Main].entry} /\ task'[Main] = Idle
      BY <1>8, ThreadAssumption DEF GaveUp, Goto, IInv, TasksOK, Unattended
    <2>2. Backed'
      BY <2>1 DEF Backed, Retrying, Idle
    <2> QED
      BY <2>2 DEF EditInv, Accounted
  <1> QED
    BY <1>4, <1>5, <1>6, <1>7, <1>8 DEF ConnectionLost, Threads, Unattended

LEMMA WatchKeepsEdit ==
    ASSUME IInv, EditInv, Unattended, NEW t \in Watchers, WatchStep(t)
    PROVE  EditInv'
  <1>0. UNCHANGED <<srv, held, file, rel, conflict, abandoned, phase>> /\ t \in Threads
    BY DEF WatchStep, WatchPush, WatchLocked, server, local, Threads
  <1>1. CASE WatchPush(t)
    <2>1. CASE file \in {None, cache}
      BY <1>0, <2>1 DEF EditInv, Unshared, IInv, StoredKnowledge
    <2>2. CASE file \notin {None, cache}
      <3>1. task'[t] = ReadyPush(file, 0, None)
        BY <1>0, <1>1, <2>2 DEF WatchPush, Goto, IInv, TasksOK
      <3>2. OnItsWay'
        BY <1>0, <3>1, OnItsWayIsCarried DEF ReadyPush, Carries
      <3> QED
        BY <3>2 DEF EditInv, Accounted
    <2> QED
      BY <2>1, <2>2
  <1>2. CASE WatchLocked(t)
    BY <1>2, EnqueueBacks DEF WatchLocked, EditInv, Accounted
  <1> QED
    BY <1>1, <1>2 DEF WatchStep

LEMMA OutboxKeepsEdit ==
    ASSUME IInv, EditInv, NEW e \in Entries, OutboxRetry(e)
    PROVE  EditInv'
  <1>0. UNCHANGED <<srv, held, file, rel, conflict, abandoned, phase>>
    BY DEF OutboxRetry, server, local
  <1>1. CASE file = None
    BY <1>0, <1>1 DEF EditInv, Unshared
  <1>2. CASE file # None
    <2>1. task'[Main] = ReadyPush(file, e, None) /\ Main \in Threads
      BY <1>2 DEF OutboxRetry, Goto, IInv, TasksOK, Threads
    <2>2. OnItsWay'
      BY <1>0, <2>1, OnItsWayIsCarried DEF ReadyPush, Carries
    <2> QED
      BY <2>2 DEF EditInv, Accounted
  <1> QED
    BY <1>1, <1>2

\* An entry that goes for its age is accounted for by name.
LEMMA ExpiryKeepsEdit ==
    ASSUME NEW e \in Entries, OutboxExpires(e)
    PROVE  EditInv'
  BY DEF OutboxExpires, EditInv, Accounted

LEMMA PullKeepsEdit ==
    ASSUME IInv, EditInv, Unattended, PullStep
    PROVE  EditInv'
  <1>0. Main \in Threads /\ Main # Recon
    BY ThreadAssumption DEF Threads
  <1>1. CASE WritePulled(Main)
    <2>1. file' \in held' \/ file' = None
      BY <1>0, <1>1, TaskRecords DEF WritePulled, server, IInv, TasksOK, ThreadKnowledge, KnownTo, StoredKnowledge
    <2> QED
      BY <2>1 DEF EditInv, Unshared
  <1>2. CASE PullBegin \/ PullDecide \/ PullApply \/ PullFails(Main)
    <2>1. /\ UNCHANGED <<srv, held, file, abandoned, rel, queued, outbox, phase>>
          /\ conflict # NoConflict => conflict' # NoConflict
          /\ task[Main].pc \in {"idle", "due", "summary", "fetched", "writing"}
      <3>1. task[Main] = Idle => task[Main].pc = "idle"
        BY DEF Idle
      <3>2. CASE PullBegin
        BY <3>1, <3>2 DEF PullBegin, CanPull, PullUnchanged, server, local
      <3>3. CASE PullDecide \/ PullApply
        <4>1. task[Main].hash \in Contents
          BY <1>0, <3>3, TaskRecords DEF PullDecide, PullApply, IInv, TasksOK, Pull
        <4>2. conflict' \in {conflict, task[Main].hash}
          BY <3>3 DEF PullDecide, PullApply
        <4> QED
          BY <3>3, <4>1, <4>2, ContentAssumption DEF PullDecide, PullApply, PullUnchanged, server, local, Maybe
      <3>4. CASE PullFails(Main)
        BY <3>4 DEF PullFails, PullUnchanged, server, local
      <3> QED
        BY <1>2, <3>2, <3>3, <3>4
    <2>2. \E s : task' = [task EXCEPT ![Main] = s]
      BY <1>2 DEF PullBegin, PullDecide, PullApply, PullFails, Finish, Goto
    <2>3. PICK s : task' = [task EXCEPT ![Main] = s]
      BY <2>2
    <2>4. task'[Main] = s /\ \A x \in Threads \ {Main} : task'[x] = task[x]
      BY <1>0, <2>3 DEF IInv, TasksOK
    <2>5. ~Carries(task[Main], file)
      BY <2>1 DEF Carries
    <2>6. s.pc \notin {"ready", "sent", "stored"}
      <3>1. Idle.pc = "idle"
        BY DEF Idle
      <3>2. CASE PullBegin
        BY <2>4, <3>1, <3>2, <1>0 DEF PullBegin, Finish, Goto, IInv, TasksOK
      <3>3. CASE PullDecide \/ PullApply
        <4>1. task[Main] \in Pull
          BY <1>0, <3>3, TaskRecords DEF PullDecide, PullApply, IInv, TasksOK
        <4>2. s = Idle \/ s = [task[Main] EXCEPT !.pc = "fetched"] \/ s = [task[Main] EXCEPT !.pc = "writing"]
          BY <1>0, <2>4, <3>3 DEF PullDecide, PullApply, Goto, IInv, TasksOK
        <4> QED
          BY <3>1, <4>1, <4>2 DEF Pull
      <3>4. CASE PullFails(Main)
        BY <2>4, <3>1, <3>4, <1>0 DEF PullFails, Finish, Goto, IInv, TasksOK
      <3> QED
        BY <1>2, <3>2, <3>3, <3>4
    <2>7. Backed => Backed'
      BY <2>1, <2>4, <2>6 DEF Backed, Retrying
    <2> QED
      BY <1>0, <2>1, <2>3, <2>5, <2>7, EditFrame DEF Accounted
  <1> QED
    BY <1>1, <1>2 DEF PullStep

LEMMA ReconKeepsEdit ==
    ASSUME IInv, EditInv, Unattended, ReconStep
    PROVE  EditInv'
  <1>0. Main # Recon /\ Recon \in Threads
    BY ThreadAssumption DEF Threads, ReconStep
  <1>1. UNCHANGED <<srv, held, file, abandoned, rel, queued, outbox, conflict, phase>>
    BY DEF ReconStep, ReconFetch, ReconFails, ReconDecide, ReconUnchanged, server, local, books
  <1>2. CASE ReconFetch \/ ReconFails
    <2>1. task'[Recon].pc \in {"state", "failed"}
      BY <1>0, <1>2 DEF ReconFetch, ReconFails, Goto, IInv, TasksOK
    <2> QED
      BY <2>1 DEF EditInv, Accounted, Reconciles
  <1>3. CASE ReconDecide
    <2> DEFINE hash == task[Recon].hash
    <2>1. hash \in held \cup {None}
      BY <1>0, <1>3, TaskRecords DEF ReconDecide, IInv, TasksOK, ThreadKnowledge, KnownTo, StoredKnowledge
    <2>2. CASE file \in {None, hash}
      BY <1>1, <2>1, <2>2 DEF EditInv, Unshared
    <2>3. ASSUME NEW seed, Goto(Recon, ReadyPush(file, 0, seed)) PROVE EditInv'
      <3>1. task'[Recon] = ReadyPush(file, 0, seed)
        BY <1>0, <2>3 DEF Goto, IInv, TasksOK
      <3>2. OnItsWay'
        BY <1>0, <1>1, <3>1, OnItsWayIsCarried DEF ReadyPush, Carries
      <3> QED
        BY <3>2 DEF EditInv, Accounted
    <2>4. CASE RelSeenWith(hash) # {"newer"} /\ hash # None
      <3>1. srv = None \/ rel # "newer"
        BY <2>4 DEF RelSeenWith
      <3> QED
        BY <1>1, <3>1 DEF EditInv, Unshared, Accounted
    <2> QED
      BY <1>3, <2>2, <2>3, <2>4 DEF ReconDecide
  <1> QED
    BY <1>2, <1>3 DEF ReconStep

LEMMA EditStep ==
    ASSUME Unattended, IInv, EditInv, [Next]_vars
    PROVE  EditInv'
  <1>1. CASE World
    BY <1>1, WorldKeepsEdit
  <1>2. ASSUME NEW t \in Threads, PushStep(t) PROVE EditInv'
    BY <1>2, SendKeepsEdit, ServeKeepsEdit, AnswerKeepsEdit, NoAnswerKeepsEdit DEF PushStep
  <1>3. ASSUME NEW t \in Watchers, WatchStep(t) PROVE EditInv'
    BY <1>3, WatchKeepsEdit
  <1>4. ASSUME NEW e \in Entries, OutboxRetry(e) \/ OutboxExpires(e) PROVE EditInv'
    BY <1>4, OutboxKeepsEdit, ExpiryKeepsEdit
  <1>5. CASE PullStep
    BY <1>5, PullKeepsEdit
  <1>6. CASE ReconStep
    BY <1>6, ReconKeepsEdit
  <1>7. Optional \ {Recon} = {}
    BY DEF Unattended
  <1>8. ASSUME NEW req \in late, ServeLate(req) PROVE EditInv'
    BY <1>8, ServeLateKeepsEdit
  <1>9. CASE Flush \/ Start \/ StartWatcher
    BY <1>9, ProcessKeepsEdit
  <1>10. CASE UNCHANGED vars
    <2>1. UNCHANGED <<srv, held, file, abandoned, rel, queued, outbox, conflict, phase, task>>
      BY <1>10 DEF vars
    <2> QED
      BY <2>1 DEF EditInv, Unshared, Accounted, Backed, OnItsWay, InFlight, BodyOf, Reconciles, Retrying
  <1> QED
    BY <1>1, <1>2, <1>3, <1>4, <1>5, <1>6, <1>7, <1>8, <1>9, <1>10 DEF Next

\* No edit is forgotten: a content of the file that the server has never held
\* is queued, in the outbox, on its way, in a conflict record, due at the next
\* pull or reconciliation, or was given up with an error or after a week in
\* the outbox, whatever pushes,
\* pulls and the reconciliation do to each other's cache and entries, and
\* however often the client crashes (watcher.go, outbox.go, pull.go,
\* reconcile.go).
THEOREM NoEditIsForgotten ==
    ASSUME Unattended
    PROVE  Spec => []NoForgottenEdit
  <1>1. ASSUME IInv, EditInv PROVE NoForgottenEdit
    <2> SUFFICES ASSUME Unshared
                PROVE  Entrusted \/ abandoned \in {"timeout", "expired"}
      BY DEF NoForgottenEdit
    <2>1. Accounted
      BY <1>1 DEF EditInv
    <2>2. Reconciles => LookedAt
      BY DEF Unattended, Reconciles, LookedAt
    <2>3. rel # "newer" => LookedAt
      <3> SUFFICES ASSUME rel # "newer", NEW policy \in Policies PROVE Decide(TRUE, FALSE, rel, policy) # "skip"
        BY DEF LookedAt
      <3>1. policy \in {"last_write_wins", "keep_server"} /\ rel \in {"near", "older"}
        BY <1>1, PolicyAssumption DEF Unattended, IInv, FieldsOK, Rels
      <3>2. CASE policy = "last_write_wins"
        BY <3>1, <3>2 DEF Decide
      <3>3. CASE policy = "keep_server"
        BY <3>1, <3>3 DEF Decide
      <3> QED
        BY <3>1, <3>2, <3>3
    <2>4. abandoned # "no" => abandoned \in {"refused", "timeout", "expired"}
      BY <1>1 DEF IInv, FieldsOK
    <2>5. Backed => outbox # {}
      BY DEF Backed
    <2> QED
      BY <2>1, <2>2, <2>3, <2>4, <2>5 DEF Accounted, Entrusted
  <1>2. IInv /\ EditInv /\ [Next]_vars => EditInv'
    BY EditStep
  <1> QED
    BY <1>1, <1>2, InitEdit, DeviceInvariance, PTL DEF Spec
=============================================================================
