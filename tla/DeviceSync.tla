----------------------------- MODULE DeviceSync -----------------------------
(***************************************************************************)
(* One save slot seen from one device: the local file, the client's        *)
(* goroutines that move it (client/sync, client/run_sync.go) and the       *)
(* server's slot.  Other devices and the web UI change the server's slot   *)
(* at any moment; the game changes the file at any moment.                 *)
(*                                                                         *)
(* The threads of a device are its timers for debounced pushes (Watchers), *)
(* the select loop that pulls and retries the outbox one after the other   *)
(* (Main), the startup reconciliation (Recon) and the resolution of a      *)
(* conflict by the user (Ui).  A conditional upload is one atomic step of  *)
(* the server: SaveStore is shown to implement exactly that.               *)
(*                                                                         *)
(* A content stands for its plaintext hash.  Timestamps only matter        *)
(* through DecidePull's comparison, so the model keeps its outcome, rel:   *)
(* is the file's mtime older or newer than the server's updated_at beyond  *)
(* the skew tolerance, or near it?                                         *)
(***************************************************************************)
EXTENDS Naturals, FiniteSets

CONSTANTS
    Contents,       \* contents of the save file
    None,           \* no file, no row on the server, no cached hash
    IfAbsent,       \* X-GSBS-If-Absent: 1
    NoConflict,     \* no record of the slot in conflicts.json
    Watchers, Main, Recon, Ui,      \* the threads of the client
    Optional,       \* Recon, unless the start finds sync paused; Ui, if anybody
                    \* resolves conflicts
    Policies,       \* the conflict policy in force, of the three there are
    MaxAttempts,    \* pushMaxRetries
    MaxLate,        \* bound on requests under way that nobody waits for
    MaxEvents       \* bound on what the game, other devices and crashes do

Threads == Watchers \cup {Main} \cup Optional
Maybe == Contents \cup {None}
Rels == {"older", "near", "newer"}
Entries == {1, 2}   \* two file names are enough for a slot's outbox entries

ASSUME ContentAssumption ==
    /\ None \notin Contents
    /\ IfAbsent \notin Maybe
    /\ NoConflict \notin Maybe
ASSUME ThreadAssumption ==
    /\ Main # Recon
    /\ {Main, Recon, Ui} \cap Watchers = {}
    /\ Ui \notin {Main, Recon}
    /\ Optional \subseteq {Recon, Ui}
ASSUME PolicyAssumption ==
    Policies \subseteq {"last_write_wins", "keep_local", "keep_server"}
ASSUME BoundAssumption ==
    MaxAttempts \in Nat \ {0} /\ MaxLate \in Nat /\ MaxEvents \in Nat

VARIABLES
    srv,        \* content of the server's slot
    file,       \* content of the local save file
    rel,        \* its mtime, compared with the slot's updated_at
    cache,      \* lastPushedHash of the slot
    disk,       \* the same in push_hash_cache.json
    queued,     \* the watcher holds a pending push and its timer
    outbox,     \* outbox entries of the slot
    conflict,   \* server hash of the recorded conflict
    rejected,   \* was it recorded by a 409 (PolicyApplied is push_conflict)?
    abandoned,  \* was an upload given up for an error that is not retried, or
                \* for the age of its outbox entry?
    phase,      \* "off", "starting" (no watcher yet) or "on"
    task,       \* what each thread is doing
    late,       \* requests the client stopped waiting for, still under way
    held,       \* history: contents the slot has ever held
    seen,       \* history: those the device has learned of
    events      \* how many more things may happen to the device

server == <<srv, held>>
local == <<file, abandoned>>
books == <<queued, outbox, conflict, rejected>>
vars == <<srv, held, file, abandoned, rel, cache, disk, queued, outbox,
          conflict, rejected, phase, task, late, seen, events>>

-----------------------------------------------------------------------------
(* The local state of a thread.                                            *)

Idle == [pc |-> "idle"]
Request == [body : Contents, pre : Contents \cup {IfAbsent}]
Push == [pc : {"ready"}, body : Contents, attempt : 1..MaxAttempts,
         entry : Entries \cup {0}, seed : Maybe]
Sent == [pc : {"sent"}, req : Request, attempt : 1..MaxAttempts,
         entry : Entries \cup {0}, seed : Maybe]
Stored == [pc : {"stored"}, body : Contents, attempt : 1..MaxAttempts,
           entry : Entries \cup {0}, seed : Maybe]
\* A pull: summary read, blob here, about to overwrite the file.
Pull == [pc : {"summary", "fetched", "writing"}, hash : Contents]
\* Not begun: the pull and the reconciliation of a startup; server state read.
Startup == [pc : {"due", "failed"}] \cup [pc : {"state"}, hash : Maybe]

\* Everything the client and the server store is well formed.
TypeOK ==
    /\ srv \in Maybe /\ file \in Maybe /\ cache \in Maybe /\ disk \in Maybe
    /\ rel \in Rels
    /\ queued \in BOOLEAN
    /\ outbox \subseteq Entries
    /\ conflict \in Maybe \cup {NoConflict}
    /\ rejected \in BOOLEAN
    /\ abandoned \in {"no", "refused", "timeout", "expired"}
    /\ phase \in {"off", "starting", "on"}
    /\ task \in [Threads -> {Idle} \cup Push \cup Sent \cup Stored \cup Pull
                            \cup Startup]
    /\ late \subseteq Request
    /\ held \subseteq Contents /\ seen \subseteq Contents
    /\ events \in 0..MaxEvents

\* A device that installs the client: a save of its own or none, on an account
\* that has one or none.
Init ==
    /\ srv \in Maybe /\ file \in Maybe
    /\ rel \in IF None \in {srv, file} THEN {"near"} ELSE Rels
    /\ cache = None /\ disk = None
    /\ queued = FALSE /\ outbox = {} /\ conflict = NoConflict /\ rejected = FALSE
    /\ abandoned = "no"
    /\ phase = "off"
    /\ task = [t \in Threads |-> Idle]
    /\ late = {}
    /\ held = {srv} \ {None} /\ seen = {}
    /\ events = MaxEvents

-----------------------------------------------------------------------------
(* Time.  A file write sets mtime to now, a server write updated_at: the   *)
(* later of two instants is never the older one.                           *)

FileWrittenNow ==
    rel' \in IF srv = None THEN {"near"}
             ELSE IF rel = "newer" THEN {"newer"} ELSE {"near", "newer"}
SlotWrittenNow ==
    rel' \in IF file = None THEN {"near"}
             ELSE IF rel = "older" /\ srv # None THEN {"older"}
             ELSE {"near", "older"}

\* The file against the updated_at read with the content hash: the slot may
\* have been written since, so that it looks newer than it is by now.
RelSeenWith(hash) ==
    IF srv = hash THEN {rel}
    ELSE IF srv = None \/ rel = "older" THEN Rels
    ELSE {rel, "newer"}

-----------------------------------------------------------------------------
(* Helpers.                                                                *)

Goto(t, s) == task' = [task EXCEPT ![t] = s]
Finish(t) == Goto(t, Idle)

Retrying == task[Main].pc \in {"ready", "sent", "stored"}

\* Variant with a bug: the new entry may take the name of the one being sent.
EnqueueInPlace == outbox' = {1}

\* EnqueueOutbox: a new file name replaces every entry of the slot.
Enqueue == outbox' = {CHOOSE e \in Entries : Retrying => e # task[Main].entry}

ReadyPush(body, entry, seed) ==
    [pc |-> "ready", body |-> body, attempt |-> 1, entry |-> entry,
     seed |-> seed]

Decide(exists, same, r, policy) ==
    CASE ~exists -> "apply"
      [] exists /\ same -> "skip"
      [] exists /\ ~same /\ policy = "keep_local" ->
            IF r \in {"near", "newer"} THEN "skip" ELSE "conflict"
      [] exists /\ ~same /\ policy = "keep_server" ->
            IF r \in {"near", "older"} THEN "apply" ELSE "conflict"
      [] exists /\ ~same /\ policy = "last_write_wins" ->
            CASE r = "near" -> "conflict" [] r = "newer" -> "skip"
              [] r = "older" -> "apply"

-----------------------------------------------------------------------------
(* The world: the game, other devices and the web UI.                      *)

Happens == events > 0 /\ events' = events - 1

\* The game saves.  Only a running watcher notices.
GameWrites(c) ==
    /\ Happens
    /\ file' = c
    /\ FileWrittenNow
    /\ queued' = (queued \/ phase = "on")
    /\ abandoned' = "no"
    /\ UNCHANGED <<server, cache, disk, outbox, conflict, rejected, phase, task,
                   late, seen>>

\* A remove event queues nothing.
GameRemoves ==
    /\ Happens /\ file # None
    /\ file' = None
    /\ rel' = "near"
    /\ abandoned' = "no"
    /\ UNCHANGED <<server, cache, disk, books, phase, task, late, seen>>

\* Another device uploads, or somebody restores or imports a version.
OthersWrite(c) ==
    /\ Happens /\ c # srv
    /\ srv' = c
    /\ held' = held \cup {c}
    /\ SlotWrittenNow
    /\ UNCHANGED <<local, cache, disk, books, phase, task, late, seen>>

OthersDelete ==
    /\ Happens /\ srv # None
    /\ srv' = None
    /\ rel' = "near"
    /\ UNCHANGED <<held, local, cache, disk, books, phase, task, late, seen>>

-----------------------------------------------------------------------------
(* Client.Push and pushOnceAttempt, on behalf of any thread.               *)

\* What a push that is over means to the thread that asked for it.
Succeeded(t, body) ==
    /\ cache' = body
    /\ outbox' = IF t = Main THEN outbox \ {task[t].entry} ELSE outbox
    /\ conflict' = IF t = Ui THEN NoConflict ELSE conflict
    /\ rejected' = (rejected /\ t # Ui)
    /\ Finish(t)
    /\ UNCHANGED abandoned

\* A retryable error, attempts exhausted.  The outbox retry rewrites its
\* entry; reconciliation leaves it to the next start.
GaveUp(t) ==
    /\ \/ t \in Watchers /\ Enqueue
       \/ t = Main /\ outbox' = outbox \cup {task[t].entry}
       \/ t \in Optional /\ UNCHANGED outbox
    /\ Goto(t, IF t = Recon THEN [pc |-> "failed"] ELSE Idle)
    /\ UNCHANGED <<cache, conflict, rejected, abandoned>>

\* An error that is not retried: the outbox drops its entry, the watcher does
\* not make one.
Dropped(t, why) ==
    /\ outbox' = IF t = Main THEN outbox \ {task[t].entry} ELSE outbox
    /\ abandoned' = IF t = Recon THEN abandoned ELSE why
    /\ Goto(t, IF t = Recon THEN [pc |-> "failed"] ELSE Idle)
    /\ UNCHANGED <<cache, conflict, rejected>>

Precondition == IF cache = None THEN IfAbsent ELSE cache

\* Variant with a bug: the hash is marked as pushed when the request leaves.
SendMarksFirst(t) ==
    LET push == task[t] IN
    /\ push.pc = "ready"
    /\ IF push.body = cache
       THEN Succeeded(t, push.body)
       ELSE /\ Goto(t, [pc |-> "sent", attempt |-> push.attempt,
                        req |-> [body |-> push.body, pre |-> Precondition],
                        entry |-> push.entry, seed |-> push.seed])
            /\ cache' = push.body
            /\ UNCHANGED <<outbox, conflict, rejected, abandoned>>
    /\ UNCHANGED <<server, file, rel, disk, queued, phase, late, seen, events>>

\* ShouldSkipPush, else a request that carries the hash cached by now.
Send(t) ==
    LET push == task[t] IN
    /\ push.pc = "ready"
    /\ IF push.body = cache
       THEN Succeeded(t, push.body)
       ELSE /\ Goto(t, [pc |-> "sent", attempt |-> push.attempt,
                        req |-> [body |-> push.body, pre |-> Precondition],
                        entry |-> push.entry, seed |-> push.seed])
            /\ UNCHANGED <<cache, outbox, conflict, rejected, abandoned>>
    /\ UNCHANGED <<server, file, rel, disk, queued, phase, late, seen,
                   events>>

\* Variant with a bug: the expect-new precondition is not checked.
AcceptsFirstPush(req) == req.pre \in {srv, IfAbsent}

Accepts(req) ==
    \/ req.pre = srv
    \/ req.pre = IfAbsent /\ srv \in {None, req.body}

Store(req) ==
    /\ srv' = req.body
    /\ held' = held \cup {req.body}
    /\ IF srv = req.body THEN UNCHANGED rel ELSE SlotWrittenNow

Learn(c) == seen' = seen \cup ({c} \ {None})

\* The server runs handlePush.  Stored: the answer is on its way.
Serve(t) ==
    LET sent == task[t] IN
    /\ sent.pc = "sent" /\ Accepts(sent.req)
    /\ Store(sent.req)
    /\ Goto(t, [pc |-> "stored", body |-> sent.req.body, entry |-> sent.entry,
                attempt |-> sent.attempt, seed |-> sent.seed])
    /\ UNCHANGED <<local, cache, disk, books, phase, late, seen, events>>

ReceiveStored(t) ==
    /\ task[t].pc = "stored"
    /\ Succeeded(t, task[t].body)
    /\ Learn(task[t].body)
    /\ UNCHANGED <<server, file, rel, disk, queued, phase, late, events>>

\* 409: a conflict is recorded with the hash that the answer names.
Reject(t) ==
    /\ task[t].pc = "sent" /\ ~Accepts(task[t].req)
    /\ conflict' = srv /\ rejected' = TRUE
    /\ Learn(srv)
    /\ outbox' = IF t = Main THEN outbox \ {task[t].entry} ELSE outbox
    /\ Finish(t)
    /\ UNCHANGED <<server, local, rel, cache, disk, queued, phase, late, events>>

\* 413, over quota.
Refuse(t) ==
    /\ task[t].pc = "sent"
    /\ Dropped(t, "refused")
    /\ UNCHANGED <<server, file, rel, disk, queued, phase, late, seen, events>>

InFlight(t) == task[t].pc \in {"sent", "stored"}
BodyOf(t) == IF task[t].pc = "sent" THEN task[t].req.body ELSE task[t].body

\* A request without an answer may still reach the server.
MayArriveLate(t) ==
    \/ UNCHANGED late
    \/ /\ task[t].pc = "sent" /\ Cardinality(late) < MaxLate
       /\ late' = late \cup {task[t].req}

AttemptsLeft(t) == task[t].attempt < MaxAttempts

\* The connection breaks, or a 5xx: try again (the outbox not before its next turn).
ConnectionLost(t) ==
    /\ InFlight(t)
    /\ MayArriveLate(t)
    /\ IF t # Main /\ AttemptsLeft(t)
       THEN /\ Goto(t, [pc |-> "ready", body |-> BodyOf(t),
                        attempt |-> task[t].attempt + 1,
                        entry |-> task[t].entry, seed |-> task[t].seed])
            /\ UNCHANGED <<cache, outbox, conflict, rejected, abandoned>>
       ELSE GaveUp(t)
    /\ UNCHANGED <<server, file, rel, disk, queued, phase, seen, events>>

\* http.Client gives up after syncTimeout.  Its error is a
\* context.DeadlineExceeded, which IsRetryableError does not retry.
TimedOut(t) ==
    /\ InFlight(t)
    /\ MayArriveLate(t)
    /\ Dropped(t, "timeout")
    /\ UNCHANGED <<server, file, rel, disk, queued, phase, seen, events>>

ServeLate(req) ==
    /\ late' = late \ {req}
    /\ IF Accepts(req) THEN Store(req) ELSE UNCHANGED <<server, rel>>
    /\ UNCHANGED <<local, cache, disk, books, phase, task, seen, events>>

-----------------------------------------------------------------------------
(* Watcher: the debounce timer fires.                                      *)

WatchPush(t) ==
    /\ phase = "on" /\ queued /\ task[t] = Idle
    /\ queued' = FALSE
    /\ IF file \in {None, cache} THEN UNCHANGED task
       ELSE Goto(t, ReadyPush(file, 0, None))
    /\ UNCHANGED <<server, local, rel, cache, disk, outbox, conflict, rejected,
                   phase, late, seen, events>>

\* The game keeps the file locked: the outbox reads it later.
WatchLocked(t) ==
    /\ phase = "on" /\ queued /\ task[t] = Idle /\ file # None
    /\ queued' = FALSE
    /\ Enqueue
    /\ UNCHANGED <<server, local, rel, cache, disk, conflict, rejected, phase,
                   task, late, seen, events>>

-----------------------------------------------------------------------------
(* The select loop: ProcessOutbox.                                         *)

\* Variant with a bug: slots that were never pushed are not retried.
OutboxRetryKnown(e) ==
    /\ phase = "on" /\ task[Main] = Idle /\ e \in outbox /\ cache # None
    /\ IF file = None
       THEN outbox' = outbox \ {e} /\ UNCHANGED task
       ELSE Goto(Main, ReadyPush(file, e, None)) /\ UNCHANGED outbox
    /\ UNCHANGED <<server, local, rel, cache, disk, queued, conflict, rejected,
                   phase, late, seen, events>>

OutboxRetry(e) ==
    /\ phase = "on" /\ task[Main] = Idle /\ e \in outbox
    /\ IF file = None
       THEN outbox' = outbox \ {e} /\ UNCHANGED task
       ELSE Goto(Main, ReadyPush(file, e, None)) /\ UNCHANGED outbox
    /\ UNCHANGED <<server, local, rel, cache, disk, queued, conflict, rejected,
                   phase, late, seen, events>>

\* The scan removes an entry that is older than outboxMaxAge, a week.
OutboxExpires(e) ==
    /\ phase = "on" /\ task[Main] = Idle /\ e \in outbox
    /\ outbox' = outbox \ {e}
    /\ abandoned' = "expired"
    /\ UNCHANGED <<server, file, rel, cache, disk, queued, conflict, rejected,
                   phase, task, late, seen, events>>

-----------------------------------------------------------------------------
(* The select loop: PullAndApplyWithResolver.                              *)

PullUnchanged == UNCHANGED <<server, cache, disk, queued, outbox, phase, late,
                             events>>

CanPull == \/ phase = "on" /\ task[Main] = Idle
           \/ task[Main].pc = "due"

\* The summaries, or the full pull when they fail; nothing if the server has
\* no save.
PullBegin ==
    /\ CanPull
    /\ IF srv = None THEN Finish(Main)
       ELSE \E pc \in {"summary", "fetched"} :
                Goto(Main, [pc |-> pc, hash |-> srv])
    /\ Learn(srv)
    /\ UNCHANGED <<local, rel, conflict, rejected>> /\ PullUnchanged

\* DecidePull on the summary; then the blob is fetched, which must have the
\* summary's hash.
PullDecide ==
    LET pull == task[Main] IN
    /\ pull.pc = "summary"
    /\ \E r \in RelSeenWith(pull.hash), policy \in Policies :
          LET d == Decide(file # None, file = pull.hash, r, policy) IN
          /\ Goto(Main, IF d = "apply" /\ srv = pull.hash
                        THEN [pull EXCEPT !.pc = "fetched"] ELSE Idle)
          /\ conflict' = IF d = "conflict" THEN pull.hash ELSE conflict
          /\ rejected' = (rejected /\ d # "conflict")
    /\ UNCHANGED <<local, rel, seen>> /\ PullUnchanged

\* applyOneSaveEncrypted: read the file and decide again.
PullApply ==
    LET pull == task[Main] IN
    /\ pull.pc = "fetched"
    /\ \E r \in RelSeenWith(pull.hash), policy \in Policies :
          LET d == Decide(file # None, file = pull.hash, r, policy) IN
          /\ Goto(Main, IF d = "apply" THEN [pull EXCEPT !.pc = "writing"] ELSE Idle)
          /\ conflict' = IF d = "conflict" THEN pull.hash ELSE conflict
          /\ rejected' = (rejected /\ d # "conflict")
    /\ UNCHANGED <<local, rel, seen>> /\ PullUnchanged

\* The file is overwritten and its hash marked as pushed, so that the watcher
\* event of the write pushes nothing.
WritePulled(t) ==
    /\ task[t].pc = "writing"
    /\ file' = task[t].hash
    /\ FileWrittenNow
    /\ cache' = task[t].hash
    /\ queued' = (queued \/ phase = "on")
    /\ abandoned' = "no"
    /\ conflict' = IF t = Ui THEN NoConflict ELSE conflict
    /\ rejected' = (rejected /\ t # Ui)
    /\ Finish(t)
    /\ UNCHANGED <<server, disk, outbox, phase, late, seen, events>>

\* No answer; a blob that is not the summary's; a file that cannot be read or
\* written.
PullFails(t) ==
    /\ task[t].pc \in {"due", "summary", "fetched", "writing"}
    /\ Finish(t)
    /\ UNCHANGED <<local, rel, conflict, rejected, seen>> /\ PullUnchanged

-----------------------------------------------------------------------------
(* Startup reconciliation.                                                 *)

ReconUnchanged == UNCHANGED <<server, local, rel, disk, books, phase, late,
                              events>>

\* FetchServerState; without an answer nothing is reconciled before the next
\* start.
ReconFetch ==
    /\ task[Recon].pc = "due"
    /\ Goto(Recon, [pc |-> "state", hash |-> srv])
    /\ Learn(srv)
    /\ UNCHANGED cache /\ ReconUnchanged

ReconFails ==
    /\ task[Recon].pc = "due"
    /\ Goto(Recon, [pc |-> "failed"])
    /\ UNCHANGED <<cache, seen>> /\ ReconUnchanged

\* Upload a file the server does not have, and a definitely newer one as a
\* compare-and-swap against the server state that was read.
ReconDecide ==
    LET hash == task[Recon].hash IN
    /\ task[Recon].pc = "state"
    /\ \/ /\ file \in {None, hash}
          /\ Finish(Recon) /\ UNCHANGED cache
       \/ /\ hash = None /\ file # None
          /\ Goto(Recon, ReadyPush(file, 0, None)) /\ UNCHANGED cache
       \/ /\ None \notin {hash, file} /\ file # hash /\ "newer" \in RelSeenWith(hash)
          /\ Goto(Recon, ReadyPush(file, 0, hash)) /\ cache' = hash
       \/ /\ None \notin {hash, file} /\ file # hash
          /\ RelSeenWith(hash) # {"newer"}
          /\ Finish(Recon) /\ UNCHANGED cache
    /\ UNCHANGED seen /\ ReconUnchanged

-----------------------------------------------------------------------------
(* ResolveConflict.                                                        *)

\* keep_local: push the file against the version the user reviewed.
KeepLocal(t) ==
    /\ phase = "on" /\ task[t] = Idle /\ conflict # NoConflict /\ file # None
    /\ cache' = IF conflict = None THEN cache ELSE conflict
    /\ Goto(t, ReadyPush(file, 0, conflict))
    /\ UNCHANGED <<server, local, rel, disk, books, phase, late, seen,
                   events>>

\* use_server: fetch the slot, whatever it holds by now.
UseServer(t) ==
    /\ phase = "on" /\ task[t] = Idle /\ conflict # NoConflict /\ srv # None
    /\ Goto(t, [pc |-> "fetched", hash |-> srv])
    /\ Learn(srv)
    /\ UNCHANGED <<server, local, rel, cache, disk, books, phase, late,
                   events>>

\* ForceApply; a file that is the server's already counts as not applied.
ForceApply(t) ==
    /\ task[t].pc = "fetched"
    /\ Goto(t, IF file = task[t].hash THEN Idle
               ELSE [task[t] EXCEPT !.pc = "writing"])
    /\ UNCHANGED <<server, local, rel, cache, disk, books, phase, late,
                   seen, events>>

-----------------------------------------------------------------------------
(* The client process.                                                     *)

\* The flusher goroutine.
Flush ==
    /\ phase # "off" /\ disk # cache
    /\ disk' = cache
    /\ UNCHANGED <<server, local, rel, cache, books, phase, task, late,
                   seen, events>>

Crash ==
    /\ Happens /\ phase # "off"
    /\ phase' = "off"
    /\ task' = [t \in Threads |-> Idle]
    /\ queued' = FALSE
    /\ cache' = disk
    /\ UNCHANGED <<server, local, rel, disk, outbox, conflict, rejected, late, seen>>

\* The initial pull comes first.  MaybeEvictStaleHashCache may find a foreign
\* slot key and clear the cache, on disk too.
Start ==
    /\ phase = "off"
    /\ phase' = "starting"
    /\ Goto(Main, [pc |-> "due"])
    /\ \/ UNCHANGED <<cache, disk>>
       \/ cache' = None /\ disk' = None
    /\ abandoned' = "no"
    /\ UNCHANGED <<server, file, rel, books, late, seen, events>>

\* Then the watcher, and the reconciliation in a goroutine of its own.
StartWatcher ==
    /\ phase = "starting" /\ task[Main] = Idle
    /\ phase' = "on"
    /\ IF Recon \in Optional THEN Goto(Recon, [pc |-> "due"]) ELSE UNCHANGED task
    /\ UNCHANGED <<server, local, rel, cache, disk, books, late, seen,
                   events>>

-----------------------------------------------------------------------------
World ==
    \/ \E c \in Contents : GameWrites(c) \/ OthersWrite(c)
    \/ GameRemoves
    \/ OthersDelete
    \/ Crash

PushStep(t) ==
    \/ Send(t)
    \/ Serve(t)
    \/ Refuse(t)
    \/ ReceiveStored(t)
    \/ Reject(t)
    \/ ConnectionLost(t)
    \/ TimedOut(t)

PullStep ==
    \/ PullBegin
    \/ PullDecide
    \/ PullApply
    \/ WritePulled(Main)
    \/ PullFails(Main)

ReconStep == Recon \in Optional /\ (ReconFetch \/ ReconFails \/ ReconDecide)
UiStep(t) ==
    \/ KeepLocal(t)
    \/ UseServer(t)
    \/ ForceApply(t)
    \/ WritePulled(t)
    \/ PullFails(t)
WatchStep(t) == WatchPush(t) \/ WatchLocked(t)

Next ==
    \/ World
    \/ \E t \in Threads : PushStep(t)
    \/ \E t \in Watchers : WatchStep(t)
    \/ \E e \in Entries : OutboxRetry(e) \/ OutboxExpires(e)
    \/ PullStep
    \/ ReconStep
    \/ \E t \in Optional \ {Recon} : UiStep(t)
    \/ \E req \in late : ServeLate(req)
    \/ Flush
    \/ Start
    \/ StartWatcher

Spec == Init /\ [][Next]_vars

\* Timers fire, goroutines run, the outbox ticker finds the select loop idle
\* again and again, and a request that is sent again and again is answered in
\* the end.  Nobody has to play, to pull, to crash or to resolve anything.
Fairness ==
    /\ WF_vars(\E t \in Watchers : WatchPush(t))
    /\ \A t \in Threads :
          /\ WF_vars(Send(t))
          /\ SF_vars(Serve(t) \/ Reject(t))
          /\ SF_vars(ReceiveStored(t))
    /\ WF_vars(PullDecide \/ PullApply \/ WritePulled(Main))
    /\ SF_vars(\E e \in Entries : OutboxRetry(e))

FairSpec == Spec /\ Fairness

-----------------------------------------------------------------------------
(* Safety.                                                                 *)

\* The device's upload reaches the slot: in time, or after it stopped waiting.
Uploads ==
    \/ \E t \in Threads : task[t].pc = "sent" /\ task'[t].pc = "stored"
    \/ \E req \in late : req \notin late'

\* No upload of this device, retried, delayed or sent after a crash with an
\* old or evicted cache, replaces a content the device has never heard of:
\* another device's save is never overwritten on first contact.
\* (pushOnceAttempt's If-Hash and If-Absent, handlePush's checks.)
NoBlindOverwrite == [][Uploads /\ srv' # srv => srv \in seen \cup {None}]_vars

\* Skipping an upload is safe: a hash in the cache, in memory or on disk, is
\* that of a content the server has held.  (markPushed, ShouldSkipPush.)
CacheHonest == {cache, disk} \subseteq held \cup {None}

\* Is a push of the current file on its way?
OnItsWay ==
    \E t \in Threads :
        \/ task[t].pc = "ready" /\ task[t].body = file
        \/ InFlight(t) /\ BodyOf(t) = file

\* Does a step of the client that is still to come look at the file?  The next
\* pull does unless it would skip it; so does a reconciliation that is not
\* done, at the next start if need be.
LookedAt ==
    \/ \A policy \in Policies : Decide(TRUE, FALSE, rel, policy) # "skip"
    \/ Recon \in Optional /\ task[Recon].pc \in {"due", "state", "failed"}

Entrusted ==
    \/ queued \/ outbox # {} \/ conflict # NoConflict
    \/ OnItsWay \/ LookedAt
    \/ abandoned = "refused"

\* The save on this device is one that the server has never held.
Unshared == phase = "on" /\ None \notin {file, srv} /\ file \notin held

\* No edit is forgotten: as long as the server has not held the content of the
\* file, the watcher, the outbox, a push, a pull, the reconciliation or a
\* recorded conflict still has to do with it, unless its upload was given up
\* with an error or its outbox entry was a week old.
NoForgottenEdit == Unshared => Entrusted \/ abandoned \in {"timeout", "expired"}

\* The same, with uploads that time out retried like other transport errors.
EditsSurviveTimeouts == Unshared => Entrusted \/ abandoned = "expired"

\* An upload sent as a compare-and-swap against the version that the user or
\* the reconciliation has seen replaces no other version.
CompareAndSwap ==
    [][\A t \in Threads :
         /\ task[t].pc = "sent" /\ task'[t].pc = "stored"
         /\ task[t].seed # None /\ srv # task'[t].body
         => srv = task[t].seed]_vars

\* While the conflict that a 409 recorded is open, no pull of the main loop
\* decides to overwrite a local save that the server has never held: the user
\* is to choose the side.
\* (pushOnceAttempt's RecordConflict; applyOneSaveEncrypted looks at no record.)
RejectedAwaitsTheUser ==
    [][conflict # NoConflict /\ rejected /\ file \notin held \cup {None} =>
         ~(task[Main].pc = "fetched" /\ task'[Main].pc = "writing")]_vars

-----------------------------------------------------------------------------
(* Liveness.                                                               *)

\* An edit made while the client runs reaches the server, or is surfaced as
\* a conflict or an error, unless the file changes again, the client stops or
\* the outbox has failed to send it for a week and drops it.
EditsArrive ==
    \A c \in Contents :
        phase = "on" /\ file = c /\ queued ~>
            \/ c \in held \/ file # c \/ phase # "on"
            \/ conflict # NoConflict \/ abandoned # "no"

=============================================================================
