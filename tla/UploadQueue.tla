----------------------------- MODULE UploadQueue -----------------------------
(***************************************************************************)
(* How an edit of a save file gets from the file system to an upload: the  *)
(* watcher's debounce queue (client/sync/watcher.go), the upload itself    *)
(* (pushDebounced), the outbox of failed uploads (client/sync/outbox.go)   *)
(* and the conditions that hold uploads back: a pause, quiet hours, a      *)
(* metered connection, a running or snoozed game (client/run_sync.go).     *)
(*                                                                         *)
(* Every file is a save slot of a game of its own.  Its contents are       *)
(* numbered in the order the game writes them.  What the server makes of   *)
(* an upload is DeviceSync's and SaveStore's business: here it is stored,  *)
(* refused with an error the user sees, or not answered.                   *)
(***************************************************************************)
EXTENDS Naturals, FiniteSets, FiniteSetsExt

CONSTANTS
    Files,          \* the save files
    Timers,         \* goroutines that run a debounce timer's push
    Main,           \* the select loop of RunSync
    Seqs,           \* sequence numbers of queued pushes, reused when free
    Names,          \* file names of outbox entries, reused when free
    MaxSettle,      \* maxSettleRetries
    MaxEdits,       \* bound on the contents of a file
    MaxTroubles     \* bound on what disturbs a behaviour: pauses, running
                    \* games, lost events, failing reads and uploads, stops

Pushers == Timers \cup {Main}
NoSeq == 0

ASSUME QueueAssumption ==
    /\ Main \notin Timers
    /\ Seqs \subseteq Nat \ {NoSeq}
    /\ MaxSettle \in Nat /\ MaxEdits \in Nat \ {0} /\ MaxTroubles \in Nat

VARIABLES
    phase,      \* "on"; at shutdown "stopping", "flushing", "draining"; "off"
    ver,        \* the newest content of each file
    events,     \* files with a file system event not yet handled
    watched,    \* files in a directory that is watched
    todo,       \* files a rescan has still to visit
    pending,    \* w.pending and w.timers: the newest queued push of a file
    armed,      \* timers that will still fire
    push,       \* what each goroutine that uploads is doing
    emptied,    \* w.emptyRetries
    settle,     \* w.settleRetries
    outbox,     \* outbox entries of each file
    batch,      \* ProcessOutbox: candidates still to be tried
    authFailed, \* outboxAuthFailed
    gate,       \* the reasons for which nothing is synced now
    catchUp,    \* the rescan of a resume is about to start
    wasQuiet,   \* the local of the quiet-hours ticker
    deferred,   \* files whose game is running or snoozed
    troubles,   \* how many more things may disturb the behaviour
    cached,     \* lastPushedHash: the content last stored for a file
    handled,    \* history: newest content stored, or refused with an error
    missed,     \* history: files with an edit the queue never hears of
    skipped     \* history: files with an edit that a rescan passed over

queue == <<pending, armed>>
store == <<outbox, cached, handled>>
weather == <<gate, catchUp, wasQuiet, deferred>>
vars == <<phase, ver, events, watched, todo, queue, push, emptied, settle,
          store, batch, authFailed, weather, troubles, missed, skipped>>

Gates == {"paused", "quiet", "metered"}
Versions == 0..MaxEdits
Slot == Files \X Seqs
Idle == [pc |-> "idle"]
Running == [pc : {"start", "dropped", "read", "done"}, file : Files, seq : Seqs]
Loaded == [pc : {"settle", "send"}, file : Files, seq : Seqs, snap : Versions]
Retry == [pc : {"retry"}, file : Files, name : Names, snap : Versions]

\* The maps of the watcher and the entries of the outbox are well formed.
TypeOK ==
    /\ phase \in {"on", "stopping", "flushing", "draining", "off"}
    /\ ver \in [Files -> Versions]
    /\ events \subseteq Files /\ watched \subseteq Files /\ todo \subseteq Files
    /\ pending \in [Files -> Seqs \cup {NoSeq}]
    /\ armed \subseteq Slot
    /\ push \in [Pushers -> {Idle} \cup Running \cup Loaded \cup Retry]
    /\ emptied \subseteq Files
    /\ settle \in [Files -> 0..MaxSettle]
    /\ outbox \in [Files -> SUBSET Names]
    /\ batch \subseteq (Files \X Names) \cup Slot
    /\ authFailed \in BOOLEAN /\ catchUp \in BOOLEAN /\ wasQuiet \in BOOLEAN
    /\ gate \subseteq Gates
    /\ deferred \subseteq Files
    /\ troubles \in 0..MaxTroubles
    /\ cached \in [Files -> Versions] /\ handled \in [Files -> Versions]
    /\ missed \subseteq Files /\ skipped \subseteq Files

Init ==
    /\ phase = "on"
    /\ ver = [f \in Files |-> 0]
    /\ events = {} /\ watched = Files /\ todo = {}
    /\ pending = [f \in Files |-> NoSeq] /\ armed = {}
    /\ push = [p \in Pushers |-> Idle]
    /\ emptied = {} /\ settle = [f \in Files |-> 0]
    /\ outbox = [f \in Files |-> {}] /\ batch = {} /\ authFailed = FALSE
    /\ gate = {} /\ catchUp = FALSE /\ wasQuiet = FALSE /\ deferred = {}
    /\ cached = [f \in Files |-> 0] /\ handled = [f \in Files |-> 0]
    /\ missed = {} /\ skipped = {} /\ troubles = MaxTroubles

-----------------------------------------------------------------------------
(* Helpers.                                                                *)

Behind == {f \in Files : handled[f] < ver[f]}
Latest(a, b) == Max({a, b})

Busy == {p \in Pushers : push[p] # Idle}
SeqsInUse == {pending[f] : f \in Files} \cup {t[2] : t \in armed}
             \cup {push[p].seq : p \in {q \in Busy : push[q].pc # "retry"}}
             \cup (IF phase = "flushing" THEN {t[2] : t \in batch} ELSE {})
FreeSeqs == Seqs \ SeqsInUse
Smallest(S) == {n \in S : \A m \in S : n <= m}

NamesInUse(f) ==
    outbox[f] \cup {t[2] : t \in {u \in batch : phase # "flushing" /\ u[1] = f}}
    \cup {push[p].name : p \in {q \in Busy : push[q].pc = "retry"}}

\* Variant with a bug: the timer is not armed again.
StageUnarmed(f) ==
    \E s \in Smallest(FreeSeqs) :
        pending' = [pending EXCEPT ![f] = s] /\ UNCHANGED armed

\* stagePendingLocked and AfterFunc: a fresh number and a timer of its own.
Stage(f) ==
    \E s \in Smallest(FreeSeqs) :
        /\ pending' = [pending EXCEPT ![f] = s]
        /\ armed' = armed \cup {<<f, s>>}

\* EnqueueOutbox: a new file name replaces the entries of the slot.
Enqueue(f) ==
    \E n \in Smallest(Names \ NamesInUse(f)) : outbox' = [outbox EXCEPT ![f] = {n}]

\* Is a push on its way that has read, or will read, the newest content?
InPush(f) ==
    \E p \in Busy : /\ push[p].file = f
                    /\ \/ push[p].pc \in {"start", "read"}
                       \/ push[p].pc \in {"settle", "send", "retry"}
                          /\ push[p].snap = ver[f]

\* Is a push queued where the flush of a shutdown finds it?
InQueue(f) == pending[f] # NoSeq /\ <<f, pending[f]>> \in armed

\* The same, with no older run of that push about to clear the entry.
Queued(f) ==
    InQueue(f) /\ \A p \in Busy : push[p].pc # "retry" /\ push[p].file = f =>
                                    push[p].seq # pending[f]

Goto(p, s) == push' = [push EXCEPT ![p] = s]
Settled(f, v) == handled' = [handled EXCEPT ![f] = Latest(@, v)]

-----------------------------------------------------------------------------
(* The world: the game, the file system, the network, the user's settings. *)

\* The game saves.  Only a watched directory reports it.
GameSaves(f) ==
    /\ phase = "on" /\ ver[f] < MaxEdits
    /\ ver' = [ver EXCEPT ![f] = @ + 1]
    /\ IF f \in watched
       THEN events' = events \cup {f} /\ missed' = missed \ {f}
       ELSE missed' = missed \cup {f} /\ UNCHANGED events
    /\ skipped' = skipped \ {f}
    /\ UNCHANGED <<phase, watched, todo, queue, push, emptied, settle, store,
                   batch, authFailed, weather>>

WorldUnchanged ==
    UNCHANGED <<phase, ver, events, watched, queue, push, emptied, settle,
                store, batch, authFailed, skipped>>

\* A pause of the user, a metered connection, quiet hours.  Quiet hours last
\* longer than the ticker's minute, so that it has seen them when they end.
Holds(g) ==
    /\ phase = "on" /\ g \notin gate
    /\ gate' = gate \cup {g}
    /\ UNCHANGED <<todo, catchUp, wasQuiet, deferred, missed>> /\ WorldUnchanged

\* The end of a pause makes its caller rescan; that of a metered connection
\* goes unnoticed.
Releases(g) ==
    /\ phase = "on" /\ g \in gate
    /\ g = "quiet" => wasQuiet
    /\ gate' = gate \ {g}
    /\ catchUp' = (catchUp \/ g = "paused")
    /\ missed' = missed \cup (IF g = "metered" THEN Behind \cap watched ELSE {})
    /\ UNCHANGED <<todo, wasQuiet, deferred>> /\ WorldUnchanged

\* The game poller finds the game running, or the user snoozes it.
Defer(f) ==
    /\ phase = "on" /\ f \notin deferred
    /\ deferred' = deferred \cup {f}
    /\ UNCHANGED <<todo, gate, catchUp, wasQuiet, missed>> /\ WorldUnchanged

\* FlushPendingFor: the timer of the newest queued push fires at once, again
\* if it has fired already.
FlushPendingFor(f) ==
    armed' = IF pending[f] = NoSeq THEN armed
             ELSE armed \cup {<<f, pending[f]>>}

\* The game is gone.  A snooze that expires may be cleared by whoever asks for
\* it next, and then nobody flushes.
Undefer(f) ==
    /\ phase = "on" /\ f \in deferred
    /\ deferred' = deferred \ {f}
    /\ FlushPendingFor(f) \/ UNCHANGED armed
    /\ UNCHANGED <<phase, ver, events, watched, todo, pending, push, emptied,
                   settle, store, batch, authFailed, gate, catchUp, wasQuiet,
                   missed, skipped>>

-----------------------------------------------------------------------------
(* The watcher's goroutine.                                                *)

WatchUnchanged == UNCHANGED <<phase, ver, push, settle, store, batch,
                              authFailed, weather>>

\* handleEvent: the timer of an older push is stopped.
HandleEvent(f) ==
    /\ phase = "on" /\ f \in events \cap watched
    /\ events' = events \ {f}
    /\ \E s \in Smallest(FreeSeqs) :
          /\ pending' = [pending EXCEPT ![f] = s]
          /\ armed' = (armed \ {<<f, pending[f]>>}) \cup {<<f, s>>}
    /\ UNCHANGED <<watched, todo, emptied, missed, skipped>>
    /\ WatchUnchanged

\* The system's buffer overflows: events are gone, a rescan starts.
Overflow ==
    /\ phase = "on" /\ events # {}
    /\ events' = {}
    /\ todo' = watched
    /\ UNCHANGED <<watched, queue, emptied, missed, skipped>>
    /\ WatchUnchanged

\* Recreate, after errors in a row or from the supervisor: the events that
\* were not read go with the old watcher.
Recreate ==
    /\ phase = "on" /\ events # {}
    /\ events' = {}
    /\ missed' = missed \cup events
    /\ UNCHANGED <<watched, todo, queue, emptied, skipped>>
    /\ WatchUnchanged

\* RemoveStalePaths.
Unwatch(f) ==
    /\ phase = "on" /\ f \in watched
    /\ watched' = watched \ {f}
    /\ events' = events \ {f} /\ todo' = todo \ {f}
    /\ pending' = [pending EXCEPT ![f] = NoSeq]
    /\ armed' = armed \ {<<f, pending[f]>>}
    /\ emptied' = emptied \ {f}
    /\ missed' = missed \cup ({f} \cap Behind)
    /\ UNCHANGED skipped /\ WatchUnchanged

\* AddPaths: what was saved before is not looked at.
Watch(f) ==
    /\ phase = "on" /\ f \notin watched
    /\ watched' = watched \cup {f}
    /\ UNCHANGED <<events, todo, queue, emptied, missed, skipped>>
    /\ WatchUnchanged

\* RunResumeCatchUp.
CatchUp ==
    /\ phase = "on" /\ catchUp
    /\ catchUp' = FALSE
    /\ todo' = watched
    /\ UNCHANGED <<phase, ver, events, watched, queue, push, emptied, settle,
                   store, batch, authFailed, gate, wasQuiet, deferred, missed,
                   skipped>>

\* The ticker of the select loop.
QuietTick ==
    /\ phase = "on" /\ push[Main] = Idle /\ batch = {}
    /\ wasQuiet' = ("quiet" \in gate)
    /\ todo' = IF wasQuiet /\ "quiet" \notin gate THEN watched ELSE todo
    /\ UNCHANGED <<phase, ver, events, watched, queue, push, emptied, settle,
                   store, batch, authFailed, gate, catchUp, deferred, missed,
                   skipped>>

\* rescan: a file that has a timer is not queued again, even if the timer has
\* fired and its push has read, or dropped, an older content.
RescanFile(f) ==
    /\ phase = "on" /\ f \in todo
    /\ todo' = todo \ {f}
    /\ IF pending[f] = NoSeq
       THEN Stage(f) /\ UNCHANGED skipped
       ELSE /\ skipped' = IF Queued(f) \/ InPush(f) THEN skipped
                          ELSE skipped \cup ({f} \cap Behind)
            /\ UNCHANGED queue
    /\ UNCHANGED <<events, watched, emptied, missed>> /\ WatchUnchanged

-----------------------------------------------------------------------------
(* pushDebounced.                                                          *)

PushUnchanged == UNCHANGED <<phase, ver, events, watched, todo, authFailed,
                             weather, skipped>>

\* A debounce timer fires.
Fire(p, t) ==
    /\ phase # "off" /\ p \in Timers /\ push[p] = Idle /\ t \in armed
    /\ armed' = armed \ {t}
    /\ Goto(p, [pc |-> "start", file |-> t[1], seq |-> t[2]])
    /\ UNCHANGED <<pending, emptied, settle, store, batch, missed>>
    /\ PushUnchanged

\* IsPaused, then DeferPush, which queues the push again.
StartPush(p) ==
    LET f == push[p].file IN
    /\ push[p].pc = "start"
    /\ \/ gate # {} /\ Goto(p, [push[p] EXCEPT !.pc = "dropped"])
          /\ UNCHANGED queue
       \/ gate = {} /\ f \in deferred /\ Stage(f) /\ Goto(p, Idle)
       \/ gate = {} /\ f \notin deferred
          /\ Goto(p, [push[p] EXCEPT !.pc = "read"]) /\ UNCHANGED queue
    /\ UNCHANGED <<emptied, settle, store, batch, missed>> /\ PushUnchanged

\* Is somebody going to look for the edits dropped under a pause?
RescanDue(f) ==
    \/ gate # {} \/ catchUp \/ f \in todo
    \/ wasQuiet /\ "quiet" \notin gate

\* Variant with a bug: the entry is cleared whoever queued it.
CleanupAll(p) ==
    LET f == push[p].file IN
    /\ push[p].pc \in {"dropped", "done"}
    /\ pending' = [pending EXCEPT ![f] = NoSeq]
    /\ Goto(p, Idle)
    /\ UNCHANGED <<armed, emptied, settle, store, batch, missed>>
    /\ PushUnchanged

\* The deferred cleanup: an entry queued since stays.
Cleanup(p) ==
    LET f == push[p].file IN
    /\ push[p].pc \in {"dropped", "done"}
    /\ pending' = IF pending[f] = push[p].seq
                  THEN [pending EXCEPT ![f] = NoSeq] ELSE pending
    /\ Goto(p, Idle)
    /\ UNCHANGED <<armed, emptied, settle, store, batch, missed>>
    /\ PushUnchanged

Done(p) == Goto(p, [pc |-> "done", file |-> push[p].file, seq |-> push[p].seq])

\* The file is read.  The one-shot flag of an empty file is cleared.
ReadFile(p) ==
    LET f == push[p].file IN
    /\ push[p].pc = "read"
    /\ Goto(p, [pc |-> "settle", file |-> f, seq |-> push[p].seq,
                snap |-> ver[f]])
    /\ emptied' = emptied \ {f}
    /\ UNCHANGED <<queue, settle, store, batch, missed>> /\ PushUnchanged

\* Still locked after three attempts: the outbox reads it later.
ReadLocked(p) ==
    /\ push[p].pc = "read"
    /\ Enqueue(push[p].file)
    /\ Done(p)
    /\ UNCHANGED <<queue, emptied, settle, cached, handled, batch, missed>>
    /\ PushUnchanged

\* Not readable, or gone: a warning in the log.  Too large: an error the user
\* sees.
ReadFails(p) ==
    LET f == push[p].file IN
    /\ push[p].pc = "read"
    /\ Done(p)
    /\ \/ missed' = missed \cup {f} /\ UNCHANGED handled
       \/ Settled(f, ver[f]) /\ UNCHANGED missed
    /\ UNCHANGED <<queue, emptied, settle, outbox, cached, batch>>
    /\ PushUnchanged

\* Empty: one more look after a debounce interval, then there is no save.
ReadEmpty(p) ==
    LET f == push[p].file IN
    /\ push[p].pc = "read"
    /\ IF f \in emptied
       THEN /\ emptied' = emptied \ {f} /\ Settled(f, ver[f])
            /\ Done(p) /\ UNCHANGED queue
       ELSE /\ emptied' = emptied \cup {f} /\ Stage(f)
            /\ Goto(p, Idle) /\ UNCHANGED handled
    /\ UNCHANGED <<settle, outbox, cached, batch, missed>> /\ PushUnchanged

\* The write-stability gate.
Settle(p) ==
    LET f == push[p].file IN
    /\ push[p].pc = "settle"
    /\ IF ver[f] # push[p].snap /\ settle[f] < MaxSettle
       THEN /\ settle' = [settle EXCEPT ![f] = @ + 1]
            /\ Stage(f) /\ Goto(p, Idle)
       ELSE /\ settle' = [settle EXCEPT ![f] = 0]
            /\ Goto(p, [push[p] EXCEPT !.pc = "send"]) /\ UNCHANGED queue
    /\ UNCHANGED <<emptied, store, batch, missed>> /\ PushUnchanged

\* Client.Push succeeds, at any attempt; a content stored already is skipped.
SendStored(p) ==
    /\ push[p].pc = "send"
    /\ cached' = [cached EXCEPT ![push[p].file] = push[p].snap]
    /\ Settled(push[p].file, push[p].snap)
    /\ Done(p)
    /\ UNCHANGED <<queue, emptied, settle, outbox, batch, missed>>
    /\ PushUnchanged

\* 409, 413 and the like.
SendRefused(p) ==
    /\ push[p].pc = "send" /\ push[p].snap # cached[push[p].file]
    /\ Settled(push[p].file, push[p].snap)
    /\ Done(p)
    /\ UNCHANGED <<queue, emptied, settle, outbox, cached, batch, missed>>
    /\ PushUnchanged

\* The client shuts down: the context of the push is cancelled, an error that
\* is not retried.
SendCancelled(p) ==
    /\ push[p].pc = "send" /\ push[p].snap # cached[push[p].file]
    /\ phase # "on" /\ p \in Timers
    /\ Done(p)
    /\ UNCHANGED <<queue, emptied, settle, store, batch, missed>>
    /\ PushUnchanged

\* Every attempt failed for a reason that may pass.
SendFails(p) ==
    /\ push[p].pc = "send" /\ push[p].snap # cached[push[p].file]
    /\ Enqueue(push[p].file)
    /\ Done(p)
    /\ UNCHANGED <<queue, emptied, settle, cached, handled, batch, missed>>
    /\ PushUnchanged

PushStep(p) ==
    \/ StartPush(p)
    \/ ReadFile(p)
    \/ Settle(p)
    \/ SendStored(p)
    \/ Cleanup(p)

PushTrouble(p) ==
    \/ ReadLocked(p)
    \/ ReadFails(p)
    \/ ReadEmpty(p)
    \/ SendRefused(p)
    \/ SendCancelled(p)
    \/ SendFails(p)

-----------------------------------------------------------------------------
(* ProcessOutbox, in the select loop.                                      *)

OutboxUnchanged ==
    UNCHANGED <<phase, ver, events, watched, todo, queue, emptied, settle,
                weather, skipped>>

Entries == {e \in Files \X Names : e[2] \in outbox[e[1]]}

\* The entries that are due; one older than a week is removed.  Neither a
\* pause nor a running game holds a retry back.
OutboxBegin ==
    /\ phase \in {"on", "draining"} /\ push[Main] = Idle /\ batch = {}
    /\ ~authFailed
    /\ \E old \in {{}} \cup {{e} : e \in Entries} :
          /\ outbox' = [f \in Files |-> {n \in outbox[f] : <<f, n>> \notin old}]
          /\ missed' = missed \cup {e[1] : e \in old}
          /\ batch' \in SUBSET (Entries \ old)
          /\ batch' # {} \/ old # {}
    /\ UNCHANGED <<push, cached, handled, authFailed>> /\ OutboxUnchanged

\* loadOutboxContent: the file as it is now, unless it is being written.
OutboxLoad(e) ==
    /\ phase # "flushing" /\ push[Main] = Idle /\ e \in batch
    /\ batch' = batch \ {e}
    /\ \/ Goto(Main, [pc |-> "retry", file |-> e[1], name |-> e[2],
                      snap |-> ver[e[1]]])
       \/ UNCHANGED push
    /\ UNCHANGED <<store, authFailed, missed>> /\ OutboxUnchanged

RemoveEntry ==
    LET retry == push[Main] IN
    outbox' = [outbox EXCEPT ![retry.file] = @ \ {retry.name}]

OutboxStored ==
    LET retry == push[Main] IN
    /\ retry.pc = "retry"
    /\ cached' = [cached EXCEPT ![retry.file] = retry.snap]
    /\ Settled(retry.file, retry.snap)
    /\ RemoveEntry /\ Goto(Main, Idle)
    /\ UNCHANGED <<batch, authFailed, missed>> /\ OutboxUnchanged

OutboxRefused ==
    LET retry == push[Main] IN
    /\ retry.pc = "retry" /\ retry.snap # cached[retry.file]
    /\ Settled(retry.file, retry.snap)
    /\ RemoveEntry /\ Goto(Main, Idle)
    /\ UNCHANGED <<cached, batch, authFailed, missed>> /\ OutboxUnchanged

\* The client shuts down: the cancelled context is an error that is not retried,
\* and the entry is removed.
OutboxCancelled ==
    /\ push[Main].pc = "retry" /\ phase = "stopping"
    /\ push[Main].snap # cached[push[Main].file]
    /\ RemoveEntry /\ Goto(Main, Idle)
    /\ UNCHANGED <<cached, handled, batch, authFailed, missed>>
    /\ OutboxUnchanged

\* 401: the batch is left, until a pull has succeeded.
OutboxUnauthorized ==
    /\ push[Main].pc = "retry"
    /\ push[Main].snap # cached[push[Main].file]
    /\ authFailed' = TRUE
    /\ batch' = {} /\ Goto(Main, Idle)
    /\ UNCHANGED <<store, missed>> /\ OutboxUnchanged

\* The entry is written again with a later time, even if it is gone by now.
OutboxFails ==
    LET retry == push[Main] IN
    /\ retry.pc = "retry" /\ retry.snap # cached[retry.file]
    /\ outbox' = [outbox EXCEPT ![retry.file] = @ \cup {retry.name}]
    /\ Goto(Main, Idle)
    /\ UNCHANGED <<cached, handled, batch, authFailed, missed>>
    /\ OutboxUnchanged

\* ClearOutboxAuthFailed, after a pull.
AuthHealed ==
    /\ phase = "on" /\ authFailed /\ gate = {}
    /\ push[Main] = Idle /\ batch = {}
    /\ authFailed' = FALSE
    /\ UNCHANGED <<push, store, batch, missed>> /\ OutboxUnchanged

OutboxStep ==
    \/ OutboxBegin
    \/ \E e \in batch : OutboxLoad(e)
    \/ OutboxStored
    \/ AuthHealed

OutboxTrouble ==
    \/ OutboxRefused
    \/ OutboxCancelled
    \/ OutboxUnauthorized
    \/ OutboxFails

-----------------------------------------------------------------------------
(* The client stops and starts.                                            *)

StopUnchanged == UNCHANGED <<ver, events, watched, todo, settle, store,
                             authFailed, weather, missed, skipped>>

\* The context of RunSync is cancelled.
Stop ==
    /\ phase = "on"
    /\ phase' = "stopping"
    /\ UNCHANGED <<queue, push, emptied, batch>> /\ StopUnchanged

\* FlushPending: the maps are replaced, the timers in them stopped.
FlushBegin ==
    /\ phase = "stopping" /\ push[Main] = Idle /\ batch = {}
    /\ phase' = "flushing"
    /\ batch' = {<<f, pending[f]>> : f \in {g \in Files : pending[g] # NoSeq}}
    /\ armed' = armed \ batch'
    /\ pending' = [f \in Files |-> NoSeq]
    /\ emptied' = {}
    /\ UNCHANGED push /\ StopUnchanged

\* One queued push after the other, by the select loop itself.
FlushOne(t) ==
    /\ phase = "flushing" /\ push[Main] = Idle /\ t \in batch
    /\ batch' = batch \ {t}
    /\ Goto(Main, [pc |-> "start", file |-> t[1], seq |-> t[2]])
    /\ UNCHANGED <<phase, queue, emptied>> /\ StopUnchanged

FlushEnd ==
    /\ phase = "flushing" /\ push[Main] = Idle /\ batch = {}
    /\ phase' = "draining"
    /\ UNCHANGED <<queue, push, emptied, batch>> /\ StopUnchanged

\* The process is gone, and with it everything but the outbox and the cache.
Gone ==
    /\ phase' = "off"
    /\ pending' = [f \in Files |-> NoSeq] /\ armed' = {}
    /\ push' = [p \in Pushers |-> Idle] /\ batch' = {}
    /\ emptied' = {} /\ settle' = [f \in Files |-> 0]
    /\ UNCHANGED <<ver, events, watched, todo, store, authFailed, weather,
                   missed, skipped>>

Close == phase = "draining" /\ push[Main] = Idle /\ batch = {} /\ Gone
Crash == phase = "on" /\ Gone

\* A new process.  What the old one left behind is up to the reconciliation.
Start ==
    /\ phase = "off"
    /\ phase' = "on"
    /\ events' = {} /\ watched' = Files /\ todo' = {}
    /\ authFailed' = FALSE
    /\ gate' = gate \ {"paused"} \/ gate' = gate
    /\ catchUp' = FALSE
    /\ wasQuiet' = ("quiet" \in gate)
    /\ deferred' = {}
    /\ missed' = missed \cup Behind
    /\ UNCHANGED <<ver, queue, push, emptied, settle, store, batch, skipped>>

-----------------------------------------------------------------------------
WatcherStep ==
    \/ \E f \in Files : HandleEvent(f) \/ RescanFile(f) \/ Watch(f)
    \/ CatchUp
    \/ QuietTick

WatcherTrouble ==
    \/ \E f \in Files : Unwatch(f)
    \/ Overflow
    \/ Recreate

Shutdown ==
    \/ FlushBegin
    \/ \E t \in batch : FlushOne(t)
    \/ FlushEnd
    \/ Close
    \/ Start

Calm ==
    \/ \E f \in Files : GameSaves(f) \/ Undefer(f)
    \/ \E g \in Gates : Releases(g)
    \/ WatcherStep
    \/ \E p \in Timers, t \in armed : Fire(p, t)
    \/ \E p \in Pushers : PushStep(p)
    \/ OutboxStep
    \/ Shutdown

Disturbed ==
    \/ \E g \in Gates : Holds(g)
    \/ \E f \in Files : Defer(f)
    \/ WatcherTrouble
    \/ \E p \in Pushers : PushTrouble(p)
    \/ OutboxTrouble
    \/ Stop
    \/ Crash

Next ==
    \/ Calm /\ UNCHANGED troubles
    \/ Disturbed /\ troubles > 0 /\ troubles' = troubles - 1

Spec == Init /\ [][Next]_vars

\* The watcher's goroutine, the timers and the select loop keep running; an
\* upload that is sent is answered, or fails, in the end.
Fairness ==
    /\ WF_vars(WatcherStep /\ UNCHANGED troubles)
    /\ WF_vars(\E p \in Timers, t \in armed :
                 Fire(p, t) /\ UNCHANGED troubles)
    /\ \A p \in Pushers : WF_vars(PushStep(p) /\ UNCHANGED troubles)

FairSpec == Spec /\ Fairness

-----------------------------------------------------------------------------
(* Safety.                                                                 *)

\* Does a step to come deal with the newest content of the file?  An event of
\* it is waiting; a queued push is visible to a flush and about to fire; a
\* running push has that content; the outbox has an entry; a rescan is due.
InSight(f) ==
    \/ f \in events
    \/ InQueue(f)
    \/ InPush(f)
    \/ outbox[f] # {}
    \/ RescanDue(f)

\* No edit gets out of sight before it is stored, or refused with an error.
\* What the queue never hears of is in "missed": the end of a metered
\* connection, events lost with a recreated watcher, a directory not watched
\* for a time, a file that cannot be read, an outbox entry that expired.
\* (stagePendingLocked, pushDebounced, rescan, outbox.go.)
NoEditOutOfSight ==
    phase = "on" => \A f \in Behind \ (missed \cup skipped) : InSight(f)

-----------------------------------------------------------------------------
(* Liveness.                                                               *)

\* An edit that the queue knows of leaves it: stored, refused, or in the
\* outbox, unless sync is held back or the client stops.  Timers that replace
\* each other, deferred and re-checked pushes never leave it waiting for good.
EditsLeaveTheQueue ==
    \A f \in Files :
        phase = "on" /\ f \in Behind \ (missed \cup skipped) ~>
            \/ f \notin Behind \/ f \in missed \cup skipped
            \/ outbox[f] # {}
            \/ phase # "on" \/ gate # {} \/ f \in deferred

=============================================================================
