---------------------------- MODULE ClientControl ----------------------------
(***************************************************************************)
(* Who may sync, on a device: the pause item and the snooze of the tray menu   *)
(* (client/tray_menu.go), the flag SyncPaused that the pull and the watcher     *)
(* obey, its copy in the config file, and the sync loops, each of which takes   *)
(* the flag of the config it was started with (client/run_sync.go) and is       *)
(* replaced by the next when settings change (client/tray_common.go).          *)
(*                                                                         *)
(* Uploads are dropped while sync is paused, so whoever lifts a pause looks      *)
(* for the edits made meanwhile.  Quiet hours, metered connections and what a    *)
(* rescan does with a file are the business of UploadQueue.                     *)
(***************************************************************************)
EXTENDS Naturals, FiniteSets

CONSTANTS
  MaxLoops,    \* bound: sync loops ever asked for
  MaxClicks,   \* bound: clicks on the pause and snooze items
  MaxEdits,    \* bound: edits of a save
  MaxSetbacks  \* bound: restarts, slow shutdowns and failed fetches

ASSUME ControlBounds == MaxLoops \in Nat \ {0} /\ {MaxClicks, MaxEdits, MaxSetbacks} \subseteq Nat

VARIABLES
  paused,    \* SyncPaused
  saved,     \* sync_paused of the config file
  snooze,    \* the snooze timer: "none", "armed", or a step of its function
  click,     \* the handler of the pause item: a step, and the flag it sets
  form,      \* a settings form that is being saved: a step, and the flag it read
  loop,      \* the sync loops: how far each is, and the flag of its config
  hook,      \* the loop that resumeCatchUpHook belongs to, 0 while it is nil
  behind,    \* an edit was made that no push followed
  search,    \* loops that are looking for such edits: their rescan or reconciliation
  slips,     \* history: what the code knows to fail: "overrun", "skipped"
  used       \* bookkeeping of the bounds

menuVars == <<snooze, click, form>>
controlVars == <<paused, saved, snooze, click, form, loop, hook, behind, search, slips, used>>

LoopIds == 1 .. MaxLoops
NoLoop == [at |-> "none", flag |-> FALSE]
NoClick == [at |-> "none", flag |-> FALSE]

ControlInit ==
  /\ paused = FALSE /\ saved \in BOOLEAN
  /\ snooze = "none" /\ click = NoClick /\ form = NoClick
  /\ loop = [n \in LoopIds |-> IF n = 1 THEN [at |-> "asked", flag |-> saved] ELSE NoLoop]
  /\ hook = 0 /\ behind = FALSE /\ search = {} /\ slips = {}
  /\ used = [clicks |-> 0, edits |-> 0, setbacks |-> 0]

Uses(what, most) == used[what] < most /\ used' = [used EXCEPT ![what] = @ + 1]

LoopGoes(n, at) == loop' = [loop EXCEPT ![n].at = at]

\* A loop whose watcher runs and obeys no pause.
Watching == ~paused /\ \E n \in LoopIds : loop[n].at \in {"hooked", "on"}

---------------------------------------------------------------------------
(* The pause item. *)

\* The handler reads the flag and stops the snooze timer, which does not stop
\* a function that has begun.
PauseClicked ==
  /\ click.at = "none" /\ Uses("clicks", MaxClicks)
  /\ click' = [at |-> "file", flag |-> ~paused]
  /\ paused' = ~paused
  /\ snooze' = IF snooze = "armed" THEN "none" ELSE snooze
  /\ UNCHANGED <<saved, form, loop, hook, behind, search, slips>>

\* updateConfig, which may fail; the menu; and the search when a pause was lifted.
PauseSaved ==
  /\ click.at = "file"
  /\ saved' \in {click.flag, saved}
  /\ click' = IF click.flag THEN NoClick ELSE [click EXCEPT !.at = "search"]
  /\ UNCHANGED <<paused, snooze, form, loop, hook, behind, search, slips, used>>

\* RunResumeCatchUp: the hook of the loop whose it is, or only a pull.
Searches == search' = IF hook # 0 THEN search \cup {hook} ELSE search

PauseSearches ==
  /\ click.at = "search" /\ Searches
  /\ click' = NoClick
  /\ UNCHANGED <<paused, saved, snooze, form, loop, hook, behind, slips, used>>

---------------------------------------------------------------------------
(* The snooze. *)

StartSnooze ==
  /\ snooze \in {"none", "armed"} /\ Uses("clicks", MaxClicks)
  /\ paused' = TRUE /\ snooze' = "armed"
  /\ UNCHANGED <<saved, click, form, loop, hook, behind, search, slips>>

\* The timer fires; its function lifts the pause, changes the menu and searches.
SnoozeEnds ==
  \/ /\ snooze = "armed" /\ snooze' = "fired"
     /\ UNCHANGED <<paused, saved, click, form, loop, hook, behind, search, slips, used>>
  \/ /\ snooze = "fired" /\ snooze' = "search" /\ paused' = FALSE
     /\ UNCHANGED <<saved, click, form, loop, hook, behind, search, slips, used>>
  \/ /\ snooze = "search" /\ snooze' = "none" /\ Searches
     /\ UNCHANGED <<paused, saved, click, form, loop, hook, behind, slips, used>>

---------------------------------------------------------------------------
(* Settings. *)

\* handleSettingsSave: the live flag goes into the file with the rest ...
SettingsRead ==
  /\ form.at = "none" /\ form' = [at |-> "write", flag |-> paused]
  /\ \E n \in LoopIds : loop[n].at = "none"
  /\ UNCHANGED <<paused, saved, snooze, click, loop, hook, behind, search, slips, used>>

\* restartSync, called for the next loop.
LoopAsked(flag) ==
  \E n \in LoopIds :
    /\ loop[n].at = "none" /\ \A m \in 1 .. n - 1 : loop[m].at # "none"
    /\ loop' = [loop EXCEPT ![n] = [at |-> "asked", flag |-> flag]]

\* ... and the loop is replaced, unless the file could not be written.
SettingsSaved ==
  /\ form.at = "write" /\ form' = NoClick
  /\ \/ saved' = form.flag /\ LoopAsked(form.flag)
     \/ UNCHANGED <<saved, loop>>
  /\ UNCHANGED <<paused, snooze, click, hook, behind, search, slips, used>>

\* reloadConfig after a login, and the other restarts: with the file's flag.
ReloadConfig ==
  /\ LoopAsked(saved)
  /\ UNCHANGED <<paused, saved, snooze, click, form, hook, behind, search, slips, used>>

---------------------------------------------------------------------------
(* The loops. *)

Running(n) == loop[n].at \in {"due", "begun", "hooked", "on"}

\* restartSync has the mutex: it cancels the loop before it, whichever of the
\* callers comes first.
MutexTaken(n) ==
  /\ loop[n].at = "asked" /\ \A m \in LoopIds : loop[m].at # "draining"
  /\ loop' = [m \in LoopIds |->
                IF m = n THEN [loop[m] EXCEPT !.at = "draining"]
                ELSE IF Running(m) THEN [loop[m] EXCEPT !.at = "stopping"] ELSE loop[m]]
  /\ UNCHANGED <<paused, saved, snooze, click, form, hook, behind, search, slips, used>>

\* Mutant: it does not wait for that loop.
NextLoopAtOnce(n) ==
  /\ loop[n].at = "draining" /\ LoopGoes(n, "due")
  /\ UNCHANGED <<paused, saved, snooze, click, form, hook, behind, search, slips, used>>

\* The loop before it is over ...
NextLoop(n) ==
  /\ loop[n].at = "draining" /\ \A m \in LoopIds : loop[m].at # "stopping"
  /\ LoopGoes(n, "due")
  /\ UNCHANGED <<paused, saved, snooze, click, form, hook, behind, search, slips, used>>

\* ... or has not ended within 12 seconds.
NextLoopAnyway(n) ==
  /\ loop[n].at = "draining" /\ \E m \in LoopIds : loop[m].at = "stopping"
  /\ Uses("setbacks", MaxSetbacks)
  /\ LoopGoes(n, "due") /\ slips' = slips \cup {"overrun"}
  /\ UNCHANGED <<paused, saved, snooze, click, form, hook, behind, search>>

\* runSync takes the flag of its config ...
LoopBegins(n) ==
  /\ loop[n].at = "due" /\ LoopGoes(n, "begun")
  /\ paused' = loop[n].flag
  /\ UNCHANGED <<saved, snooze, click, form, hook, behind, search, slips, used>>

\* ... gets its watcher going, and offers the rescan to whoever resumes ...
SetsHook(n) ==
  /\ loop[n].at = "begun" /\ LoopGoes(n, "hooked") /\ hook' = n
  /\ UNCHANGED <<paused, saved, snooze, click, form, behind, search, slips, used>>

\* ... and only then looks whether it is to reconcile.
MayReconcile(n) ==
  /\ loop[n].at = "hooked" /\ LoopGoes(n, "on")
  /\ search' = IF paused THEN search ELSE search \cup {n}
  /\ UNCHANGED <<paused, saved, snooze, click, form, hook, behind, slips, used>>

\* A cancelled loop flushes and returns, and takes the hook away, whose ever it is.
LoopEnds(n) ==
  /\ loop[n].at = "stopping" /\ LoopGoes(n, "over") /\ hook' = 0
  /\ search' = search \ {n}
  /\ UNCHANGED <<paused, saved, snooze, click, form, behind, slips, used>>

\* The search of a loop uploads what it finds, unless sync is paused again or
\* the loop is being stopped.
SearchEnds(n) ==
  /\ n \in search /\ search' = search \ {n}
  /\ LET uploads == ~paused /\ loop[n].at \in {"hooked", "on"}
     IN /\ behind' = (behind /\ ~uploads)
        /\ slips' = IF uploads THEN slips \ {"skipped"} ELSE slips
  /\ UNCHANGED <<paused, saved, snooze, click, form, loop, hook, used>>

\* The reconciliation does not get the server's hashes, and is left for the
\* next start.
SearchFails(n) ==
  /\ n \in search /\ search' = search \ {n} /\ Uses("setbacks", MaxSetbacks)
  /\ slips' = slips \cup {"skipped"}
  /\ UNCHANGED <<paused, saved, snooze, click, form, loop, hook, behind>>

---------------------------------------------------------------------------

\* A game saves.  The push of a running watcher is followed by UploadQueue.
GameEdits ==
  /\ Uses("edits", MaxEdits) /\ behind' = (behind \/ ~Watching)
  /\ UNCHANGED <<paused, saved, snooze, click, form, loop, hook, search, slips>>

\* The client is started again: it asks for a loop with the flag of the file.
ClientRestarts ==
  /\ Uses("setbacks", MaxSetbacks)
  /\ \E n \in LoopIds :
       /\ loop[n].at = "none" /\ \A m \in 1 .. n - 1 : loop[m].at # "none"
       /\ loop' = [m \in LoopIds |-> IF m < n THEN [loop[m] EXCEPT !.at = "over"]
                     ELSE IF m = n THEN [at |-> "asked", flag |-> saved] ELSE NoLoop]
  /\ paused' = FALSE /\ snooze' = "none" /\ click' = NoClick /\ form' = NoClick
  /\ hook' = 0 /\ search' = {} /\ slips' = {}
  /\ UNCHANGED <<saved, behind>>

ControlNext ==
  \/ PauseClicked \/ PauseSaved \/ PauseSearches
  \/ StartSnooze \/ SnoozeEnds
  \/ SettingsRead \/ SettingsSaved \/ ReloadConfig
  \/ \E n \in LoopIds :
       \/ MutexTaken(n) \/ NextLoop(n) \/ NextLoopAnyway(n) \/ LoopBegins(n)
       \/ SetsHook(n) \/ MayReconcile(n) \/ LoopEnds(n) \/ SearchEnds(n) \/ SearchFails(n)
  \/ GameEdits \/ ClientRestarts

ControlSpec == ControlInit /\ [][ControlNext]_controlVars

---------------------------------------------------------------------------
(* Properties. *)

ControlTypeOK ==
  /\ paused \in BOOLEAN /\ saved \in BOOLEAN /\ behind \in BOOLEAN
  /\ snooze \in {"none", "armed", "fired", "search"}
  /\ click \in [at : {"none", "file", "search"}, flag : BOOLEAN]
  /\ form \in [at : {"none", "write"}, flag : BOOLEAN]
  /\ loop \in [LoopIds -> [at : {"none", "asked", "draining", "due", "begun", "hooked",
                                "on", "stopping", "over"}, flag : BOOLEAN]]
  /\ hook \in 0 .. MaxLoops /\ search \subseteq LoopIds /\ slips \subseteq {"overrun", "skipped"}
  /\ used \in [clicks : 0 .. MaxClicks, edits : 0 .. MaxEdits, setbacks : 0 .. MaxSetbacks]

\* Edits made while sync was paused, or while no loop watched, are looked for:
\* whoever lifts the pause - the item, the end of a snooze, a loop that begins
\* with another flag -, and at whatever moment of a restart of the loop, a loop
\* that syncs has nothing behind it that no search is under way for
\* (watcher.go:551-553 "resuming without a rescan would silently lose the
\* changes made meanwhile").  Not so after a loop that did not stop in time, or
\* a reconciliation that did not get the server's hashes.
ResumeCatchesUp ==
  \A n \in LoopIds :
    loop[n].at = "on" /\ ~paused /\ behind /\ slips = {}
      => search # {} \/ click.at # "none" \/ snooze = "search"
=============================================================================
