------------------------------ MODULE TrayState ------------------------------
(***************************************************************************)
(* What the tray of a device shows (client/tray_state.go): a state that the     *)
(* pull, the watcher, the outbox and the user's choices update from goroutines  *)
(* of their own (client/tray_hooks.go, tray_actions.go, run_sync.go), each with *)
(* a notification afterwards, and the menu, which is redrawn half a second       *)
(* after the last of them, or every minute (client/tray_menu.go).              *)
(*                                                                         *)
(* The conflict records are a file that DeviceSync writes; the state counts      *)
(* them and marks the games they belong to.  Titles, times and the wording of    *)
(* the menu are left out.                                                    *)
(***************************************************************************)
EXTENDS Naturals, FiniteSets

CONSTANTS
  Games,       \* games, of one slot each
  Updaters,    \* goroutines that can update the tray at a time
  MaxUpdates   \* bound: updates that begin

ASSUME TrayBounds == IsFiniteSet(Games) /\ MaxUpdates \in Nat

VARIABLES
  recorded,    \* games with a conflict record
  row,         \* the games' rows
  count,       \* conflictCount
  status,      \* the status of the whole
  halted,      \* paused, as the tray has been told
  failed,      \* lastSyncErr is set
  updater,     \* the goroutines: a step, the game it is about, the list it read
  subscribed,  \* the menu has its channel
  token,       \* the channel of one place
  debounce,    \* the timer of half a second runs
  shown,       \* what the menu was drawn from
  unheard,     \* history: a change of the state since, that nobody announced to the menu
  stale,       \* history: games whose row was set by a list that was no longer true
  updates      \* bookkeeping of the bound MaxUpdates

trayVars == <<recorded, row, count, status, halted, failed, updater, subscribed, token,
              debounce, shown, unheard, stale, updates>>

Resting == [at |-> "rest", game |-> {}, list |-> {}, tells |-> FALSE]

\* What GetTraySnapshot gives the menu.
TraySnapshot == [row |-> row, count |-> count, status |-> status]

\* Mutant: rows are marked, and never cleared.
RowsMarked(list) == [g \in Games |-> IF row[g] # "none" /\ g \in list THEN "conflict" ELSE row[g]]

\* refreshTrayCounts, for the records it has listed.
RowsOf(list) == [g \in Games |-> IF row[g] = "none" THEN "none"
                                 ELSE IF g \in list THEN "conflict"
                                 ELSE IF row[g] = "conflict" THEN "ok" ELSE row[g]]

\* The rows of the last run are read from disk and set right, and the menu is
\* drawn before anything else runs.
TrayInit ==
  /\ recorded \in SUBSET Games /\ count = Cardinality(recorded)
  /\ row \in {[g \in Games |-> IF g \notin known THEN "none"
                               ELSE IF g \in recorded THEN "conflict" ELSE "ok"] :
                known \in SUBSET Games}
  /\ halted \in BOOLEAN /\ failed = FALSE
  /\ status \in IF halted THEN {"paused"} ELSE {"setup", "idle"}
  /\ updater = [w \in Updaters |-> Resting]
  /\ subscribed = FALSE /\ token = FALSE /\ debounce = FALSE
  /\ shown = TraySnapshot /\ unheard = FALSE /\ stale = {} /\ updates = 0

Begins(w, at, game) ==
  /\ updater[w].at = "rest" /\ updates < MaxUpdates /\ updates' = updates + 1
  /\ updater' = [updater EXCEPT ![w] = [Resting EXCEPT !.at = at, !.game = game, !.tells = TRUE]]

Steps(w, at) == updater' = [updater EXCEPT ![w].at = at]

---------------------------------------------------------------------------
(* Conflicts. *)

\* RecordConflict, then OnConflictDetected ...
ConflictDetected(w, g) ==
  /\ Begins(w, "mark", {g}) /\ recorded' = recorded \cup {g}
  /\ UNCHANGED <<row, count, status, halted, failed, subscribed, token, debounce, shown, unheard, stale>>

\* ... which calls RecordGameConflict.
RecordGameConflict(w) ==
  /\ updater[w].at = "mark" /\ Steps(w, "notify")
  /\ row' = [g \in Games |-> IF g \in updater[w].game THEN "conflict" ELSE row[g]]
  /\ count' = Cardinality(recorded)
  /\ stale' = (stale \ updater[w].game) \cup (updater[w].game \ recorded)
  /\ UNCHANGED <<recorded, status, halted, failed, subscribed, token, debounce, shown, unheard, updates>>

\* ResolveConflict has pushed or pulled, and clears the record ...
ConflictResolved(w, g) ==
  /\ g \in recorded /\ Begins(w, "clear", {g}) /\ recorded' = recorded \ {g}
  /\ UNCHANGED <<row, count, status, halted, failed, subscribed, token, debounce, shown, unheard, stale>>

\* ... ClearGameConflict changes the row and notifies, and refreshTrayCounts
\* follows, which does not.
ClearGameConflict(w) ==
  /\ updater[w].at = "clear" /\ Steps(w, "notify and list")
  /\ row' = [g \in Games |-> IF g \in updater[w].game /\ row[g] = "conflict" THEN "ok" ELSE row[g]]
  /\ count' = Cardinality(recorded)
  /\ UNCHANGED <<recorded, status, halted, failed, subscribed, token, debounce, shown, unheard, stale, updates>>

---------------------------------------------------------------------------
(* Saves, uploads and syncs. *)

\* RecordSaveEvent: the row first, whatever it was.
RecordSaveEvent(w, g) ==
  /\ Begins(w, "list", {g})
  /\ \E to \in {"ok", "error"} : row' = [row EXCEPT ![g] = to]
  /\ UNCHANGED <<recorded, count, status, halted, failed, subscribed, token, debounce, shown, unheard, stale>>

\* refreshTrayCounts lists the records without the lock ...
ListsConflicts(w) ==
  /\ updater[w].at = "list"
  /\ updater' = [updater EXCEPT ![w].at = "refresh", ![w].list = recorded]
  /\ UNCHANGED <<recorded, row, count, status, halted, failed, subscribed, token, debounce, shown, unheard,
                 stale, updates>>

\* ... and writes with it.
RefreshesCounts(w) ==
  LET list == updater[w].list
  IN /\ updater[w].at = "refresh"
     /\ row' = RowsOf(list) /\ count' = Cardinality(list)
     /\ stale' = (list \ recorded) \cup (recorded \ list)
     /\ IF updater[w].tells THEN Steps(w, "notify") /\ UNCHANGED unheard
        ELSE /\ updater' = [updater EXCEPT ![w] = Resting]
             /\ unheard' = (unheard \/ row' # row \/ count' # count)
     /\ UNCHANGED <<recorded, status, halted, failed, subscribed, token, debounce, shown, updates>>

RecordPendingUpload(w, g) ==
  /\ Begins(w, "notify", {g}) /\ row' = [row EXCEPT ![g] = "pending"]
  /\ UNCHANGED <<recorded, count, status, halted, failed, subscribed, token, debounce, shown, unheard, stale>>

\* UpdateFromSyncStart, and the progress of the sync.
SyncStarts(w) ==
  /\ Begins(w, "notify", {}) /\ status' = "syncing"
  /\ UNCHANGED <<recorded, row, count, halted, failed, subscribed, token, debounce, shown, unheard, stale>>

\* UpdateFromSyncEnd.
SyncEnds(w) ==
  /\ status = "syncing" /\ Begins(w, "notify", {})
  /\ failed' \in BOOLEAN
  /\ status' = IF failed' THEN "error" ELSE IF halted THEN "paused" ELSE "idle"
  /\ count' = Cardinality(recorded)
  /\ UNCHANGED <<recorded, row, halted, subscribed, token, debounce, shown, unheard, stale>>

\* UpdateTrayPaused.
TrayPaused(w) ==
  /\ Begins(w, "notify", {})
  /\ halted' \in BOOLEAN
  /\ status' = IF halted' THEN IF status = "syncing" THEN "syncing" ELSE "paused"
               ELSE IF status # "paused" THEN status ELSE IF failed THEN "error" ELSE "idle"
  /\ UNCHANGED <<recorded, row, count, failed, subscribed, token, debounce, shown, unheard, stale>>

\* UpdateTraySetup, once the device is signed in.
SetupIsOver(w) ==
  /\ Begins(w, "notify", {})
  /\ status' = IF status = "setup" THEN "idle" ELSE status
  /\ UNCHANGED <<recorded, row, count, halted, failed, subscribed, token, debounce, shown, unheard, stale>>

---------------------------------------------------------------------------
(* Notifications and the menu. *)

\* notifyTrayState: a token for every subscriber whose channel is empty.
Notifies(w) ==
  /\ updater[w].at \in {"notify", "notify and list"}
  /\ token' = (token \/ subscribed) /\ unheard' = (unheard \/ ~subscribed)
  /\ updater' = IF updater[w].at = "notify" THEN [updater EXCEPT ![w] = Resting]
                ELSE [updater EXCEPT ![w].at = "list", ![w].tells = FALSE]
  /\ UNCHANGED <<recorded, row, count, status, halted, failed, subscribed, debounce, shown, stale, updates>>

\* startRefreshLoop, after the sync loop was started.
Subscribes ==
  /\ ~subscribed /\ subscribed' = TRUE
  /\ UNCHANGED <<recorded, row, count, status, halted, failed, updater, token, debounce, shown, unheard,
                 stale, updates>>

\* Every token starts the half second anew.
TokenTaken ==
  /\ token /\ token' = FALSE /\ debounce' = TRUE
  /\ UNCHANGED <<recorded, row, count, status, halted, failed, updater, subscribed, shown, unheard, stale, updates>>

\* refreshFromSnapshot, when it is over ...
MenuRedrawn ==
  /\ debounce /\ debounce' = FALSE /\ shown' = TraySnapshot /\ unheard' = FALSE
  /\ UNCHANGED <<recorded, row, count, status, halted, failed, updater, subscribed, token, stale, updates>>

\* ... and every minute.
MenuTicks ==
  /\ subscribed /\ shown # TraySnapshot /\ shown' = TraySnapshot /\ unheard' = FALSE
  /\ UNCHANGED <<recorded, row, count, status, halted, failed, updater, subscribed, token, debounce, stale, updates>>

TrayNext ==
  \/ \E w \in Updaters :
       \/ \E g \in Games : \/ ConflictDetected(w, g) \/ ConflictResolved(w, g)
                           \/ RecordSaveEvent(w, g) \/ RecordPendingUpload(w, g)
       \/ RecordGameConflict(w) \/ ClearGameConflict(w)
       \/ ListsConflicts(w) \/ RefreshesCounts(w)
       \/ SyncStarts(w) \/ SyncEnds(w) \/ TrayPaused(w) \/ SetupIsOver(w)
       \/ Notifies(w)
  \/ Subscribes \/ TokenTaken \/ MenuRedrawn \/ MenuTicks

TraySpec == TrayInit /\ [][TrayNext]_trayVars

---------------------------------------------------------------------------
(* Properties. *)

TrayRows == [Games -> {"none", "ok", "conflict", "pending", "error"}]
Statuses == {"setup", "idle", "syncing", "paused", "error"}

TrayTypeOK ==
  /\ recorded \subseteq Games /\ stale \subseteq Games
  /\ row \in TrayRows /\ count \in Nat /\ status \in Statuses
  /\ halted \in BOOLEAN /\ failed \in BOOLEAN /\ subscribed \in BOOLEAN
  /\ token \in BOOLEAN /\ debounce \in BOOLEAN /\ unheard \in BOOLEAN
  /\ shown \in [row : TrayRows, count : Nat, status : Statuses]
  /\ updater \in [Updaters -> [at : {"rest", "mark", "clear", "list", "refresh", "notify", "notify and list"},
                               game : SUBSET Games, list : SUBSET Games, tells : BOOLEAN]]
  /\ updates \in 0 .. MaxUpdates

\* Goroutines that have yet to set the counts and rows, and those that have
\* yet to announce a change.
Counting == {w \in Updaters : updater[w].at \in {"mark", "clear", "notify and list", "list", "refresh"}}
Announcing ==
  {w \in Updaters : \/ updater[w].at \in {"notify", "notify and list"}
                    \/ (updater[w].at \in {"list", "refresh"} /\ updater[w].tells)}

\* The menu tells of every conflict there is and of none that is settled, and
\* of what the last sync came to: however the updates of several goroutines
\* interleave, a menu that shows something else than the state has a redrawing
\* on its way, and the state counts the recorded conflicts and marks their games
\* - unless somebody is about to, a change went unannounced, as that of
\* refreshTrayCounts after ClearGameConflict, or a list was written after a
\* conflict had been recorded or settled (tray_state.go:244-274).
MenuTellsOfConflicts ==
  /\ shown = TraySnapshot \/ unheard \/ token \/ debounce \/ Announcing # {}
  /\ stale = {} /\ Counting = {} =>
       /\ count = Cardinality(recorded)
       /\ \A g \in Games : row[g] = "conflict" => g \in recorded
       /\ \A g \in recorded : row[g] \in {"none", "conflict", "pending"}
  /\ status = "idle" => ~halted /\ ~failed
  /\ status = "paused" => halted
=============================================================================
