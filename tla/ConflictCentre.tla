--------------------------- MODULE ConflictCentre ---------------------------
(***************************************************************************)
(* What the server keeps of a refused push: the conflicts table             *)
(* (server/store/conflicts.go) as the push handler fills and closes it      *)
(* (server/api/handler.go, server/api/conflicts.go) and the user closes it   *)
(* (server/webui/handlers_conflicts.go), and the notices that go with it:    *)
(* the queue of the sinks (server/notify) and the inbox (store/inbox.go).    *)
(*                                                                         *)
(* One user and one slot, which several devices push to.  Recording a       *)
(* conflict is a SELECT and then an UPDATE or an INSERT, in a request of     *)
(* its own: others act in between.                                          *)
(***************************************************************************)
EXTENDS Naturals, FiniteSets, Sequences

CONSTANTS
  Pushing,     \* the devices that push to the slot
  Pushes,      \* pushes handled at once, several of one device included
  QueueCap,    \* places in the notifier's queue (64)
  InboxCap,    \* items a user's inbox keeps (100)
  MaxStores,   \* bound: pushes the slot accepts
  MaxRefusals  \* bound: pushes it refuses

ASSUME CentreBounds == QueueCap \in Nat \ {0} /\ InboxCap \in Nat \ {0}

VARIABLES
  slot,      \* the version the slot holds
  conflicts, \* the table, in the order of insertion
  asking,    \* the pushes: whose, and the step the handler is at
  notices,   \* the notifier's queue, as the refusals it tells of
  mirroring, \* refusals whose inbox goroutine has not run
  inbox,     \* the user's inbox, oldest first
  refusals,  \* how many pushes were refused
  owed       \* history: devices refused since anything closed their conflict

centreVars == <<slot, conflicts, asking, notices, mirroring, inbox, refusals, owed>>
noticeVars == <<notices, mirroring, inbox>>

NoPush == [at |-> "idle", client |-> "none", against |-> 0, row |-> 0]
Rows == 1 .. Len(conflicts)
Open(row) == conflicts[row].open

CentreInit ==
  /\ slot = 0 /\ conflicts = <<>>
  /\ asking = [p \in Pushes |-> NoPush]
  /\ notices = <<>> /\ mirroring = {} /\ inbox = <<>>
  /\ refusals = 0 /\ owed = {}

---------------------------------------------------------------------------
(* Notices. *)

\* Mutant: an event joins a full queue too.
QueuedBeyond(refusal) == Append(notices, refusal)

\* Notify: a full queue gives up its oldest event.
Queued(refusal) ==
  Append(IF Len(notices) = QueueCap THEN Tail(notices) ELSE notices, refusal)

\* The worker takes the next event and tries each sink three times.
SinkDelivers ==
  /\ notices # <<>> /\ notices' = Tail(notices)
  /\ UNCHANGED <<slot, conflicts, asking, mirroring, inbox, refusals, owed>>

\* AddInboxItem: the item, then the oldest beyond the cap go.  Items of one
\* second have no order, so any of them may be the one to go.
AddInboxItem(refusal) ==
  /\ refusal \in mirroring /\ mirroring' = mirroring \ {refusal}
  /\ IF Len(inbox) < InboxCap THEN inbox' = Append(inbox, [of |-> refusal, read |-> FALSE])
     ELSE \E gone \in 1 .. InboxCap + 1 :
            LET all == Append(inbox, [of |-> refusal, read |-> FALSE])
            IN inbox' = SubSeq(all, 1, gone - 1) \o SubSeq(all, gone + 1, InboxCap + 1)
  /\ UNCHANGED <<slot, conflicts, asking, notices, refusals, owed>>

\* MarkInboxRead, of one item or of all.
MarkInboxRead(items) ==
  /\ \E i \in items : ~inbox[i].read
  /\ inbox' = [i \in DOMAIN inbox |-> [inbox[i] EXCEPT !.read = @ \/ i \in items]]
  /\ UNCHANGED <<slot, conflicts, asking, notices, mirroring, refusals, owed>>

---------------------------------------------------------------------------
(* The push handler. *)

\* The precondition fails before the transaction (and is notified), or inside
\* it (and is not).
PushRefused(p, d, notified) ==
  /\ asking[p].at = "idle" /\ slot > 0 /\ refusals < MaxRefusals
  /\ refusals' = refusals + 1 /\ owed' = owed \cup {d}
  /\ asking' = [asking EXCEPT ![p] = [at |-> "refused", client |-> d, against |-> slot, row |-> 0]]
  /\ IF notified
       THEN notices' = Queued(refusals + 1) /\ mirroring' = mirroring \cup {refusals + 1}
       ELSE UNCHANGED <<notices, mirroring>>
  /\ UNCHANGED <<slot, conflicts, inbox>>

\* Mutant: closed rows are found too.
FoundEver(d) == {row \in Rows : conflicts[row].client = d}

\* The open row of this slot and device, if there is one.
Found(d) == {row \in Rows : conflicts[row].client = d /\ Open(row)}

\* RecordConflict, the SELECT.
LookForOpen(p) ==
  /\ asking[p].at = "refused"
  /\ IF Found(asking[p].client) = {} THEN asking' = [asking EXCEPT ![p].at = "insert"]
     ELSE \E row \in Found(asking[p].client) :
            asking' = [asking EXCEPT ![p] = [@ EXCEPT !.at = "refresh", !.row = row]]
  /\ UNCHANGED <<slot, conflicts, refusals, owed>> /\ UNCHANGED noticeVars

\* The INSERT, or the UPDATE of the row by its id, open or not by now.
WriteConflict(p) ==
  /\ \/ /\ asking[p].at = "insert"
        /\ conflicts' = Append(conflicts, [client |-> asking[p].client, against |-> asking[p].against, open |-> TRUE])
     \/ /\ asking[p].at = "refresh"
        /\ conflicts' = [conflicts EXCEPT ![asking[p].row].against = asking[p].against]
  /\ asking' = [asking EXCEPT ![p] = NoPush]
  /\ UNCHANGED <<slot, refusals, owed>> /\ UNCHANGED noticeVars

\* The database is busy or the device hangs up, which cancels the request's
\* context: the conflict is only logged.
RecordFails(p) ==
  /\ asking[p].at \in {"refused", "insert", "refresh"}
  /\ asking' = [asking EXCEPT ![p] = NoPush]
  /\ owed' = owed \ {asking[p].client}
  /\ UNCHANGED <<slot, conflicts, refusals>> /\ UNCHANGED noticeVars

\* The push is stored ...
PushAccepted(p) ==
  /\ asking[p].at = "idle" /\ slot < MaxStores
  /\ slot' = slot + 1
  /\ asking' = [asking EXCEPT ![p] = [NoPush EXCEPT !.at = "accepted"]]
  /\ UNCHANGED <<conflicts, refusals, owed>> /\ UNCHANGED noticeVars

\* ... and resolveSupersededConflicts closes every open row of the slot, or
\* fails, which nothing tells.
Supersede(p, works) ==
  /\ asking[p].at = "accepted"
  /\ asking' = [asking EXCEPT ![p] = NoPush]
  /\ IF works
       THEN /\ conflicts' = [row \in Rows |-> [conflicts[row] EXCEPT !.open = FALSE]]
            /\ owed' = {}
       ELSE UNCHANGED <<conflicts, owed>>
  /\ UNCHANGED <<slot, refusals>> /\ UNCHANGED noticeVars

\* ResolveConflict, from the page or the API: one row, if it is still open.
UserResolves(row) ==
  /\ Open(row)
  /\ conflicts' = [conflicts EXCEPT ![row].open = FALSE]
  /\ owed' = owed \ {conflicts[row].client}
  /\ UNCHANGED <<slot, asking, refusals>> /\ UNCHANGED noticeVars

CentreNext ==
  \/ \E p \in Pushes :
       \/ \E d \in Pushing, notified \in BOOLEAN : PushRefused(p, d, notified)
       \/ LookForOpen(p) \/ WriteConflict(p) \/ RecordFails(p)
       \/ PushAccepted(p)
       \/ \E works \in BOOLEAN : Supersede(p, works)
  \/ \E row \in Rows : UserResolves(row)
  \/ SinkDelivers
  \/ \E refusal \in mirroring : AddInboxItem(refusal)
  \/ \E items \in {{i} : i \in DOMAIN inbox} \cup {DOMAIN inbox} : MarkInboxRead(items)

CentreSpec == CentreInit /\ [][CentreNext]_centreVars

---------------------------------------------------------------------------
(* Properties. *)

CentreTypeOK ==
  /\ slot \in Nat /\ refusals \in Nat /\ owed \subseteq Pushing
  /\ \A row \in Rows : conflicts[row] \in [client : Pushing, against : 1 .. slot, open : BOOLEAN]
  /\ \A p \in Pushes :
       /\ asking[p].at \in {"idle", "refused", "insert", "refresh", "accepted"}
       /\ asking[p].client \in Pushing \cup {"none"}
       /\ asking[p].against \in 0 .. slot /\ asking[p].row \in 0 .. Len(conflicts)
  /\ Len(notices) <= QueueCap /\ Len(inbox) <= InboxCap
  /\ mirroring \subseteq 1 .. refusals

\* A refused push is listed: once no handler is busy with a conflict of the
\* device, it has an open row, unless since the refusal a push to the slot was
\* accepted, the user closed a row of the device, or writing failed
\* (conflicts.go:36-40: retries refresh the open row rather than add one).
RefusedIsListed ==
  \A d \in owed :
    (\A p \in Pushes : asking[p].client # d) => \E row \in Rows : conflicts[row].client = d /\ Open(row)
=============================================================================
