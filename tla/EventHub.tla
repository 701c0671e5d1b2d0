----------------------------- MODULE EventHub -----------------------------
(***************************************************************************)
(* How a device learns that another one pushed: the hub of the server       *)
(* (server/sse/hub.go), the handlers that stream it (handleSSE of           *)
(* server/api/handler.go, serveDashboardEvents of server/webui), the         *)
(* listener of the client (ListenSSE of client/manifest.go) and the         *)
(* one-place channels into the sync loop (client/run_sync.go).              *)
(*                                                                         *)
(* One user: its device and its browser tabs.  The subscriptions are        *)
(* numbered in the order of Hub.nextSeq.  An event is the number of the     *)
(* push it tells of, or 0 for one of the many that no device acts on.       *)
(***************************************************************************)
EXTENDS Naturals, FiniteSets, Sequences

CONSTANTS
  PerUser,     \* subscriptions of a user (5 in the handlers)
  BufferSize,  \* places of a subscriber's channel (16 in the hub)
  MaxConns,    \* bound: subscriptions in all
  MaxPushes    \* bound: pushes of the other devices

ASSUME HubBounds == PerUser \in Nat \ {0} /\ BufferSize \in Nat \ {0}

VARIABLES
  hubOpen,     \* ~Hub.closed
  subscribers, \* Hub.subscribers
  streams,     \* the channels, in the order they were made
  committed,   \* how many pushes are stored
  untold,      \* pushes stored but not yet broadcast
  link,        \* the stream the device reads, 0 for none
  pullAsked,   \* ssePullCh holds a token
  deferred,    \* syncDeferred: paused, quiet hours or a metered connection
  turn,        \* the sync loop: "idle", or where its pull is
  heard,       \* history: the latest push the device was told of
  pulled,      \* the latest push the device has read
  skipped      \* history: a turn of the loop was deferred or failed since it read

hubVars == <<hubOpen, subscribers, streams, committed, untold, link, pullAsked,
             deferred, turn, heard, pulled, skipped>>
deviceVars == <<pullAsked, deferred, turn, heard, pulled, skipped>>

Conns == 1 .. Len(streams)

HubInit ==
  /\ hubOpen = TRUE /\ subscribers = {} /\ streams = <<>>
  /\ committed = 0 /\ untold = {}
  /\ link = 0 /\ pullAsked = FALSE /\ deferred = FALSE /\ turn = "idle"
  /\ heard = 0 /\ pulled = 0 /\ skipped = FALSE

---------------------------------------------------------------------------
(* The hub. *)

\* A non-blocking send: a full channel drops the event.
Sent(stream, event) ==
  IF Len(stream.buffer) < BufferSize
    THEN [stream EXCEPT !.buffer = Append(@, event)] ELSE stream

\* Those the cap evicts: the oldest, until there is room for one more.
Evicted ==
  {c \in subscribers : Cardinality({d \in subscribers : d > c}) + 1 >= PerUser}

\* Mutant: the evicted channel is closed but stays in the map.
SubscribeLeaky(isDevice) ==
  /\ Len(streams) < MaxConns
  /\ isDevice => link = 0
  /\ subscribers' = IF hubOpen THEN subscribers \cup {Len(streams) + 1} ELSE subscribers
  /\ streams' = Append([c \in Conns |-> [streams[c] EXCEPT !.open = @ /\ c \notin Evicted]],
                       [open |-> hubOpen, served |-> TRUE, buffer |-> <<>>])
  /\ link' = IF isDevice THEN Len(streams) + 1 ELSE link
  /\ UNCHANGED <<hubOpen, committed, untold>> /\ UNCHANGED deviceVars

\* SubscribeCapped, by the device or a tab; a hub that is shut down gives a
\* closed channel.
Subscribe(isDevice) ==
  /\ Len(streams) < MaxConns
  /\ isDevice => link = 0
  /\ subscribers' = IF hubOpen THEN (subscribers \ Evicted) \cup {Len(streams) + 1}
                    ELSE subscribers
  /\ streams' = Append([c \in Conns |-> [streams[c] EXCEPT !.open = @ /\ ~(hubOpen /\ c \in Evicted)]],
                       [open |-> hubOpen, served |-> TRUE, buffer |-> <<>>])
  /\ link' = IF isDevice THEN Len(streams) + 1 ELSE link
  /\ UNCHANGED <<hubOpen, committed, untold>> /\ UNCHANGED deviceVars

\* Broadcast and BroadcastToUser.
Broadcast(event) ==
  streams' = [c \in Conns |->
                IF c \in subscribers THEN Sent(streams[c], event) ELSE streams[c]]

\* Another device's push is stored ...
PushStored ==
  /\ committed < MaxPushes
  /\ committed' = committed + 1 /\ untold' = untold \cup {committed + 1}
  /\ UNCHANGED <<hubOpen, subscribers, streams, link>> /\ UNCHANGED deviceVars

\* ... and then told: pushes are told in any order.
PushTold ==
  \E p \in untold :
    /\ untold' = untold \ {p} /\ Broadcast(p)
    /\ UNCHANGED <<hubOpen, subscribers, committed, link>> /\ UNCHANGED deviceVars

\* Job progress, activity, inbox, audit: they share the channels.
OtherEvent ==
  /\ Broadcast(0)
  /\ UNCHANGED <<hubOpen, subscribers, committed, untold, link>> /\ UNCHANGED deviceVars

\* Shutdown: a last event, then every channel is closed.
HubShutdown ==
  /\ hubOpen /\ hubOpen' = FALSE
  /\ streams' = [c \in Conns |->
                   IF c \in subscribers THEN [Sent(streams[c], 0) EXCEPT !.open = FALSE]
                   ELSE streams[c]]
  /\ subscribers' = {}
  /\ UNCHANGED <<committed, untold, link>> /\ UNCHANGED deviceVars

\* The process ends once its handlers have, or without waiting for them, and a
\* new one starts.
ServerReturns ==
  /\ ~hubOpen /\ hubOpen' = TRUE
  /\ streams' = [c \in Conns |-> [streams[c] EXCEPT !.served = FALSE, !.buffer = <<>>]]
  /\ untold' = {} /\ link' = 0
  /\ UNCHANGED <<subscribers, committed>> /\ UNCHANGED deviceVars

---------------------------------------------------------------------------
(* The handlers and the listener. *)

\* The callback of ListenSSE: a token in ssePullCh unless one is there.
OnEvent(event) ==
  /\ pullAsked' = (pullAsked \/ event # 0)
  /\ heard' = IF event > heard THEN event ELSE heard

\* The handler writes the next event, those of a closed channel included; the
\* device, or a tab, reads it.
Deliver(c) ==
  /\ streams[c].served /\ streams[c].buffer # <<>>
  /\ streams' = [streams EXCEPT ![c].buffer = Tail(@)]
  /\ IF c = link THEN OnEvent(Head(streams[c].buffer)) ELSE UNCHANGED <<pullAsked, heard>>
  /\ UNCHANGED <<hubOpen, subscribers, committed, untold, link, deferred, turn, pulled, skipped>>

\* The handler returns: its channel is closed and drained, its request's
\* context is done, or a write to a dead peer fails.  The device sees the end.
HandlerEnds(c) ==
  /\ streams[c].served
  /\ c = link => ~streams[c].open /\ streams[c].buffer = <<>>
  /\ streams' = [streams EXCEPT ![c].served = FALSE, ![c].buffer = <<>>]
  /\ subscribers' = subscribers \ {c}
  /\ link' = IF link = c THEN 0 ELSE link
  /\ UNCHANGED <<hubOpen, committed, untold>> /\ UNCHANGED deviceVars

\* The device loses the connection, or its watchdog drops a silent one; the
\* server need not know.
LinkDrops ==
  /\ link # 0 /\ link' = 0
  /\ UNCHANGED <<hubOpen, subscribers, streams, committed, untold>> /\ UNCHANGED deviceVars

---------------------------------------------------------------------------
(* The sync loop: one pull at a time. *)

\* doPull at the loop's ticker, at a token, or at a sync-now: that channel has
\* no place, so a sync-now that finds the loop busy is lost.
Turn(byEvent) ==
  /\ turn = "idle"
  /\ byEvent => pullAsked
  /\ pullAsked' = (pullAsked /\ ~byEvent)
  /\ IF deferred THEN skipped' = TRUE /\ UNCHANGED turn
     ELSE turn' = "asking" /\ UNCHANGED skipped
  /\ UNCHANGED <<hubOpen, subscribers, streams, committed, untold, link, deferred, heard, pulled>>

\* The server answers the listing ...
PullReads ==
  /\ turn = "asking" /\ turn' = "applying"
  /\ pulled' = committed /\ skipped' = FALSE
  /\ UNCHANGED <<hubOpen, subscribers, streams, committed, untold, link, pullAsked, deferred, heard>>

\* ... and the saves of the listing are fetched and written.
PullApplied ==
  /\ turn = "applying" /\ turn' = "idle"
  /\ UNCHANGED <<hubOpen, subscribers, streams, committed, untold, link, pullAsked,
                 deferred, heard, pulled, skipped>>

PullFails ==
  /\ turn # "idle" /\ turn' = "idle" /\ skipped' = TRUE
  /\ UNCHANGED <<hubOpen, subscribers, streams, committed, untold, link, pullAsked,
                 deferred, heard, pulled>>

\* Pause and resume, quiet hours, a metered network.  Leaving pause or quiet
\* hours asks for a pull, which is Turn; leaving a metered network does not.
DeferralChanges ==
  /\ deferred' = ~deferred
  /\ UNCHANGED <<hubOpen, subscribers, streams, committed, untold, link, pullAsked, turn,
                 heard, pulled, skipped>>

HubNext ==
  \/ \E isDevice \in BOOLEAN : Subscribe(isDevice)
  \/ PushStored \/ PushTold \/ OtherEvent \/ HubShutdown \/ ServerReturns
  \/ \E c \in Conns : Deliver(c) \/ HandlerEnds(c)
  \/ LinkDrops
  \/ \E byEvent \in BOOLEAN : Turn(byEvent)
  \/ PullReads \/ PullApplied \/ PullFails \/ DeferralChanges

HubSpec == HubInit /\ [][HubNext]_hubVars

---------------------------------------------------------------------------
(* Properties. *)

HubTypeOK ==
  /\ hubOpen \in BOOLEAN /\ subscribers \subseteq Conns
  /\ \A c \in Conns :
       /\ streams[c].open \in BOOLEAN /\ streams[c].served \in BOOLEAN
       /\ streams[c].buffer \in Seq(0 .. committed)
  /\ committed \in Nat /\ untold \subseteq 1 .. committed
  /\ link \in 0 .. Len(streams) /\ turn \in {"idle", "asking", "applying"}
  /\ {pullAsked, deferred, skipped} \subseteq BOOLEAN
  /\ heard \in 0 .. committed /\ pulled \in 0 .. committed

\* A broadcast never meets a closed channel (a send on one ends the process),
\* nor does a second close: whoever closes a channel takes it out of the map
\* in the same step, whether the cap or the shutdown closes it and whenever its
\* handler unsubscribes.  And a user never holds more than the cap.
OnlyOpenStreams ==
  /\ \A c \in subscribers : streams[c].open
  /\ Cardinality(subscribers) <= PerUser

\* An event is not lost on its way into the loop: a push the device was told of
\* has been read, or will be by the pull under way or by the token in the
\* channel - unless the loop deferred or failed a turn since, and waits for its
\* ticker.  Of a push that the hub drops at a full buffer (hub.go:131-136) the
\* device has not been told; the ticker's pull is for those.
HeardIsPulled ==
  heard <= pulled \/ pullAsked \/ turn = "asking" \/ skipped

\* An event gets through once a stream has it: the streams of the hub are open
\* and within the cap, and what a device has heard it pulls.
EventsGetThrough == OnlyOpenStreams /\ HeardIsPulled
=============================================================================
