--------------------------- MODULE ServicesProofs ---------------------------
(***************************************************************************)
(* What TLAPS proves of the services side by side.  Every variable of each      *)
(* keeps its type: to the invariants of ServerProofs, ClientProofs and           *)
(* StorageProofs come the bounds of the counters and whatever else the types      *)
(* say and the safety properties do not need.  And a step of the whole is a       *)
(* step of one service and of no other, so what holds of each in a behaviour of   *)
(* its own holds of all of them together.                                      *)
(***************************************************************************)
EXTENDS MCServices, ServerProofs, ClientProofs, StorageProofs, Integers,
        SequenceTheorems, FiniteSetTheorems, TLAPS

---------------------------------------------------------------------------
(* The event hub. *)

\* A sequence is as long as its domain.
LEMMA SameLength ==
  ASSUME NEW m \in Nat, NEW n \in Nat, 1 .. m = 1 .. n
  PROVE  m = n
  <1>1. ~(m < n)
    <2> SUFFICES ASSUME m < n PROVE FALSE
      OBVIOUS
    <2>1. n \in 1 .. n /\ n \notin 1 .. m
      OBVIOUS
    <2> QED
      BY <2>1
  <1>2. ~(n < m)
    <2> SUFFICES ASSUME n < m PROVE FALSE
      OBVIOUS
    <2>1. m \in 1 .. m /\ m \notin 1 .. n
      OBVIOUS
    <2> QED
      BY <2>1
  <1> QED
    BY <1>1, <1>2

\* The device reads one of the streams there have been.
LEMMA HubLinkKeeps ==
  ASSUME HubInv, HubInv', link \in 0 .. Len(streams), [HubNext]_hubVars
  PROVE  link' \in 0 .. Len(streams')
  <1>1. /\ streams \in Seq(Stream(committed)) /\ streams' \in Seq(Stream(committed)')
        /\ Len(streams) \in Nat /\ Len(streams') \in Nat
        /\ DOMAIN streams = 1 .. Len(streams) /\ DOMAIN streams' = 1 .. Len(streams')
    BY LenProperties DEF HubInv, HubTypes, Stream
  <1>2. ASSUME NEW isDevice \in BOOLEAN, Subscribe(isDevice)
        PROVE  link' \in 0 .. Len(streams')
    <2> DEFINE kept == [c \in Conns |-> [streams[c] EXCEPT !.open = @ /\ ~(hubOpen /\ c \in Evicted)]]
               new == [open |-> hubOpen, served |-> TRUE, buffer |-> <<>>]
    <2>1. streams' = Append(kept, new) /\ link' \in {link, Len(streams) + 1}
      BY <1>2 DEF Subscribe
    <2>2. kept \in [1 .. Len(streams) -> {kept[c] : c \in Conns}]
      BY DEF Conns
    <2> HIDE DEF kept, new
    <2>3. kept \in Seq({kept[c] : c \in Conns}) /\ Len(kept) = Len(streams)
      BY <1>1, <2>2, AsStreams
    <2>4. Len(streams') = Len(streams) + 1
      BY <2>1, <2>3
    <2> QED
      BY <1>1, <2>1, <2>4
  <1>3. ASSUME DOMAIN streams' = DOMAIN streams, link' \in {link, 0}
        PROVE  link' \in 0 .. Len(streams')
    <2>1. Len(streams') = Len(streams)
      BY <1>1, <1>3, SameLength
    <2> QED
      BY <1>1, <1>3, <2>1
  <1>4. CASE streams' = streams /\ link' \in {link, 0}
    BY <1>3, <1>4
  <1>5. CASE PushTold \/ OtherEvent \/ HubShutdown \/ ServerReturns
    BY <1>1, <1>3, <1>5 DEF PushTold, OtherEvent, HubShutdown, ServerReturns, Broadcast, Conns
  <1>6. ASSUME NEW c \in Conns, Deliver(c) \/ HandlerEnds(c)
        PROVE  link' \in 0 .. Len(streams')
    BY <1>1, <1>3, <1>6 DEF Deliver, HandlerEnds
  <1> QED
    BY <1>2, <1>4, <1>5, <1>6
       DEF HubNext, PushStored, LinkDrops, Turn, PullReads, PullApplied, PullFails, DeferralChanges, hubVars

LEMMA HubTyped == HubSpec => []HubTypeOK
  <1>1. HubInit => link \in 0 .. Len(streams)
    BY DEF HubInit
  <1>2. HubInv /\ link \in 0 .. Len(streams) => HubTypeOK
    <2> SUFFICES ASSUME HubInv, link \in 0 .. Len(streams) PROVE HubTypeOK
      OBVIOUS
    <2>1. streams \in Seq(Stream(committed))
      BY DEF HubInv, HubTypes
    <2>2. ASSUME NEW c \in Conns
          PROVE  streams[c].open \in BOOLEAN /\ streams[c].served \in BOOLEAN /\ streams[c].buffer \in Seq(0 .. committed)
      <3>1. streams[c] \in Stream(committed)
        BY <2>1, ElementOfSeq DEF Conns
      <3> QED
        BY <3>1 DEF Stream
    <2> QED
      BY <2>2 DEF HubInv, HubTypes, HubTypeOK
  <1>3. HubInv /\ HubInv' /\ link \in 0 .. Len(streams) /\ [HubNext]_hubVars => (link \in 0 .. Len(streams))'
    BY HubLinkKeeps
  <1> QED
    BY <1>1, <1>2, <1>3, HubBegins, HubNextKeeps, PTL DEF HubSpec

---------------------------------------------------------------------------
(* The conflict centre. *)

\* A conflict is against a version there has been, and a handler about to write
\* one is against one there has been and has a id there is.
HandlerTyped(q, version, rowCount) ==
  /\ q.against \in 0 .. version /\ q.row \in 0 .. rowCount
  /\ q.at \in {"refused", "insert", "refresh"} => q.against > 0
  /\ q.at = "refresh" => q.row > 0
AskingTyped == \A p \in Pushes : HandlerTyped(asking[p], slot, Len(conflicts))
CentreRows ==
  /\ refusals \in Nat /\ \A id \in Rows : conflicts[id].against \in 1 .. slot
  /\ AskingTyped

\* The queue and the inbox stay within their bounds.
Item == [of : Nat, read : BOOLEAN]
NoticesInv ==
  /\ notices \in Seq(Nat) /\ Len(notices) <= QueueCap
  /\ inbox \in Seq(Item) /\ Len(inbox) <= InboxCap /\ mirroring \subseteq 1 .. refusals

LEMMA HandlerStaysTyped ==
  ASSUME CentreInv, CentreRows, NEW p \in Pushes, NEW q \in Handlers, asking' = [asking EXCEPT ![p] = q],
         slot' \in Nat, slot' >= slot, Len(conflicts') \in Nat, Len(conflicts') >= Len(conflicts),
         HandlerTyped(q, slot', Len(conflicts'))
  PROVE  AskingTyped'
  <1>1. /\ asking'[p] = q /\ \A k \in Pushes : k # p => asking'[k] = asking[k]
        /\ slot \in Nat /\ Len(conflicts) \in Nat
    BY LenProperties DEF CentreInv
  <1> QED
    BY <1>1 DEF CentreRows, AskingTyped, HandlerTyped

LEMMA CentreRowsKeep ==
  ASSUME CentreInv, CentreInv', CentreRows, [CentreNext]_centreVars
  PROVE  CentreRows'
  <1>0. /\ slot \in Nat /\ slot' \in Nat /\ refusals \in Nat
        /\ conflicts \in Seq(Conflicts) /\ Len(conflicts) \in Nat /\ DOMAIN conflicts = Rows
        /\ conflicts' \in Seq(Conflicts) /\ Len(conflicts') \in Nat
        /\ asking \in [Pushes -> Handlers]
    <2>1. conflicts \in Seq(Conflicts) /\ conflicts' \in Seq(Conflicts)
      BY DEF CentreInv
    <2> QED
      BY <2>1, LenProperties DEF CentreInv, CentreRows, Rows
  <1>1. ASSUME NEW p \in Pushes, NEW d \in Pushing, NEW notified \in BOOLEAN, PushRefused(p, d, notified)
        PROVE  CentreRows'
    <2> DEFINE q == [at |-> "refused", client |-> d, against |-> slot, row |-> 0]
    <2>1. /\ slot > 0 /\ asking' = [asking EXCEPT ![p] = q] /\ UNCHANGED <<slot, conflicts>>
          /\ refusals' = refusals + 1
      BY <1>1 DEF PushRefused
    <2>2. q \in Handlers /\ q.against = slot /\ q.row = 0 /\ q.at = "refused"
      BY <1>0 DEF Handlers, Clients
    <2> HIDE DEF q
    <2>3. AskingTyped'
      <3>1. slot' >= slot /\ Len(conflicts') >= Len(conflicts)
        BY <1>0, <2>1, <2>2
      <3>2. HandlerTyped(q, slot', Len(conflicts'))
        BY <1>0, <2>1, <2>2 DEF HandlerTyped
      <3> QED
        BY <1>0, <2>1, <2>2, <3>1, <3>2, HandlerStaysTyped
    <2> QED
      BY <1>0, <2>1, <2>3 DEF CentreRows, Rows
  <1>2. ASSUME NEW p \in Pushes, LookForOpen(p) PROVE CentreRows'
    <2>1. /\ asking[p].at = "refused" /\ UNCHANGED <<slot, conflicts, refusals>> /\ asking[p] \in Handlers
          /\ HandlerTyped(asking[p], slot, Len(conflicts))
      BY <1>0, <1>2 DEF LookForOpen, CentreRows, AskingTyped
    <2>2. ASSUME NEW q \in Handlers, asking' = [asking EXCEPT ![p] = q], q.against = asking[p].against,
                 q.row \in 0 .. Len(conflicts), q.at = "refresh" => q.row > 0
          PROVE  CentreRows'
      <3>1. AskingTyped'
        <4>1. slot' >= slot /\ Len(conflicts') >= Len(conflicts)
          BY <1>0, <2>1, <2>2
        <4>2. HandlerTyped(q, slot', Len(conflicts'))
          BY <1>0, <2>1, <2>2 DEF AskingTyped, HandlerTyped
        <4> QED
          BY <1>0, <2>1, <2>2, <4>1, <4>2, HandlerStaysTyped
      <3> QED
        BY <2>1, <3>1 DEF CentreRows, Rows
    <2>3. CASE asking' = [asking EXCEPT ![p].at = "insert"]
      <3> DEFINE q == [asking[p] EXCEPT !.at = "insert"]
      <3>1. q \in Handlers /\ asking' = [asking EXCEPT ![p] = q] /\ q.against = asking[p].against
            /\ q.row = asking[p].row /\ q.at = "insert"
        BY <2>1, <2>3 DEF Handlers
      <3> HIDE DEF q
      <3> QED
        BY <2>1, <2>2, <3>1 DEF AskingTyped, HandlerTyped
    <2>4. ASSUME NEW id \in Found(asking[p].client),
                 asking' = [asking EXCEPT ![p] = [@ EXCEPT !.at = "refresh", !.row = id]]
          PROVE  CentreRows'
      <3> DEFINE q1 == [asking[p] EXCEPT !.at = "refresh"]
                 q == [q1 EXCEPT !.row = id]
      <3>1. id \in Nat /\ id \in 0 .. Len(conflicts) /\ id > 0 /\ asking' = [asking EXCEPT ![p] = q]
        BY <1>0, <2>4 DEF Found, Rows
      <3>2. q1 \in Handlers /\ q1.against = asking[p].against /\ q1.at = "refresh"
        BY <2>1 DEF Handlers
      <3> HIDE DEF q1
      <3>3. q \in Handlers /\ q.against = asking[p].against /\ q.at = "refresh" /\ q.row = id
        BY <3>1, <3>2 DEF Handlers
      <3> HIDE DEF q
      <3> QED
        BY <2>2, <3>1, <3>3
    <2> QED
      BY <1>2, <2>3, <2>4 DEF LookForOpen
  <1>3. NoPush \in Handlers /\ NoPush.against = 0 /\ NoPush.row = 0 /\ NoPush.at = "idle"
    BY DEF NoPush, Handlers, Clients
  <1>4. ASSUME NEW p \in Pushes, WriteConflict(p) PROVE CentreRows'
    <2>1. /\ asking' = [asking EXCEPT ![p] = NoPush] /\ UNCHANGED <<slot, refusals>>
          /\ asking[p] \in Handlers /\ asking[p].against \in 1 .. slot
      BY <1>0, <1>4 DEF WriteConflict, CentreRows, AskingTyped, HandlerTyped
    <2>2. /\ Len(conflicts') >= Len(conflicts)
          /\ \A id \in Rows' : conflicts'[id].against \in 1 .. slot
      <3>1. CASE asking[p].at = "insert"
        <4> DEFINE c == [client |-> asking[p].client, against |-> asking[p].against, open |-> TRUE]
        <4>1. conflicts' = Append(conflicts, c) /\ c.against \in 1 .. slot
          BY <1>4, <2>1, <3>1 DEF WriteConflict
        <4> HIDE DEF c
        <4>2. Len(conflicts') = Len(conflicts) + 1 /\ conflicts'[Len(conflicts) + 1] = c
              /\ \A id \in Rows : conflicts'[id] = conflicts[id]
          BY <1>0, <4>1 DEF Rows
        <4> QED
          BY <1>0, <4>1, <4>2 DEF Rows, CentreRows
      <3>2. CASE asking[p].at = "refresh"
        <4>1. asking[p].row \in Rows /\ conflicts' = [conflicts EXCEPT ![asking[p].row].against = asking[p].against]
          BY <1>0, <1>4, <3>2 DEF WriteConflict, CentreRows, AskingTyped, HandlerTyped, Rows
        <4>2. conflicts[asking[p].row] \in Conflicts
          BY <1>0, <4>1, ElementOfSeq DEF Rows
        <4>3. DOMAIN conflicts' = DOMAIN conflicts
          BY <4>1
        <4>4. Len(conflicts') = Len(conflicts)
          BY <1>0, <4>3, LenProperties, SameLength DEF Rows
        <4>5. \A id \in Rows : conflicts'[id].against \in {conflicts[id].against, asking[p].against}
          <5> SUFFICES ASSUME NEW id \in Rows
                       PROVE  conflicts'[id].against \in {conflicts[id].against, asking[p].against}
            OBVIOUS
          <5> QED
            BY <1>0, <4>1, <4>2 DEF Conflicts
        <4> QED
          BY <1>0, <2>1, <4>4, <4>5 DEF Rows, CentreRows
      <3> QED
        BY <1>4, <3>1, <3>2 DEF WriteConflict
    <2>3. AskingTyped'
      <3>1. slot' >= slot /\ Len(conflicts') >= Len(conflicts)
        BY <1>0, <1>3, <2>1, <2>2
      <3>2. HandlerTyped(NoPush, slot', Len(conflicts'))
        BY <1>0, <1>3, <2>1, <2>2 DEF HandlerTyped
      <3> QED
        BY <1>0, <1>3, <2>1, <2>2, <3>1, <3>2, HandlerStaysTyped
    <2> QED
      BY <1>0, <2>1, <2>2, <2>3 DEF CentreRows
  <1>5. ASSUME NEW p \in Pushes, RecordFails(p) PROVE CentreRows'
    <2>1. asking' = [asking EXCEPT ![p] = NoPush] /\ UNCHANGED <<slot, conflicts, refusals>>
      BY <1>5 DEF RecordFails
    <2>2. AskingTyped'
      <3>1. slot' >= slot /\ Len(conflicts') >= Len(conflicts)
        BY <1>0, <1>3, <2>1
      <3>2. HandlerTyped(NoPush, slot', Len(conflicts'))
        BY <1>0, <1>3, <2>1 DEF HandlerTyped
      <3> QED
        BY <1>0, <1>3, <2>1, <3>1, <3>2, HandlerStaysTyped
    <2> QED
      BY <2>1, <2>2 DEF CentreRows, Rows
  <1>6. ASSUME NEW p \in Pushes, PushAccepted(p) PROVE CentreRows'
    <2> DEFINE q == [NoPush EXCEPT !.at = "accepted"]
    <2>1. asking' = [asking EXCEPT ![p] = q] /\ UNCHANGED <<conflicts, refusals>> /\ slot' = slot + 1
      BY <1>6 DEF PushAccepted
    <2>2. q \in Handlers /\ q.against = 0 /\ q.row = 0 /\ q.at = "accepted"
      BY <1>3 DEF Handlers
    <2> HIDE DEF q
    <2>3. AskingTyped'
      <3>1. slot' >= slot /\ Len(conflicts') >= Len(conflicts)
        BY <1>0, <2>1, <2>2
      <3>2. HandlerTyped(q, slot', Len(conflicts'))
        BY <1>0, <2>1, <2>2 DEF HandlerTyped
      <3> QED
        BY <1>0, <2>1, <2>2, <3>1, <3>2, HandlerStaysTyped
    <2> QED
      BY <1>0, <2>1, <2>3 DEF CentreRows, Rows
  <1>7. ASSUME conflicts' \in Seq(Conflicts), DOMAIN conflicts' = Rows, UNCHANGED <<slot, refusals>>,
               \A id \in Rows : conflicts'[id].against = conflicts[id].against
        PROVE  Len(conflicts') = Len(conflicts) /\ \A id \in Rows' : conflicts'[id].against \in 1 .. slot'
    <2>1. Len(conflicts') = Len(conflicts)
      BY <1>0, <1>7, LenProperties, SameLength DEF Rows
    <2> QED
      BY <1>7, <2>1 DEF Rows, CentreRows
  <1>8. ASSUME NEW p \in Pushes, NEW works \in BOOLEAN, Supersede(p, works) PROVE CentreRows'
    <2>1. asking' = [asking EXCEPT ![p] = NoPush] /\ UNCHANGED <<slot, refusals>>
      BY <1>8 DEF Supersede
    <2>2. DOMAIN conflicts' = Rows /\ \A id \in Rows : conflicts'[id].against = conflicts[id].against
      <3>1. CASE conflicts' = conflicts
        BY <1>0, <3>1
      <3>2. CASE conflicts' = [id \in Rows |-> [conflicts[id] EXCEPT !.open = FALSE]]
        <4> SUFFICES ASSUME NEW id \in Rows PROVE conflicts'[id].against = conflicts[id].against
          BY <3>2
        <4>1. conflicts[id] \in Conflicts
          BY <1>0, ElementOfSeq DEF Rows
        <4> QED
          BY <3>2, <4>1 DEF Conflicts
      <3> QED
        BY <1>8, <3>1, <3>2 DEF Supersede
    <2>3. Len(conflicts') = Len(conflicts) /\ \A id \in Rows' : conflicts'[id].against \in 1 .. slot'
      BY <1>0, <1>7, <2>1, <2>2
    <2>4. AskingTyped'
      <3>1. slot' >= slot /\ Len(conflicts') >= Len(conflicts)
        BY <1>0, <1>3, <2>1, <2>3
      <3>2. HandlerTyped(NoPush, slot', Len(conflicts'))
        BY <1>0, <1>3, <2>1, <2>3 DEF HandlerTyped
      <3> QED
        BY <1>0, <1>3, <2>1, <2>3, <3>1, <3>2, HandlerStaysTyped
    <2> QED
      BY <2>1, <2>3, <2>4 DEF CentreRows
  <1>9. ASSUME NEW id \in Rows, UserResolves(id) PROVE CentreRows'
    <2>1. conflicts' = [conflicts EXCEPT ![id].open = FALSE] /\ UNCHANGED <<slot, refusals, asking>>
      BY <1>9 DEF UserResolves
    <2>2. DOMAIN conflicts' = Rows /\ \A other \in Rows : conflicts'[other].against = conflicts[other].against
      <3>1. conflicts[id] \in Conflicts
        BY <1>0, ElementOfSeq DEF Rows
      <3> QED
        BY <1>0, <2>1, <3>1 DEF Conflicts
    <2>3. Len(conflicts') = Len(conflicts) /\ \A other \in Rows' : conflicts'[other].against \in 1 .. slot'
      BY <1>0, <1>7, <2>1, <2>2
    <2> QED
      BY <2>1, <2>3 DEF CentreRows, AskingTyped, HandlerTyped
  <1>10. ASSUME UNCHANGED <<slot, conflicts, asking, refusals>> PROVE CentreRows'
    BY <1>10 DEF CentreRows, AskingTyped, HandlerTyped, Rows
  <1> QED
    BY <1>1, <1>2, <1>4, <1>5, <1>6, <1>8, <1>9, <1>10
       DEF CentreNext, SinkDelivers, AddInboxItem, MarkInboxRead, centreVars

LEMMA NoticesKeep ==
  ASSUME NoticesInv, CentreRows, [CentreNext]_centreVars
  PROVE  NoticesInv'
  <1>0. /\ notices \in Seq(Nat) /\ Len(notices) \in Nat /\ Len(notices) <= QueueCap
        /\ inbox \in Seq(Item) /\ Len(inbox) \in Nat /\ Len(inbox) <= InboxCap
        /\ QueueCap \in Nat \ {0} /\ InboxCap \in Nat \ {0} /\ refusals \in Nat /\ mirroring \subseteq 1 .. refusals
    BY CentreBounds, LenProperties DEF NoticesInv, CentreRows
  <1>1. ASSUME NEW p \in Pushes, NEW d \in Pushing, NEW notified \in BOOLEAN, PushRefused(p, d, notified)
        PROVE  NoticesInv'
    <2>1. inbox' = inbox /\ refusals' = refusals + 1
      BY <1>1 DEF PushRefused
    <2>2. mirroring' \in {mirroring, mirroring \cup {refusals + 1}} /\ notices' \in {notices, Queued(refusals + 1)}
      BY <1>1 DEF PushRefused
    <2>3. Queued(refusals + 1) \in Seq(Nat) /\ Len(Queued(refusals + 1)) <= QueueCap
      <3>1. CASE Len(notices) = QueueCap
        <4>1. Tail(notices) \in Seq(Nat) /\ Len(Tail(notices)) = Len(notices) - 1
          BY <1>0, <3>1, EmptySeq, HeadTailProperties
        <4> DEFINE rest == Tail(notices)
        <4>2. Queued(refusals + 1) = Append(rest, refusals + 1)
          BY <3>1 DEF Queued
        <4>3. rest \in Seq(Nat) /\ Len(rest) = Len(notices) - 1 /\ refusals + 1 \in Nat
          BY <1>0, <4>1
        <4> HIDE DEF rest
        <4>4. Append(rest, refusals + 1) \in Seq(Nat) /\ Len(Append(rest, refusals + 1)) = Len(rest) + 1
          BY <4>3, AppendProperties
        <4> DEFINE longer == Append(rest, refusals + 1)
        <4>5. longer \in Seq(Nat) /\ Len(longer) = QueueCap /\ Queued(refusals + 1) = longer
          BY <1>0, <3>1, <4>2, <4>3, <4>4
        <4> HIDE DEF longer
        <4> QED
          BY <1>0, <4>5
      <3>2. CASE Len(notices) # QueueCap
        <4>1. Queued(refusals + 1) = Append(notices, refusals + 1)
          BY <3>2 DEF Queued
        <4> QED
          BY <1>0, <3>2, <4>1, AppendProperties
      <3> QED
        BY <3>1, <3>2
    <2> QED
      BY <1>0, <2>1, <2>2, <2>3 DEF NoticesInv
  <1>2. CASE SinkDelivers
    <2>1. notices # <<>> /\ notices' = Tail(notices) /\ UNCHANGED <<inbox, mirroring, refusals>>
      BY <1>2 DEF SinkDelivers
    <2>2. notices' \in Seq(Nat) /\ Len(notices') = Len(notices) - 1
      BY <1>0, <2>1, HeadTailProperties
    <2> QED
      BY <1>0, <2>1, <2>2 DEF NoticesInv
  <1>3. ASSUME NEW refusal \in mirroring, AddInboxItem(refusal) PROVE NoticesInv'
    <2> DEFINE item == [of |-> refusal, read |-> FALSE]
               all == Append(inbox, item)
    <2>1. UNCHANGED <<notices, refusals>> /\ mirroring' \subseteq mirroring /\ item \in Item
      BY <1>0, <1>3 DEF AddInboxItem, Item
    <2>2. all \in Seq(Item) /\ Len(all) = Len(inbox) + 1
      BY <1>0, <2>1, AppendProperties
    <2>3. CASE Len(inbox) < InboxCap
      <3>1. inbox' = all
        BY <1>3, <2>3 DEF AddInboxItem
      <3> HIDE DEF all
      <3> QED
        BY <1>0, <2>1, <2>2, <2>3, <3>1 DEF NoticesInv
    <2>4. CASE ~(Len(inbox) < InboxCap)
      <3>1. PICK away \in 1 .. InboxCap + 1 :
              inbox' = SubSeq(all, 1, away - 1) \o SubSeq(all, away + 1, InboxCap + 1)
        BY <1>3, <2>4 DEF AddInboxItem
      <3>2. Len(all) = InboxCap + 1 /\ away \in Nat /\ away >= 1 /\ away <= InboxCap + 1
        BY <1>0, <2>2, <2>4
      <3> HIDE DEF all
      <3> DEFINE before == SubSeq(all, 1, away - 1)
                 after == SubSeq(all, away + 1, InboxCap + 1)
      <3>3. before \in Seq(Item) /\ Len(before) = away - 1
        <4>1. 1 \in 1 .. Len(all) + 1 /\ away - 1 \in 1 - 1 .. Len(all)
          BY <1>0, <3>2
        <4> QED
          BY <1>0, <2>2, <3>2, <4>1, SubSeqProperties
      <3>4. after \in Seq(Item) /\ Len(after) = InboxCap + 1 - away
        <4>1. away + 1 \in 1 .. Len(all) + 1 /\ InboxCap + 1 \in (away + 1) - 1 .. Len(all)
          BY <1>0, <3>2
        <4> QED
          BY <1>0, <2>2, <3>2, <4>1, SubSeqProperties
      <3> HIDE DEF before, after
      <3>5. inbox' = before \o after
        BY <3>1 DEF before, after
      <3>6. inbox' \in Seq(Item) /\ Len(inbox') = Len(before) + Len(after)
        BY <3>3, <3>4, <3>5, ConcatProperties
      <3>7. Len(inbox') <= InboxCap
        BY <1>0, <3>2, <3>3, <3>4, <3>6
      <3> QED
        BY <1>0, <2>1, <3>6, <3>7 DEF NoticesInv
    <2> QED
      BY <2>3, <2>4
  <1>4. ASSUME NEW items, MarkInboxRead(items) PROVE NoticesInv'
    <2> DEFINE marked == [i \in DOMAIN inbox |-> [inbox[i] EXCEPT !.read = @ \/ i \in items]]
    <2>1. inbox' = marked /\ UNCHANGED <<notices, mirroring, refusals>> /\ DOMAIN inbox = 1 .. Len(inbox)
      BY <1>0, <1>4, LenProperties DEF MarkInboxRead
    <2>2. \A i \in DOMAIN inbox : [inbox[i] EXCEPT !.read = @ \/ i \in items] \in Item
      <3> SUFFICES ASSUME NEW i \in DOMAIN inbox PROVE [inbox[i] EXCEPT !.read = @ \/ i \in items] \in Item
        OBVIOUS
      <3>1. inbox[i] \in Item
        BY <1>0, <2>1, ElementOfSeq
      <3>2. (inbox[i].read \/ i \in items) \in BOOLEAN
        OBVIOUS
      <3> QED
        BY <3>1, <3>2 DEF Item
    <2>3. marked \in [1 .. Len(inbox) -> Item]
      BY <2>1, <2>2
    <2> HIDE DEF marked
    <2>4. inbox' \in Seq(Item) /\ Len(inbox') = Len(inbox)
      BY <1>0, <2>1, <2>3, AsStreams
    <2> QED
      BY <1>0, <2>1, <2>4 DEF NoticesInv
  <1>5. ASSUME UNCHANGED <<notices, mirroring, inbox, refusals>> PROVE NoticesInv'
    BY <1>5 DEF NoticesInv
  <1> QED
    BY <1>1, <1>2, <1>3, <1>4, <1>5
       DEF CentreNext, LookForOpen, WriteConflict, RecordFails, PushAccepted, Supersede, UserResolves,
           noticeVars, centreVars

LEMMA CentreTypedHolds == CentreSpec => []CentreTypeOK
  <1>1. CentreInit => CentreRows /\ NoticesInv
    <2> SUFFICES ASSUME CentreInit PROVE CentreRows /\ NoticesInv
      OBVIOUS
    <2>1. conflicts = <<>> /\ Len(conflicts) = 0 /\ notices = <<>> /\ inbox = <<>> /\ slot = 0 /\ refusals = 0 /\ mirroring = {}
          /\ Len(notices) = 0 /\ Len(inbox) = 0
      BY DEF CentreInit
    <2>2. notices \in Seq(Nat) /\ inbox \in Seq(Item)
      BY <2>1, EmptySeq
    <2>3. AskingTyped
      BY <2>1 DEF CentreInit, NoPush, AskingTyped, HandlerTyped
    <2> QED
      BY <2>1, <2>2, <2>3, CentreBounds DEF CentreRows, NoticesInv, Rows
  <1>2. CentreInv /\ CentreRows /\ NoticesInv => CentreTypeOK
    <2> SUFFICES ASSUME CentreInv, CentreRows, NoticesInv PROVE CentreTypeOK
      OBVIOUS
    <2>1. \A id \in Rows : conflicts[id] \in [client : Pushing, against : 1 .. slot, open : BOOLEAN]
      <3> SUFFICES ASSUME NEW id \in Rows PROVE conflicts[id] \in [client : Pushing, against : 1 .. slot, open : BOOLEAN]
        OBVIOUS
      <3>1. conflicts[id] \in Conflicts
        BY ElementOfSeq DEF CentreInv, Rows
      <3> QED
        BY <3>1 DEF Conflicts, CentreRows
    <2>2. \A p \in Pushes : asking[p] \in Handlers
      BY DEF CentreInv
    <2> QED
      BY <2>1, <2>2 DEF CentreInv, CentreRows, AskingTyped, HandlerTyped, NoticesInv, Handlers, Clients, CentreTypeOK
  <1>3. CentreInv /\ CentreRows /\ NoticesInv /\ [CentreNext]_centreVars => CentreInv' /\ CentreRows' /\ NoticesInv'
    BY CentreNextKeeps, CentreRowsKeep, NoticesKeep
  <1> QED
    BY <1>1, <1>2, <1>3, CentreBegins, PTL DEF CentreSpec

---------------------------------------------------------------------------
(* Sessions and accounts. *)

\* Passwords, secrets and codes are numbered as they are made.
SignInTyped(a) == signIn[a].typed <= MaxPasswords /\ live[a] <= MaxPasswords
AccountsSteps ==
  /\ tick <= MaxTicks /\ password \in 1 .. MaxPasswords /\ secret \in 0 .. MaxSecrets
  /\ factor.secret <= MaxSecrets /\ made.secrets <= MaxSecrets /\ made.codes <= MaxCodes
  /\ \A a \in SignIns : SignInTyped(a)

LEMMA AccountsStepsKeep == AccountsInv /\ AccountsSteps /\ [AccountsNext]_accountsVars => AccountsSteps'
  <1> SUFFICES ASSUME AccountsInv, AccountsSteps, [AccountsNext]_accountsVars PROVE AccountsSteps'
    OBVIOUS
  <1>0. /\ tick \in Nat /\ tick <= MaxTicks /\ password \in 1 .. MaxPasswords /\ secret \in 0 .. MaxSecrets
        /\ factor \in Factor /\ factor.secret <= MaxSecrets
        /\ made \in [secrets : Nat, codes : Nat] /\ made.secrets <= MaxSecrets /\ made.codes <= MaxCodes
        /\ signIn \in [SignIns -> SignInState] /\ live \in [SignIns -> Nat]
        /\ \A a \in SignIns : SignInTyped(a)
        /\ {MaxTicks, MaxSecrets, MaxCodes} \subseteq Nat /\ MaxPasswords \in Nat \ {0}
    BY AccountBounds DEF AccountsInv, AccountsTypes, AccountsSteps
  <1>1. CASE Tick
    BY <1>0, <1>1 DEF Tick, AccountsSteps, SignInTyped
  <1>2. ASSUME \A a \in SignIns : signIn'[a].typed \in {0, signIn[a].typed, password},
               \A a \in SignIns : live'[a] \in {0, live[a], password, signIn[a].typed}
        PROVE  \A a \in SignIns : SignInTyped(a)'
    <2> SUFFICES ASSUME NEW a \in SignIns PROVE SignInTyped(a)'
      OBVIOUS
    <2> QED
      BY <1>0, <1>2 DEF SignInTyped
  <1>3. Away.typed = 0 /\ \A a \in SignIns : signIn[a] \in SignInState
    BY <1>0 DEF Away
  <1>4. ASSUME NEW a \in SignIns,
               TypePassword(a) \/ RightPassword(a) \/ ComparedAgain(a) \/ SignedIn(a) \/ GiveUp(a) \/ SignOut(a)
        PROVE  AccountsSteps'
    <2>1. UNCHANGED <<tick, password, secret, made, factor>>
      BY <1>4 DEF TypePassword, RightPassword, ComparedAgain, SignedIn, GiveUp, SignOut
    <2>2. \A b \in SignIns : live'[b] \in {0, live[b], password, signIn[b].typed}
      <3>1. live' \in {live, [live EXCEPT ![a] = signIn[a].typed], [live EXCEPT ![a] = 0]}
        BY <1>4 DEF TypePassword, RightPassword, ComparedAgain, SignedIn, GiveUp, SignOut
      <3> QED
        BY <1>0, <3>1
    <2>3. \A b \in SignIns : signIn'[b].typed \in {0, signIn[b].typed, password}
      <3>1. PICK x : signIn' = [signIn EXCEPT ![a] = x] /\ x.typed \in {0, signIn[a].typed, password}
        <4>1. CASE TypePassword(a)
          <5> DEFINE x == [Away EXCEPT !.at = "comparing", !.typed = password]
          <5>1. x.typed = password
            BY DEF Away
          <5>2. signIn' = [signIn EXCEPT ![a] = x]
            BY <4>1 DEF TypePassword
          <5> HIDE DEF x
          <5> QED
            BY <5>1, <5>2
        <4>2. CASE RightPassword(a)
          <5> DEFINE x(at) == [signIn[a] EXCEPT !.at = at]
          <5>1. \A at : x(at).typed = signIn[a].typed
            BY <1>3 DEF SignInState
          <5>2. \E at : signIn' = [signIn EXCEPT ![a] = x(at)]
            BY <4>2 DEF RightPassword
          <5> HIDE DEF x
          <5> QED
            BY <5>1, <5>2
        <4>3. CASE ComparedAgain(a)
          <5>1. [signIn[a] EXCEPT !.at = "accepted"].typed = signIn[a].typed
            BY <1>3 DEF SignInState
          <5> QED
            BY <4>3, <1>3, <5>1 DEF ComparedAgain
        <4>4. CASE SignedIn(a)
          <5> DEFINE x == [Away EXCEPT !.proved = signIn[a].proved, !.early = signIn[a].early]
          <5>1. x.typed = 0
            BY DEF Away
          <5>2. signIn' = [signIn EXCEPT ![a] = x]
            BY <4>4 DEF SignedIn
          <5> HIDE DEF x
          <5> QED
            BY <5>1, <5>2
        <4>5. CASE GiveUp(a) \/ SignOut(a)
          BY <4>5, <1>3 DEF GiveUp, SignOut
        <4> QED
          BY <1>4, <4>1, <4>2, <4>3, <4>4, <4>5
      <3> QED
        BY <1>0, <3>1
    <2>4. \A b \in SignIns : SignInTyped(b)'
      BY <1>2, <2>2, <2>3
    <2> QED
      BY <1>0, <2>1, <2>4 DEF AccountsSteps
  <1>5. ASSUME NEW a \in SignIns, NEW c, GiveCode(a, c) \/ GiveRecoveryCode(a, c) PROVE AccountsSteps'
    <2>1. UNCHANGED <<tick, password, secret, made, factor, live>>
      BY <1>5 DEF GiveCode, GiveRecoveryCode
    <2> DEFINE x == [[signIn[a] EXCEPT !.at = "accepted"] EXCEPT !.proved = TRUE]
    <2>2. x.typed = signIn[a].typed
      BY <1>3 DEF SignInState
    <2>3. signIn' = [signIn EXCEPT ![a] = x]
      BY <1>0, <1>5 DEF GiveCode, GiveRecoveryCode
    <2> HIDE DEF x
    <2>4. \A b \in SignIns : SignInTyped(b)'
      BY <1>0, <1>2, <2>1, <2>2, <2>3
    <2> QED
      BY <1>0, <2>1, <2>4 DEF AccountsSteps
  <1>6. ASSUME NEW who, SignsOut(who) PROVE \A a \in SignIns : SignInTyped(a)'
    <2>1. \A a \in SignIns : live'[a] \in {0, live[a]}
      BY <1>6 DEF SignsOut
    <2>2. \A a \in SignIns : signIn'[a].typed = signIn[a].typed
      <3> SUFFICES ASSUME NEW a \in SignIns PROVE signIn'[a].typed = signIn[a].typed
        OBVIOUS
      <3>1. signIn'[a] \in {signIn[a], [signIn[a] EXCEPT !.early = TRUE]}
        BY <1>6 DEF SignsOut, Underway
      <3>2. [signIn[a] EXCEPT !.early = TRUE].typed = signIn[a].typed
        BY <1>3 DEF SignInState
      <3> QED
        BY <3>1, <3>2
    <2> QED
      BY <1>2, <2>1, <2>2
  <1>7. ASSUME NEW a \in SignIns, ChangePassword(a) PROVE AccountsSteps'
    <2>1. /\ password < MaxPasswords /\ password' = password + 1 /\ live' = [live EXCEPT ![a] = password + 1]
          /\ UNCHANGED <<tick, secret, made, signIn, factor>>
      BY <1>7 DEF ChangePassword
    <2>2. \A b \in SignIns : SignInTyped(b)'
      BY <1>0, <2>1 DEF SignInTyped
    <2> QED
      BY <1>0, <2>1, <2>2 DEF AccountsSteps
  <1>8. CASE ChangeRevokesTokens \/ ChangeDropsSessions \/ ChangeStepFails
    <2>1. UNCHANGED <<tick, password, secret, made, factor>>
      BY <1>8 DEF ChangeRevokesTokens, ChangeDropsSessions, ChangeStepFails
    <2>2. UNCHANGED <<signIn, live>> \/ \E who : SignsOut(who)
      BY <1>8 DEF ChangeRevokesTokens, ChangeDropsSessions, ChangeStepFails
    <2>3. \A b \in SignIns : SignInTyped(b)'
      BY <1>0, <1>2, <1>6, <2>2
    <2> QED
      BY <1>0, <2>1, <2>3 DEF AccountsSteps
  <1>9. ASSUME NEW c \in AuthCodes, ConfirmSecret(c) PROVE AccountsSteps'
    <2>1. /\ made.secrets < MaxSecrets /\ made' = [made EXCEPT !.secrets = @ + 1]
          /\ factor' = [at |-> "secret", secret |-> made.secrets + 1]
          /\ UNCHANGED <<tick, password, secret, signIn, live>>
      BY <1>9 DEF ConfirmSecret
    <2>2. made'.secrets = made.secrets + 1 /\ made'.codes = made.codes /\ factor'.secret = made.secrets + 1
      BY <1>0, <2>1
    <2>3. \A b \in SignIns : SignInTyped(b)'
      BY <1>0, <1>2, <2>1
    <2> QED
      BY <1>0, <2>1, <2>2, <2>3 DEF AccountsSteps
  <1>10. ASSUME NEW c \in AuthCodes, ConfirmDisabling(c) PROVE AccountsSteps'
    <2>1. factor'.secret = 0 /\ UNCHANGED <<tick, password, secret, made, signIn, live>>
      BY <1>10 DEF ConfirmDisabling
    <2>2. \A b \in SignIns : SignInTyped(b)'
      BY <1>0, <1>2, <2>1
    <2> QED
      BY <1>0, <2>1, <2>2 DEF AccountsSteps
  <1>11. CASE SetTOTPSecret \/ SetTOTPEnabled \/ FactorRevokesTokens \/ FactorStepFails
    <2>1. UNCHANGED <<tick, password, made>> /\ secret' \in {secret, factor.secret}
      BY <1>11 DEF SetTOTPSecret, SetTOTPEnabled, FactorRevokesTokens, FactorStepFails
    <2>2. factor' = NoFactor \/ \E at : factor' = [factor EXCEPT !.at = at]
      BY <1>11 DEF SetTOTPSecret, SetTOTPEnabled, FactorRevokesTokens, FactorStepFails
    <2>3. factor'.secret \in {0, factor.secret} /\ factor.secret \in Nat
      BY <1>0, <2>2 DEF NoFactor, Factor
    <2>4. UNCHANGED <<signIn, live>> \/ \E who : SignsOut(who)
      BY <1>11 DEF SetTOTPSecret, SetTOTPEnabled, FactorRevokesTokens, FactorStepFails
    <2>5. \A b \in SignIns : SignInTyped(b)'
      BY <1>0, <1>2, <1>6, <2>4
    <2> QED
      BY <1>0, <2>1, <2>3, <2>5 DEF AccountsSteps
  <1>12. CASE FactorEnds \/ RegenerateCodes
    <2>1. UNCHANGED <<tick, password, secret, signIn, live>> /\ factor' \in {factor, NoFactor}
      BY <1>12 DEF FactorEnds, RegenerateCodes
    <2>2. made' = made \/ (made.codes < MaxCodes /\ made' = [made EXCEPT !.codes = @ + 1])
      BY <1>12 DEF FactorEnds, RegenerateCodes, NewCodes
    <2>3. made'.secrets = made.secrets /\ made'.codes <= MaxCodes
      BY <1>0, <2>2
    <2>4. factor'.secret <= MaxSecrets
      BY <1>0, <2>1 DEF NoFactor
    <2>5. \A b \in SignIns : SignInTyped(b)'
      BY <1>0, <1>2, <2>1
    <2> QED
      BY <1>0, <2>1, <2>3, <2>4, <2>5 DEF AccountsSteps
  <1>13. CASE RestartAccounts
    <2>1. /\ UNCHANGED <<tick, password, secret, made, live>> /\ factor' = NoFactor
          /\ \A a \in SignIns : signIn'[a] \in {Away, signIn[a]}
      BY <1>13 DEF RestartAccounts
    <2>2. \A b \in SignIns : SignInTyped(b)'
      BY <1>0, <1>2, <1>3, <2>1
    <2> QED
      BY <1>0, <2>1, <2>2 DEF AccountsSteps, NoFactor
  <1>14. CASE UNCHANGED accountsVars
    BY <1>0, <1>14 DEF accountsVars, AccountsSteps, SignInTyped
  <1> QED
    BY <1>1, <1>4, <1>5, <1>7, <1>8, <1>9, <1>10, <1>11, <1>12, <1>13, <1>14 DEF AccountsNext

LEMMA AccountsTyped == AccountsSpec => []AccountsTypeOK
  <1>1. AccountsInit => AccountsSteps
    BY AccountBounds DEF AccountsInit, AccountsSteps, SignInTyped, Away, NoFactor
  <1>2. AccountsInv /\ AccountsSteps => AccountsTypeOK
    <2> SUFFICES ASSUME AccountsInv, AccountsSteps PROVE AccountsTypeOK
      OBVIOUS
    <2>1. \A a \in SignIns : signIn[a] \in [at : {"away", "comparing", "again", "second", "accepted"},
                                            typed : 0 .. MaxPasswords, proved : BOOLEAN, early : BOOLEAN]
      <3> SUFFICES ASSUME NEW a \in SignIns
                   PROVE  signIn[a] \in [at : {"away", "comparing", "again", "second", "accepted"},
                                         typed : 0 .. MaxPasswords, proved : BOOLEAN, early : BOOLEAN]
        OBVIOUS
      <3>1. signIn[a] \in SignInState /\ signIn[a].typed <= MaxPasswords
        BY DEF AccountsInv, AccountsTypes, AccountsSteps, SignInTyped
      <3> QED
        BY <3>1, AccountBounds DEF SignInState
    <2>2. signIn \in [SignIns -> [at : {"away", "comparing", "again", "second", "accepted"},
                                  typed : 0 .. MaxPasswords, proved : BOOLEAN, early : BOOLEAN]]
      BY <2>1 DEF AccountsInv, AccountsTypes
    <2>3. live \in [SignIns -> 0 .. MaxPasswords]
      BY AccountBounds DEF AccountsInv, AccountsTypes, AccountsSteps, SignInTyped
    <2>4. made \in [secrets : 0 .. MaxSecrets, codes : 0 .. MaxCodes]
      BY AccountBounds DEF AccountsInv, AccountsTypes, AccountsSteps
    <2> QED
      BY <2>2, <2>3, <2>4, AccountBounds
         DEF AccountsInv, AccountsTypes, AccountsSteps, Change, Factor, AccountsTypeOK
  <1> QED
    BY <1>1, <1>2, AccountsBegin, AccountsNextKeeps, AccountsStepsKeep, PTL DEF AccountsSpec

---------------------------------------------------------------------------
(* Login protection. *)

\* The clock and the failures stay within their bounds, and an attempt is
\* under way or it is not.
LockSteps == attempt \in [Attempts -> {"none", "comparing"}] /\ minute \in 0 .. MaxMinutes /\ wrong \in 0 .. MaxFailures

LEMMA LockStepsKeep == LockInv /\ LockSteps /\ [LockNext]_lockVars => LockSteps'
  <1> SUFFICES ASSUME LockInv, LockSteps, [LockNext]_lockVars PROVE LockSteps'
    OBVIOUS
  <1> USE LockBounds DEF LockSteps
  <1>1. CASE MinutePasses
    BY <1>1 DEF MinutePasses
  <1>2. ASSUME NEW a \in Attempts, AttemptBegins(a) \/ AttemptFails(a) \/ AttemptSucceeds(a) PROVE LockSteps'
    BY <1>2 DEF AttemptBegins, AttemptFails, AttemptSucceeds
  <1>3. CASE LockRestart
    BY <1>3 DEF LockRestart
  <1>4. CASE UNCHANGED lockVars
    BY <1>4 DEF lockVars
  <1> QED
    BY <1>1, <1>2, <1>3, <1>4 DEF LockNext

\* The lock of an account is well typed.
LEMMA LockTyped == LockSpec => []LockTypeOK
  <1>1. LockInit => LockSteps
    BY LockBounds DEF LockInit, LockSteps
  <1>2. LockInv /\ LockSteps => LockTypeOK
    <2> SUFFICES ASSUME LockInv, LockSteps PROVE LockTypeOK
      OBVIOUS
    <2>1. fails \in Seq(0 .. minute) /\ minute \in Nat
      BY DEF LockInv, LockTypes
    <2>2. fails \in Seq(Nat)
      BY <2>1, SeqDef
    <2> QED
      BY <2>2 DEF LockInv, LockTypes, LockSteps, LockTypeOK
  <1> QED
    BY <1>1, <1>2, LockBegins, LockNextKeeps, LockStepsKeep, PTL DEF LockSpec

---------------------------------------------------------------------------
(* Users and administration. *)

\* A request that is past the choice of an account is about one.
UsersSteps ==
  /\ tied \subseteq AccountIds /\ devices \subseteq AccountIds /\ saves \subseteq AccountIds /\ stored \subseteq AccountIds
  /\ flagged \subseteq AccountIds
  /\ \A r \in Requests : request[r].at \notin {"idle", "register"} => request[r].on \in AccountIds
  /\ setup \in BOOLEAN /\ cut \subseteq AccountIds /\ mishaps \in 0 .. MaxMishaps

\* A request moves on, for an account.
LEMMA UsersRequestTyped ==
  ASSUME UsersInv, UsersSteps, NEW r \in Requests, NEW q,
         q.at \notin {"idle", "register"} => q.on \in AccountIds, request' = [request EXCEPT ![r] = q]
  PROVE  \A s \in Requests : request'[s].at \notin {"idle", "register"} => request'[s].on \in AccountIds
  BY DEF UsersSteps, UsersInv, UsersTypes

LEMMA UsersStepsKeep == UsersInv /\ UsersSteps /\ [UsersNext]_usersVars => UsersSteps'
  <1> SUFFICES ASSUME UsersInv, UsersSteps, [UsersNext]_usersVars PROVE UsersSteps'
    OBVIOUS
  <1> DEFINE Asked == \A s \in Requests : request'[s].at \notin {"idle", "register"} => request'[s].on \in AccountIds
  <1>0. /\ tied \subseteq AccountIds /\ devices \subseteq AccountIds /\ saves \subseteq AccountIds /\ stored \subseteq AccountIds
        /\ flagged \subseteq AccountIds
        /\ setup \in BOOLEAN /\ cut \subseteq AccountIds /\ mishaps \in 0 .. MaxMishaps
    BY DEF UsersSteps
  <1>1. \A r \in Requests : Ends(r) => Asked
    BY UsersRequestTyped DEF Ends, Idle
  <1>2. \A r \in Requests, u \in AccountIds : \A at : To(r, at, u) => Asked
    <2> SUFFICES ASSUME NEW r \in Requests, NEW u \in AccountIds, NEW at, To(r, at, u) PROVE Asked
      OBVIOUS
    <2> DEFINE q == [at |-> at, on |-> u]
    <2>1. q.on \in AccountIds /\ request' = [request EXCEPT ![r] = q]
      BY DEF To
    <2> HIDE DEF q
    <2> QED
      BY <2>1, UsersRequestTyped
  <1>3. Mishap => mishaps' \in 0 .. MaxMishaps
    BY <1>0, UsersBounds DEF Mishap
  <1>4. ASSUME NEW r \in Requests, SetupBegins(r) PROVE UsersSteps'
    <2>1. Asked
      <3> DEFINE q == [at |-> "register", on |-> 0]
      <3>1. q.at = "register" /\ request' = [request EXCEPT ![r] = q]
        BY <1>4 DEF SetupBegins, To
      <3> HIDE DEF q
      <3> QED
        BY <3>1, UsersRequestTyped
    <2> HIDE DEF Asked
    <2>2. UNCHANGED <<flagged, users, tied, devices, saves, stored, setup, cut, mishaps>>
      BY <1>4 DEF SetupBegins
    <2> QED
      BY <1>0, <2>1, <2>2 DEF UsersSteps, Asked, AccountIds
  <1>5. ASSUME NEW r \in Requests, SetupRegisters(r) PROVE UsersSteps'
    <2>1. Asked
      BY <1>2, <1>5 DEF SetupRegisters
    <2> HIDE DEF Asked
    <2>2. UNCHANGED <<flagged, tied, devices, saves, stored, setup, cut, mishaps>>
      BY <1>5 DEF SetupRegisters
    <2> QED
      BY <1>0, <2>1, <2>2 DEF UsersSteps, Asked, AccountIds
  <1>6. ASSUME NEW r \in Requests, SetupPromotes(r) PROVE UsersSteps'
    <2>1. Asked /\ request[r].on \in AccountIds
      BY <1>1, <1>6 DEF SetupPromotes, UsersSteps
    <2> HIDE DEF Asked
    <2>2. UNCHANGED <<flagged, devices, saves, stored, cut, mishaps>> /\ tied' \subseteq tied \cup {request[r].on} /\ setup' = FALSE
      BY <1>6 DEF SetupPromotes
    <2> QED
      BY <1>0, <2>1, <2>2 DEF UsersSteps, Asked, AccountIds
  <1>7. ASSUME NEW r \in Requests, SetupFails(r) PROVE UsersSteps'
    <2>1. Asked /\ mishaps' \in 0 .. MaxMishaps
      BY <1>1, <1>3, <1>7 DEF SetupFails
    <2> HIDE DEF Asked
    <2>2. UNCHANGED <<flagged, tied, devices, saves, stored, cut>> /\ setup' \in BOOLEAN
      BY <1>0, <1>7 DEF SetupFails
    <2> QED
      BY <1>0, <2>1, <2>2 DEF UsersSteps, Asked, AccountIds
  <1>8. ASSUME NEW r \in Requests, NEW by \in AccountIds, NEW u \in AccountIds, AdminAsks(r, by, u) PROVE UsersSteps'
    <2>1. Asked
      BY <1>2, <1>8 DEF AdminAsks
    <2> HIDE DEF Asked
    <2>2. UNCHANGED <<flagged, tied, devices, saves, stored, setup, cut, mishaps>>
      BY <1>8 DEF AdminAsks
    <2> QED
      BY <1>0, <2>1, <2>2 DEF UsersSteps, Asked, AccountIds
  <1>9. ASSUME NEW r \in Requests, Disables(r) PROVE UsersSteps'
    <2>1. Asked
      BY <1>1, <1>9 DEF Disables
    <2> HIDE DEF Asked
    <2>2. UNCHANGED <<flagged, tied, devices, saves, stored, setup, cut, mishaps>>
      BY <1>9 DEF Disables
    <2> QED
      BY <1>0, <2>1, <2>2 DEF UsersSteps, Asked, AccountIds
  <1>10. ASSUME NEW r \in Requests, ReadsPaths(r) PROVE UsersSteps'
    <2>1. request[r].on \in AccountIds
      BY <1>10 DEF ReadsPaths, UsersSteps
    <2>2. Asked
      BY <1>2, <1>10, <2>1 DEF ReadsPaths
    <2> HIDE DEF Asked
    <2>3. UNCHANGED <<flagged, tied, devices, saves, stored, setup, cut, mishaps>>
      BY <1>10 DEF ReadsPaths
    <2> QED
      BY <1>0, <2>2, <2>3 DEF UsersSteps, Asked, AccountIds
  <1>11. ASSUME NEW r \in Requests, DeletesRows(r) PROVE UsersSteps'
    <2>1. request[r].on \in AccountIds
      BY <1>11 DEF DeletesRows, UsersSteps
    <2>2. Asked
      BY <1>1, <1>2, <1>11, <2>1 DEF DeletesRows
    <2> HIDE DEF Asked
    <2>3. UNCHANGED <<flagged, tied, stored, setup, cut, mishaps>> /\ devices' \subseteq devices /\ saves' \subseteq saves
      BY <1>11 DEF DeletesRows
    <2> QED
      BY <1>0, <2>2, <2>3 DEF UsersSteps, Asked, AccountIds
  <1>12. ASSUME NEW r \in Requests, RemovesFiles(r) PROVE UsersSteps'
    <2>1. Asked
      BY <1>1, <1>12 DEF RemovesFiles
    <2> HIDE DEF Asked
    <2>2. UNCHANGED <<flagged, tied, devices, saves, setup, cut, mishaps>> /\ stored' \subseteq stored
      BY <1>12 DEF RemovesFiles
    <2> QED
      BY <1>0, <2>1, <2>2 DEF UsersSteps, Asked, AccountIds
  <1>13. ASSUME NEW r \in Requests, NEW u \in AccountIds, UploadBegins(r, u) PROVE UsersSteps'
    <2>1. Asked
      BY <1>2, <1>13 DEF UploadBegins
    <2> HIDE DEF Asked
    <2>2. UNCHANGED <<flagged, tied, devices, saves, stored, setup, cut, mishaps>>
      BY <1>13 DEF UploadBegins
    <2> QED
      BY <1>0, <2>1, <2>2 DEF UsersSteps, Asked, AccountIds
  <1>20. ASSUME NEW r \in Requests, NEW u \in AccountIds, ScanBegins(r, u) PROVE UsersSteps'
    <2>1. Asked
      BY <1>2, <1>20 DEF ScanBegins
    <2> HIDE DEF Asked
    <2>2. UNCHANGED <<flagged, tied, devices, saves, stored, setup, cut, mishaps>>
      BY <1>20 DEF ScanBegins
    <2> QED
      BY <1>0, <2>1, <2>2 DEF UsersSteps, Asked, AccountIds
  <1>21. ASSUME NEW r \in Requests, FlagsAccount(r) PROVE UsersSteps'
    <2>1. Asked /\ request[r].on \in AccountIds
      BY <1>1, <1>21 DEF FlagsAccount, UsersSteps
    <2> HIDE DEF Asked
    <2>2. UNCHANGED <<tied, devices, saves, stored, setup, cut, mishaps>> /\ flagged' \subseteq flagged \cup {request[r].on}
      BY <1>21 DEF FlagsAccount
    <2> QED
      BY <1>0, <2>1, <2>2 DEF UsersSteps, Asked, AccountIds
  <1>14. ASSUME NEW r \in Requests, UploadCommits(r) \/ UploadFails(r) PROVE UsersSteps'
    <2>1. Asked /\ request[r].on \in AccountIds
      BY <1>1, <1>14 DEF UploadCommits, UploadFails, UsersSteps
    <2> HIDE DEF Asked
    <2>2. /\ UNCHANGED <<flagged, tied, devices, setup, cut>> /\ saves' \subseteq saves \cup {request[r].on}
          /\ stored' \subseteq stored \cup {request[r].on} /\ (mishaps' = mishaps \/ Mishap)
      BY <1>14 DEF UploadCommits, UploadFails
    <2> QED
      BY <1>0, <1>3, <2>1, <2>2 DEF UsersSteps, Asked, AccountIds
  <1>15. ASSUME NEW r \in Requests, DeletionFails(r) PROVE UsersSteps'
    <2>1. Asked /\ request[r].on \in AccountIds /\ mishaps' \in 0 .. MaxMishaps
      BY <1>1, <1>3, <1>15 DEF DeletionFails, UsersSteps
    <2> HIDE DEF Asked
    <2>2. UNCHANGED <<flagged, tied, devices, saves, stored, setup>> /\ cut' \subseteq cut \cup {request[r].on}
      BY <1>15 DEF DeletionFails
    <2> QED
      BY <1>0, <2>1, <2>2 DEF UsersSteps, Asked, AccountIds
  <1>16. CASE Register \/ WizardEnds
    BY <1>16 DEF Register, WizardEnds, UsersSteps, AccountIds
  <1>17. ASSUME NEW u \in AccountIds,
                \/ AdminCreates(u) \/ OwnerLeavesRows(u) \/ LastRowGoes(u) \/ DeviceSignsIn(u)
                \/ \E v \in AccountIds : RevokesClient(u, v)
         PROVE  UsersSteps'
    <2>1. UNCHANGED <<flagged, saves, stored, request, setup, cut, mishaps>>
      BY <1>17 DEF AdminCreates, OwnerLeavesRows, LastRowGoes, DeviceSignsIn, RevokesClient
    <2>2. tied' \subseteq tied \cup {u} /\ devices' \subseteq devices \cup {u}
      BY <1>17 DEF AdminCreates, OwnerLeavesRows, LastRowGoes, DeviceSignsIn, RevokesClient
    <2> QED
      BY <1>0, <2>1, <2>2 DEF UsersSteps, AccountIds
  <1>18. CASE RestartUsers
    <2>1. /\ request' = [r \in Requests |-> Idle] /\ UNCHANGED <<flagged, tied, devices, saves, stored>> /\ Mishap
          /\ cut' = cut \cup {request[r].on : r \in {q \in Requests : request[q].at = "files"}}
          /\ setup' \in BOOLEAN
      BY <1>18 DEF RestartUsers
    <2>2. cut' \subseteq AccountIds
      <3>1. \A r \in {q \in Requests : request[q].at = "files"} : request[r].on \in AccountIds
        BY DEF UsersSteps
      <3> QED
        BY <1>0, <2>1, <3>1
    <2>3. Asked
      BY <2>1 DEF Idle
    <2> HIDE DEF Asked
    <2> QED
      BY <1>0, <1>3, <2>1, <2>2, <2>3 DEF UsersSteps, Asked, AccountIds
  <1>19. CASE UNCHANGED usersVars
    BY <1>19 DEF usersVars, UsersSteps, AccountIds
  <1> QED
    BY <1>4, <1>5, <1>6, <1>7, <1>8, <1>9, <1>10, <1>11, <1>12, <1>13, <1>14, <1>15, <1>16, <1>17, <1>18, <1>19,
       <1>20, <1>21
       DEF UsersNext

LEMMA UsersTyped == UsersSpec => []UsersTypeOK
  <1>1. UsersInit => UsersSteps
    BY UsersBounds DEF UsersInit, UsersSteps, Idle
  <1>2. UsersInv /\ UsersSteps => UsersTypeOK
    BY DEF UsersInv, UsersTypes, UserRow, UserRequest, UsersSteps, UsersTypeOK
  <1> QED
    BY <1>1, <1>2, UsersBegin, UsersNextKeeps, UsersStepsKeep, PTL DEF UsersSpec

---------------------------------------------------------------------------
(* The cover cache. *)

\* The locks of the covers: each is held by a request or by nobody.
CoverSteps ==
  /\ marker \in {"none", "fresh", "old"} /\ holder \in [Locks -> Viewers \cup {Nobody}]
  /\ clearing \subseteq {"art", "marker"}
  /\ views \in 0 .. MaxViews /\ older \in 0 .. MaxOlder /\ broken \in 0 .. MaxBroken

LEMMA CoverStepsKeep == CoverInv /\ CoverSteps /\ [CoverNext]_coverVars => CoverSteps'
  <1> SUFFICES ASSUME CoverInv, CoverSteps, [CoverNext]_coverVars PROVE CoverSteps'
    OBVIOUS
  <1> USE CoverBounds DEF CoverSteps
  <1>1. ASSUME NEW v \in Viewers, Comes(v) PROVE CoverSteps'
    BY <1>1 DEF Comes
  <1>2. ASSUME NEW v \in Viewers, Leaves(v) PROVE CoverSteps'
    BY <1>2 DEF Leaves, Ages
  <1>3. ASSUME NEW v \in Viewers, TakesLock(v) \/ Unlocks(v) PROVE CoverSteps'
    BY <1>3 DEF TakesLock, Unlocks
  <1>4. ASSUME NEW v \in Viewers, Fetches(v) \/ Caches(v) PROVE CoverSteps'
    BY <1>4 DEF Fetches, Caches, Breaks
  <1>5. ASSUME NEW v \in Viewers,
               \/ LooksForArt(v) \/ Known(v) \/ TakesEntry(v) \/ KnownHeld(v) \/ Serves(v)
               \/ ServesHeld(v) \/ Refuses(v) \/ DeletesEntry(v)
        PROVE  CoverSteps'
    <2>1. UNCHANGED <<marker, holder, clearing, views, older, broken>>
      BY <1>5 DEF LooksForArt, Known, TakesEntry, KnownHeld, Serves, ServesHeld, Refuses, DeletesEntry
    <2> QED
      BY <2>1
  <1>6. ASSUME NEW v \in Viewers, Marks(v) \/ Unmarks(v) PROVE CoverSteps'
    BY <1>6 DEF Marks, Unmarks
  <1>7. CASE ClearLists \/ ClearArt \/ ClearMarker \/ MarkerAges
    BY <1>7 DEF ClearLists, ClearArt, ClearMarker, MarkerAges, Ages
  <1>8. CASE UNCHANGED coverVars
    BY <1>8 DEF coverVars
  <1> QED
    BY <1>1, <1>2, <1>3, <1>4, <1>5, <1>6, <1>7, <1>8 DEF CoverNext

LEMMA CoverTyped == CoverSpec => []CoverTypeOK
  <1>1. CoverInit => CoverSteps
    BY CoverBounds DEF CoverInit, CoverSteps
  <1>2. CoverInv /\ CoverSteps => CoverTypeOK
    BY DEF CoverInv, ArtInv, TypesInv, Request, Labels, CoverSteps, CoverTypeOK
  <1> QED
    BY <1>1, <1>2, InitCoverInv, CoverStep, CoverStepsKeep, PTL DEF CoverSpec

---------------------------------------------------------------------------
(* The server's settings. *)

SettingsSteps ==
  /\ pinned \subseteq {"schedule", "register", "backup"} /\ excused \subseteq {"schedule", "web", "api", "backup"}
  /\ begun \in 0 .. MaxForms /\ lapses \in 0 .. MaxLapses

LEMMA SettingsStepsKeep == SettingsInv /\ SettingsSteps /\ [SettingsNext]_settingsVars => SettingsSteps'
  <1> SUFFICES ASSUME SettingsInv, SettingsSteps, [SettingsNext]_settingsVars PROVE SettingsSteps'
    OBVIOUS
  <1> USE SettingsBounds DEF SettingsSteps
  <1>1. ASSUME NEW f \in Forms, SaveBegins(f) PROVE SettingsSteps'
    BY <1>1 DEF SaveBegins
  <1>2. ASSUME NEW f \in Forms, SavesSchedule(f) \/ SavesBackup(f) \/ ReadsSettings(f) PROVE SettingsSteps'
    BY <1>2 DEF SavesSchedule, SavesBackup, ReadsSettings
  <1>3. ASSUME NEW f \in Forms, SaveEnds(f) \/ ReadFails(f) PROVE SettingsSteps'
    BY <1>3 DEF SaveEnds, ReadFails, Lapses
  <1>4. ASSUME NEW f \in Forms, Reschedules(f) PROVE SettingsSteps'
    <2>1. UNCHANGED <<pinned, begun, lapses>> /\ excused' \subseteq excused \cup {"schedule"}
      BY <1>4 DEF Reschedules
    <2> QED
      BY <2>1
  <1>5. CASE WizardSaves
    <2>1. UNCHANGED <<pinned, begun>> /\ excused' \subseteq excused \cup {"backup", "web", "api"}
      BY <1>5 DEF WizardSaves
    <2>2. lapses' = lapses \/ Lapses
      BY <1>5 DEF WizardSaves
    <2> QED
      BY <2>1, <2>2 DEF Lapses
  <1>6. CASE WizardApplies
    <2>1. UNCHANGED <<pinned, begun, lapses>> /\ excused' \subseteq excused
      BY <1>6 DEF WizardApplies
    <2> QED
      BY <2>1
  <1>7. CASE RestartSettings
    BY <1>7 DEF RestartSettings, Lapses
  <1>8. CASE UNCHANGED settingsVars
    BY <1>8 DEF settingsVars
  <1> QED
    BY <1>1, <1>2, <1>3, <1>4, <1>5, <1>6, <1>7, <1>8 DEF SettingsNext

LEMMA SettingsTyped == SettingsSpec => []SettingsTypeOK
  <1>1. SettingsInit => SettingsSteps
    BY SettingsBounds DEF SettingsInit, SettingsSteps
  <1>2. SettingsInv /\ SettingsSteps => SettingsTypeOK
    BY DEF SettingsInv, SettingsTypes, SettingRows, Working, SavingForm, SettingsSteps, SettingsTypeOK
  <1> QED
    BY <1>1, <1>2, SettingsBegin, SettingsNextKeeps, SettingsStepsKeep, PTL DEF SettingsSpec

---------------------------------------------------------------------------
(* Encryption. *)

\* Whatever anybody holds is an answer the account has given, and there is room
\* for the one that enabling is to cause.
Answers == 0 .. MaxChanges + 2
PartyAnswers == \A c \in Processes : party[c].answer \in Answers /\ party[c].knew \in Answers
AskerAnswers == \A r \in 1 .. MaxRuns : lateAsker[r].answer \in Answers
CacheAnswers == told \in Answers /\ remembered \in Answers /\ faults \in 0 .. MaxFaults
AccountAnswers ==
  /\ account \in 1 .. MaxChanges + 2 /\ enabling.answer \in Answers
  /\ enabling.at = "saved" => account <= MaxChanges + 1
EncryptionSteps == PartyAnswers /\ AskerAnswers /\ CacheAnswers /\ AccountAnswers /\ loopRun \in 0 .. MaxRuns

LEMMA PartyHolds ==
  ASSUME PartiesInv, PartyAnswers, NEW c \in Processes, NEW p, p.answer \in Answers, p.knew \in Answers,
         party' = [party EXCEPT ![c] = p]
  PROVE  PartyAnswers'
  BY DEF PartiesInv, PartyAnswers

LEMMA AskerHolds ==
  ASSUME AnswersInv, AskerAnswers, NEW r \in 1 .. MaxRuns, NEW a, a.answer \in Answers,
         lateAsker' = [lateAsker EXCEPT ![r] = a]
  PROVE  AskerAnswers'
  BY DEF AnswersInv, AskerAnswers

LEMMA CacheHolds ==
  ASSUME CacheAnswers, NEW n \in Answers, KeepAnswer(n) \/ WriteBack(n)
  PROVE  CacheAnswers'
  <1>1. told \in Int /\ n \in Int /\ Answers \subseteq Int
    BY EncryptionBounds DEF CacheAnswers, Answers
  <1>2. \E x \in {told, n} : \A y \in {told, n} : x >= y
    BY <1>1
  <1>3. Max({told, n}) \in {told, n}
    BY <1>2 DEF Max
  <1>4. told' \in Answers /\ remembered' \in Answers
    BY <1>3 DEF CacheAnswers, KeepAnswer, WriteBack
  <1>5. faults' \in 0 .. MaxFaults
    BY EncryptionBounds DEF CacheAnswers, KeepAnswer, WriteBack
  <1> QED
    BY <1>4, <1>5 DEF CacheAnswers

LEMMA AnswersAreRead ==
  ASSUME NEW n \in Answers
  PROVE  AsRead(n) \in Answers
  BY EncryptionBounds DEF AsRead, Answers

LEMMA StartHolds ==
  ASSUME EncryptionInv, EncryptionSteps, LoopStarts, UNCHANGED <<account, told, remembered, faults>>,
         enabling' \in {enabling, NotEnabling}
  PROVE  EncryptionSteps'
  <1>0. Never \in Answers
    BY EncryptionBounds DEF Never, Answers
  <1>1. PartyAnswers'
    <2> DEFINE p == [NotRunning EXCEPT !.at = "asks", !.key = passphrase]
    <2>1. party' = [party EXCEPT !["loop"] = p] /\ p.answer = Never /\ p.knew = Never /\ "loop" \in Processes
      BY DEF LoopStarts, Begun, NotRunning, Processes
    <2> HIDE DEF p
    <2> QED
      BY <1>0, <2>1, PartyHolds DEF EncryptionInv, EncryptionSteps
  <1>2. AskerAnswers'
    <2> SUFFICES ASSUME NEW r \in 1 .. MaxRuns PROVE lateAsker'[r].answer = lateAsker[r].answer
      BY DEF EncryptionSteps, AskerAnswers
    <2>1. lateAsker[r] \in Asker
      BY DEF EncryptionInv, AnswersInv
    <2> QED
      BY <2>1 DEF LoopStarts, Asker
  <1>3. loopRun' \in 0 .. MaxRuns
    BY EncryptionBounds DEF LoopStarts, EncryptionSteps
  <1>4. AccountAnswers' /\ CacheAnswers'
    BY <1>0 DEF EncryptionSteps, AccountAnswers, CacheAnswers, NotEnabling
  <1> QED
    BY <1>1, <1>2, <1>3, <1>4 DEF EncryptionSteps

\* A client's own step.
LEMMA ClientHolds ==
  ASSUME EncryptionInv, EncryptionSteps, NEW c \in Processes,
         \/ AnswerComes(c) \/ AnswerApplies(c) \/ AnswerKept(c) \/ NoAnswer(c)
         \/ LooksRead \/ LooksKept \/ CommandStarts \/ CommandEnds
  PROVE  EncryptionSteps'
  <1>0. /\ PartiesInv /\ AnswersInv /\ PartyAnswers /\ AskerAnswers /\ CacheAnswers /\ AccountAnswers
        /\ loopRun \in 0 .. MaxRuns /\ Never \in Answers /\ account \in Answers
        /\ told \in Answers /\ remembered \in Answers
        /\ \A b \in Processes : party[b] \in Party /\ party[b].answer \in Answers /\ party[b].knew \in Answers
        /\ "loop" \in Processes /\ "command" \in Processes
    BY EncryptionBounds
       DEF EncryptionInv, PartiesInv, EncryptionSteps, PartyAnswers, AccountAnswers, CacheAnswers, Answers, Never, Processes
  <1>1. ASSUME UNCHANGED <<account, enabling, loopRun>>, PartyAnswers', CacheAnswers', AskerAnswers'
        PROVE  EncryptionSteps'
    BY <1>0, <1>1 DEF EncryptionSteps, AccountAnswers
  <1>2. UNCHANGED <<account, enabling, loopRun>>
    BY DEF AnswerComes, AnswerApplies, AnswerKept, NoAnswer, LooksRead, LooksKept, CommandStarts, CommandEnds
  <1>3. CASE AnswerComes(c)
    <2> DEFINE p == [party[c] EXCEPT !.at = "answered", !.answer = account]
    <2>1. party' = [party EXCEPT ![c] = p] /\ p.answer \in Answers /\ p.knew \in Answers
      BY <1>0, <1>3 DEF AnswerComes, Party
    <2> HIDE DEF p
    <2>2. PartyAnswers'
      BY <1>0, <2>1, PartyHolds
    <2> QED
      BY <1>0, <1>1, <1>2, <1>3, <2>2 DEF AnswerComes, CacheAnswers, AskerAnswers
  <1>4. CASE AnswerApplies(c)
    <2> DEFINE p == [party[c] EXCEPT !.at = "applied", !.on = On(party[c].answer), !.knew = party[c].answer]
    <2>1. party' = [party EXCEPT ![c] = p] /\ p.answer \in Answers /\ p.knew \in Answers
      BY <1>0, <1>4 DEF AnswerApplies, Party
    <2> HIDE DEF p
    <2>2. PartyAnswers'
      BY <1>0, <2>1, PartyHolds
    <2> QED
      BY <1>0, <1>1, <1>2, <1>4, <2>2 DEF AnswerApplies, CacheAnswers, AskerAnswers
  <1>5. CASE AnswerKept(c)
    <2>1. PICK l \in {"kept", "works"} : party' = [party EXCEPT ![c].at = l]
      BY <1>5 DEF AnswerKept
    <2> DEFINE p == [party[c] EXCEPT !.at = l]
    <2>2. party' = [party EXCEPT ![c] = p] /\ p.answer \in Answers /\ p.knew \in Answers
      BY <1>0, <2>1 DEF Party
    <2> HIDE DEF p
    <2>3. PartyAnswers'
      BY <1>0, <2>2, PartyHolds
    <2>4. CacheAnswers'
      BY <1>0, <1>5, CacheHolds DEF AnswerKept
    <2> QED
      BY <1>0, <1>1, <1>2, <1>5, <2>3, <2>4 DEF AnswerKept, AskerAnswers
  <1>6. CASE NoAnswer(c)
    <2> DEFINE p == [party[c] EXCEPT !.at = "works", !.on = Assumed(c), !.knew = told, !.unsure = slipped]
    <2>1. party' = [party EXCEPT ![c] = p] /\ p.answer \in Answers /\ p.knew \in Answers
      BY <1>0, <1>6 DEF NoAnswer, Party
    <2> HIDE DEF p
    <2>2. PartyAnswers'
      BY <1>0, <2>1, PartyHolds
    <2>3. AskerAnswers'
      <3>1. lateAsker' = lateAsker \/ lateAsker' = [lateAsker EXCEPT ![loopRun].at = "ticks"]
        BY <1>6 DEF NoAnswer
      <3>2. lateAsker \in [1 .. MaxRuns -> Asker]
        BY <1>0 DEF AnswersInv
      <3>3. ASSUME NEW r \in 1 .. MaxRuns PROVE lateAsker'[r].answer = lateAsker[r].answer
        <4>1. lateAsker[r] \in Asker
          BY <3>2
        <4>2. lateAsker'[r] = lateAsker[r] \/ lateAsker'[r] = [lateAsker[r] EXCEPT !.at = "ticks"]
          BY <3>1, <3>2
        <4> QED
          BY <4>1, <4>2 DEF Asker
      <3> QED
        BY <1>0, <3>3 DEF AskerAnswers
    <2> QED
      BY <1>0, <1>1, <1>2, <1>6, <2>2, <2>3 DEF NoAnswer, CacheAnswers
  <1>7. CASE LooksRead
    <2> DEFINE p == [party["loop"] EXCEPT !.at = "looks", !.answer = AsRead(remembered)]
    <2>1. party' = [party EXCEPT !["loop"] = p] /\ p.answer \in Answers /\ p.knew \in Answers
      BY <1>0, <1>7, AnswersAreRead DEF LooksRead, Party
    <2> HIDE DEF p
    <2>2. PartyAnswers'
      BY <1>0, <2>1, PartyHolds
    <2> QED
      BY <1>0, <1>1, <1>2, <1>7, <2>2 DEF LooksRead, CacheAnswers, AskerAnswers
  <1>8. CASE LooksKept
    <2> DEFINE p == [party["loop"] EXCEPT !.at = "works"]
    <2>1. party' = [party EXCEPT !["loop"] = p] /\ p.answer \in Answers /\ p.knew \in Answers
      BY <1>0, <1>8 DEF LooksKept, Party
    <2> HIDE DEF p
    <2>2. PartyAnswers'
      BY <1>0, <2>1, PartyHolds
    <2>3. CacheAnswers'
      BY <1>0, <1>8, CacheHolds DEF LooksKept
    <2> QED
      BY <1>0, <1>1, <1>2, <1>8, <2>2, <2>3 DEF LooksKept, AskerAnswers
  <1>9. CASE CommandStarts
    <2> DEFINE p == [NotRunning EXCEPT !.at = "asks", !.key = passphrase]
    <2>1. party' = [party EXCEPT !["command"] = p] /\ p.answer \in Answers /\ p.knew \in Answers
      BY <1>0, <1>9 DEF CommandStarts, Begun, NotRunning
    <2> HIDE DEF p
    <2>2. PartyAnswers'
      BY <1>0, <2>1, PartyHolds
    <2> QED
      BY <1>0, <1>1, <1>2, <1>9, <2>2 DEF CommandStarts, CacheAnswers, AskerAnswers
  <1>10. CASE CommandEnds
    <2>1. party' = [party EXCEPT !["command"] = NotRunning] /\ NotRunning.answer \in Answers /\ NotRunning.knew \in Answers
      BY <1>0, <1>10 DEF CommandEnds, NotRunning
    <2>2. PartyAnswers'
      BY <1>0, <2>1, PartyHolds
    <2> QED
      BY <1>0, <1>1, <1>2, <1>10, <2>2 DEF CommandEnds, CacheAnswers, AskerAnswers
  <1> QED
    BY <1>3, <1>4, <1>5, <1>6, <1>7, <1>8, <1>9, <1>10

\* The goroutine of a run.
LEMMA GoroutineHolds ==
  ASSUME EncryptionInv, EncryptionSteps, NEW r \in 1 .. MaxRuns,
         LateAnswer(r) \/ LateApplies(r) \/ LateKept(r) \/ LateLooksRead(r) \/ LateLooksKept(r)
  PROVE  EncryptionSteps'
  <1>0. /\ PartiesInv /\ AnswersInv /\ PartyAnswers /\ AskerAnswers /\ CacheAnswers /\ AccountAnswers
        /\ loopRun \in 0 .. MaxRuns /\ Never \in Answers /\ account \in Answers /\ remembered \in Answers
        /\ lateAsker[r] \in Asker /\ lateAsker[r].answer \in Answers
        /\ "loop" \in Processes /\ party["loop"] \in Party
        /\ party["loop"].answer \in Answers /\ party["loop"].knew \in Answers
    <2>1. /\ PartiesInv /\ AnswersInv /\ PartyAnswers /\ AskerAnswers /\ CacheAnswers /\ AccountAnswers
          /\ loopRun \in 0 .. MaxRuns /\ "loop" \in Processes
      BY DEF EncryptionInv, EncryptionSteps, Processes
    <2>2. Never \in Answers /\ account \in Answers
      BY <2>1, EncryptionBounds DEF AccountAnswers, Answers, Never
    <2> QED
      BY <2>1, <2>2 DEF PartiesInv, AnswersInv, PartyAnswers, AskerAnswers, CacheAnswers
  <1>1. UNCHANGED <<account, enabling, loopRun>>
    BY DEF LateAnswer, LateApplies, LateKept, LateLooksRead, LateLooksKept
  <1>2. PartyAnswers'
    <2>1. CASE party' = party
      BY <1>0, <2>1 DEF PartyAnswers
    <2>2. CASE party' = [party EXCEPT !["loop"] =
                           [@ EXCEPT !.on = On(lateAsker[r].answer), !.knew = lateAsker[r].answer]]
      <3> DEFINE n == lateAsker[r].answer
                 p == [party["loop"] EXCEPT !.on = On(n), !.knew = n]
      <3>1. party' = [party EXCEPT !["loop"] = p] /\ p.answer \in Answers /\ p.knew \in Answers
        BY <1>0, <2>2 DEF Party
      <3> HIDE DEF p
      <3> QED
        BY <1>0, <3>1, PartyHolds
    <2> QED
      BY <2>1, <2>2 DEF LateAnswer, LateApplies, LateKept, LateLooksRead, LateLooksKept
  <1>3. AskerAnswers'
    <2>1. PICK l \in {"answered", "applied", "kept", "looks", "none"}, n \in Answers :
            lateAsker' = [lateAsker EXCEPT ![r] = [at |-> l, answer |-> n]]
      <3>1. CASE LateAnswer(r) \/ LateLooksRead(r) \/ LateLooksKept(r)
        BY <1>0, <3>1, AnswersAreRead DEF LateAnswer, LateLooksRead, LateLooksKept
      <3>2. CASE LateApplies(r) \/ LateKept(r)
        <4>1. PICK l \in {"applied", "kept"} : lateAsker' = [lateAsker EXCEPT ![r].at = l]
          BY <3>2 DEF LateApplies, LateKept
        <4>2. [lateAsker[r] EXCEPT !.at = l] = [at |-> l, answer |-> lateAsker[r].answer]
          BY <1>0 DEF Asker
        <4> QED
          BY <1>0, <4>1, <4>2
      <3> QED
        BY <3>1, <3>2
    <2> DEFINE a == [at |-> l, answer |-> n]
    <2>2. lateAsker' = [lateAsker EXCEPT ![r] = a] /\ a.answer \in Answers
      BY <2>1
    <2> HIDE DEF a
    <2> QED
      BY <1>0, <2>2, AskerHolds
  <1>4. CacheAnswers'
    <2>1. CASE LateKept(r) \/ LateLooksKept(r)
      BY <1>0, <2>1, CacheHolds DEF LateKept, LateLooksKept
    <2>2. CASE LateAnswer(r) \/ LateApplies(r) \/ LateLooksRead(r)
      BY <1>0, <2>2 DEF LateAnswer, LateApplies, LateLooksRead, CacheAnswers
    <2> QED
      BY <2>1, <2>2
  <1> QED
    BY <1>0, <1>1, <1>2, <1>3, <1>4 DEF EncryptionSteps, AccountAnswers

\* The account's flag changes at most once more than the bound lets it.
LEMMA AccountHolds ==
  ASSUME EncryptionInv, EncryptionSteps,
         \/ \E on \in BOOLEAN : PageSets(on)
         \/ EnableSaves \/ EnablePosts \/ EnableFails \/ EnableKept
  PROVE  EncryptionSteps'
  <1>0. /\ account \in 1 .. MaxChanges + 2 /\ enabling.answer \in Answers /\ CacheAnswers
        /\ enabling.at = "saved" => account <= MaxChanges + 1
        /\ enabling \in [at : {"none", "saved", "enabled", "kept"}, answer : Nat]
        /\ Never \in Answers /\ MaxChanges \in Nat
    BY EncryptionBounds DEF EncryptionInv, AnswersInv, EncryptionSteps, AccountAnswers, Answers, Never
  <1>1. UNCHANGED <<party, lateAsker, loopRun>>
    BY DEF PageSets, EnableSaves, EnablePosts, EnableFails, EnableKept
  <1>2. CacheAnswers'
    <2>1. CASE EnableKept
      BY <1>0, <2>1, CacheHolds DEF EnableKept
    <2>2. CASE UNCHANGED <<told, remembered, faults>>
      BY <1>0, <2>2 DEF CacheAnswers
    <2> QED
      BY <2>1, <2>2 DEF PageSets, EnableSaves, EnablePosts, EnableFails
  <1>3. AccountAnswers'
    <2>1. CASE \E on \in BOOLEAN : PageSets(on)
      BY <1>0, <2>1 DEF PageSets, Set, AccountAnswers
    <2>2. CASE EnableSaves
      BY <1>0, <2>2 DEF EnableSaves, NotEnabling, AccountAnswers
    <2>3. CASE EnablePosts
      <3>1. account' \in 1 .. MaxChanges + 2
        BY <1>0, <2>3 DEF EnablePosts, Set
      <3> QED
        BY <1>0, <2>3, <3>1 DEF EnablePosts, AccountAnswers, Answers
    <2>4. CASE EnableFails
      BY <1>0, <2>4 DEF EnableFails, NotEnabling, Set, AccountAnswers
    <2>5. CASE EnableKept
      BY <1>0, <2>5 DEF EnableKept, AccountAnswers
    <2> QED
      BY <2>1, <2>2, <2>3, <2>4, <2>5
  <1> QED
    BY <1>1, <1>2, <1>3 DEF EncryptionSteps, PartyAnswers, AskerAnswers

\* Encryption is well typed.
LEMMA EncryptionTyped == EncryptionSpec => []EncryptionTypeOK
  <1>1. EncryptionInit => EncryptionSteps
    BY EncryptionBounds
       DEF EncryptionInit, EncryptionSteps, PartyAnswers, AskerAnswers, CacheAnswers, AccountAnswers, Answers, Never,
           NotRunning, NotEnabling
  <1>2. EncryptionInv /\ EncryptionSteps /\ [EncryptionNext]_encryptionVars => EncryptionSteps'
    <2> SUFFICES ASSUME EncryptionInv, EncryptionSteps, [EncryptionNext]_encryptionVars PROVE EncryptionSteps'
      OBVIOUS
    <2>1. CASE LoopStarts /\ UNCHANGED <<account, passphrase, remembered, enabling, told, slipped, faults>>
      BY <2>1, StartHolds
    <2>2. CASE EnableRestarts
      BY <2>2, StartHolds DEF EnableRestarts
    <2>3. CASE UNCHANGED encryptionVars
      BY <2>3 DEF encryptionVars, EncryptionSteps, PartyAnswers, AskerAnswers, CacheAnswers, AccountAnswers
    <2>4. "loop" \in Processes
      BY DEF Processes
    <2> QED
      BY <2>1, <2>2, <2>3, <2>4, ClientHolds, GoroutineHolds, AccountHolds DEF EncryptionNext
  <1>3. EncryptionInv /\ EncryptionSteps => EncryptionTypeOK
    <2> SUFFICES ASSUME EncryptionInv, EncryptionSteps PROVE EncryptionTypeOK
      OBVIOUS
    <2>1. {Never} \cup Numbers = Answers /\ account \in Numbers
      BY EncryptionBounds DEF Never, Numbers, Answers, EncryptionSteps, AccountAnswers
    <2>2. party \in [Processes -> [at : PartySteps, key : BOOLEAN, on : BOOLEAN, answer : Answers, knew : Answers,
                                   unsure : BOOLEAN]]
      BY DEF EncryptionInv, PartiesInv, Party, EncryptionSteps, PartyAnswers
    <2>3. lateAsker \in [1 .. MaxRuns -> [at : {"none", "ticks", "answered", "applied", "kept", "looks"}, answer : Answers]]
      BY DEF EncryptionInv, AnswersInv, Asker, EncryptionSteps, AskerAnswers
    <2>4. enabling \in [at : {"none", "saved", "enabled", "kept"}, answer : Answers]
      BY DEF EncryptionInv, AnswersInv, EncryptionSteps, AccountAnswers
    <2> HIDE DEF Answers
    <2> QED
      BY <2>1, <2>2, <2>3, <2>4
         DEF EncryptionInv, CacheInv, EncryptionSteps, CacheAnswers, PartySteps, EncryptionTypeOK
  <1> QED
    BY <1>1, <1>2, <1>3, InitEncryptionInv, EncryptionStep, PTL DEF EncryptionSpec

---------------------------------------------------------------------------
(* Pause, snooze and the sync loops. *)

\* The snooze and the form are at one of their steps, and what is used up stays
\* within its bounds.
Budget == [clicks : 0 .. MaxClicks, edits : 0 .. MaxEdits, setbacks : 0 .. MaxSetbacks]
ControlBounded ==
  /\ snooze \in {"none", "armed", "fired", "search"} /\ form \in [at : {"none", "write"}, flag : BOOLEAN]
  /\ slips \subseteq {"overrun", "skipped"} /\ behind \in BOOLEAN /\ used \in Budget

LEMMA UsesWithinBudget ==
  ASSUME ControlBounded, Uses("clicks", MaxClicks) \/ Uses("edits", MaxEdits) \/ Uses("setbacks", MaxSetbacks)
  PROVE  used' \in Budget
  <1>1. used \in Budget /\ {MaxClicks, MaxEdits, MaxSetbacks} \subseteq Nat
    BY ControlBounds DEF ControlBounded
  <1>2. CASE Uses("clicks", MaxClicks)
    <2>1. used.clicks + 1 \in 0 .. MaxClicks
      BY <1>1, <1>2 DEF Uses, Budget
    <2> QED
      BY <1>1, <1>2, <2>1 DEF Uses, Budget
  <1>3. CASE Uses("edits", MaxEdits)
    <2>1. used.edits + 1 \in 0 .. MaxEdits
      BY <1>1, <1>3 DEF Uses, Budget
    <2> QED
      BY <1>1, <1>3, <2>1 DEF Uses, Budget
  <1>4. CASE Uses("setbacks", MaxSetbacks)
    <2>1. used.setbacks + 1 \in 0 .. MaxSetbacks
      BY <1>1, <1>4 DEF Uses, Budget
    <2> QED
      BY <1>1, <1>4, <2>1 DEF Uses, Budget
  <1> QED
    BY <1>2, <1>3, <1>4

LEMMA ControlStaysBounded ==
  ASSUME ControlInv, ControlBounded, [ControlNext]_controlVars
  PROVE  ControlBounded'
  <1>0. /\ snooze \in {"none", "armed", "fired", "search"} /\ form \in [at : {"none", "write"}, flag : BOOLEAN]
        /\ slips \subseteq {"overrun", "skipped"} /\ behind \in BOOLEAN /\ used \in Budget /\ paused \in BOOLEAN
        /\ NoClick \in [at : {"none", "write"}, flag : BOOLEAN]
        /\ [at |-> "write", flag |-> paused] \in [at : {"none", "write"}, flag : BOOLEAN]
    BY DEF ControlBounded, ControlInv, ControlTypes, NoClick
  <1> HIDE DEF Budget
  <1>1. CASE PauseClicked \/ StartSnooze
    <2>1. used' \in Budget
      BY <1>1, UsesWithinBudget DEF PauseClicked, StartSnooze
    <2> QED
      BY <1>0, <1>1, <2>1 DEF PauseClicked, StartSnooze, ControlBounded
  <1>2. CASE PauseSaved \/ PauseSearches \/ SnoozeEnds \/ SettingsRead \/ SettingsSaved \/ ReloadConfig
    BY <1>0, <1>2 DEF PauseSaved, PauseSearches, SnoozeEnds, SettingsRead, SettingsSaved, ReloadConfig, ControlBounded
  <1>3. ASSUME NEW n \in LoopIds,
               MutexTaken(n) \/ NextLoop(n) \/ LoopBegins(n) \/ SetsHook(n) \/ MayReconcile(n) \/ LoopEnds(n) \/ SearchEnds(n)
        PROVE  ControlBounded'
    BY <1>0, <1>3
       DEF MutexTaken, NextLoop, LoopBegins, SetsHook, MayReconcile, LoopEnds, SearchEnds, ControlBounded
  <1>4. ASSUME NEW n \in LoopIds, NextLoopAnyway(n) \/ SearchFails(n) PROVE ControlBounded'
    <2>1. used' \in Budget
      BY <1>4, UsesWithinBudget DEF NextLoopAnyway, SearchFails
    <2> QED
      BY <1>0, <1>4, <2>1 DEF NextLoopAnyway, SearchFails, ControlBounded
  <1>5. CASE GameEdits \/ ClientRestarts
    <2>1. used' \in Budget
      BY <1>5, UsesWithinBudget DEF GameEdits, ClientRestarts
    <2> QED
      BY <1>0, <1>5, <2>1 DEF GameEdits, ClientRestarts, Watching, ControlBounded
  <1>6. CASE UNCHANGED controlVars
    BY <1>0, <1>6 DEF controlVars, ControlBounded
  <1> QED
    BY <1>1, <1>2, <1>3, <1>4, <1>5, <1>6 DEF ControlNext

\* The control of the loops is well typed.
LEMMA ControlTyped == ControlSpec => []ControlTypeOK
  <1>1. ControlInit => ControlBounded
    <2> SUFFICES ASSUME ControlInit PROVE ControlBounded
      OBVIOUS
    <2>1. [clicks |-> 0, edits |-> 0, setbacks |-> 0] \in Budget
      BY ControlBounds DEF Budget
    <2>2. NoClick \in [at : {"none", "write"}, flag : BOOLEAN]
      BY DEF NoClick
    <2> QED
      BY <2>1, <2>2 DEF ControlInit, ControlBounded
  <1>2. ControlInv /\ ControlBounded => ControlTypeOK
    <2> SUFFICES ASSUME ControlInv, ControlBounded PROVE ControlTypeOK
      OBVIOUS
    <2>1. hook \in 0 .. MaxLoops
      BY ControlBounds DEF ControlInv, ControlTypes, LoopIds
    <2> QED
      BY <2>1 DEF ControlInv, ControlTypes, LoopRows, ControlBounded, Budget, ControlTypeOK
  <1>3. ControlInv /\ ControlBounded /\ [ControlNext]_controlVars => ControlBounded'
    BY ControlStaysBounded
  <1> QED
    BY <1>1, <1>2, <1>3, ControlBegins, ControlSteps, PTL DEF ControlSpec

---------------------------------------------------------------------------
(* The tray. *)

\* Counts are of finite sets, and the menu shows what the state has been.
Flags == {halted, failed, subscribed, token, debounce, unheard}
TrayShows ==
  /\ count \in Nat /\ status \in Statuses /\ Flags \subseteq BOOLEAN
  /\ shown \in [row : TrayRows, count : Nat, status : Statuses] /\ updates \in 0 .. MaxUpdates

LEMMA ConflictsAreCounted ==
  ASSUME NEW list \in SUBSET Games
  PROVE  Cardinality(list) \in Nat
  BY TrayBounds, FS_Subset, FS_CardinalityType

LEMMA SnapshotTypes ==
  ASSUME TrayInv, TrayShows
  PROVE  TraySnapshot \in [row : TrayRows, count : Nat, status : Statuses]
  BY DEF TrayInv, TrayTypes, TrayShows, TraySnapshot

LEMMA TrayStepsShow ==
  ASSUME TrayInv, TrayShows, [TrayNext]_trayVars
  PROVE  TrayShows'
  <1>0. /\ count \in Nat /\ status \in Statuses /\ updates \in 0 .. MaxUpdates /\ MaxUpdates \in Nat
        /\ halted \in BOOLEAN /\ failed \in BOOLEAN /\ subscribed \in BOOLEAN
        /\ token \in BOOLEAN /\ debounce \in BOOLEAN /\ unheard \in BOOLEAN
        /\ shown \in [row : TrayRows, count : Nat, status : Statuses]
        /\ TraySnapshot \in [row : TrayRows, count : Nat, status : Statuses]
        /\ recorded \subseteq Games /\ updater \in [Updaters -> Goroutines]
    BY TrayBounds, SnapshotTypes DEF TrayShows, Flags, TrayInv, TrayTypes
  <1>1. ASSUME count' \in Nat, status' \in Statuses, updates' \in 0 .. MaxUpdates,
               halted' \in BOOLEAN, failed' \in BOOLEAN, subscribed' \in BOOLEAN,
               token' \in BOOLEAN, debounce' \in BOOLEAN, unheard' \in BOOLEAN,
               shown' = shown \/ shown' = TraySnapshot
        PROVE  TrayShows'
    BY <1>0, <1>1 DEF TrayShows, Flags, Statuses, TrayRows
  <1>2. ASSUME NEW w \in Updaters, NEW at, NEW game, Begins(w, at, game) PROVE updates' \in 0 .. MaxUpdates
    BY <1>0, <1>2 DEF Begins
  <1>3. ASSUME NEW w \in Updaters, NEW g \in Games,
               ConflictDetected(w, g) \/ ConflictResolved(w, g) \/ RecordSaveEvent(w, g) \/ RecordPendingUpload(w, g)
        PROVE  TrayShows'
    <2>1. updates' \in 0 .. MaxUpdates
      BY <1>2, <1>3 DEF ConflictDetected, ConflictResolved, RecordSaveEvent, RecordPendingUpload
    <2>2. UNCHANGED <<count, status, halted, failed, subscribed, token, debounce, shown, unheard>>
      BY <1>3 DEF ConflictDetected, ConflictResolved, RecordSaveEvent, RecordPendingUpload
    <2> QED
      BY <1>0, <1>1, <2>1, <2>2
  <1>4. ASSUME NEW w \in Updaters, RecordGameConflict(w) \/ ClearGameConflict(w) PROVE TrayShows'
    <2>1. count' = Cardinality(recorded) /\ UNCHANGED <<status, halted, failed, subscribed, token, debounce, shown, unheard, updates>>
      BY <1>4 DEF RecordGameConflict, ClearGameConflict
    <2>2. count' \in Nat
      BY <1>0, <2>1, ConflictsAreCounted
    <2> QED
      BY <1>0, <1>1, <2>1, <2>2
  <1>5. ASSUME NEW w \in Updaters, ListsConflicts(w) \/ Notifies(w) PROVE TrayShows'
    <2>1. UNCHANGED <<count, status, halted, failed, subscribed, debounce, shown, updates>>
          /\ token' \in {token, token \/ subscribed} /\ unheard' \in {unheard, unheard \/ ~subscribed}
      BY <1>5 DEF ListsConflicts, Notifies
    <2> QED
      BY <1>0, <1>1, <2>1
  <1>6. ASSUME NEW w \in Updaters, RefreshesCounts(w) PROVE TrayShows'
    <2>1. updater[w].list \subseteq Games
      BY <1>0 DEF Goroutines
    <2>2. Cardinality(updater[w].list) \in Nat
      BY <2>1, ConflictsAreCounted
    <2>3. count' = Cardinality(updater[w].list) /\ UNCHANGED <<status, halted, failed, subscribed, token, debounce, shown, updates>>
      BY <1>6 DEF RefreshesCounts
    <2>4. unheard' \in {unheard, (unheard \/ row' # row \/ count' # count)}
      BY <1>6 DEF RefreshesCounts
    <2> QED
      BY <1>0, <1>1, <2>2, <2>3, <2>4
  <1>7. ASSUME NEW w \in Updaters, SyncStarts(w) \/ SyncEnds(w) \/ TrayPaused(w) \/ SetupIsOver(w) PROVE TrayShows'
    <2>1. updates' \in 0 .. MaxUpdates
      BY <1>2, <1>7 DEF SyncStarts, SyncEnds, TrayPaused, SetupIsOver
    <2>2. count' = count \/ count' = Cardinality(recorded)
      BY <1>7 DEF SyncStarts, SyncEnds, TrayPaused, SetupIsOver
    <2>3. count' \in Nat
      BY <1>0, <2>2, ConflictsAreCounted
    <2>4. UNCHANGED <<subscribed, token, debounce, shown, unheard>> /\ halted' \in BOOLEAN /\ failed' \in BOOLEAN
      BY <1>0, <1>7 DEF SyncStarts, SyncEnds, TrayPaused, SetupIsOver
    <2>5. status' \in {status, "syncing", "error", "paused", "idle"}
      BY <1>7 DEF SyncStarts, SyncEnds, TrayPaused, SetupIsOver
    <2>6. status' \in Statuses
      BY <1>0, <2>5 DEF Statuses
    <2> QED
      BY <1>0, <1>1, <2>1, <2>3, <2>4, <2>6
  <1>8. CASE Subscribes \/ TokenTaken \/ MenuRedrawn \/ MenuTicks
    <2>1. UNCHANGED <<count, status, halted, failed, updates>> /\ (shown' = shown \/ shown' = TraySnapshot)
          /\ subscribed' \in {subscribed, TRUE} /\ token' \in {token, FALSE} /\ debounce' \in {debounce, TRUE, FALSE}
          /\ unheard' \in {unheard, FALSE}
      BY <1>8 DEF Subscribes, TokenTaken, MenuRedrawn, MenuTicks
    <2> QED
      BY <1>0, <1>1, <2>1
  <1>9. CASE UNCHANGED trayVars
    <2>1. UNCHANGED <<count, status, halted, failed, subscribed, token, debounce, shown, unheard, updates>>
      BY <1>9 DEF trayVars
    <2> QED
      BY <1>0, <1>1, <2>1
  <1> QED
    BY <1>3, <1>4, <1>5, <1>6, <1>7, <1>8, <1>9 DEF TrayNext

\* The tray is well typed.
LEMMA TrayTyped == TraySpec => []TrayTypeOK
  <1>1. TrayInit => TrayShows
    <2> SUFFICES ASSUME TrayInit PROVE TrayShows
      OBVIOUS
    <2>1. count \in Nat
      BY ConflictsAreCounted DEF TrayInit
    <2>2. row \in TrayRows
      BY TrayBegins DEF TrayInv, TrayTypes
    <2>3. status \in Statuses
      BY DEF TrayInit, Statuses
    <2>4. shown \in [row : TrayRows, count : Nat, status : Statuses]
      BY <2>1, <2>2, <2>3 DEF TrayInit, TraySnapshot
    <2>5. updates \in 0 .. MaxUpdates /\ Flags \subseteq BOOLEAN
      <3>1. /\ halted \in BOOLEAN /\ failed \in BOOLEAN /\ subscribed \in BOOLEAN
            /\ token \in BOOLEAN /\ debounce \in BOOLEAN /\ unheard \in BOOLEAN
        BY DEF TrayInit
      <3>2. updates \in 0 .. MaxUpdates
        BY TrayBounds DEF TrayInit
      <3> QED
        BY <3>1, <3>2 DEF Flags
    <2> QED
      BY <2>1, <2>3, <2>4, <2>5 DEF TrayShows
  <1>2. TrayInv /\ TrayShows => TrayTypeOK
    <2> SUFFICES ASSUME TrayInv, TrayShows PROVE TrayTypeOK
      OBVIOUS
    <2>1. /\ halted \in BOOLEAN /\ failed \in BOOLEAN /\ subscribed \in BOOLEAN
          /\ token \in BOOLEAN /\ debounce \in BOOLEAN /\ unheard \in BOOLEAN
      BY DEF TrayShows, Flags
    <2> QED
      BY <2>1 DEF TrayInv, TrayTypes, Goroutines, TrayShows, TrayTypeOK
  <1>3. TrayInv /\ TrayShows /\ [TrayNext]_trayVars => TrayShows'
    BY TrayStepsShow
  <1> QED
    BY <1>1, <1>2, <1>3, TrayBegins, TraySteps, PTL DEF TraySpec

---------------------------------------------------------------------------
(* The client's update. *)

\* Every version held anywhere has been released.
ProgramSteps ==
  /\ part \in Programs /\ exe \in Programs /\ exeOld \in Programs /\ exeNew \in Programs /\ digest \in 0 .. latest
ProcessSteps ==
  /\ platform \in Platforms /\ client \in {"off", "running", "quitting"}
  /\ relaunch \in BOOLEAN /\ gone \in BOOLEAN /\ hollow \in BOOLEAN
  /\ helper \in {"none", "waiting", "verify", "copy", "move", "swap", "sign", "clean", "launch"}
  /\ misfortunes \in 0 .. MaxMisfortunes
AskerSteps ==
  /\ latest \in 1 .. MaxReleases /\ pending \in 0 .. latest
  /\ \A a \in Askers : asker[a].v \in 0 .. latest
UpdaterReleased == ProgramSteps /\ ProcessSteps /\ AskerSteps

LEMMA AskerReleased ==
  ASSUME UpdaterInv, AskerSteps, NEW a \in Askers, NEW n, n.v \in 0 .. latest, asker' = [asker EXCEPT ![a] = n],
         UNCHANGED <<latest, pending>>
  PROVE  AskerSteps'
  BY DEF UpdaterInv, UpdateTypes, AskerSteps

LEMMA ClientReleased ==
  ASSUME UpdaterInv, UpdaterReleased, NEW a \in Askers,
         \/ AskInstall(a) \/ BeginUpdateOp(a) \/ DownloadUpdate(a) \/ InstallFails(a) \/ ApplyUpdate(a)
         \/ \E written \in BOOLEAN : RecordDigest(a, written)
  PROVE  UpdaterReleased'
  <1>0. /\ ProgramSteps /\ ProcessSteps /\ AskerSteps /\ asker \in [Askers -> Installs] /\ asker[a] \in Installs
        /\ latest \in 1 .. MaxReleases /\ pending \in 0 .. latest /\ asker[a].v \in 0 .. latest
        /\ MaxReleases \in Nat /\ MaxMisfortunes \in Nat /\ misfortunes \in 0 .. MaxMisfortunes
        /\ digest \in 0 .. latest
    BY UpdaterBounds DEF UpdaterReleased, UpdaterInv, UpdateTypes, AskerSteps, ProcessSteps, ProgramSteps
  <1>1. UNCHANGED <<platform, latest, pending, exe, exeOld, exeNew, relaunch, gone, hollow>>
    BY DEF AskInstall, BeginUpdateOp, DownloadUpdate, InstallFails, ApplyUpdate, RecordDigest, programVars, processVars
  <1>2. AskerSteps'
    <2>1. PICK n : n.v \in 0 .. latest /\ asker' = [asker EXCEPT ![a] = n]
      <3>1. CASE AskInstall(a)
        <4>1. [pc |-> "claim", v |-> pending].v \in 0 .. latest
          BY <1>0
        <4> QED
          BY <3>1, <4>1 DEF AskInstall
      <3>2. CASE asker' = [asker EXCEPT ![a] = NoInstall]
        <4>1. NoInstall.v \in 0 .. latest
          BY <1>0 DEF NoInstall
        <4> QED
          BY <3>2, <4>1
      <3>3. ASSUME NEW to, asker' = [asker EXCEPT ![a].pc = to]
            PROVE  \E n : n.v \in 0 .. latest /\ asker' = [asker EXCEPT ![a] = n]
        <4>1. [asker[a] EXCEPT !.pc = to].v \in 0 .. latest
          BY <1>0 DEF Installs
        <4> QED
          BY <3>3, <4>1
      <3> QED
        BY <3>1, <3>2, <3>3 DEF BeginUpdateOp, DownloadUpdate, InstallFails, ApplyUpdate, RecordDigest
    <2> QED
      BY <1>0, <1>1, <2>1, AskerReleased DEF UpdaterReleased
  <1>3. ProgramSteps'
    <2>1. part' = part \/ part' = [v |-> asker[a].v, sound |-> TRUE]
      BY DEF AskInstall, BeginUpdateOp, DownloadUpdate, InstallFails, ApplyUpdate, RecordDigest, programVars
    <2>2. digest' = digest \/ digest' = asker[a].v
      BY DEF AskInstall, BeginUpdateOp, DownloadUpdate, InstallFails, ApplyUpdate, RecordDigest, programVars
    <2>3. [v |-> asker[a].v, sound |-> TRUE] \in Programs
      BY <1>0 DEF Programs
    <2> HIDE DEF Programs
    <2> QED
      BY <1>0, <1>1, <2>1, <2>2, <2>3 DEF ProgramSteps
  <1>4. ProcessSteps'
    <2>1. client' \in {client, "quitting"} /\ helper' \in {helper, "waiting"}
      BY DEF AskInstall, BeginUpdateOp, DownloadUpdate, InstallFails, ApplyUpdate, RecordDigest, processVars
    <2>2. misfortunes' \in {misfortunes, misfortunes + 1} /\ (misfortunes' # misfortunes => misfortunes < MaxMisfortunes)
      BY DEF AskInstall, BeginUpdateOp, DownloadUpdate, InstallFails, ApplyUpdate, RecordDigest, Misfortune
    <2>3. misfortunes' \in 0 .. MaxMisfortunes
      BY <1>0, <2>2
    <2> QED
      BY <1>0, <1>1, <2>1, <2>3 DEF ProcessSteps
  <1> QED
    BY <1>2, <1>3, <1>4 DEF UpdaterReleased

LEMMA ProcessesReleased ==
  ASSUME UpdaterInv, UpdaterReleased,
         \/ Released \/ ClientExits \/ UserQuits \/ UserStarts \/ MachineStops \/ StagedSpoils
         \/ \E offers \in BOOLEAN : CheckForUpdate(offers)
         \/ HelperWaits \/ HelperWaitedEnough \/ HelperVerifies \/ HelperCopies \/ CopyFails \/ HelperMoves
         \/ MoveFails \/ HelperSwaps \/ SwapFails \/ RollBackFails \/ HelperSigns \/ HelperCleans \/ HelperLaunches \/ LaunchFails
         \/ Relaunched \/ RelaunchGivesUp
  PROVE  UpdaterReleased'
  <1>0. /\ ProgramSteps /\ ProcessSteps /\ AskerSteps
        /\ latest \in 1 .. MaxReleases /\ pending \in 0 .. latest /\ MaxReleases \in Nat /\ MaxMisfortunes \in Nat
        /\ misfortunes \in 0 .. MaxMisfortunes /\ digest \in 0 .. latest /\ \A a \in Askers : asker[a].v \in 0 .. latest
    BY UpdaterBounds DEF UpdaterReleased, AskerSteps, ProcessSteps, ProgramSteps
  <1> USE DEF programVars, processVars, askVars, GoesOnAsClient, SameClient, HelperGoes, Takes, Misfortune
  <1>1. AskerSteps'
    <2>1. CASE Released
      BY <1>0, <2>1 DEF Released, AskerSteps
    <2>2. CASE \E offers \in BOOLEAN : CheckForUpdate(offers)
      BY <1>0, <2>2 DEF CheckForUpdate, Offered, AskerSteps
    <2>3. CASE ClientExits \/ MachineStops
      BY <1>0, <2>3 DEF ClientExits, MachineStops, NoInstall, AskerSteps
    <2>4. CASE UNCHANGED <<latest, pending, asker>>
      BY <1>0, <2>4 DEF AskerSteps
    <2>5. Released \/ (\E offers \in BOOLEAN : CheckForUpdate(offers)) \/ ClientExits \/ MachineStops
          \/ UNCHANGED <<latest, pending, asker>>
      BY DEF UserQuits, UserStarts, StagedSpoils, HelperWaits, HelperWaitedEnough, HelperVerifies, HelperCopies,
             CopyFails, HelperMoves, MoveFails, HelperSwaps, SwapFails, RollBackFails, HelperSigns, HelperCleans, HelperLaunches, LaunchFails,
             Relaunched, RelaunchGivesUp
    <2> QED
      BY <2>1, <2>2, <2>3, <2>4, <2>5
  <1>2. ProgramSteps'
    <2>1. NoProgram \in Programs /\ [part EXCEPT !.sound = FALSE] \in Programs /\ 0 \in 0 .. latest
      <3>1. NoProgram \in Programs
        BY <1>0 DEF NoProgram, Programs
      <3>2. part \in Programs
        BY <1>0 DEF ProgramSteps
      <3>3. [part EXCEPT !.sound = FALSE] \in Programs
        BY <3>2 DEF Programs
      <3>4. 0 \in 0 .. latest
        BY <1>0
      <3> QED
        BY <3>1, <3>3, <3>4
    <2>2. 0 .. latest \subseteq 0 .. latest'
      BY <1>0, <1>1 DEF Released, CheckForUpdate, ClientExits, MachineStops, UserQuits, UserStarts, StagedSpoils,
             HelperWaits, HelperWaitedEnough, HelperVerifies, HelperCopies,
             CopyFails, HelperMoves, MoveFails, HelperSwaps, SwapFails, RollBackFails, HelperSigns, HelperCleans, HelperLaunches, LaunchFails,
             Relaunched, RelaunchGivesUp
    <2>3. /\ part' \in {part, NoProgram, [part EXCEPT !.sound = FALSE]}
          /\ exe' \in {exe, part, exeNew, exeOld, NoProgram} /\ exeOld' \in {exeOld, exe, NoProgram}
          /\ exeNew' \in {exeNew, part, NoProgram} /\ digest' \in {digest, 0}
      BY DEF Released, CheckForUpdate, ClientExits, MachineStops, UserQuits, UserStarts, StagedSpoils,
             HelperWaits, HelperWaitedEnough, HelperVerifies, HelperCopies,
             CopyFails, HelperMoves, MoveFails, HelperSwaps, SwapFails, RollBackFails, HelperSigns, HelperCleans, HelperLaunches, LaunchFails,
             Relaunched, RelaunchGivesUp
    <2> HIDE DEF Programs
    <2> QED
      BY <1>0, <2>1, <2>2, <2>3 DEF ProgramSteps
  <1>3. ProcessSteps'
    <2>1. /\ platform' = platform /\ client' \in {client, "off", "running", "quitting"}
          /\ relaunch' \in {relaunch, TRUE, FALSE} /\ gone' \in {gone, TRUE, FALSE}
          /\ hollow' \in {hollow, hollow \/ (helper = "swap" /\ exe = NoProgram), hollow \/ exe = NoProgram}
          /\ helper' \in {helper, "none", "waiting", "verify", "copy", "move", "swap", "sign", "clean", "launch"}
      BY DEF Released, CheckForUpdate, ClientExits, MachineStops, UserQuits, UserStarts, StagedSpoils,
             HelperWaits, HelperWaitedEnough, HelperVerifies, HelperCopies,
             CopyFails, HelperMoves, MoveFails, HelperSwaps, SwapFails, RollBackFails, HelperSigns, HelperCleans, HelperLaunches, LaunchFails,
             Relaunched, RelaunchGivesUp
    <2>2. misfortunes' = misfortunes \/ (misfortunes < MaxMisfortunes /\ misfortunes' = misfortunes + 1)
      BY DEF Released, CheckForUpdate, ClientExits, MachineStops, UserQuits, UserStarts, StagedSpoils,
             HelperWaits, HelperWaitedEnough, HelperVerifies, HelperCopies,
             CopyFails, HelperMoves, MoveFails, HelperSwaps, SwapFails, RollBackFails, HelperSigns, HelperCleans, HelperLaunches, LaunchFails,
             Relaunched, RelaunchGivesUp
    <2>3. misfortunes' \in 0 .. MaxMisfortunes
      BY <1>0, <2>2
    <2> QED
      BY <1>0, <2>1, <2>3 DEF ProcessSteps
  <1> QED
    BY <1>1, <1>2, <1>3 DEF UpdaterReleased

\* The updater is well typed.
LEMMA UpdaterTyped == UpdaterSpec => []UpdaterTypeOK
  <1>1. UpdaterInit => UpdaterReleased
    <2> SUFFICES ASSUME UpdaterInit PROVE UpdaterReleased
      OBVIOUS
    <2>1. NoProgram \in Programs /\ [v |-> 1, sound |-> TRUE] \in Programs
      BY UpdaterBounds DEF NoProgram, Programs
    <2>2. ProgramSteps
      BY <2>1 DEF UpdaterInit, ProgramSteps
    <2>3. ProcessSteps
      <3>1. 0 \in 0 .. MaxMisfortunes
        BY UpdaterBounds
      <3> QED
        BY <3>1 DEF UpdaterInit, ProcessSteps
    <2>4. AskerSteps
      <3>1. latest = 1 /\ latest \in 1 .. MaxReleases /\ pending \in 0 .. latest /\ 0 \in 0 .. latest
        BY UpdaterBounds DEF UpdaterInit
      <3>2. \A a \in Askers : asker[a].v = 0
        BY DEF UpdaterInit, NoInstall
      <3> QED
        BY <3>1, <3>2 DEF AskerSteps
    <2> QED
      BY <2>2, <2>3, <2>4 DEF UpdaterReleased
  <1>2. UpdaterInv /\ UpdaterReleased => UpdaterTypeOK
    <2> SUFFICES ASSUME UpdaterInv, UpdaterReleased PROVE UpdaterTypeOK
      OBVIOUS
    <2>1. asker \in [Askers -> [pc : {"idle", "claim", "download", "digest", "apply"}, v : 0 .. latest]]
      BY DEF UpdaterInv, UpdateTypes, Installs, UpdaterReleased, AskerSteps
    <2> QED
      BY <2>1 DEF UpdaterInv, UpdateTypes, UpdaterReleased, ProgramSteps, ProcessSteps, AskerSteps, UpdaterTypeOK
  <1>3. UpdaterInv /\ UpdaterReleased /\ [UpdaterNext]_updaterVars => UpdaterReleased'
    <2> SUFFICES ASSUME UpdaterInv, UpdaterReleased, [UpdaterNext]_updaterVars PROVE UpdaterReleased'
      OBVIOUS
    <2>1. CASE UNCHANGED updaterVars
      BY <2>1 DEF updaterVars, programVars, processVars, askVars, UpdaterReleased, ProgramSteps, ProcessSteps, AskerSteps
    <2> QED
      BY <2>1, ClientReleased, ProcessesReleased DEF UpdaterNext
  <1> QED
    BY <1>1, <1>2, <1>3, UpdaterBegins, UpdaterSteps, PTL DEF UpdaterSpec

---------------------------------------------------------------------------
(* Backups. *)

\* No row, file, archive or run has a content that was not uploaded, and the
\* archives have the numbers that were given.
Uploaded(f, n) == \A s \in Kept : f[s] <= n
ContentsSmall ==
  /\ Uploaded(saveRows, uploads) /\ Uploaded(blobs, uploads)
  /\ Uploaded(backup.db, uploads) /\ Uploaded(backup.files, uploads) /\ Uploaded(checking.db, uploads)
ArchiveSound(a, n, m) == Uploaded(a.db, n) /\ Uploaded(a.files, n) /\ a.no \in 1 .. m
ArchivesSmall == \A i \in 1 .. Len(archives) : ArchiveSound(archives[i], uploads, named)
SavesUnderWay == promoted \subseteq Kept /\ doomed \subseteq Kept /\ wal \in {"none", "own", "foreign"}
BackupsSmall == SavesUnderWay /\ ContentsSmall /\ ArchivesSmall

LEMMA NothingIsUploaded ==
  ASSUME NEW n \in Nat
  PROVE  /\ Uploaded(Nothing, n) /\ Uploaded(NoBackup.db, n) /\ Uploaded(NoBackup.files, n)
         /\ Uploaded(NoCheck.db, n)
  BY DEF Uploaded, Nothing, NoBackup, NoCheck

\* The database and the files change, the archives do not.
LEMMA UploadsKeepSmall ==
  ASSUME BackupsInv, BackupsSmall, NEW s \in Kept,
         Promote(s) \/ Commit(s) \/ DeleteRow(s) \/ DeleteFile(s) \/ Spoil(s)
  PROVE  BackupsSmall'
  <1>1. /\ saveRows \in Saved /\ blobs \in Saved /\ uploads \in Nat /\ backup \in BackupRuns /\ checking \in Checks
        /\ archives \in Seq(BackupFiles)
    BY DEF BackupsInv, BackupTypes
  <1>2. Touches(s) /\ UNCHANGED <<archives, named>> /\ wal' = wal
    BY DEF Promote, Commit, DeleteRow, DeleteFile, Spoil, restoreVars
  <1>3. backup'.db = backup.db /\ backup'.files = backup.files /\ checking'.db = checking.db
    BY <1>1, <1>2 DEF Touches, BackupRuns, Checks
  <1>4. uploads' \in {uploads, uploads + 1}
    BY DEF Promote, Commit, DeleteRow, DeleteFile, Spoil
  <1>5. SavesUnderWay'
    BY <1>2 DEF Promote, Commit, DeleteRow, DeleteFile, Spoil, BackupsSmall, SavesUnderWay
  <1>6. \A r \in Kept : saveRows'[r] \in {saveRows[r], blobs[r], 0}
    BY <1>1 DEF Promote, Commit, DeleteRow, DeleteFile, Spoil, Saved
  <1>7. \A r \in Kept : blobs'[r] \in {blobs[r], 0} \/ (blobs'[r] = uploads + 1 /\ uploads' = uploads + 1)
    BY <1>1 DEF Promote, Commit, DeleteRow, DeleteFile, Spoil, Saved
  <1>8. \A r \in Kept : saveRows[r] \in Nat /\ blobs[r] \in Nat /\ saveRows[r] <= uploads /\ blobs[r] <= uploads
    BY <1>1 DEF Saved, BackupsSmall, ContentsSmall, Uploaded
  <1>9. Uploaded(saveRows', uploads') /\ Uploaded(blobs', uploads')
    <2> SUFFICES ASSUME NEW r \in Kept PROVE saveRows'[r] <= uploads' /\ blobs'[r] <= uploads'
      BY DEF Uploaded
    <2> QED
      BY <1>1, <1>4, <1>6, <1>7, <1>8
  <1>10. ASSUME NEW f \in Saved, Uploaded(f, uploads) PROVE Uploaded(f, uploads')
    <2>1. \A r \in Kept : f[r] \in Nat /\ f[r] <= uploads
      BY <1>10 DEF Saved, Uploaded
    <2> QED
      BY <1>1, <1>4, <2>1 DEF Uploaded
  <1>11. Uploaded(backup'.db, uploads') /\ Uploaded(backup'.files, uploads') /\ Uploaded(checking'.db, uploads')
    <2>1. backup.db \in Saved /\ backup.files \in Saved /\ checking.db \in Saved
      BY <1>1 DEF BackupRuns, Checks
    <2> QED
      BY <1>3, <1>10, <2>1 DEF BackupsSmall, ContentsSmall
  <1>12. ArchivesSmall'
    <2> SUFFICES ASSUME NEW i \in 1 .. Len(archives) PROVE ArchiveSound(archives[i], uploads', named)
      BY <1>2 DEF ArchivesSmall
    <2>1. archives[i] \in BackupFiles
      BY <1>1
    <2>2. archives[i].db \in Saved /\ archives[i].files \in Saved
      BY <2>1 DEF BackupFiles
    <2>3. ArchiveSound(archives[i], uploads, named)
      BY DEF BackupsSmall, ArchivesSmall
    <2> QED
      BY <1>10, <2>2, <2>3 DEF ArchiveSound
  <1> QED
    BY <1>5, <1>9, <1>11, <1>12 DEF BackupsSmall, ContentsSmall

LEMMA BackupKeepsSmall ==
  ASSUME BackupsInv, BackupsSmall, Snapshot \/ (\E s \in Kept : ArchiveFile(s)) \/ BackupFails
  PROVE  BackupsSmall'
  <1>1. UNCHANGED <<archives, named>> /\ UNCHANGED diskVars /\ UNCHANGED checkVars /\ UNCHANGED restoreVars
    BY DEF Snapshot, ArchiveFile, BackupFails
  <1>2. uploads \in Nat /\ backup \in BackupRuns
    BY DEF BackupsInv, BackupTypes
  <1>3. Uploaded(backup'.db, uploads) /\ Uploaded(backup'.files, uploads)
    <2>1. CASE Snapshot
      <3>1. backup'.db = saveRows /\ backup'.files = Nothing
        BY <2>1 DEF Snapshot
      <3> QED
        BY <1>2, <3>1, NothingIsUploaded DEF BackupsSmall, ContentsSmall
    <2>2. CASE \E s \in Kept : ArchiveFile(s)
      <3>1. PICK s \in Kept : backup' = [backup EXCEPT !.files[s] = blobs[s], !.todo = @ \ {s}]
        BY <2>2 DEF ArchiveFile
      <3>2. backup'.db = backup.db /\ backup'.files = [backup.files EXCEPT ![s] = blobs[s]]
        BY <1>2, <3>1 DEF BackupRuns
      <3>3. \A r \in Kept : backup'.files[r] \in {backup.files[r], blobs[r]}
        BY <1>2, <3>2 DEF BackupRuns, Saved
      <3> QED
        BY <3>2, <3>3 DEF BackupsSmall, ContentsSmall, Uploaded
    <2>3. CASE BackupFails
      BY <1>2, <2>3, NothingIsUploaded DEF BackupFails
    <2> QED
      BY <2>1, <2>2, <2>3
  <1> QED
    BY <1>1, <1>3 DEF BackupsSmall, SavesUnderWay, ContentsSmall, ArchivesSmall, diskVars, checkVars, restoreVars

LEMMA ArchivesKeepSmall ==
  ASSUME BackupsInv, BackupsSmall, Finish \/ Prune
  PROVE  BackupsSmall'
  <1>1. UNCHANGED diskVars /\ UNCHANGED checkVars /\ UNCHANGED restoreVars
    BY DEF Finish, Prune
  <1>2. uploads \in Nat /\ named \in Nat /\ backup \in BackupRuns /\ archives \in Seq(BackupFiles) /\ Len(archives) \in Nat
    BY DEF BackupsInv, BackupTypes
  <1>3. Uploaded(backup'.db, uploads) /\ Uploaded(backup'.files, uploads)
    <2>1. backup'.db = NoBackup.db /\ backup'.files = NoBackup.files
      BY DEF Finish, Prune, NoBackup
    <2> QED
      BY <1>2, <2>1, NothingIsUploaded
  <1>4. ArchivesSmall'
    <2>1. CASE Finish
      <3> DEFINE a == [db |-> backup.db, found |-> backup.found, files |-> backup.files,
                    no |-> named + 1, whole |-> TRUE, calm |-> backup.calm]
      <3>1. archives' = Append(archives, a) /\ named' = named + 1
        BY <2>1 DEF Finish, Archive
      <3>2. a.db = backup.db /\ a.files = backup.files /\ a.no = named + 1 /\ a \in BackupFiles
        BY <1>2 DEF BackupRuns, BackupFiles
      <3> HIDE DEF a
      <3>3. ArchiveSound(a, uploads, named + 1)
        BY <1>2, <3>2 DEF ArchiveSound, BackupsSmall, ContentsSmall
      <3>4. ASSUME NEW i \in 1 .. Len(archives) PROVE ArchiveSound(archives[i], uploads, named + 1)
        <4>1. ArchiveSound(archives[i], uploads, named)
          BY DEF BackupsSmall, ArchivesSmall
        <4> QED
          BY <1>2, <4>1 DEF ArchiveSound
      <3>5. Len(archives') = Len(archives) + 1 /\ \A i \in 1 .. Len(archives') :
              archives'[i] = IF i = Len(archives) + 1 THEN a ELSE archives[i]
        BY <1>2, <3>1, <3>2
      <3>6. ASSUME NEW i \in 1 .. Len(archives') PROVE ArchiveSound(archives'[i], uploads, named + 1)
        <4>1. i = Len(archives) + 1 \/ i \in 1 .. Len(archives)
          BY <1>2, <3>5
        <4> QED
          BY <1>2, <3>3, <3>4, <3>5, <4>1
      <3> QED
        BY <1>1, <3>1, <3>6 DEF ArchivesSmall, diskVars
    <2>2. CASE Prune
      <3>1. archives' = Newest(archives) /\ named' = named
        BY <2>2 DEF Prune
      <3>2. \A i \in 1 .. Len(Newest(archives)) : \E j \in 1 .. Len(archives) : Newest(archives)[i] = archives[j]
        BY <1>2, NewestIsLast
      <3> QED
        BY <1>1, <3>1, <3>2 DEF BackupsSmall, ArchivesSmall, diskVars
    <2> QED
      BY <2>1, <2>2
  <1> QED
    BY <1>1, <1>3, <1>4 DEF BackupsSmall, SavesUnderWay, ContentsSmall, diskVars, checkVars, restoreVars

LEMMA CheckKeepsSmall ==
  ASSUME BackupsInv, BackupsSmall, CheckBegins \/ (\E s \in Kept : CheckFile(s)) \/ CheckEnds \/ CheckFails
  PROVE  BackupsSmall'
  <1>1. UNCHANGED diskVars /\ UNCHANGED backupVars /\ UNCHANGED restoreVars
    BY DEF CheckBegins, CheckFile, CheckEnds, CheckFails
  <1>2. uploads \in Nat /\ checking \in Checks
    BY DEF BackupsInv, BackupTypes
  <1>3. checking'.db \in {checking.db, saveRows, NoCheck.db}
    <2>1. CheckBegins => checking'.db = saveRows
      BY DEF CheckBegins
    <2>2. (\E s \in Kept : CheckFile(s)) => checking'.db = checking.db
      BY <1>2 DEF CheckFile, Checks
    <2>3. CheckEnds => checking'.db = checking.db
      BY <1>2 DEF CheckEnds, Checks
    <2>4. CheckFails => checking'.db = NoCheck.db
      BY DEF CheckFails
    <2> QED
      BY <2>1, <2>2, <2>3, <2>4
  <1>4. Uploaded(checking'.db, uploads)
    BY <1>2, <1>3, NothingIsUploaded DEF BackupsSmall, ContentsSmall
  <1> QED
    BY <1>1, <1>4 DEF BackupsSmall, SavesUnderWay, ContentsSmall, ArchivesSmall, diskVars, backupVars, restoreVars

LEMMA RestoreKeepsSmall ==
  ASSUME BackupsInv, BackupsSmall,
         \/ \E clean \in BOOLEAN : StopServer(clean)
         \/ StartServer
         \/ \E i \in DOMAIN archives : RestoreBegins(i)
         \/ \E s \in Kept : RestoreFile(s)
         \/ RestoreEnds \/ RestoreFails
  PROVE  BackupsSmall'
  <1>1. uploads \in Nat /\ archives \in Seq(BackupFiles) /\ DOMAIN archives = 1 .. Len(archives) /\ blobs \in Saved
    BY DEF BackupsInv, BackupTypes
  <1>2. UNCHANGED <<uploads, archives, named>>
    BY DEF StopServer, StartServer, RestoreBegins, RestoreFile, RestoreEnds, RestoreFails, diskVars, backupVars
  <1>3. SavesUnderWay'
    BY DEF StopServer, StartServer, RestoreBegins, RestoreFile, RestoreEnds, RestoreFails,
           diskVars, BackupsSmall, SavesUnderWay
  <1>4. Uploaded(backup'.db, uploads) /\ Uploaded(backup'.files, uploads) /\ Uploaded(checking'.db, uploads)
    <2>1. \/ backup' = NoBackup /\ checking' = NoCheck
          \/ backup' = backup /\ checking' = checking
      BY DEF StopServer, StartServer, RestoreBegins, RestoreFile, RestoreEnds, RestoreFails, backupVars, checkVars
    <2> QED
      BY <1>1, <2>1, NothingIsUploaded DEF BackupsSmall, ContentsSmall
  <1>5. Uploaded(saveRows', uploads)
    <2>1. saveRows' = saveRows \/ \E i \in 1 .. Len(archives) : saveRows' = archives[i].db
      BY <1>1 DEF StopServer, StartServer, RestoreBegins, RestoreFile, RestoreEnds, RestoreFails, diskVars
    <2> QED
      BY <2>1 DEF BackupsSmall, ContentsSmall, ArchivesSmall, ArchiveSound
  <1>6. Uploaded(blobs', uploads)
    <2>1. CASE blobs' = blobs
      BY <2>1 DEF BackupsSmall, ContentsSmall
    <2>2. CASE \E s \in Kept : RestoreFile(s)
      <3>1. PICK s \in Kept : restoring.at = "unpacking" /\ blobs' = [blobs EXCEPT ![s] = archives[restoring.from].files[s]]
        BY <2>2 DEF RestoreFile
      <3>2. restoring.from \in 1 .. Len(archives)
        BY <3>1 DEF BackupsInv, RestoreInv
      <3>3. \A r \in Kept : blobs'[r] \in {blobs[r], archives[restoring.from].files[r]}
        BY <1>1, <3>1 DEF Saved
      <3> QED
        BY <3>2, <3>3 DEF BackupsSmall, ContentsSmall, ArchivesSmall, ArchiveSound, Uploaded
    <2> QED
      BY <2>1, <2>2 DEF StopServer, StartServer, RestoreBegins, RestoreEnds, RestoreFails, diskVars
  <1> QED
    BY <1>2, <1>3, <1>4, <1>5, <1>6 DEF BackupsSmall, ContentsSmall, ArchivesSmall

\* Rows, files, archives and runs have contents that were uploaded, and every
\* job and command is in a state of its own.
LEMMA BackupsTyped == BackupsSpec => []BackupsTypeOK
  <1>1. BackupsInit => BackupsSmall
    <2> SUFFICES ASSUME BackupsInit PROVE BackupsSmall
      OBVIOUS
    <2>1. SavesUnderWay /\ ArchivesSmall /\ uploads = 0 /\ saveRows = Nothing /\ blobs = Nothing
          /\ backup = NoBackup /\ checking = NoCheck
      BY DEF BackupsInit, SavesUnderWay, ArchivesSmall
    <2>2. ContentsSmall
      BY <2>1, NothingIsUploaded DEF ContentsSmall
    <2> QED
      BY <2>1, <2>2 DEF BackupsSmall
  <1>2. BackupsInv /\ BackupsSmall => BackupsTypeOK
    <2> SUFFICES ASSUME BackupsInv, BackupsSmall PROVE BackupsTypeOK
      OBVIOUS
    <2>1. ASSUME NEW f \in Saved, Uploaded(f, uploads) PROVE f \in Contents
      <3>1. \A s \in Kept : f[s] \in 0 .. uploads
        BY <2>1 DEF Saved, Uploaded, BackupsInv, BackupTypes
      <3> QED
        BY <3>1 DEF Saved, Contents
    <2>2. saveRows \in Contents /\ blobs \in Contents
      BY <2>1 DEF BackupsInv, BackupTypes, BackupsSmall, ContentsSmall
    <2>3. archives \in Seq(BackupFiles) /\ DOMAIN archives = 1 .. Len(archives)
      BY DEF BackupsInv, BackupTypes
    <2>4. ASSUME NEW i \in DOMAIN archives
          PROVE  archives[i] \in [db : Contents, found : SUBSET Kept, files : Contents,
                                  no : 1 .. named, whole : BOOLEAN, calm : BOOLEAN]
      <3>1. archives[i] \in BackupFiles
        BY <2>3
      <3>2. ArchiveSound(archives[i], uploads, named)
        BY <2>3 DEF BackupsSmall, ArchivesSmall
      <3>3. archives[i].db \in Contents /\ archives[i].files \in Contents
        BY <2>1, <3>1, <3>2 DEF BackupFiles, ArchiveSound
      <3> QED
        BY <3>1, <3>2, <3>3 DEF BackupFiles, ArchiveSound
    <2>5. backup.db \in Contents /\ backup.files \in Contents /\ checking.db \in Contents
      BY <2>1 DEF BackupsInv, BackupTypes, BackupRuns, Checks, BackupsSmall, ContentsSmall
    <2>6. backup \in [at : {"idle", "saves", "prune"}, db : Contents, found : SUBSET Kept,
                 files : Contents, todo : SUBSET Kept, calm : BOOLEAN]
      BY <2>5 DEF BackupsInv, BackupTypes, BackupRuns
    <2>7. checking \in [at : {"idle", "reading"}, db : Contents, todo : SUBSET Kept,
                   bad : SUBSET Kept, calm : SUBSET Kept]
      BY <2>5 DEF BackupsInv, BackupTypes, Checks
    <2>8. restoring.at \in {"idle", "unpacking", "done", "failed"}
      BY DEF BackupsInv, BackupTypes, Restores
    <2> QED
      BY <2>2, <2>4, <2>6, <2>7, <2>8 DEF BackupsInv, BackupTypes, BackupsSmall, SavesUnderWay, BackupsTypeOK
  <1>3. BackupsInv /\ BackupsSmall /\ [BackupsNext]_backupsVars => BackupsSmall'
    <2>1. BackupsSmall /\ UNCHANGED backupsVars => BackupsSmall'
      BY DEF BackupsSmall, SavesUnderWay, ContentsSmall, ArchivesSmall,
             backupsVars, diskVars, backupVars, checkVars, restoreVars
    <2> QED
      BY <2>1, UploadsKeepSmall, BackupKeepsSmall, ArchivesKeepSmall, CheckKeepsSmall, RestoreKeepsSmall DEF BackupsNext
  <1> QED
    BY <1>1, <1>2, <1>3, BackupsBegin, BackupsSteps, PTL DEF BackupsSpec

---------------------------------------------------------------------------
(* Migrations. *)

\* The contents are those there were, the versions those and the archived ones,
\* and no step is beyond the last.
SlotVersions == SlotContents \cup {Archived + c : c \in SlotContents}
SlotsSmall(t) == \A o \in Owners, k \in SlotKeys : t[o][k].c \in SlotContents
VersionsSmall(v) == \A o \in Owners, k \in SlotKeys : v[o][k] \subseteq SlotVersions
FilesSmall == \A o \in Owners, k \in SlotKeys : disk[o][k] \in SlotContents
TablesSmall ==
  /\ SlotsSmall(slots) /\ VersionsSmall(versions) /\ FilesSmall
  /\ SlotsSmall(start.slots) /\ VersionsSmall(start.versions)
StepsSmall == schema <= LastStep /\ start.step <= LastStep + 1 /\ falls \in 0 .. MaxFalls
MigrationSmall == TablesSmall /\ StepsSmall

LEMMA NoContentIsSmall == 0 \in SlotContents /\ SlotsSmall(Down.slots) /\ VersionsSmall(Down.versions) /\ Down.step = 0
  <1>1. Cardinality(SlotKeys) \in Nat
    BY MigrationBounds, FS_Singleton, FS_Union, FS_CardinalityType DEF SlotKeys
  <1>2. 0 \in SlotContents
    BY <1>1 DEF SlotContents
  <1> QED
    BY <1>2 DEF Down, SlotsSmall, VersionsSmall, NoSlot

LEMMA StepsStaySmall ==
  ASSUME MigrationInv, StepsSmall, [MigrationNext]_migrationVars
  PROVE  StepsSmall'
  <1>1. start \in Starts /\ start.step \in Nat /\ schema \in Nat /\ MergeStep \in Nat /\ LastStep \in Nat /\ MergeStep < LastStep
        /\ MaxFalls \in Nat
    BY MigrationBounds DEF MigrationInv, MigrationTypes, Starts
  <1>2. falls' \in 0 .. MaxFalls
    <2>1. falls' = falls \/ Fall
      BY DEF MigrationNext, migrationVars, ServerMigrates, PlainStep, MergeBegins, DryRunOfMerge, MergeCommits,
             OpsEnd, Serve, StartFails, MergeGroup, RenameBlob, RemoveBlob, RenameFails
    <2> QED
      BY <1>1, <2>1 DEF StepsSmall, Fall
  <1>3. schema' <= LastStep
    <2>1. schema' = schema \/ (start.step \in 1 .. LastStep /\ schema' = start.step) \/ schema' = MergeStep
      BY DEF MigrationNext, migrationVars, storeVars, ServerMigrates, PlainStep, MergeBegins, DryRunOfMerge, MergeCommits,
             OpsEnd, Serve, StartFails, MergeGroup, RenameBlob, RemoveBlob, RenameFails
    <2> QED
      BY <1>1, <2>1 DEF StepsSmall
  <1>4. start'.step <= LastStep + 1
    <2>1. ASSUME NEW dry \in BOOLEAN, ServerMigrates(dry) PROVE start'.step = schema + 1
      BY <2>1 DEF ServerMigrates, Down
    <2>2. ASSUME PlainStep \/ DryRunOfMerge PROVE start'.step = start.step + 1 /\ start.step <= LastStep
      <3>1. start'.step = start.step + 1
        BY <1>1, <2>2 DEF PlainStep, DryRunOfMerge, Starts
      <3> QED
        BY <1>1, <2>2, <3>1 DEF PlainStep, DryRunOfMerge
    <2>3. ASSUME OpsEnd PROVE start'.step = start.step + 1 /\ start.step <= LastStep
      <3>1. start'.step = start.step + 1
        BY <1>1, <2>3 DEF OpsEnd, Starts
      <3>2. start.step = MergeStep
        BY <2>3 DEF OpsEnd, MigrationInv, Before, After
      <3> QED
        BY <1>1, <3>1, <3>2
    <2>4. ASSUME MergeBegins \/ Serve PROVE start'.step = start.step
      BY <1>1, <2>4 DEF MergeBegins, Serve, Starts
    <2>5. ASSUME MergeCommits PROVE start'.step = start.step
      BY <1>1, <2>5 DEF MergeCommits, Down
    <2>6. ASSUME StartFails PROVE start'.step = 0
      BY <2>6, NoContentIsSmall DEF StartFails
    <2>7. ASSUME NEW o \in Owners, MergeGroup(o) PROVE start'.step = start.step
      BY <1>1, <2>7 DEF MergeGroup, Starts
    <2>8. ASSUME NEW o \in Owners, RenameBlob(o) \/ (\E path \in SlotKeys, ok \in BOOLEAN : RemoveBlob(o, path, ok))
                   \/ (\E pointed \in BOOLEAN : RenameFails(o, pointed))
          PROVE  start'.step = start.step
      BY <1>1, <2>8 DEF RenameBlob, RemoveBlob, RenameFails, Starts
    <2>9. UNCHANGED migrationVars => start'.step = start.step
      BY DEF migrationVars
    <2> QED
      BY <1>1, <2>1, <2>2, <2>3, <2>4, <2>5, <2>6, <2>7, <2>8, <2>9 DEF StepsSmall, MigrationNext
  <1> QED
    BY <1>2, <1>3, <1>4 DEF StepsSmall

\* The group's tables are made of what is there.
LEMMA GroupStaysSmall ==
  ASSUME MigrationInv, TablesSmall, NEW o \in Owners, MergeGroup(o)
  PROVE  SlotsSmall(start'.slots) /\ VersionsSmall(start'.versions)
  <1> DEFINE table == start.slots[o]
             s == CHOOSE k \in Present(table) : \A j \in Present(table) : table[j].c <= table[k].c
             losers == Present(table) \ {s}
             table2 == [k \in SlotKeys |-> IF k = Merged THEN [c |-> table[s].c, file |-> Merged] ELSE NoSlot]
             kept2 == [k \in SlotKeys |-> IF k = Merged
                         THEN (UNION {start.versions[o][j] : j \in SlotKeys}) \cup {disk[o][table[j].file] : j \in losers}
                         ELSE {}]
             op2 == [gone |-> {table[j].file : j \in losers}, from |-> IF s # Merged THEN {table[s].file} ELSE {}]
  <1>1. start.at = "tx" /\ o \in start.todo
    BY DEF MergeGroup
  <1>2. MigrationTypes /\ Untouched(o) /\ start.slots[o] = slots[o]
    BY <1>1 DEF MigrationInv, Before, After
  <1>3. start \in Starts /\ start.slots \in Tables /\ start.versions \in Archives /\ table \in [SlotKeys -> Slots]
        /\ disk[o] \in [SlotKeys -> Nat]
    BY <1>2 DEF MigrationTypes, Starts, Tables
  <1>4. SlotsSmall(start.slots) /\ VersionsSmall(start.versions)
    BY DEF TablesSmall
  <1>5. CASE Present(table) \subseteq {Merged}
    <2>1. start' = [start EXCEPT !.todo = @ \ {o}]
      BY <1>5 DEF MergeGroup
    <2>2. start'.slots = start.slots /\ start'.versions = start.versions
      BY <1>3, <2>1 DEF Starts
    <2> QED
      BY <1>4, <2>2
  <1>6. CASE ~(Present(table) \subseteq {Merged})
    <2>1. s \in Present(table)
      <3>1. \E k \in Present(table) : \A j \in Present(table) : table[j].c <= table[k].c
        BY <1>2, <1>6, SurvivorExists
      <3> QED
        BY <3>1
    <2>2. start' = [start EXCEPT !.todo = @ \ {o}, !.slots[o] = table2, !.versions[o] = kept2, !.ops[o] = op2]
      BY <1>6 DEF MergeGroup
    <2> HIDE DEF table2, kept2, op2
    <2>3. start'.slots = [start.slots EXCEPT ![o] = table2] /\ start'.versions = [start.versions EXCEPT ![o] = kept2]
      BY <1>3, <2>2 DEF Starts
    <2>4. /\ \A p \in Owners : start'.slots[p] = IF p = o THEN table2 ELSE start.slots[p]
          /\ \A p \in Owners : start'.versions[p] = IF p = o THEN kept2 ELSE start.versions[p]
      BY <1>3, <2>3 DEF Tables, Archives
    <2>5. \A k \in SlotKeys : table2[k].c \in SlotContents
      <3>1. table[s].c \in SlotContents
        BY <1>4, <2>1 DEF Present, SlotsSmall
      <3> HIDE DEF s, table
      <3> QED
        BY <3>1, NoContentIsSmall DEF table2, NoSlot
    <2>6. \A k \in SlotKeys : kept2[k] \subseteq SlotVersions
      <3>1. UNION {start.versions[o][j] : j \in SlotKeys} \subseteq SlotVersions
        BY <1>4 DEF VersionsSmall
      <3>2. {disk[o][table[j].file] : j \in losers} \subseteq SlotVersions
        <4> SUFFICES ASSUME NEW j \in losers PROVE disk[o][table[j].file] \in SlotVersions
          OBVIOUS
        <4>1. j \in SlotKeys
          BY DEF Present
        <4>2. table[j].file \in SlotKeys
          BY <1>3, <4>1 DEF Slots
        <4> HIDE DEF table, losers
        <4> QED
          BY <4>2 DEF TablesSmall, FilesSmall, SlotVersions
      <3> HIDE DEF losers, table
      <3> QED
        BY <3>1, <3>2 DEF kept2
    <2> HIDE DEF table, s, losers
    <2>7. SlotsSmall(start'.slots)
      <3> SUFFICES ASSUME NEW p \in Owners, NEW k \in SlotKeys PROVE start'.slots[p][k].c \in SlotContents
        BY DEF SlotsSmall
      <3> QED
        BY <1>4, <2>4, <2>5 DEF SlotsSmall
    <2>8. VersionsSmall(start'.versions)
      <3> SUFFICES ASSUME NEW p \in Owners, NEW k \in SlotKeys PROVE start'.versions[p][k] \subseteq SlotVersions
        BY DEF VersionsSmall
      <3> QED
        BY <1>4, <2>4, <2>6 DEF VersionsSmall
    <2> QED
      BY <2>7, <2>8
  <1> QED
    BY <1>5, <1>6

\* A file operation moves a content or drops one.
LEMMA FilesStaySmall ==
  ASSUME MigrationInv, TablesSmall, NEW o \in Owners,
         \/ RenameBlob(o)
         \/ \E path \in SlotKeys, ok \in BOOLEAN : RemoveBlob(o, path, ok)
         \/ \E pointed \in BOOLEAN : RenameFails(o, pointed)
  PROVE  TablesSmall'
  <1>1. /\ start \in Starts /\ start.ops \in OpsOf /\ slots \in Tables /\ disk \in [Owners -> [SlotKeys -> Nat]]
        /\ start.ops[o] \in Ops /\ slots[o] \in [SlotKeys -> Slots] /\ disk[o] \in [SlotKeys -> Nat]
    BY OperandTypes
  <1>2. versions' = versions
    BY DEF RenameBlob, RemoveBlob, RenameFails
  <1>3. start'.slots = start.slots /\ start'.versions = start.versions
    BY <1>1 DEF RenameBlob, RemoveBlob, RenameFails, Starts
  <1>4. FilesSmall'
    <2>1. CASE RenameBlob(o)
      <3>1. PICK path \in start.ops[o].from : disk' = [disk EXCEPT ![o][Merged] = disk[o][path], ![o][path] = 0]
        BY <2>1 DEF RenameBlob
      <3>2. path \in SlotKeys
        BY <1>1 DEF Ops
      <3>3. \A p \in Owners, k \in SlotKeys : disk'[p][k] \in {disk[p][k], disk[o][path], 0}
        BY <1>1, <3>1
      <3> QED
        BY <3>2, <3>3, NoContentIsSmall DEF TablesSmall, FilesSmall
    <2>2. CASE \E path \in SlotKeys, ok \in BOOLEAN : RemoveBlob(o, path, ok)
      <3>1. PICK path \in SlotKeys : disk' \in {disk, [disk EXCEPT ![o][path] = 0]}
        BY <2>2 DEF RemoveBlob
      <3>2. \A p \in Owners, k \in SlotKeys : disk'[p][k] \in {disk[p][k], 0}
        BY <1>1, <3>1
      <3> QED
        BY <3>2, NoContentIsSmall DEF TablesSmall, FilesSmall
    <2>3. CASE \E pointed \in BOOLEAN : RenameFails(o, pointed)
      BY <2>3 DEF RenameFails, TablesSmall, FilesSmall
    <2> QED
      BY <2>1, <2>2, <2>3
  <1>5. SlotsSmall(slots')
    <2>1. \A p \in Owners, k \in SlotKeys : slots'[p][k].c = slots[p][k].c
      <3>1. CASE \E pointed \in BOOLEAN : RenameFails(o, pointed)
        <4>1. slots' = slots \/ \E path \in SlotKeys : slots' = [slots EXCEPT ![o][Merged].file = path]
          BY <1>1, <3>1 DEF RenameFails, Ops
        <4>2. ASSUME NEW path \in SlotKeys, slots' = [slots EXCEPT ![o][Merged].file = path],
                     NEW p \in Owners, NEW k \in SlotKeys
              PROVE  slots'[p][k].c = slots[p][k].c
          <5>1. slots[o][Merged] \in Slots
            BY <1>1, MergedIsAKey
          <5> DEFINE r == [slots[o][Merged] EXCEPT !.file = path]
          <5>2. r.c = slots[o][Merged].c
            BY <5>1 DEF Slots
          <5>3. slots' = [slots EXCEPT ![o] = [slots[o] EXCEPT ![Merged] = r]]
            BY <1>1, <4>2, MergedIsAKey
          <5> HIDE DEF r
          <5>4. slots'[p][k] = IF p = o /\ k = Merged THEN r ELSE slots[p][k]
            BY <1>1, <5>3 DEF Tables
          <5> QED
            BY <5>2, <5>4
        <4> QED
          BY <4>1, <4>2
      <3>2. CASE ~(\E pointed \in BOOLEAN : RenameFails(o, pointed))
        BY <3>2 DEF RenameBlob, RemoveBlob
      <3> QED
        BY <3>1, <3>2
    <2> QED
      BY <2>1 DEF TablesSmall, SlotsSmall
  <1> QED
    BY <1>2, <1>3, <1>4, <1>5 DEF TablesSmall

LEMMA TablesStaySmall ==
  ASSUME MigrationInv, TablesSmall, [MigrationNext]_migrationVars
  PROVE  TablesSmall'
  <1>1. start \in Starts
    BY DEF MigrationInv, MigrationTypes
  <1>2. ASSUME NEW dry \in BOOLEAN, ServerMigrates(dry) PROVE TablesSmall'
    <2>1. start'.slots = Down.slots /\ start'.versions = Down.versions
      BY <1>2 DEF ServerMigrates, Down
    <2> QED
      BY <1>2, <2>1, NoContentIsSmall DEF ServerMigrates, storeVars, TablesSmall, FilesSmall
  <1>3. ASSUME PlainStep \/ DryRunOfMerge \/ OpsEnd \/ Serve PROVE TablesSmall'
    <2>1. start'.slots = start.slots /\ start'.versions = start.versions
      BY <1>1, <1>3 DEF PlainStep, DryRunOfMerge, OpsEnd, Serve, Starts
    <2>2. UNCHANGED <<slots, disk, versions>>
      BY <1>3 DEF PlainStep, DryRunOfMerge, OpsEnd, Serve, storeVars
    <2> QED
      BY <2>1, <2>2 DEF TablesSmall, FilesSmall
  <1>4. ASSUME MergeBegins PROVE TablesSmall'
    <2>1. start'.slots = slots /\ start'.versions = versions
      BY <1>1, <1>4 DEF MergeBegins, Starts
    <2> QED
      BY <1>4, <2>1 DEF MergeBegins, storeVars, TablesSmall, FilesSmall
  <1>5. ASSUME MergeCommits PROVE TablesSmall'
    <2>1. start'.slots = Down.slots /\ start'.versions = Down.versions
      BY <1>5 DEF MergeCommits, Down
    <2> QED
      BY <1>5, <2>1, NoContentIsSmall DEF MergeCommits, TablesSmall, FilesSmall
  <1>6. ASSUME StartFails PROVE TablesSmall'
    BY <1>6, NoContentIsSmall DEF StartFails, storeVars, TablesSmall, FilesSmall
  <1>7. ASSUME NEW o \in Owners, MergeGroup(o) PROVE TablesSmall'
    BY <1>7, GroupStaysSmall DEF MergeGroup, storeVars, TablesSmall, FilesSmall
  <1>8. UNCHANGED migrationVars => TablesSmall'
    BY DEF migrationVars, storeVars, TablesSmall, FilesSmall
  <1> QED
    BY <1>2, <1>3, <1>4, <1>5, <1>6, <1>7, <1>8, FilesStaySmall DEF MigrationNext

\* A migration makes up no content and runs no step beyond the last.
LEMMA MigrationTyped == MigrationSpec => []MigrationTypeOK
  <1>1. MigrationInit => MigrationSmall
    <2> SUFFICES ASSUME MigrationInit PROVE MigrationSmall
      OBVIOUS
    <2>1. PICK age \in [Owners -> [SlotKeys -> 0 .. Cardinality(SlotKeys)]] :
         /\ slots = [o \in Owners |-> [k \in SlotKeys |->
                       IF age[o][k] = 0 THEN NoSlot ELSE [c |-> age[o][k], file |-> k]]]
         /\ disk = age
         /\ versions = [o \in Owners |-> [k \in SlotKeys |->
                          IF age[o][k] = 0 THEN {} ELSE {Archived + age[o][k]}]]
      BY DEF MigrationInit
    <2>2. \A o \in Owners, k \in SlotKeys : age[o][k] \in SlotContents
      BY DEF SlotContents
    <2>3. SlotsSmall(slots) /\ VersionsSmall(versions) /\ FilesSmall
      BY <2>1, <2>2, NoContentIsSmall DEF SlotsSmall, VersionsSmall, FilesSmall, SlotVersions, NoSlot
    <2>4. start = Down /\ schema = MergeStep - 1 /\ falls = 0
      BY DEF MigrationInit
    <2>5. StepsSmall
      BY <2>4, NoContentIsSmall, MigrationBounds DEF StepsSmall
    <2> QED
      BY <2>3, <2>4, <2>5, NoContentIsSmall DEF MigrationSmall, TablesSmall
  <1>2. MigrationInv /\ MigrationSmall => MigrationTypeOK
    <2> SUFFICES ASSUME MigrationInv, MigrationSmall PROVE MigrationTypeOK
      OBVIOUS
    <2>1. start \in Starts /\ slots \in Tables /\ versions \in Archives /\ schema \in Nat
          /\ disk \in [Owners -> [SlotKeys -> Nat]]
      BY DEF MigrationInv, MigrationTypes
    <2>2. ASSUME NEW t \in Tables, SlotsSmall(t) PROVE t \in SlotTables
      <3>1. \A o \in Owners, k \in SlotKeys : t[o][k] \in Slots /\ t[o][k].c \in SlotContents
        BY <2>2 DEF Tables, SlotsSmall
      <3>2. \A o \in Owners, k \in SlotKeys : t[o][k] \in [c : SlotContents, file : SlotKeys]
        BY <3>1 DEF Slots
      <3> QED
        BY <2>2, <3>2 DEF Tables, SlotTables
    <2>3. ASSUME NEW v \in Archives, VersionsSmall(v) PROVE v \in VersionTables
      BY <2>3 DEF Archives, VersionsSmall, VersionTables, SlotVersions
    <2>4. start.slots \in SlotTables /\ start.versions \in VersionTables
      BY <2>1, <2>2, <2>3 DEF Starts, MigrationSmall, TablesSmall
    <2>5. slots \in SlotTables /\ versions \in VersionTables
      BY <2>1, <2>2, <2>3 DEF MigrationSmall, TablesSmall
    <2>6. disk \in [Owners -> [SlotKeys -> SlotContents]]
      BY <2>1 DEF MigrationSmall, TablesSmall, FilesSmall
    <2>7. start.ops \in [Owners -> [gone : SUBSET SlotKeys, from : SUBSET SlotKeys]]
      BY <2>1 DEF Starts, OpsOf, Ops
    <2>8. schema \in 0 .. LastStep /\ start.step \in 0 .. LastStep + 1
      <3>1. start.step \in Nat /\ LastStep \in Nat
        BY <2>1, MigrationBounds DEF Starts
      <3> QED
        BY <2>1, <3>1 DEF MigrationSmall, StepsSmall
    <2>9. start.at \in {"down", "steps", "tx", "ops", "serving"} /\ start.todo \subseteq Owners
      BY <2>1 DEF Starts
    <2> QED
      BY <2>4, <2>5, <2>6, <2>7, <2>8, <2>9 DEF MigrationSmall, StepsSmall, MigrationTypeOK
  <1>3. MigrationInv /\ MigrationSmall /\ [MigrationNext]_migrationVars => MigrationSmall'
    BY StepsStaySmall, TablesStaySmall DEF MigrationSmall
  <1> QED
    BY <1>1, <1>2, <1>3, MigrationBegins, MigrationSteps, PTL DEF MigrationSpec

---------------------------------------------------------------------------
(* Export and import. *)

\* Every version in a row, a listing or an archive has been uploaded, and an
\* import counts no more failures than it has entries.
Small(r) == r.hash.ver <= MaxWrites /\ r.bytes.ver <= MaxWrites
RunSmall(e) == \A p \in Places : Small(e.list[p]) /\ Small(e.entries[p])
RowsSmall == \A p \in Places : Small(shelf[p]) /\ Small(archive.entries[p])
RunsSmall == RunSmall(export) /\ RunSmall(download)
Failures == import.failed + Cardinality(import.left) <= Cardinality(Places)
ZipsBounded ==
  /\ spoiled \subseteq Places /\ writes \in 0 .. MaxWrites /\ spoils \in 0 .. MaxSpoils
ArchiveSmall == RowsSmall /\ RunsSmall /\ Failures /\ ZipsBounded

LEMMA GoneIsSmall == Small(Gone) /\ RunSmall(NoExport)
  <1>1. Small(Gone)
    BY ArchiveBounds DEF Small, Gone, Plain
  <1> QED
    BY <1>1 DEF RunSmall, NoExport

\* A row changes, or none.
LEMMA RowStaysSmall ==
  ASSUME ArchiveInv, RowsSmall, NEW p \in Places, NEW r, Small(r), shelf' = [shelf EXCEPT ![p] = r], UNCHANGED archive
  PROVE  RowsSmall'
  <1>1. \A q \in Places : shelf'[q] = IF q = p THEN r ELSE shelf[q]
    BY DEF ArchiveInv, ZipTypes
  <1> QED
    BY <1>1 DEF RowsSmall, Small

LEMMA RunsStaySmall ==
  ASSUME ArchiveInv, ArchiveSmall, [ArchiveNext]_archiveVars
  PROVE  RunsSmall'
  <1>0. /\ RunSmall(export) /\ RunSmall(download) /\ export \in ZipRuns /\ download \in ZipRuns
        /\ \A p \in Places : Small(shelf[p]) /\ shelf[p] \in ZipRows
    BY DEF ArchiveSmall, RunsSmall, RowsSmall, ArchiveInv, ZipTypes
  <1>1. ASSUME NEW p \in Places, ExportReads(p) PROVE RunSmall(export') /\ UNCHANGED download
    <2>1. CASE shelf[p].there /\ p \notin spoiled
      <3> DEFINE r == [export.list[p] EXCEPT !.bytes = shelf[p].bytes]
      <3>1. Small(r)
        <4>1. export.list[p] \in ZipRows /\ Small(export.list[p])
          BY <1>0 DEF ZipRuns, RunSmall
        <4>2. r.hash = export.list[p].hash /\ r.bytes = shelf[p].bytes
          BY <4>1 DEF ZipRows
        <4> QED
          BY <1>0, <4>1, <4>2 DEF Small
      <3>2. export' = [export EXCEPT !.left = export.left \ {p}, !.entries[p] = r] /\ UNCHANGED download
        BY <1>0, <1>1, <2>1 DEF ExportReads, ZipRuns
      <3> HIDE DEF r
      <3>3. export'.list = export.list /\ \A q \in Places : export'.entries[q] = IF q = p THEN r ELSE export.entries[q]
        BY <1>0, <3>2 DEF ZipRuns
      <3> QED
        BY <1>0, <3>1, <3>2, <3>3 DEF RunSmall
    <2>2. CASE ~(shelf[p].there /\ p \notin spoiled)
      <3>1. export' = [export EXCEPT !.left = export.left \ {p}, !.omitted = export.omitted \cup {p}] /\ UNCHANGED download
        BY <1>0, <1>1, <2>2 DEF ExportReads, ZipRuns
      <3>2. export'.list = export.list /\ export'.entries = export.entries
        BY <1>0, <3>1 DEF ZipRuns
      <3> QED
        BY <1>0, <3>1, <3>2 DEF RunSmall
    <2> QED
      BY <2>1, <2>2
  <1>2. ASSUME NEW p \in Places, DownloadReads(p) PROVE RunSmall(download') /\ UNCHANGED export
    <2> DEFINE d == Decoded(shelf[p])
               r == [hash |-> d, sealed |-> FALSE, bytes |-> d, there |-> TRUE]
    <2>1. Small(r)
      <3>1. d.ver = shelf[p].bytes.ver
        BY <1>0 DEF Decoded, Plain, ZipRows, AllBytes
      <3> QED
        BY <1>0, <3>1 DEF Small
    <2>2. download' = [download EXCEPT !.left = download.left \ {p}, !.entries[p] = r] /\ UNCHANGED export
      BY <1>0, <1>2 DEF DownloadReads, ZipRuns
    <2> HIDE DEF r
    <2>3. download'.list = download.list /\ \A q \in Places : download'.entries[q] = IF q = p THEN r ELSE download.entries[q]
      BY <1>0, <2>2 DEF ZipRuns
    <2> QED
      BY <1>0, <2>1, <2>2, <2>3 DEF RunSmall
  <1>3. ASSUME NEW chosen PROVE RunSmall([NoExport EXCEPT !.at = "reads", !.left = chosen,
                                        !.list = [p \in Places |-> IF p \in chosen THEN shelf[p] ELSE Gone]])
    <2> DEFINE list == [p \in Places |-> IF p \in chosen THEN shelf[p] ELSE Gone]
               e == [NoExport EXCEPT !.at = "reads", !.left = chosen, !.list = list]
    <2>1. e.entries = NoExport.entries /\ e.list = list
      BY DEF NoExport
    <2>2. \A p \in Places : Small(list[p])
      BY <1>0, GoneIsSmall
    <2> HIDE DEF list
    <2>3. RunSmall(e)
      BY <2>1, <2>2, GoneIsSmall DEF RunSmall
    <2> QED
      BY <2>3 DEF list
  <1>4. CASE ExportLists
    <2>1. PICK chosen \in SUBSET There \ {{}} :
            export' = [NoExport EXCEPT !.at = "reads", !.left = chosen,
                          !.list = [p \in Places |-> IF p \in chosen THEN shelf[p] ELSE Gone]]
      BY <1>4, Zenon DEF ExportLists
    <2>2. RunSmall(export')
      BY <1>3, <2>1
    <2> QED
      BY <1>0, <1>4, <2>2 DEF ExportLists, RunsSmall, RunSmall
  <1>5. CASE DownloadLists
    <2>1. PICK chosen \in SUBSET There \ {{}} :
            download' = [NoExport EXCEPT !.at = "reads", !.left = chosen,
                          !.list = [p \in Places |-> IF p \in chosen THEN shelf[p] ELSE Gone]]
      BY <1>5, Zenon DEF DownloadLists
    <2>2. RunSmall(download')
      BY <1>3, <2>1
    <2> QED
      BY <1>0, <1>5, <2>2 DEF DownloadLists, RunsSmall, RunSmall
  <1>6. ASSUME export' \in {export, NoExport}, download' \in {download, NoExport} PROVE RunsSmall'
    BY <1>0, <1>6, GoneIsSmall DEF RunsSmall, RunSmall, Small
  <1>7. ASSUME NEW p \in Places, \/ Uploads(p) \/ PromotesOnly(p) \/ Deletes(p) \/ Spoils(p)
                                \/ ImportStores(p) \/ ImportFails(p) \/ DownloadFails(p)
        PROVE  RunsSmall'
    BY <1>6, <1>7 DEF Uploads, PromotesOnly, Deletes, Spoils, ImportStores, ImportFails, DownloadFails
  <1>8. CASE ExportEnds \/ ExportBreaks \/ DownloadEnds \/ ImportBegins \/ ImportEnds \/ UNCHANGED archiveVars
    BY <1>6, <1>8 DEF ExportEnds, ExportBreaks, DownloadEnds, ImportBegins, ImportEnds, archiveVars
  <1>9. ASSUME NEW p \in Places, ExportReads(p) \/ DownloadReads(p) PROVE RunsSmall'
    BY <1>0, <1>1, <1>2, <1>9 DEF RunsSmall, RunSmall, Small
  <1> QED
    BY <1>4, <1>5, <1>7, <1>8, <1>9 DEF ArchiveNext

LEMMA RowsStaySmall ==
  ASSUME ArchiveInv, ArchiveSmall, [ArchiveNext]_archiveVars
  PROVE  RowsSmall' /\ ZipsBounded'
  <1>0. /\ RowsSmall /\ RunSmall(export) /\ RunSmall(download) /\ MaxWrites \in Nat /\ MaxSpoils \in Nat
        /\ spoiled \subseteq Places /\ writes \in 0 .. MaxWrites /\ spoils \in 0 .. MaxSpoils
    BY ArchiveBounds DEF ArchiveSmall, RunsSmall, ZipsBounded
  <1>1. ASSUME NEW p \in Places, Uploads(p) PROVE RowsSmall' /\ ZipsBounded'
    <2>1. PICK cipher \in BOOLEAN : shelf' = [shelf EXCEPT ![p] = RowOf([ver |-> writes', cipher |-> cipher])]
      BY <1>1 DEF Uploads
    <2>2. writes' \in 0 .. MaxWrites /\ spoiled' \subseteq Places /\ UNCHANGED <<archive, spoils>>
      BY <1>0, <1>1 DEF Uploads
    <2> DEFINE b == [ver |-> writes', cipher |-> cipher]
    <2>3. b.ver = writes'
      OBVIOUS
    <2>4. Small(RowOf(b))
      BY <1>0, <2>2 DEF RowOf, Plain, Small
    <2> HIDE DEF b
    <2>5. RowsSmall'
      BY <1>0, <2>1, <2>2, <2>4, RowStaysSmall DEF b
    <2> QED
      BY <1>0, <2>2, <2>5 DEF ZipsBounded
  <1>2. ASSUME NEW p \in Places, Deletes(p) PROVE RowsSmall' /\ ZipsBounded'
    <2>1. RowsSmall'
      BY <1>0, <1>2, GoneIsSmall, RowStaysSmall DEF Deletes
    <2> QED
      BY <1>0, <1>2, <2>1 DEF Deletes, ZipsBounded
  <1>3. ASSUME NEW p \in Places, ImportStores(p) PROVE RowsSmall' /\ ZipsBounded'
    <2>1. UNCHANGED <<archive, writes, spoils>> /\ spoiled' \subseteq Places
      BY <1>0, <1>3 DEF ImportStores
    <2>2. CASE UNCHANGED shelf
      BY <1>0, <2>1, <2>2 DEF RowsSmall, Small, ZipsBounded
    <2>3. CASE ~UNCHANGED shelf
      <3> DEFINE e == archive.entries[p]
                 r == [e EXCEPT !.hash = StoredHash(e)]
      <3>1. shelf' = [shelf EXCEPT ![p] = r]
        BY <1>3, <2>3 DEF ImportStores
      <3>2. e \in ZipRows /\ Small(e)
        BY <1>0 DEF ArchiveInv, ZipTypes, ZipFiles, RowsSmall
      <3>3. Small(r)
        BY <3>2 DEF StoredHash, ZipRows, Small
      <3> HIDE DEF r
      <3> QED
        BY <1>0, <2>1, <3>1, <3>3, RowStaysSmall DEF ZipsBounded
    <2> QED
      BY <2>2, <2>3
  <1>4. ASSUME UNCHANGED shelf, spoils' \in 0 .. MaxSpoils, spoiled' \subseteq Places, UNCHANGED writes,
               \/ UNCHANGED archive
               \/ archive'.entries = export.entries \/ archive'.entries = download.entries
        PROVE  RowsSmall' /\ ZipsBounded'
    BY <1>0, <1>4 DEF RowsSmall, RunSmall, Small, ZipsBounded
  <1>5. ASSUME NEW p \in Places, Spoils(p) \/ ExportReads(p) \/ DownloadReads(p) \/ DownloadFails(p) \/ ImportFails(p)
        PROVE  RowsSmall' /\ ZipsBounded'
    BY <1>0, <1>4, <1>5 DEF Spoils, ExportReads, DownloadReads, DownloadFails, ImportFails
  <1>6. ASSUME NEW p \in Places, PromotesOnly(p) PROVE RowsSmall' /\ ZipsBounded'
    <2>1. PICK cipher \in BOOLEAN : shelf' = [shelf EXCEPT ![p].bytes = [ver |-> writes', cipher |-> cipher]]
      BY <1>6 DEF PromotesOnly
    <2>2. writes' \in 0 .. MaxWrites /\ spoiled' \subseteq Places /\ UNCHANGED <<archive, spoils>>
      BY <1>0, <1>6 DEF PromotesOnly
    <2> DEFINE b == [ver |-> writes', cipher |-> cipher]
               r == [shelf[p] EXCEPT !.bytes = b]
    <2>3. shelf' = [shelf EXCEPT ![p] = r]
      BY <2>1 DEF ArchiveInv, ZipTypes
    <2>4. r.hash = shelf[p].hash /\ r.bytes = b /\ b.ver = writes'
      BY DEF ArchiveInv, ZipTypes, ZipRows
    <2>5. Small(r)
      BY <1>0, <2>2, <2>4 DEF RowsSmall, Small
    <2> HIDE DEF r
    <2>6. RowsSmall'
      BY <1>0, <2>2, <2>3, <2>5, RowStaysSmall
    <2> QED
      BY <1>0, <2>2, <2>6 DEF ZipsBounded
  <1>7. CASE ExportEnds \/ DownloadEnds
    BY <1>0, <1>4, <1>7 DEF ExportEnds, DownloadEnds
  <1>8. CASE ExportLists \/ ExportBreaks \/ DownloadLists \/ ImportBegins \/ ImportEnds \/ UNCHANGED archiveVars
    <2>1. UNCHANGED <<shelf, archive, spoiled, writes>>
      BY <1>8 DEF ExportLists, ExportBreaks, DownloadLists, ImportBegins, ImportEnds, archiveVars
    <2>2. spoils' = spoils \/ (spoils < MaxSpoils /\ spoils' = spoils + 1)
      BY <1>8 DEF ExportLists, ExportBreaks, DownloadLists, ImportBegins, ImportEnds, archiveVars
    <2> QED
      BY <1>0, <1>4, <2>1, <2>2
  <1> QED
    BY <1>1, <1>2, <1>3, <1>5, <1>7, <1>8, <1>6 DEF ArchiveNext

\* An entry that fails is one less to store.
LEMMA FailuresAreEntries ==
  ASSUME ArchiveInv, ArchiveSmall, [ArchiveNext]_archiveVars
  PROVE  Failures'
  <1>0. /\ import \in ZipImports /\ import.left \subseteq Places /\ IsFiniteSet(Places) /\ import.failed \in Nat
        /\ IsFiniteSet(import.left) /\ Cardinality(import.left) \in Nat /\ Cardinality(Places) \in Nat
        /\ import.failed + Cardinality(import.left) <= Cardinality(Places)
    <2>1. import \in ZipImports /\ import.left \subseteq Places /\ import.failed \in Nat
      BY DEF ArchiveInv, ZipTypes, ZipImports
    <2>2. IsFiniteSet(Places) /\ IsFiniteSet(import.left)
      BY <2>1, ArchiveBounds, FS_Subset
    <2> QED
      BY <2>1, <2>2, FS_CardinalityType DEF ArchiveSmall, Failures
  <1>1. CASE ImportBegins
    <2> DEFINE left == {p \in Places : archive.entries[p].there}
    <2>1. import' = [at |-> "stores", left |-> left, failed |-> 0]
      BY <1>1 DEF ImportBegins
    <2>2. Cardinality(left) <= Cardinality(Places) /\ Cardinality(left) \in Nat
      BY <1>0, FS_Subset, FS_CardinalityType
    <2> HIDE DEF left
    <2>3. import'.left = left /\ import'.failed = 0
      BY <2>1
    <2> QED
      BY <1>0, <2>2, <2>3 DEF Failures
  <1>2. ASSUME NEW p \in Places, ImportStores(p) \/ ImportFails(p) PROVE Failures'
    <2>1. p \in import.left
      BY <1>2 DEF ImportStores, ImportFails
    <2>2. Cardinality(import.left \ {p}) = Cardinality(import.left) - 1
      BY <1>0, <2>1, FS_RemoveElement
    <2>3. import'.left = import.left \ {p} /\ import'.failed \in {import.failed, import.failed + 1}
      <3>1. CASE import' = [import EXCEPT !.left = import.left \ {p}]
        BY <1>0, <3>1 DEF ZipImports
      <3>2. CASE import' = [import EXCEPT !.left = import.left \ {p}, !.failed = import.failed + 1]
        BY <1>0, <3>2 DEF ZipImports
      <3> QED
        BY <1>0, <1>2, <3>1, <3>2 DEF ImportStores, ImportFails, ZipImports
    <2> QED
      BY <1>0, <2>2, <2>3 DEF Failures
  <1>3. CASE ImportEnds
    <2>1. import' = [import EXCEPT !.at = "idle", !.failed = 0]
      BY <1>3 DEF ImportEnds
    <2>2. import'.left = import.left /\ import'.failed = 0
      BY <1>0, <2>1 DEF ZipImports
    <2> QED
      BY <1>0, <2>2 DEF Failures
  <1>4. CASE UNCHANGED import
    BY <1>0, <1>4 DEF Failures
  <1>5. ASSUME NEW p \in Places,
               \/ Uploads(p) \/ PromotesOnly(p) \/ Deletes(p) \/ Spoils(p)
               \/ ExportReads(p) \/ DownloadReads(p) \/ DownloadFails(p)
        PROVE  UNCHANGED import
    BY <1>5 DEF Uploads, PromotesOnly, Deletes, Spoils, ExportReads, DownloadReads, DownloadFails
  <1>6. CASE ExportLists \/ ExportEnds \/ ExportBreaks \/ DownloadLists \/ DownloadEnds \/ UNCHANGED archiveVars
    BY <1>4, <1>6 DEF ExportLists, ExportEnds, ExportBreaks, DownloadLists, DownloadEnds, archiveVars
  <1> QED
    BY <1>1, <1>2, <1>3, <1>4, <1>5, <1>6 DEF ArchiveNext

\* Exports and imports are well typed.
LEMMA ArchiveTyped == ArchiveSpec => []ArchiveTypeOK
  <1>1. ArchiveInit => ArchiveSmall
    <2> SUFFICES ASSUME ArchiveInit PROVE ArchiveSmall
      OBVIOUS
    <2>1. ASSUME NEW p \in Places PROVE Small(shelf[p])
      <3>1. shelf[p] = Gone \/ \E b \in [ver : {0}, cipher : BOOLEAN] : shelf[p] = RowOf(b)
        BY DEF ArchiveInit
      <3>2. \A b \in [ver : {0}, cipher : BOOLEAN] : Small(RowOf(b))
        BY ArchiveBounds DEF RowOf, Plain, Small
      <3> QED
        BY <3>1, <3>2, GoneIsSmall
    <2>2. RowsSmall
      BY <2>1, GoneIsSmall DEF RowsSmall, ArchiveInit, NoZip
    <2>3. RunsSmall
      BY GoneIsSmall DEF RunsSmall, ArchiveInit
    <2>4. Failures
      <3>1. Cardinality({}) = 0 /\ Cardinality(Places) \in Nat
        BY ArchiveBounds, FS_EmptySet, FS_CardinalityType
      <3>2. import.left = {} /\ import.failed = 0
        BY DEF ArchiveInit
      <3> QED
        BY <3>1, <3>2 DEF Failures
    <2> QED
      BY <2>2, <2>3, <2>4, ArchiveBounds DEF ArchiveInit, ZipsBounded, ArchiveSmall
  <1>2. ArchiveInv /\ ArchiveSmall => ArchiveTypeOK
    <2> SUFFICES ASSUME ArchiveInv, ArchiveSmall PROVE ArchiveTypeOK
      OBVIOUS
    <2>1. ASSUME NEW r \in ZipRows, Small(r) PROVE r \in ArchiveRows
      BY <2>1, ArchiveBounds DEF ZipRows, AllBytes, Small, ArchiveRows, Bytes
    <2> DEFINE Exports == [at : {"idle", "reads"}, list : [Places -> ArchiveRows], left : SUBSET Places,
                           entries : [Places -> ArchiveRows], omitted : SUBSET Places]
    <2>2. ASSUME NEW e \in ZipRuns, RunSmall(e) PROVE e \in Exports
      <3>1. e.list \in [Places -> ArchiveRows] /\ e.entries \in [Places -> ArchiveRows]
        BY <2>1, <2>2 DEF ZipRuns, RunSmall
      <3> QED
        BY <3>1 DEF ZipRuns
    <2>3. export \in Exports /\ download \in Exports
      BY <2>2 DEF ArchiveInv, ZipTypes, ArchiveSmall, RunsSmall
    <2>4. shelf \in [Places -> ArchiveRows] /\ archive.entries \in [Places -> ArchiveRows]
      BY <2>1 DEF ArchiveInv, ZipTypes, ZipFiles, ArchiveSmall, RowsSmall
    <2>5. import.failed \in 0 .. Cardinality(Places)
      <3>1. IsFiniteSet(Places) /\ IsFiniteSet(import.left) /\ import.failed \in Nat
        BY ArchiveBounds, FS_Subset DEF ArchiveInv, ZipTypes, ZipImports
      <3>2. Cardinality(Places) \in Nat /\ Cardinality(import.left) \in Nat
        BY <3>1, FS_CardinalityType
      <3> QED
        BY <3>1, <3>2 DEF ArchiveSmall, Failures
    <2>6. import \in [at : {"idle", "stores"}, left : SUBSET Places, failed : 0 .. Cardinality(Places)]
      BY <2>5 DEF ArchiveInv, ZipTypes, ZipImports
    <2>7. archive \in [made : BOOLEAN, chosen : SUBSET Places, entries : [Places -> ArchiveRows], omitted : SUBSET Places,
                       torn : SUBSET Places]
      BY <2>4 DEF ArchiveInv, ZipTypes, ZipFiles
    <2> QED
      BY <2>3, <2>4, <2>6, <2>7 DEF ArchiveInv, ZipTypes, ArchiveSmall, ZipsBounded, ArchiveTypeOK
  <1>3. ArchiveInv /\ ArchiveSmall /\ [ArchiveNext]_archiveVars => ArchiveSmall'
    BY RowsStaySmall, RunsStaySmall, FailuresAreEntries DEF ArchiveSmall
  <1> QED
    BY <1>1, <1>2, <1>3, ArchiveBegins, ArchiveSteps, PTL DEF ArchiveSpec

---------------------------------------------------------------------------
(* The services side by side. *)

\* A step of the services side by side is a step of the one that runs, and the
\* others stay as they are.
LEMMA EachIsItself ==
  ServicesSpec =>
    /\ HubSpec /\ CentreSpec /\ BackupsSpec /\ AccountsSpec /\ LockSpec
    /\ MigrationSpec /\ UpdaterSpec /\ UsersSpec /\ ControlSpec /\ TraySpec
    /\ SettingsSpec /\ EncryptionSpec /\ ArchiveSpec /\ CoverSpec
  <1>1. ServicesInit =>
          /\ HubInit /\ CentreInit /\ BackupsInit /\ AccountsInit /\ LockInit
          /\ MigrationInit /\ UpdaterInit /\ UsersInit /\ ControlInit /\ TrayInit
          /\ SettingsInit /\ EncryptionInit /\ ArchiveInit /\ CoverInit
    BY DEF ServicesInit
  <1>2. ServicesSpec => HubSpec
    <2>1. [ServicesNext]_services => [HubNext]_hubVars
      BY DEF ServicesNext, services
    <2>2. ServicesInit => HubInit
      BY <1>1
    <2> QED
      BY <2>1, <2>2, PTL DEF ServicesSpec, HubSpec
  <1>3. ServicesSpec => CentreSpec
    <2>1. [ServicesNext]_services => [CentreNext]_centreVars
      BY DEF ServicesNext, services
    <2>2. ServicesInit => CentreInit
      BY <1>1
    <2> QED
      BY <2>1, <2>2, PTL DEF ServicesSpec, CentreSpec
  <1>4. ServicesSpec => BackupsSpec
    <2>1. [ServicesNext]_services => [BackupsNext]_backupsVars
      BY DEF ServicesNext, services
    <2>2. ServicesInit => BackupsInit
      BY <1>1
    <2> QED
      BY <2>1, <2>2, PTL DEF ServicesSpec, BackupsSpec
  <1>5. ServicesSpec => AccountsSpec
    <2>1. [ServicesNext]_services => [AccountsNext]_accountsVars
      BY DEF ServicesNext, services
    <2>2. ServicesInit => AccountsInit
      BY <1>1
    <2> QED
      BY <2>1, <2>2, PTL DEF ServicesSpec, AccountsSpec
  <1>6. ServicesSpec => LockSpec
    <2>1. [ServicesNext]_services => [LockNext]_lockVars
      BY DEF ServicesNext, services
    <2>2. ServicesInit => LockInit
      BY <1>1
    <2> QED
      BY <2>1, <2>2, PTL DEF ServicesSpec, LockSpec
  <1>7. ServicesSpec => MigrationSpec
    <2>1. [ServicesNext]_services => [MigrationNext]_migrationVars
      BY DEF ServicesNext, services
    <2>2. ServicesInit => MigrationInit
      BY <1>1
    <2> QED
      BY <2>1, <2>2, PTL DEF ServicesSpec, MigrationSpec
  <1>8. ServicesSpec => UpdaterSpec
    <2>1. [ServicesNext]_services => [UpdaterNext]_updaterVars
      BY DEF ServicesNext, services
    <2>2. ServicesInit => UpdaterInit
      BY <1>1
    <2> QED
      BY <2>1, <2>2, PTL DEF ServicesSpec, UpdaterSpec
  <1>9. ServicesSpec => UsersSpec
    <2>1. [ServicesNext]_services => [UsersNext]_usersVars
      BY DEF ServicesNext, services
    <2>2. ServicesInit => UsersInit
      BY <1>1
    <2> QED
      BY <2>1, <2>2, PTL DEF ServicesSpec, UsersSpec
  <1>10. ServicesSpec => ControlSpec
    <2>1. [ServicesNext]_services => [ControlNext]_controlVars
      BY DEF ServicesNext, services
    <2>2. ServicesInit => ControlInit
      BY <1>1
    <2> QED
      BY <2>1, <2>2, PTL DEF ServicesSpec, ControlSpec
  <1>11. ServicesSpec => TraySpec
    <2>1. [ServicesNext]_services => [TrayNext]_trayVars
      BY DEF ServicesNext, services
    <2>2. ServicesInit => TrayInit
      BY <1>1
    <2> QED
      BY <2>1, <2>2, PTL DEF ServicesSpec, TraySpec
  <1>12. ServicesSpec => SettingsSpec
    <2>1. [ServicesNext]_services => [SettingsNext]_settingsVars
      BY DEF ServicesNext, services
    <2>2. ServicesInit => SettingsInit
      BY <1>1
    <2> QED
      BY <2>1, <2>2, PTL DEF ServicesSpec, SettingsSpec
  <1>13. ServicesSpec => EncryptionSpec
    <2>1. [ServicesNext]_services => [EncryptionNext]_encryptionVars
      BY DEF ServicesNext, services
    <2>2. ServicesInit => EncryptionInit
      BY <1>1
    <2> QED
      BY <2>1, <2>2, PTL DEF ServicesSpec, EncryptionSpec
  <1>14. ServicesSpec => ArchiveSpec
    <2>1. [ServicesNext]_services => [ArchiveNext]_archiveVars
      BY DEF ServicesNext, services
    <2>2. ServicesInit => ArchiveInit
      BY <1>1
    <2> QED
      BY <2>1, <2>2, PTL DEF ServicesSpec, ArchiveSpec
  <1>15. ServicesSpec => CoverSpec
    <2>1. [ServicesNext]_services => [CoverNext]_coverVars
      BY DEF ServicesNext, services
    <2>2. ServicesInit => CoverInit
      BY <1>1
    <2> QED
      BY <2>1, <2>2, PTL DEF ServicesSpec, CoverSpec
  <1> QED
    BY <1>2, <1>3, <1>4, <1>5, <1>6, <1>7, <1>8, <1>9, <1>10, <1>11, <1>12, <1>13, <1>14, <1>15

\* Whichever service runs, no counter of it leaves its bound and no variable its
\* type: the conflict centre's mailboxes and the hub's queues have no more than
\* their capacity, a session has a user there is, a migration makes up no
\* content and runs no step beyond the last.
THEOREM ServicesTypeCorrect == ServicesSpec => []ServicesTypeOK
  <1>1. /\ HubTypeOK /\ CentreTypeOK /\ BackupsTypeOK /\ AccountsTypeOK /\ LockTypeOK
        /\ MigrationTypeOK /\ UpdaterTypeOK /\ UsersTypeOK /\ ControlTypeOK /\ TrayTypeOK
        /\ SettingsTypeOK /\ EncryptionTypeOK /\ ArchiveTypeOK /\ CoverTypeOK
        => ServicesTypeOK
    BY DEF ServicesTypeOK
  <1> QED
    BY <1>1, EachIsItself, HubTyped, CentreTypedHolds, BackupsTyped, AccountsTyped, LockTyped,
       MigrationTyped, UpdaterTyped, UsersTyped, ControlTyped, TrayTyped, SettingsTyped, EncryptionTyped, ArchiveTyped, CoverTyped, PTL

\* What is proved of each service in a behaviour of its own holds of all of them
\* in every behaviour of the whole.
THEOREM ServicesAreSafe ==
  ServicesSpec =>
    [](/\ EventsGetThrough /\ RefusedIsListed /\ DamageIsRepairable
       /\ SpentStaysSpent /\ LockHasCause /\ MigrationKeepsSaves
       /\ UpdateLeavesAClient /\ DeletionIsWhole /\ ResumeCatchesUp
       /\ MenuTellsOfConflicts /\ SettingsInForce /\ PlaintextOnlyWhenTold
       /\ ArchiveKeepsMeaning /\ CachedIsServed)
  BY EachIsItself, EventsGetThroughHolds, RefusedIsListedHolds, DamageIsRepairableHolds, SpentStaysSpentHolds,
     LockHasCauseHolds, MigrationKeepsSavesHolds, UpdateLeavesAClientHolds, DeletionIsWholeHolds, ResumeCatchesUpHolds,
     MenuTellsOfConflictsHolds, SettingsInForceHolds, PlaintextOnlyWhenToldHolds, ArchiveKeepsMeaningHolds, CachedIsServedHolds, PTL
=============================================================================
