---------------------------- MODULE ServerProofs ----------------------------
(***************************************************************************)
(* What TLAPS proves of the smaller components of the server, each for any  *)
(* number of devices, users, requests, failures and restarts.               *)
(***************************************************************************)
EXTENDS ConflictCentre, CoverCache, EventHub, AdminSettings, Users, Accounts, LoginLock,
        Integers, SequenceTheorems, FiniteSetTheorems, TLAPS

---------------------------------------------------------------------------
(* The conflict centre: what was refused is listed until something closes it.*)

Clients == Pushing \cup {"none"}
Handlers == [at : {"idle", "refused", "insert", "refresh", "accepted"}, client : Clients,
             against : Nat, row : Nat]
Conflicts == [client : Pushing, against : Nat, open : BOOLEAN]

OpenOf(d) == \E row \in Rows : conflicts[row].client = d /\ Open(row)
ToBeWritten(d) == \E p \in Pushes : asking[p].client = d /\ asking[p].at \in {"refused", "insert"}

\* Every device that is owed a row has an open one, or a handler that will
\* still write one: a handler that found a row to refresh is no such handler,
\* for that row may be closed before it writes.
CentreInv ==
  /\ slot \in Nat /\ owed \subseteq Pushing
  /\ conflicts \in Seq(Conflicts)
  /\ asking \in [Pushes -> Handlers]
  /\ \A p \in Pushes : asking[p].at \in {"refused", "insert", "refresh"} => asking[p].client \in Pushing
  /\ \A d \in owed : OpenOf(d) \/ ToBeWritten(d)

\* A handler's next state is all that changes.
LEMMA HandlerMoves ==
  ASSUME CentreInv, NEW p \in Pushes, NEW q \in Handlers,
         q.at \in {"refused", "insert", "refresh"} => q.client \in Pushing,
         asking' = [asking EXCEPT ![p] = q]
  PROVE  /\ asking' \in [Pushes -> Handlers]
         /\ asking'[p] = q /\ \A k \in Pushes : k # p => asking'[k] = asking[k]
         /\ \A k \in Pushes : asking'[k].at \in {"refused", "insert", "refresh"} => asking'[k].client \in Pushing
         /\ \A d : ToBeWritten(d) /\ ~(asking[p].client = d /\ asking[p].at \in {"refused", "insert"})
               => ToBeWritten(d)'
  BY DEF CentreInv, ToBeWritten

LEMMA NoDevice == NoPush \in Handlers /\ NoPush.at = "idle"
  BY DEF NoPush, Handlers, Clients

\* The table stays: who is owed a row has it still.
LEMMA TableStays ==
  ASSUME conflicts' = conflicts
  PROVE  \A d : OpenOf(d) => OpenOf(d)'
  BY DEF OpenOf, Open, Rows

\* One row changes.
LEMMA ConflictRowChanges ==
  ASSUME conflicts \in Seq(Conflicts), NEW row \in Rows, NEW c \in Conflicts,
         conflicts' = [conflicts EXCEPT ![row] = c]
  PROVE  /\ conflicts' \in Seq(Conflicts) /\ Rows' = Rows /\ conflicts'[row] = c
         /\ \A other \in Rows : other # row => conflicts'[other] = conflicts[other]
  BY ExceptSeq DEF Rows

LEMMA PushRefusedKeeps ==
  ASSUME CentreInv, NEW p \in Pushes, NEW d \in Pushing, NEW notified \in BOOLEAN, PushRefused(p, d, notified)
  PROVE  CentreInv'
  <1> DEFINE q == [at |-> "refused", client |-> d, against |-> slot, row |-> 0]
  <1>1. /\ asking[p].at = "idle" /\ owed' = owed \cup {d} /\ asking' = [asking EXCEPT ![p] = q]
        /\ UNCHANGED <<slot, conflicts>>
    BY DEF PushRefused
  <1>2. q \in Handlers /\ q.client = d /\ q.at = "refused"
    BY DEF CentreInv, Handlers, Clients
  <1> HIDE DEF q
  <1>3. /\ asking' \in [Pushes -> Handlers]
        /\ asking'[p] = q /\ \A k \in Pushes : k # p => asking'[k] = asking[k]
        /\ \A k \in Pushes : asking'[k].at \in {"refused", "insert", "refresh"} => asking'[k].client \in Pushing
        /\ \A e : ToBeWritten(e) => ToBeWritten(e)'
    BY <1>1, <1>2, HandlerMoves
  <1>4. ToBeWritten(d)'
    BY <1>2, <1>3 DEF ToBeWritten
  <1>5. \A e \in owed' : OpenOf(e)' \/ ToBeWritten(e)'
    BY <1>1, <1>3, <1>4, TableStays DEF CentreInv
  <1> QED
    BY <1>1, <1>3, <1>5 DEF CentreInv

LEMMA LookForOpenKeeps ==
  ASSUME CentreInv, NEW p \in Pushes, LookForOpen(p)
  PROVE  CentreInv'
  <1>1. asking[p].at = "refused" /\ UNCHANGED <<slot, conflicts, owed>> /\ asking[p] \in Handlers
    BY DEF LookForOpen, CentreInv
  <1>0. PICK d \in Pushing : d = asking[p].client
    BY <1>1 DEF CentreInv
  <1>2. CASE asking' = [asking EXCEPT ![p].at = "insert"]
    <2> DEFINE q == [asking[p] EXCEPT !.at = "insert"]
    <2>1. q \in Handlers /\ q.client = d /\ q.at = "insert" /\ asking' = [asking EXCEPT ![p] = q]
      BY <1>0, <1>1, <1>2 DEF Handlers
    <2> HIDE DEF q
    <2>2. /\ asking' \in [Pushes -> Handlers]
          /\ asking'[p] = q /\ \A k \in Pushes : k # p => asking'[k] = asking[k]
          /\ \A k \in Pushes : asking'[k].at \in {"refused", "insert", "refresh"} => asking'[k].client \in Pushing
          /\ \A e : ToBeWritten(e) /\ e # d => ToBeWritten(e)'
      BY <1>0, <1>1, <2>1, HandlerMoves
    <2>3. ToBeWritten(d)'
      BY <2>1, <2>2 DEF ToBeWritten
    <2>4. \A e \in owed' : OpenOf(e)' \/ ToBeWritten(e)'
      BY <1>1, <2>2, <2>3, TableStays DEF CentreInv
    <2> QED
      BY <1>1, <2>2, <2>4 DEF CentreInv
  <1>3. ASSUME NEW row \in Found(d), asking' = [asking EXCEPT ![p] = [@ EXCEPT !.at = "refresh", !.row = row]]
        PROVE  CentreInv'
    <2> DEFINE q1 == [asking[p] EXCEPT !.at = "refresh"]
               q == [q1 EXCEPT !.row = row]
    <2>1. row \in Rows /\ conflicts[row].client = d /\ Open(row) /\ row \in Nat
      BY <1>3 DEF Found, Rows, CentreInv
    <2>2. asking' = [asking EXCEPT ![p] = q]
      BY <1>3
    <2>3. q1 \in Handlers /\ q1.client = d /\ q1.at = "refresh"
      BY <1>0, <1>1 DEF Handlers
    <2> HIDE DEF q1
    <2>4. q \in Handlers /\ q.client = d /\ q.at = "refresh"
      BY <2>1, <2>3 DEF Handlers
    <2> HIDE DEF q
    <2>5. /\ asking' \in [Pushes -> Handlers]
          /\ \A k \in Pushes : asking'[k].at \in {"refused", "insert", "refresh"} => asking'[k].client \in Pushing
          /\ \A e : ToBeWritten(e) /\ e # d => ToBeWritten(e)'
      BY <1>0, <1>1, <2>2, <2>4, HandlerMoves
    <2>6. OpenOf(d)
      BY <2>1 DEF OpenOf
    <2>7. \A e \in owed' : OpenOf(e)' \/ ToBeWritten(e)'
      BY <1>1, <2>5, <2>6, TableStays DEF CentreInv
    <2> QED
      BY <1>1, <2>5, <2>7 DEF CentreInv
  <1> QED
    BY <1>0, <1>2, <1>3 DEF LookForOpen

LEMMA WriteConflictKeeps ==
  ASSUME CentreInv, NEW p \in Pushes, WriteConflict(p)
  PROVE  CentreInv'
  <1>1. /\ asking[p].at \in {"insert", "refresh"} /\ UNCHANGED <<slot, owed>> /\ asking[p] \in Handlers
        /\ asking' = [asking EXCEPT ![p] = NoPush]
    BY DEF WriteConflict, CentreInv
  <1>0. PICK d \in Pushing : d = asking[p].client
    BY <1>1 DEF CentreInv
  <1>2. /\ asking' \in [Pushes -> Handlers]
        /\ \A k \in Pushes : asking'[k].at \in {"refused", "insert", "refresh"} => asking'[k].client \in Pushing
        /\ \A e : ToBeWritten(e) /\ ~(e = d /\ asking[p].at = "insert") => ToBeWritten(e)'
    BY <1>0, <1>1, NoDevice, HandlerMoves
  <1>3. asking[p].against \in Nat /\ conflicts \in Seq(Conflicts)
    BY <1>1 DEF Handlers, CentreInv
  <1>4. CASE /\ asking[p].at = "insert"
             /\ conflicts' = Append(conflicts, [client |-> asking[p].client, against |-> asking[p].against, open |-> TRUE])
    <2> DEFINE c == [client |-> d, against |-> asking[p].against, open |-> TRUE]
    <2>1. c \in Conflicts /\ c.client = d /\ c.open
      BY <1>3 DEF Conflicts
    <2>2. conflicts' = Append(conflicts, c)
      BY <1>0, <1>4
    <2> HIDE DEF c
    <2>3. /\ conflicts' \in Seq(Conflicts) /\ Rows' = Rows \cup {Len(conflicts) + 1}
          /\ conflicts'[Len(conflicts) + 1] = c /\ \A row \in Rows : conflicts'[row] = conflicts[row]
      BY <1>3, <2>1, <2>2 DEF Rows
    <2>4. OpenOf(d)' /\ \A e : OpenOf(e) => OpenOf(e)'
      BY <2>1, <2>3 DEF OpenOf, Open
    <2>5. \A e \in owed' : OpenOf(e)' \/ ToBeWritten(e)'
      BY <1>1, <1>2, <2>4 DEF CentreInv
    <2> QED
      BY <1>1, <1>2, <2>3, <2>5 DEF CentreInv
  <1>5. CASE /\ asking[p].at = "refresh"
             /\ conflicts' = [conflicts EXCEPT ![asking[p].row].against = asking[p].against]
    <2>1. /\ conflicts' \in Seq(Conflicts) /\ Rows' = Rows
          /\ \A row \in Rows : conflicts'[row].client = conflicts[row].client /\ conflicts'[row].open = conflicts[row].open
      <3>1. CASE asking[p].row \in Rows
        <4> DEFINE c == [conflicts[asking[p].row] EXCEPT !.against = asking[p].against]
        <4>1. conflicts[asking[p].row] \in Conflicts
          BY <3>1, <1>3, ElementOfSeq DEF Rows
        <4>2. /\ c \in Conflicts /\ c.client = conflicts[asking[p].row].client
              /\ c.open = conflicts[asking[p].row].open
          BY <4>1, <1>3 DEF Conflicts
        <4>3. conflicts' = [conflicts EXCEPT ![asking[p].row] = c]
          BY <1>5
        <4> HIDE DEF c
        <4> QED
          BY <3>1, <4>2, <4>3, <1>3, ConflictRowChanges
      <3>2. CASE asking[p].row \notin Rows
        <4>1. conflicts' = conflicts
          BY <3>2, <1>3, <1>5, LenProperties DEF Rows
        <4> QED
          BY <4>1, <1>3 DEF Rows
      <3> QED
        BY <3>1, <3>2
    <2>2. \A e : OpenOf(e) => OpenOf(e)'
      BY <2>1 DEF OpenOf, Open
    <2>3. \A e \in owed' : OpenOf(e)' \/ ToBeWritten(e)'
      BY <1>1, <1>2, <1>5, <2>2 DEF CentreInv
    <2> QED
      BY <1>1, <1>2, <2>1, <2>3 DEF CentreInv
  <1> QED
    BY <1>4, <1>5 DEF WriteConflict

LEMMA RecordFailsKeeps ==
  ASSUME CentreInv, NEW p \in Pushes, RecordFails(p)
  PROVE  CentreInv'
  <1>1. /\ UNCHANGED <<slot, conflicts>> /\ asking[p].at \in {"refused", "insert", "refresh"}
        /\ asking' = [asking EXCEPT ![p] = NoPush] /\ owed' = owed \ {asking[p].client}
    BY DEF RecordFails
  <1>2. PICK d \in Pushing : d = asking[p].client
    BY <1>1 DEF CentreInv
  <1>3. /\ asking' \in [Pushes -> Handlers]
        /\ \A k \in Pushes : asking'[k].at \in {"refused", "insert", "refresh"} => asking'[k].client \in Pushing
        /\ \A e : ToBeWritten(e) /\ e # d => ToBeWritten(e)'
    BY <1>1, <1>2, NoDevice, HandlerMoves
  <1>4. \A e \in owed' : OpenOf(e)' \/ ToBeWritten(e)'
    BY <1>1, <1>2, <1>3, TableStays DEF CentreInv
  <1> QED
    BY <1>1, <1>3, <1>4 DEF CentreInv

LEMMA PushAcceptedKeeps ==
  ASSUME CentreInv, NEW p \in Pushes, PushAccepted(p)
  PROVE  CentreInv'
  <1> DEFINE q == [NoPush EXCEPT !.at = "accepted"]
  <1>1. /\ asking[p].at = "idle" /\ slot' = slot + 1 /\ UNCHANGED <<conflicts, owed>>
        /\ asking' = [asking EXCEPT ![p] = q]
    BY DEF PushAccepted
  <1>2. q \in Handlers /\ q.at = "accepted"
    BY NoDevice DEF Handlers
  <1> HIDE DEF q
  <1>3. /\ asking' \in [Pushes -> Handlers]
        /\ \A k \in Pushes : asking'[k].at \in {"refused", "insert", "refresh"} => asking'[k].client \in Pushing
        /\ \A e : ToBeWritten(e) => ToBeWritten(e)'
    BY <1>1, <1>2, HandlerMoves
  <1>4. \A e \in owed' : OpenOf(e)' \/ ToBeWritten(e)'
    BY <1>1, <1>3, TableStays DEF CentreInv
  <1> QED
    BY <1>1, <1>3, <1>4 DEF CentreInv

LEMMA SupersedeKeeps ==
  ASSUME CentreInv, NEW p \in Pushes, NEW works \in BOOLEAN, Supersede(p, works)
  PROVE  CentreInv'
  <1>1. /\ asking[p].at = "accepted" /\ slot' = slot /\ asking' = [asking EXCEPT ![p] = NoPush]
        /\ \/ /\ conflicts' = [row \in Rows |-> [conflicts[row] EXCEPT !.open = FALSE]]
              /\ owed' = {}
           \/ UNCHANGED <<conflicts, owed>>
    BY DEF Supersede
  <1>2. /\ asking' \in [Pushes -> Handlers]
        /\ \A k \in Pushes : asking'[k].at \in {"refused", "insert", "refresh"} => asking'[k].client \in Pushing
        /\ \A e : ToBeWritten(e) => ToBeWritten(e)'
    BY <1>1, NoDevice, HandlerMoves
  <1>3. conflicts' \in Seq(Conflicts)
    <2>1. conflicts \in Seq(Conflicts) /\ Len(conflicts) \in Nat
      BY LenProperties DEF CentreInv
    <2>2. \A row \in Rows : [conflicts[row] EXCEPT !.open = FALSE] \in Conflicts
      <3> SUFFICES ASSUME NEW row \in Rows
                   PROVE  [conflicts[row] EXCEPT !.open = FALSE] \in Conflicts
        OBVIOUS
      <3>1. conflicts[row] \in Conflicts
        BY <2>1, ElementOfSeq DEF Rows
      <3> QED
        BY <3>1 DEF Conflicts
    <2>3. [row \in Rows |-> [conflicts[row] EXCEPT !.open = FALSE]] \in [1 .. Len(conflicts) -> Conflicts]
      BY <2>2 DEF Rows
    <2> QED
      BY <1>1, <2>1, <2>3, SeqDef
  <1>4. \A e \in owed' : OpenOf(e)' \/ ToBeWritten(e)'
    BY <1>1, <1>2, TableStays DEF CentreInv
  <1>5. owed' \subseteq Pushing
    BY <1>1 DEF CentreInv
  <1> QED
    BY <1>1, <1>2, <1>3, <1>4, <1>5 DEF CentreInv

LEMMA UserResolvesKeeps ==
  ASSUME CentreInv, NEW row \in Rows, UserResolves(row)
  PROVE  CentreInv'
  <1>1. /\ conflicts' = [conflicts EXCEPT ![row].open = FALSE] /\ owed' = owed \ {conflicts[row].client}
        /\ UNCHANGED <<slot, asking>>
    BY DEF UserResolves
  <1>2. /\ conflicts' \in Seq(Conflicts) /\ Rows' = Rows
        /\ \A other \in Rows : other # row => conflicts'[other] = conflicts[other]
    <2> DEFINE c == [conflicts[row] EXCEPT !.open = FALSE]
    <2>1. conflicts \in Seq(Conflicts) /\ conflicts[row] \in Conflicts
      BY ElementOfSeq DEF CentreInv, Rows
    <2>2. c \in Conflicts
      BY <2>1 DEF Conflicts
    <2>3. conflicts' = [conflicts EXCEPT ![row] = c]
      BY <1>1
    <2> HIDE DEF c
    <2> QED
      BY <2>1, <2>2, <2>3, ConflictRowChanges
  <1>3. \A e \in owed' : OpenOf(e) => OpenOf(e)'
    BY <1>1, <1>2 DEF OpenOf, Open
  <1>4. \A e \in owed' : OpenOf(e)' \/ ToBeWritten(e)'
    BY <1>1, <1>3 DEF CentreInv, ToBeWritten
  <1> QED
    BY <1>1, <1>2, <1>4 DEF CentreInv

LEMMA CentreNextKeeps ==
  ASSUME CentreInv, [CentreNext]_centreVars
  PROVE  CentreInv'
  <1>1. CASE UNCHANGED <<slot, conflicts, asking, owed>>
    BY <1>1 DEF CentreInv, OpenOf, Open, Rows, ToBeWritten
  <1>2. ASSUME NEW p \in Pushes,
               \/ \E d \in Pushing, notified \in BOOLEAN : PushRefused(p, d, notified)
               \/ LookForOpen(p) \/ WriteConflict(p) \/ RecordFails(p)
               \/ PushAccepted(p)
               \/ \E works \in BOOLEAN : Supersede(p, works)
        PROVE  CentreInv'
    BY <1>2, PushRefusedKeeps, LookForOpenKeeps, WriteConflictKeeps, RecordFailsKeeps, PushAcceptedKeeps,
       SupersedeKeeps
  <1> QED
    BY <1>1, <1>2, UserResolvesKeeps
       DEF CentreNext, SinkDelivers, AddInboxItem, MarkInboxRead, centreVars

LEMMA CentreBegins == CentreInit => CentreInv
  BY NoDevice DEF CentreInit, CentreInv

\* A refused push is in the user's list once no handler is busy with it,
\* unless something closed its row or writing it failed (RecordConflict,
\* resolveSupersededConflicts, ResolveConflict).
THEOREM RefusedIsListedHolds == CentreSpec => []RefusedIsListed
  <1>1. CentreInv => RefusedIsListed
    BY DEF CentreInv, RefusedIsListed, OpenOf, ToBeWritten
  <1> QED
    BY <1>1, CentreBegins, CentreNextKeeps, PTL DEF CentreSpec

---------------------------------------------------------------------------
(* The cover cache: cached art is served.                                   *)

\* A request keeps its claim to the art only as long as the art is there, and
\* on the ways that end in serving it.
OwedInv ==
  \A v \in Viewers : viewer[v].owed =>
    art /\ viewer[v].at \in {"looks", "wantsLock", "waits", "rechecks", "serves", "servesHeld",
                             "unlocks", "deletesEntry", "served"}

\* Between the serving under the lock and the answer, the art is in hand.
InHandInv ==
  \A v \in Viewers : viewer[v].owed /\ viewer[v].at \in {"unlocks", "deletesEntry"} => viewer[v].got = "art"

\* The local state of a request is a record.
Labels == {"none", "looks", "asksMarker", "wantsLock", "waits", "rechecks", "asksMarkerHeld",
           "fetches", "marks", "writes", "unmarks", "serves", "servesHeld", "refuses", "unlocks",
           "deletesEntry", "served", "refused"}
Request == [at : Labels, lock : {NoLock} \cup Locks, got : {"none", "art"}, gone : BOOLEAN, owed : BOOLEAN]
ArtInv == art \in BOOLEAN
TypesInv == lockEntry \in {NoLock} \cup Locks /\ viewer \in [Viewers -> Request]

CoverInv == ArtInv /\ TypesInv /\ OwedInv /\ InHandInv

LEMMA InitCoverInv == CoverInit => CoverInv
  BY DEF CoverInit, NotViewing, Request, Labels, CoverInv, ArtInv, TypesInv, OwedInv, InHandInv

\* The request v moves on to the local state r.
LEMMA ViewerMoves ==
  ASSUME viewer \in [Viewers -> Request], OwedInv, InHandInv, UNCHANGED art,
         NEW v \in Viewers, NEW r \in Request, viewer' = [viewer EXCEPT ![v] = r],
         r.owed => /\ art
                   /\ r.at \in {"looks", "wantsLock", "waits", "rechecks", "serves", "servesHeld",
                                 "unlocks", "deletesEntry", "served"}
                   /\ r.at \in {"unlocks", "deletesEntry"} => r.got = "art"
  PROVE  viewer' \in [Viewers -> Request] /\ OwedInv' /\ InHandInv'
  BY DEF OwedInv, InHandInv, Request

\* A step of the request v keeps the invariant.
LEMMA RequestStep ==
  ASSUME ArtInv, viewer \in [Viewers -> Request], lockEntry \in {NoLock} \cup Locks, OwedInv, InHandInv,
         NEW v \in Viewers,
         \/ Comes(v) \/ Leaves(v) \/ LooksForArt(v) \/ Known(v) \/ TakesEntry(v) \/ TakesLock(v)
         \/ KnownHeld(v) \/ Fetches(v) \/ Marks(v) \/ Caches(v) \/ Unmarks(v) \/ Serves(v)
         \/ ServesHeld(v) \/ Refuses(v) \/ Unlocks(v) \/ DeletesEntry(v)
  PROVE  CoverInv'
  <1>1. CASE Comes(v)
    <2>1. TypesInv'
      BY <1>1 DEF Comes, NotViewing, Request, Labels, TypesInv, ArtInv
    <2>2. OwedInv' /\ InHandInv'
      BY <1>1 DEF Comes, NotViewing, Request, OwedInv, InHandInv
    <2>3. ArtInv'
      BY <1>1 DEF Comes, ArtInv
    <2> QED
      BY <2>1, <2>2, <2>3 DEF CoverInv
  <1>2. CASE Leaves(v)
    <2>1. TypesInv'
      BY <1>2 DEF Leaves, Request, Labels, TypesInv
    <2>2. OwedInv' /\ InHandInv'
      BY <1>2 DEF Leaves, Request, OwedInv, InHandInv
    <2>3. ArtInv'
      BY <1>2 DEF Leaves, ArtInv
    <2> QED
      BY <2>1, <2>2, <2>3 DEF CoverInv
  <1>3. CASE LooksForArt(v)
    <2>1. TypesInv'
      BY <1>3 DEF LooksForArt, Goes, Request, Labels, TypesInv
    <2>2. OwedInv' /\ InHandInv'
      BY <1>3 DEF LooksForArt, Goes, Request, OwedInv, InHandInv
    <2>3. ArtInv'
      BY <1>3 DEF LooksForArt, ArtInv
    <2> QED
      BY <2>1, <2>2, <2>3 DEF CoverInv
  <1>4. CASE Known(v)
    <2>1. TypesInv'
      BY <1>4 DEF Known, Goes, Request, Labels, TypesInv
    <2>2. OwedInv' /\ InHandInv'
      BY <1>4 DEF Known, Goes, Request, OwedInv, InHandInv
    <2>3. ArtInv'
      BY <1>4 DEF Known, ArtInv
    <2> QED
      BY <2>1, <2>2, <2>3 DEF CoverInv
  <1>5. CASE TakesEntry(v)
    <2>1. PICK l \in Locks : lockEntry' = l /\ viewer' = [viewer EXCEPT ![v] = [@ EXCEPT !.at = "waits", !.lock = l]]
      BY <1>5 DEF TakesEntry
    <2> DEFINE r == [viewer[v] EXCEPT !.at = "waits", !.lock = l]
    <2>2. r \in Request /\ r.at = "waits" /\ r.owed = viewer[v].owed
      BY DEF Request, Labels
    <2>3. viewer' = [viewer EXCEPT ![v] = r]
      BY <2>1
    <2> HIDE DEF r
    <2>4. viewer' \in [Viewers -> Request] /\ OwedInv' /\ InHandInv'
      BY <1>5, <2>1, <2>2, <2>3, ViewerMoves DEF TakesEntry, OwedInv, InHandInv
    <2>5. ArtInv' /\ lockEntry' \in {NoLock} \cup Locks
      BY <1>5, <2>1 DEF TakesEntry, ArtInv
    <2> QED
      BY <2>4, <2>5 DEF CoverInv, TypesInv
  <1>6. CASE TakesLock(v)
    <2>1. TypesInv'
      BY <1>6 DEF TakesLock, Goes, Request, Labels, TypesInv
    <2>2. OwedInv' /\ InHandInv'
      BY <1>6 DEF TakesLock, Goes, Request, OwedInv, InHandInv
    <2>3. ArtInv'
      BY <1>6 DEF TakesLock, ArtInv
    <2> QED
      BY <2>1, <2>2, <2>3 DEF CoverInv
  <1>7. CASE KnownHeld(v)
    <2>1. TypesInv'
      BY <1>7 DEF KnownHeld, Goes, Request, Labels, TypesInv
    <2>2. OwedInv' /\ InHandInv'
      BY <1>7 DEF KnownHeld, Goes, Request, OwedInv, InHandInv
    <2>3. ArtInv'
      BY <1>7 DEF KnownHeld, ArtInv
    <2> QED
      BY <2>1, <2>2, <2>3 DEF CoverInv
  <1>8. CASE Fetches(v)
    <2>1. TypesInv'
      BY <1>8 DEF Fetches, Goes, Request, Labels, TypesInv
    <2>2. OwedInv' /\ InHandInv'
      BY <1>8 DEF Fetches, Goes, Request, OwedInv, InHandInv
    <2>3. ArtInv'
      BY <1>8 DEF Fetches, ArtInv
    <2> QED
      BY <2>1, <2>2, <2>3 DEF CoverInv
  <1>9. CASE Marks(v)
    <2>1. TypesInv'
      BY <1>9 DEF Marks, Goes, Request, Labels, TypesInv
    <2>2. OwedInv' /\ InHandInv'
      BY <1>9 DEF Marks, Goes, Request, OwedInv, InHandInv
    <2>3. ArtInv'
      BY <1>9 DEF Marks, ArtInv
    <2> QED
      BY <2>1, <2>2, <2>3 DEF CoverInv
  <1>10. CASE Caches(v)
    <2>1. /\ lockEntry' = lockEntry /\ viewer[v].at = "writes" /\ ~viewer[v].owed
          /\ ArtInv' /\ (art => art')
      BY <1>10 DEF Caches, ArtInv, OwedInv
    <2>2. CASE viewer' = [viewer EXCEPT ![v] = [@ EXCEPT !.at = "unlocks", !.got = "art"]] /\ UNCHANGED art
      <3> DEFINE r == [viewer[v] EXCEPT !.at = "unlocks", !.got = "art"]
      <3>1. r \in Request /\ r.owed = viewer[v].owed
        BY DEF Request, Labels
      <3>2. viewer' = [viewer EXCEPT ![v] = r]
        BY <2>2
      <3> HIDE DEF r
      <3> QED
        BY <2>1, <2>2, <3>1, <3>2, ViewerMoves DEF CoverInv, TypesInv
    <2>3. CASE art' = TRUE /\ viewer' = [w \in Viewers |->
               IF w = v THEN [viewer[v] EXCEPT !.at = "unmarks"]
               ELSE [viewer[w] EXCEPT !.owed = @ \/ viewer[w].at \in {"looks", "wantsLock", "waits", "rechecks"}]]
      <3>1. viewer'[v] = [viewer[v] EXCEPT !.at = "unmarks"]
        BY <2>3
      <3>2. viewer'[v] \in Request /\ ~viewer'[v].owed
        BY <2>1, <3>1 DEF Request, Labels
      <3>3. ASSUME NEW w \in Viewers, w # v
            PROVE  /\ viewer'[w] \in Request
                   /\ viewer'[w].at = viewer[w].at /\ viewer'[w].got = viewer[w].got
                   /\ viewer'[w].owed =>
                        viewer[w].owed \/ viewer[w].at \in {"looks", "wantsLock", "waits", "rechecks"}
        <4>1. viewer'[w] = [viewer[w] EXCEPT !.owed = @ \/ viewer[w].at \in {"looks", "wantsLock", "waits", "rechecks"}]
          BY <2>3, <3>3
        <4>2. viewer[w] \in Request
          OBVIOUS
        <4>3. viewer[w].owed \in BOOLEAN
          BY <4>2 DEF Request
        <4> QED
          BY <4>1, <4>2, <4>3 DEF Request
      <3>4. viewer' \in [Viewers -> Request]
        BY <2>3, <3>2, <3>3
      <3>5. art'
        BY <2>3
      <3>6. OwedInv' /\ InHandInv'
        BY <3>2, <3>3, <3>5 DEF OwedInv, InHandInv
      <3> QED
        BY <2>1, <3>4, <3>6 DEF CoverInv, TypesInv
    <2> QED
      BY <1>10, <2>2, <2>3 DEF Caches
  <1>11. CASE Unmarks(v)
    <2>1. TypesInv'
      BY <1>11 DEF Unmarks, Goes, Request, Labels, TypesInv
    <2>2. OwedInv' /\ InHandInv'
      BY <1>11 DEF Unmarks, Goes, Request, OwedInv, InHandInv
    <2>3. ArtInv'
      BY <1>11 DEF Unmarks, ArtInv
    <2> QED
      BY <2>1, <2>2, <2>3 DEF CoverInv
  <1>12. CASE Serves(v)
    <2>1. TypesInv'
      BY <1>12 DEF Serves, Goes, Request, Labels, TypesInv
    <2>2. OwedInv' /\ InHandInv'
      BY <1>12 DEF Serves, Goes, Request, OwedInv, InHandInv
    <2>3. ArtInv'
      BY <1>12 DEF Serves, ArtInv
    <2> QED
      BY <2>1, <2>2, <2>3 DEF CoverInv
  <1>13. CASE ServesHeld(v)
    <2>1. PICK g \in {"art", "none"} : /\ g = IF art THEN "art" ELSE "none"
                                     /\ viewer' = [viewer EXCEPT ![v] = [@ EXCEPT !.at = "unlocks", !.got = g]]
      BY <1>13 DEF ServesHeld
    <2> DEFINE r == [viewer[v] EXCEPT !.at = "unlocks", !.got = g]
    <2>2. r \in Request /\ r.at = "unlocks" /\ r.got = g /\ r.owed = viewer[v].owed
      BY DEF Request, Labels
    <2>3. viewer' = [viewer EXCEPT ![v] = r]
      BY <2>1
    <2> HIDE DEF r
    <2>4. viewer' \in [Viewers -> Request] /\ OwedInv' /\ InHandInv'
      BY <1>13, <2>1, <2>2, <2>3, ViewerMoves DEF ServesHeld, OwedInv, InHandInv
    <2>5. ArtInv' /\ lockEntry' \in {NoLock} \cup Locks
      BY <1>13, <2>1 DEF ServesHeld, ArtInv
    <2> QED
      BY <2>4, <2>5 DEF CoverInv, TypesInv
  <1>14. CASE Refuses(v)
    <2>1. TypesInv'
      BY <1>14 DEF Refuses, Goes, Request, Labels, TypesInv
    <2>2. OwedInv' /\ InHandInv'
      BY <1>14 DEF Refuses, Goes, Request, OwedInv, InHandInv
    <2>3. ArtInv'
      BY <1>14 DEF Refuses, ArtInv
    <2> QED
      BY <2>1, <2>2, <2>3 DEF CoverInv
  <1>15. CASE Unlocks(v)
    <2>1. TypesInv'
      BY <1>15 DEF Unlocks, Goes, Request, Labels, TypesInv
    <2>2. OwedInv' /\ InHandInv'
      BY <1>15 DEF Unlocks, Goes, Request, OwedInv, InHandInv
    <2>3. ArtInv'
      BY <1>15 DEF Unlocks, ArtInv
    <2> QED
      BY <2>1, <2>2, <2>3 DEF CoverInv
  <1>16. CASE DeletesEntry(v)
    <2>1. PICK l \in {"served", "refused"} :
               /\ l = IF viewer[v].got = "art" THEN "served" ELSE "refused"
               /\ viewer' = [viewer EXCEPT ![v] = [@ EXCEPT !.at = l, !.lock = NoLock]]
      BY <1>16 DEF DeletesEntry
    <2> DEFINE r == [viewer[v] EXCEPT !.at = l, !.lock = NoLock]
    <2>2. r \in Request /\ r.at = l /\ r.owed = viewer[v].owed
      BY DEF Request, Labels
    <2>3. viewer' = [viewer EXCEPT ![v] = r]
      BY <2>1
    <2> HIDE DEF r
    <2>4. viewer' \in [Viewers -> Request] /\ OwedInv' /\ InHandInv'
      BY <1>16, <2>1, <2>2, <2>3, ViewerMoves DEF DeletesEntry, OwedInv, InHandInv
    <2>5. ArtInv' /\ lockEntry' \in {NoLock} \cup Locks
      BY <1>16, <2>1 DEF DeletesEntry, ArtInv
    <2> QED
      BY <2>4, <2>5 DEF CoverInv, TypesInv
  <1> QED
    BY <1>1, <1>2, <1>3, <1>4, <1>5, <1>6, <1>7, <1>8, <1>9, <1>10, <1>11, <1>12, <1>13, <1>14, <1>15, <1>16

\* Every step keeps the invariant.  The one that could take the art away from
\* under a claim, the clearing, takes the claims with it.
LEMMA CoverStep ==
  ASSUME CoverInv, [CoverNext]_coverVars
  PROVE  CoverInv'
  <1>1. ArtInv /\ viewer \in [Viewers -> Request] /\ lockEntry \in {NoLock} \cup Locks
    BY DEF CoverInv, TypesInv
  <1>2. OwedInv /\ InHandInv
    BY DEF CoverInv
  <1>3. CASE ClearArt
    <2>1. TypesInv'
      BY <1>1, <1>3 DEF ClearArt, Request, Labels, TypesInv
    <2>2. OwedInv' /\ InHandInv'
      BY <1>1, <1>3 DEF ClearArt, Request, OwedInv, InHandInv
    <2>3. ArtInv'
      BY <1>3 DEF ClearArt, ArtInv
    <2> QED
      BY <2>1, <2>2, <2>3 DEF CoverInv
  <1>4. CASE ClearLists \/ ClearMarker \/ MarkerAges \/ UNCHANGED coverVars
    <2>1. UNCHANGED <<viewer, art, lockEntry>>
      BY <1>4 DEF ClearLists, ClearMarker, MarkerAges, coverVars
    <2> QED
      BY <1>1, <1>2, <2>1 DEF CoverInv, ArtInv, TypesInv, OwedInv, InHandInv
  <1> QED
    BY <1>1, <1>2, <1>3, <1>4, RequestStep DEF CoverNext

\* A request that had still to look for the art when it was cached neither
\* fetches it again nor is refused, in every reachable state (serveCover).
THEOREM CachedIsServedHolds == CoverSpec => []CachedIsServed
  <1>1. CoverInv => CachedIsServed
    BY DEF CoverInv, OwedInv, CachedIsServed
  <1> QED
    BY <1>1, InitCoverInv, CoverStep, PTL DEF CoverSpec

---------------------------------------------------------------------------
(* The event hub: every event reaches every subscriber.                     *)

\* Every stream is a record, whose events are of pushes there have been.
Stream(n) == [open : BOOLEAN, served : BOOLEAN, buffer : Seq(0 .. n)]
HubTypes ==
  /\ subscribers \subseteq Conns /\ streams \in Seq(Stream(committed))
  /\ committed \in Nat /\ untold \subseteq 1 .. committed
  /\ hubOpen \in BOOLEAN /\ pullAsked \in BOOLEAN /\ deferred \in BOOLEAN /\ skipped \in BOOLEAN
  /\ turn \in {"idle", "asking", "applying"}
  /\ heard \in 0 .. committed /\ pulled \in 0 .. committed

HubInv == HubTypes /\ OnlyOpenStreams /\ HeardIsPulled

\* A function of the numbers up to n is a sequence of that length.
LEMMA AsStreams ==
  ASSUME NEW S, NEW n \in Nat, NEW f \in [1 .. n -> S]
  PROVE  f \in Seq(S) /\ Len(f) = n
  <1>1. f \in Seq(S)
    BY SeqDef
  <1> QED
    BY <1>1, LenProperties

LEMMA WiderEvents ==
  ASSUME NEW n \in Nat, NEW s \in Seq(0 .. n)
  PROVE  s \in Seq(0 .. n + 1)
  <1>1. s \in [1 .. Len(s) -> 0 .. n] /\ Len(s) \in Nat
    BY LenProperties
  <1>2. s \in [1 .. Len(s) -> 0 .. n + 1]
    BY <1>1
  <1> QED
    BY <1>1, <1>2, AsStreams

\* The oldest of a set of subscriptions.
LEMMA OldestExists ==
  ASSUME NEW S \in SUBSET Nat, S # {}
  PROVE  \E m \in S : \A c \in S : m <= c
  <1> DEFINE R == OpToRel(<, Nat)
  <1>1. PICK m \in S : \A c \in S : <<c, m>> \notin R
    BY NatLessThanWellFounded, WFMin
  <1>2. ASSUME NEW c \in S PROVE m <= c
    <2>1. m \in Nat /\ c \in Nat
      OBVIOUS
    <2>2. ~(c < m)
      BY <1>1, <2>1 DEF OpToRel
    <2> QED
      BY <2>1, <2>2
  <1> QED
    BY <1>2

\* The cap leaves room for the new subscription: of those it keeps, the oldest
\* has fewer than PerUser - 1 after it.
LEMMA EvictionMakesRoom ==
  ASSUME HubTypes
  PROVE  LET kept == subscribers \ Evicted
         IN IsFiniteSet(kept) /\ Cardinality(kept) + 1 <= PerUser
  <1> DEFINE kept == subscribers \ Evicted
             after(c) == {d \in subscribers : d > c}
  <1>1. Len(streams) \in Nat /\ subscribers \in SUBSET (1 .. Len(streams)) /\ PerUser \in Nat \ {0}
    BY LenProperties, HubBounds DEF HubTypes, Conns
  <1>2. IsFiniteSet(subscribers) /\ subscribers \in SUBSET Nat
    <2>1. IsFiniteSet(1 .. Len(streams))
      BY <1>1, FS_Interval
    <2>2. \A n \in 1 .. Len(streams) : n \in Nat
      BY <1>1
    <2>3. IsFiniteSet(subscribers)
      BY <1>1, <2>1, FS_Subset
    <2> QED
      BY <1>1, <2>2, <2>3
  <1>3. IsFiniteSet(kept)
    BY <1>2, FS_Subset
  <1>4. CASE kept = {}
    BY <1>1, <1>3, <1>4, FS_EmptySet
  <1>5. CASE kept # {}
    <2>1. PICK m \in kept : \A c \in kept : m <= c
      BY <1>2, <1>5, OldestExists
    <2>2. IsFiniteSet(after(m)) /\ Cardinality(after(m)) \in Nat
      BY <1>2, FS_Subset, FS_CardinalityType
    <2>3. Cardinality(after(m)) + 1 < PerUser
      <3>1. ~(Cardinality(after(m)) + 1 >= PerUser)
        BY <2>1 DEF Evicted
      <3> HIDE DEF after
      <3> QED
        BY <1>1, <2>2, <3>1
    <2>4. kept \ {m} \subseteq after(m)
      <3> SUFFICES ASSUME NEW c \in kept, c # m PROVE c > m
        OBVIOUS
      <3>1. c \in Nat /\ m \in Nat /\ m <= c
        BY <1>2, <2>1
      <3> QED
        BY <3>1
    <2>5. Cardinality(kept \ {m}) <= Cardinality(after(m)) /\ Cardinality(kept \ {m}) = Cardinality(kept) - 1
      BY <1>3, <2>1, <2>2, <2>4, FS_Subset, FS_RemoveElement
    <2>6. Cardinality(kept) \in Nat
      BY <1>3, FS_CardinalityType
    <2> HIDE DEF after, kept
    <2>7. Cardinality(kept) + 1 <= PerUser
      BY <1>1, <2>2, <2>3, <2>5, <2>6
    <2> QED
      BY <1>3, <2>7 DEF kept
  <1> QED
    BY <1>4, <1>5

LEMMA HubBegins == HubInit => HubInv
  <1> SUFFICES ASSUME HubInit PROVE HubInv
    OBVIOUS
  <1>1. streams \in Seq(Stream(0)) /\ Len(streams) = 0
    BY EmptySeq DEF HubInit
  <1>2. HubTypes
    <2>1. committed = 0 /\ subscribers = {} /\ untold = {} /\ heard = 0 /\ pulled = 0
      BY DEF HubInit
    <2>2. streams \in Seq(Stream(committed))
      BY <1>1, <2>1
    <2> QED
      <3>1. committed \in Nat /\ heard \in 0 .. committed /\ pulled \in 0 .. committed
        BY <2>1
      <3>2. /\ hubOpen \in BOOLEAN /\ pullAsked \in BOOLEAN /\ deferred \in BOOLEAN /\ skipped \in BOOLEAN
            /\ turn \in {"idle", "asking", "applying"}
        BY DEF HubInit
      <3> QED
        BY <2>1, <2>2, <3>1, <3>2 DEF HubTypes
  <1>3. Cardinality({}) = 0
    BY FS_EmptySet
  <1> QED
    BY <1>2, <1>3, HubBounds DEF HubInit, HubInv, OnlyOpenStreams, HeardIsPulled

\* A subscription: the evicted are closed and out of the map, the new one is open.
LEMMA SubscribeKeeps ==
  ASSUME HubInv, NEW isDevice \in BOOLEAN, Subscribe(isDevice)
  PROVE  HubInv'
  <1> DEFINE n == Len(streams)
             old == [c \in Conns |-> [streams[c] EXCEPT !.open = @ /\ ~(hubOpen /\ c \in Evicted)]]
             new == [open |-> hubOpen, served |-> TRUE, buffer |-> <<>>]
             kept == subscribers \ Evicted
  <1>1. n \in Nat /\ streams \in [1 .. n -> Stream(committed)]
    BY LenProperties DEF HubInv, HubTypes
  <1>2. old \in [1 .. n -> Stream(committed)]
    BY <1>1 DEF Stream, Conns, HubInv, HubTypes
  <1>3. new \in Stream(committed)
    BY EmptySeq DEF Stream, HubInv, HubTypes
  <1>4. old \in Seq(Stream(committed)) /\ Len(old) = n
    BY <1>1, <1>2, AsStreams
  <1>5. streams' = Append(old, new)
    BY DEF Subscribe
  <1>6. /\ streams' \in Seq(Stream(committed)) /\ Len(streams') = n + 1
        /\ \A c \in 1 .. n : streams'[c] = old[c]
        /\ streams'[n + 1] = new
    <2> HIDE DEF old, new
    <2> QED
      BY <1>3, <1>4, <1>5, AppendProperties
  <1>7. HubTypes'
    BY <1>1, <1>6 DEF HubInv, HubTypes, Subscribe, Conns, deviceVars
  <1>8. OnlyOpenStreams'
    <2>1. CASE ~hubOpen
      <3>1. subscribers' = subscribers
        BY <2>1 DEF Subscribe
      <3>2. \A c \in subscribers : c \in 1 .. n
        BY DEF HubInv, HubTypes, Conns
      <3>4. \A c \in 1 .. n : streams[c].open => old[c].open
        BY <1>1, <2>1 DEF Conns, Stream
      <3>5. \A c \in subscribers : streams'[c].open
        <4> HIDE DEF old, n
        <4> QED
          BY <1>6, <3>2, <3>4 DEF HubInv, OnlyOpenStreams
      <3> QED
        BY <3>1, <3>5 DEF HubInv, OnlyOpenStreams
    <2>2. CASE hubOpen
      <3>1. subscribers' = kept \cup {n + 1}
        BY <2>2 DEF Subscribe
      <3>2. \A c \in kept : c \in 1 .. n /\ streams'[c].open
        BY <1>1, <1>6, <2>2 DEF HubInv, HubTypes, Conns, Stream, OnlyOpenStreams
      <3>3. streams'[n + 1].open
        BY <1>6, <2>2
      <3>4. IsFiniteSet(kept) /\ Cardinality(kept) + 1 <= PerUser
        BY EvictionMakesRoom DEF HubInv
      <3>5. n + 1 \notin kept
        BY <1>1, <3>2
      <3>6. Cardinality(kept \cup {n + 1}) = Cardinality(kept) + 1
        BY <3>4, <3>5, FS_AddElement
      <3> HIDE DEF kept, n
      <3> QED
        BY <3>1, <3>2, <3>3, <3>4, <3>6 DEF OnlyOpenStreams
    <2> QED
      BY <2>1, <2>2
  <1> QED
    BY <1>7, <1>8 DEF HubInv, HeardIsPulled, Subscribe, deviceVars

\* Streams that change in what they hold, and in what is served, are the
\* streams there were.
LEMMA StreamsChange ==
  ASSUME HubInv, NEW f \in [Conns -> Stream(committed)], streams' = f, committed' = committed,
         subscribers' \subseteq subscribers, \A c \in subscribers' : f[c].open
  PROVE  /\ streams' \in Seq(Stream(committed)) /\ Conns' = Conns
         /\ subscribers' \subseteq Conns'
         /\ OnlyOpenStreams'
  <1>1. Len(streams) \in Nat
    BY LenProperties DEF HubInv, HubTypes
  <1>2. streams' \in Seq(Stream(committed)) /\ Len(streams') = Len(streams)
    BY <1>1, AsStreams DEF Conns
  <1>3. IsFiniteSet(subscribers)
    <2>1. IsFiniteSet(1 .. Len(streams))
      BY <1>1, FS_Interval
    <2> QED
      BY <2>1, FS_Subset DEF HubInv, HubTypes, Conns
  <1>4. Cardinality(subscribers') <= Cardinality(subscribers) /\ Cardinality(subscribers) \in Nat /\ Cardinality(subscribers') \in Nat
    BY <1>3, FS_Subset, FS_CardinalityType
  <1> QED
    BY <1>2, <1>4, HubBounds DEF HubInv, HubTypes, OnlyOpenStreams, Conns

LEMMA StreamsAre ==
  ASSUME HubTypes
  PROVE  streams \in [Conns -> Stream(committed)] /\ Len(streams) \in Nat
  BY LenProperties DEF HubTypes, Conns

LEMMA SentIsStream ==
  ASSUME NEW n \in Nat, NEW stream \in Stream(n), NEW event \in 0 .. n
  PROVE  Sent(stream, event) \in Stream(n) /\ Sent(stream, event).open = stream.open
  <1>1. Append(stream.buffer, event) \in Seq(0 .. n)
    BY AppendProperties DEF Stream
  <1> QED
    BY <1>1 DEF Sent, Stream

LEMMA BroadcastKeeps ==
  ASSUME HubInv, NEW event \in 0 .. committed, Broadcast(event), untold' \subseteq untold,
         UNCHANGED <<hubOpen, subscribers, committed, link>>, UNCHANGED deviceVars
  PROVE  HubInv'
  <1> DEFINE f == [c \in Conns |-> IF c \in subscribers THEN Sent(streams[c], event) ELSE streams[c]]
  <1>1. streams \in [Conns -> Stream(committed)] /\ committed \in Nat
    BY StreamsAre DEF HubInv, HubTypes
  <1>2. f \in [Conns -> Stream(committed)] /\ \A c \in Conns : f[c].open = streams[c].open
    BY <1>1, SentIsStream
  <1>3. streams' = f
    BY DEF Broadcast
  <1>4. \A c \in subscribers' : f[c].open
    BY <1>2 DEF HubInv, HubTypes, OnlyOpenStreams
  <1> HIDE DEF f
  <1>5. streams' \in Seq(Stream(committed)) /\ Conns' = Conns /\ OnlyOpenStreams'
    BY <1>2, <1>3, <1>4, StreamsChange
  <1> QED
    BY <1>5 DEF HubInv, HubTypes, HeardIsPulled, deviceVars

LEMMA PushStoredKeeps == HubInv /\ PushStored => HubInv'
  <1> SUFFICES ASSUME HubInv, PushStored PROVE HubInv'
    OBVIOUS
  <1>1. streams \in [Conns -> Stream(committed)] /\ committed \in Nat /\ Len(streams) \in Nat
    BY StreamsAre DEF HubInv, HubTypes
  <1>2. committed' = committed + 1 /\ streams' = streams
    BY DEF PushStored
  <1>3. \A s \in Stream(committed) : s \in Stream(committed')
    BY <1>1, <1>2, WiderEvents DEF Stream
  <1>4. streams' \in [1 .. Len(streams) -> Stream(committed')]
    BY <1>1, <1>2, <1>3 DEF Conns
  <1>5. streams' \in Seq(Stream(committed'))
    BY <1>1, <1>4, AsStreams
  <1>6. HubTypes'
    BY <1>1, <1>2, <1>5 DEF HubInv, HubTypes, PushStored, deviceVars, Conns
  <1> QED
    BY <1>6 DEF HubInv, HeardIsPulled, OnlyOpenStreams, PushStored, deviceVars

LEMMA HubRestartKeeps ==
  ASSUME HubInv, HubShutdown \/ ServerReturns
  PROVE  HubInv'
  <1>1. streams \in [Conns -> Stream(committed)] /\ committed \in Nat /\ <<>> \in Seq(0 .. committed)
    BY StreamsAre, EmptySeq DEF HubInv, HubTypes
  <1>2. CASE HubShutdown
    <2> DEFINE f == [c \in Conns |-> IF c \in subscribers THEN [Sent(streams[c], 0) EXCEPT !.open = FALSE] ELSE streams[c]]
    <2>1. \A c \in Conns : Sent(streams[c], 0) \in Stream(committed)
      BY <1>1, SentIsStream
    <2>2. f \in [Conns -> Stream(committed)]
      BY <1>1, <2>1 DEF Stream
    <2>3. streams' = f /\ subscribers' = {} /\ committed' = committed
      BY <1>2 DEF HubShutdown
    <2> HIDE DEF f
    <2>4. streams' \in Seq(Stream(committed)) /\ Conns' = Conns /\ OnlyOpenStreams'
      BY <2>2, <2>3, StreamsChange
    <2> QED
      BY <1>2, <2>3, <2>4 DEF HubInv, HubTypes, HubShutdown, HeardIsPulled, deviceVars
  <1>3. CASE ServerReturns
    <2> DEFINE f == [c \in Conns |-> [streams[c] EXCEPT !.served = FALSE, !.buffer = <<>>]]
    <2>1. f \in [Conns -> Stream(committed)] /\ \A c \in Conns : f[c].open = streams[c].open
      BY <1>1 DEF Stream
    <2>2. streams' = f /\ subscribers' = subscribers /\ committed' = committed
      BY <1>3 DEF ServerReturns
    <2>3. \A c \in subscribers' : f[c].open
      BY <2>1, <2>2 DEF HubInv, HubTypes, OnlyOpenStreams
    <2> HIDE DEF f
    <2>4. streams' \in Seq(Stream(committed)) /\ Conns' = Conns /\ OnlyOpenStreams'
      BY <2>1, <2>2, <2>3, StreamsChange
    <2> QED
      BY <1>3, <2>2, <2>4 DEF HubInv, HubTypes, ServerReturns, HeardIsPulled, deviceVars
  <1> QED
    BY <1>2, <1>3

\* An event the device reads is a token in the loop's channel.
LEMMA DeliverKeeps ==
  ASSUME HubInv, NEW c \in Conns, Deliver(c)
  PROVE  HubInv'
  <1> DEFINE f == [streams EXCEPT ![c].buffer = Tail(@)]
             event == Head(streams[c].buffer)
  <1>1. streams \in [Conns -> Stream(committed)] /\ committed \in Nat
    BY StreamsAre DEF HubInv, HubTypes
  <1>2. streams[c].buffer \in Seq(0 .. committed) /\ streams[c].buffer # <<>>
    BY <1>1 DEF Deliver, Stream
  <1>3. event \in 0 .. committed /\ Tail(streams[c].buffer) \in Seq(0 .. committed)
    BY <1>2, HeadTailProperties
  <1>4. f \in [Conns -> Stream(committed)] /\ \A d \in Conns : f[d].open = streams[d].open
    BY <1>1, <1>3 DEF Stream
  <1>5. streams' = f /\ subscribers' = subscribers /\ committed' = committed
    BY DEF Deliver
  <1>6. \A d \in subscribers' : f[d].open
    BY <1>4, <1>5 DEF HubInv, HubTypes, OnlyOpenStreams
  <1>7. streams' \in Seq(Stream(committed)) /\ Conns' = Conns /\ OnlyOpenStreams'
    <2> HIDE DEF f
    <2> QED
      BY <1>4, <1>5, <1>6, StreamsChange
  <1>8. /\ heard' \in 0 .. committed /\ pullAsked' \in BOOLEAN
        /\ heard' <= pulled \/ pullAsked' \/ turn = "asking" \/ skipped
    <2>1. CASE c = link
      <3>1. OnEvent(event)
        BY <2>1 DEF Deliver
      <3>2. heard' = (IF event > heard THEN event ELSE heard) /\ pullAsked' = (pullAsked \/ event # 0)
        BY <3>1 DEF OnEvent
      <3> HIDE DEF event
      <3>3. heard \in 0 .. committed /\ pulled \in 0 .. committed
        BY DEF HubInv, HubTypes
      <3>4. CASE event > heard
        <4>1. event # 0 /\ heard' = event
          BY <1>3, <3>2, <3>3, <3>4
        <4> QED
          BY <1>3, <3>2, <4>1
      <3>5. CASE ~(event > heard)
        <4>1. heard' = heard
          BY <3>2, <3>5
        <4>2. pullAsked' \in BOOLEAN /\ (pullAsked => pullAsked')
          BY <3>2 DEF HubInv, HubTypes
        <4> QED
          BY <3>3, <4>1, <4>2 DEF HubInv, HeardIsPulled
      <3> QED
        BY <3>4, <3>5
    <2>2. CASE c # link
      BY <2>2 DEF Deliver, HubInv, HubTypes, HeardIsPulled
    <2> QED
      BY <2>1, <2>2
  <1>9. UNCHANGED <<hubOpen, subscribers, committed, untold, link, deferred, turn, pulled, skipped>>
    BY DEF Deliver
  <1> QED
    BY <1>7, <1>8, <1>9 DEF HubInv, HubTypes, HeardIsPulled

LEMMA HandlerEndsKeeps ==
  ASSUME HubInv, NEW c \in Conns, HandlerEnds(c)
  PROVE  HubInv'
  <1> DEFINE f == [streams EXCEPT ![c].served = FALSE, ![c].buffer = <<>>]
  <1>1. streams \in [Conns -> Stream(committed)] /\ <<>> \in Seq(0 .. committed)
    BY StreamsAre, EmptySeq DEF HubInv, HubTypes
  <1>2. f \in [Conns -> Stream(committed)] /\ \A d \in Conns : f[d].open = streams[d].open
    BY <1>1 DEF Stream
  <1>3. streams' = f /\ subscribers' \subseteq subscribers /\ committed' = committed
    BY DEF HandlerEnds
  <1>4. \A d \in subscribers' : f[d].open
    BY <1>2, <1>3 DEF HubInv, HubTypes, OnlyOpenStreams
  <1> HIDE DEF f
  <1>5. streams' \in Seq(Stream(committed)) /\ Conns' = Conns /\ subscribers' \subseteq Conns' /\ OnlyOpenStreams'
    BY <1>2, <1>3, <1>4, StreamsChange
  <1> QED
    BY <1>3, <1>5 DEF HubInv, HubTypes, HeardIsPulled, HandlerEnds, deviceVars

\* The sync loop: whatever takes the token out pulls, or is noted as skipped.
LEMMA LoopKeeps ==
  ASSUME HubInv,
         \/ \E byEvent \in BOOLEAN : Turn(byEvent)
         \/ PullReads \/ PullApplied \/ PullFails \/ DeferralChanges \/ LinkDrops
  PROVE  HubInv'
  <1>1. UNCHANGED <<hubOpen, subscribers, streams, committed, untold>>
    BY DEF Turn, PullReads, PullApplied, PullFails, DeferralChanges, LinkDrops
  <1>2. HubTypes' /\ HeardIsPulled'
    <2>1. ASSUME NEW byEvent \in BOOLEAN, Turn(byEvent) PROVE HubTypes' /\ HeardIsPulled'
      <3>1. turn = "idle" /\ (byEvent => pullAsked) /\ pullAsked' = (pullAsked /\ ~byEvent)
        BY <2>1 DEF Turn
      <3>2. IF deferred THEN skipped' = TRUE /\ turn' = turn ELSE turn' = "asking" /\ skipped' = skipped
        BY <2>1 DEF Turn
      <3>3. UNCHANGED <<deferred, heard, pulled>>
        BY <2>1 DEF Turn
      <3> QED
        BY <1>1, <3>1, <3>2, <3>3 DEF HubInv, HubTypes, HeardIsPulled, Conns
    <2>2. CASE PullReads
      <3>1. pulled' = committed /\ turn' = "applying" /\ skipped' = FALSE /\ UNCHANGED <<pullAsked, deferred, heard>>
        BY <2>2 DEF PullReads
      <3>2. heard \in 0 .. committed /\ committed \in Nat
        BY DEF HubInv, HubTypes
      <3>3. HeardIsPulled' /\ pulled' \in 0 .. committed'
        BY <1>1, <3>1, <3>2 DEF HeardIsPulled
      <3> QED
        BY <1>1, <3>1, <3>3 DEF HubInv, HubTypes, Conns
    <2>3. CASE PullApplied \/ PullFails
      BY <1>1, <2>3 DEF PullApplied, PullFails, HubInv, HubTypes, HeardIsPulled, Conns
    <2>4. CASE DeferralChanges \/ LinkDrops
      BY <1>1, <2>4 DEF DeferralChanges, LinkDrops, deviceVars, HubInv, HubTypes, HeardIsPulled, Conns
    <2> QED
      BY <2>1, <2>2, <2>3, <2>4
  <1> QED
    BY <1>1, <1>2 DEF HubInv, OnlyOpenStreams

LEMMA HubNextKeeps == HubInv /\ [HubNext]_hubVars => HubInv'
  <1> SUFFICES ASSUME HubInv, [HubNext]_hubVars PROVE HubInv'
    OBVIOUS
  <1>1. ASSUME NEW isDevice \in BOOLEAN, Subscribe(isDevice) PROVE HubInv'
    BY <1>1, SubscribeKeeps
  <1>2. CASE PushStored
    BY <1>2, PushStoredKeeps
  <1>3. CASE PushTold
    <2>1. PICK p \in untold : untold' = untold \ {p} /\ Broadcast(p)
      BY <1>3 DEF PushTold
    <2>2. p \in 0 .. committed
      BY DEF HubInv, HubTypes
    <2> QED
      BY <1>3, <2>1, <2>2, BroadcastKeeps DEF PushTold
  <1>4. CASE OtherEvent
    <2>1. 0 \in 0 .. committed
      BY DEF HubInv, HubTypes
    <2> QED
      BY <1>4, <2>1, BroadcastKeeps DEF OtherEvent
  <1>5. CASE HubShutdown \/ ServerReturns
    BY <1>5, HubRestartKeeps
  <1>6. ASSUME NEW c \in Conns, Deliver(c) \/ HandlerEnds(c) PROVE HubInv'
    BY <1>6, DeliverKeeps, HandlerEndsKeeps
  <1>7. CASE \/ \E byEvent \in BOOLEAN : Turn(byEvent)
             \/ PullReads \/ PullApplied \/ PullFails \/ DeferralChanges \/ LinkDrops
    BY <1>7, LoopKeeps
  <1>8. CASE UNCHANGED hubVars
    BY <1>8 DEF hubVars, HubInv, HubTypes, OnlyOpenStreams, HeardIsPulled, Conns
  <1> QED
    BY <1>1, <1>2, <1>3, <1>4, <1>5, <1>6, <1>7, <1>8 DEF HubNext

\* An event that a stream has gets through (sse/hub.go, run_sync.go): nothing is
\* sent on a closed channel, no user holds more than the cap, and what a device
\* has heard it has pulled, or is about to or asked to, unless the loop deferred
\* or failed a turn - for any cap, any buffers and any number of connections and
\* pushes.  Of the events dropped at a full buffer it says nothing.
THEOREM EventsGetThroughHolds == HubSpec => []EventsGetThrough
  <1>1. HubInv => EventsGetThrough
    BY DEF HubInv, EventsGetThrough
  <1> QED
    BY <1>1, HubBegins, HubNextKeeps, PTL DEF HubSpec

---------------------------------------------------------------------------
(* The settings of the server: what is in force is what is saved.           *)

SettingRows == [schedule : Schedules \cup {"unset"}, register : {"unset", "open", "closed"}, backup : BOOLEAN]
Working == [schedule : Schedules \cup {"default", "env"}, web : {"open", "closed", "env"},
            api : {"open", "closed", "env"}, backup : BOOLEAN]
SavingForm == [at : {"none", "schedule", "backup", "read", "reschedule"},
               schedule : Schedules \cup {"unset"}, backup : BOOLEAN]
SettingsTypes ==
  /\ setting \in SettingRows /\ inForce \in Working /\ saving \in [Forms -> SavingForm]
  /\ wizard \in {"waits", "open", "closed", "over"}

\* The backups run as saved, unless they were saved since the start.
BackupRight == inForce.backup = BackupsOn(setting.backup) \/ "backup" \in excused

\* Both handlers have the policy that is saved; the wizard may be about to tell
\* them, and then the one it has is saved, or its row was lost.
PolicyRight ==
  /\ wizard \in {"waits", "over"} =>
       /\ inForce.web = Policy(setting.register) \/ "web" \in excused
       /\ inForce.api = Policy(setting.register) \/ "api" \in excused
  /\ wizard \in {"open", "closed"} => setting.register = wizard \/ {"web", "api"} \subseteq excused
  /\ "register" \in pinned => inForce.web = "env" /\ inForce.api = "env"

\* The fetch is scheduled as saved, or somebody will schedule it anew.
Rescheduling(f) == saving[f].at \in {"backup", "read", "reschedule"}
ScheduleRight ==
  \/ inForce.schedule = FetchSchedule(setting.schedule)
  \/ "schedule" \in excused
  \/ \E f \in Forms : Rescheduling(f)

\* Nobody saves before the wizard is over.
FormsWait == wizard # "over" => \A f \in Forms : saving[f].at = "none"

SettingsInv == SettingsTypes /\ BackupRight /\ PolicyRight /\ ScheduleRight /\ FormsWait

LEMMA SettingsBegin == SettingsInit => SettingsInv
  <1> SUFFICES ASSUME SettingsInit PROVE SettingsInv
    OBVIOUS
  <1>1. /\ setting \in SettingRows /\ wizard \in {"waits", "over"}
        /\ inForce = Started /\ saving = [f \in Forms |-> NoForm]
    <2>1. CASE wizard = "waits" /\ setting = [schedule |-> "unset", register |-> "unset", backup |-> FALSE]
      BY <2>1 DEF SettingsInit, SettingRows
    <2>2. CASE wizard = "over" /\ setting \in [schedule : {"unset", "off"}, register : {"closed"}, backup : {FALSE}]
      <3>1. setting \in SettingRows
        BY <2>2 DEF SettingRows, Schedules
      <3> QED
        BY <2>2, <3>1 DEF SettingsInit
    <2> QED
      BY <2>1, <2>2 DEF SettingsInit
  <1>2. SettingsTypes
    BY <1>1 DEF SettingsTypes, Started, SettingRows, Working, SavingForm, NoForm, FetchSchedule, Policy, BackupsOn, Schedules
  <1>3. BackupRight /\ PolicyRight /\ ScheduleRight /\ FormsWait
    BY <1>1 DEF Started, BackupRight, PolicyRight, ScheduleRight, FormsWait, Policy, NoForm
  <1> QED
    BY <1>2, <1>3 DEF SettingsInv

\* What changes of a form that is being saved.
LEMMA FormMoves ==
  ASSUME SettingsInv, NEW f \in Forms, NEW q \in SavingForm, saving' = [saving EXCEPT ![f] = q]
  PROVE  /\ saving' \in [Forms -> SavingForm]
         /\ q.at \in {"backup", "read", "reschedule"} => \E g \in Forms : Rescheduling(g)'
         /\ saving[f].at \notin {"backup", "read", "reschedule"} =>
              ((\E g \in Forms : Rescheduling(g)) => \E g \in Forms : Rescheduling(g)')
  <1>1. saving \in [Forms -> SavingForm]
    BY DEF SettingsInv, SettingsTypes
  <1>2. \A g \in Forms : saving'[g] = IF g = f THEN q ELSE saving[g]
    BY <1>1
  <1> QED
    BY <1>1, <1>2 DEF Rescheduling

\* What the form saves.
LEMMA SavingKeeps ==
  ASSUME SettingsInv, NEW f \in Forms, SaveBegins(f) \/ SavesSchedule(f) \/ SavesBackup(f) \/ SaveEnds(f)
  PROVE  SettingsInv'
  <1>1. /\ saving \in [Forms -> SavingForm] /\ saving[f] \in SavingForm /\ setting \in SettingRows
        /\ inForce \in Working /\ UNCHANGED <<inForce, wizard, pinned>>
    BY DEF SettingsInv, SettingsTypes, SaveBegins, SavesSchedule, SavesBackup, SaveEnds
  <1>2. wizard = "over"
    BY DEF SettingsInv, FormsWait, SaveBegins, SavesSchedule, SavesBackup, SaveEnds
  <1>3. CASE SaveBegins(f)
    <2>1. PICK q \in SavingForm : saving' = [saving EXCEPT ![f] = q]
      BY <1>1, <1>3 DEF SaveBegins, NoForm, SavingForm
    <2>2. saving[f].at = "none" /\ UNCHANGED <<setting, excused>>
      BY <1>3 DEF SaveBegins
    <2>3. saving' \in [Forms -> SavingForm] /\ ((\E g \in Forms : Rescheduling(g)) => \E g \in Forms : Rescheduling(g)')
      BY <2>1, <2>2, FormMoves
    <2> QED
      BY <1>1, <1>2, <2>2, <2>3 DEF SettingsInv, SettingsTypes, BackupRight, PolicyRight, ScheduleRight, FormsWait,
           BackupsOn, Policy, FetchSchedule
  <1>4. CASE SavesSchedule(f)
    <2>1. [saving[f] EXCEPT !.at = "backup"] \in SavingForm /\ [saving[f] EXCEPT !.at = "backup"].at = "backup"
      BY <1>1 DEF SavingForm
    <2>2. saving' = [saving EXCEPT ![f] = [saving[f] EXCEPT !.at = "backup"]] /\ excused' = excused
      BY <1>4 DEF SavesSchedule, Moves
    <2>3. saving' \in [Forms -> SavingForm] /\ \E g \in Forms : Rescheduling(g)'
      BY <2>1, <2>2, FormMoves
    <2>4. setting' \in SettingRows /\ setting'.register = setting.register /\ setting'.backup = setting.backup
      BY <1>1, <1>4 DEF SavesSchedule, SettingRows, SavingForm
    <2> QED
      BY <1>1, <1>2, <2>2, <2>3, <2>4 DEF SettingsInv, SettingsTypes, BackupRight, PolicyRight, ScheduleRight, FormsWait,
           BackupsOn, Policy
  <1>5. CASE SavesBackup(f)
    <2>1. [saving[f] EXCEPT !.at = "read"] \in SavingForm /\ [saving[f] EXCEPT !.at = "read"].at = "read"
      BY <1>1 DEF SavingForm
    <2>2. saving' = [saving EXCEPT ![f] = [saving[f] EXCEPT !.at = "read"]] /\ excused' = excused \cup {"backup"}
      BY <1>5 DEF SavesBackup, Moves
    <2>3. saving' \in [Forms -> SavingForm] /\ \E g \in Forms : Rescheduling(g)'
      BY <2>1, <2>2, FormMoves
    <2>4. setting' \in SettingRows /\ setting'.register = setting.register
      BY <1>1, <1>5 DEF SavesBackup, SettingRows, SavingForm
    <2> QED
      BY <1>1, <1>2, <2>2, <2>3, <2>4 DEF SettingsInv, SettingsTypes, BackupRight, PolicyRight, ScheduleRight, FormsWait,
           Policy
  <1>6. CASE SaveEnds(f)
    <2>1. /\ NoForm \in SavingForm /\ saving' = [saving EXCEPT ![f] = NoForm] /\ setting' = setting
          /\ excused' = IF saving[f].at = "schedule" THEN excused ELSE excused \cup {"schedule"}
      BY <1>6 DEF SaveEnds, NoForm, SavingForm
    <2>2. /\ saving' \in [Forms -> SavingForm]
          /\ saving[f].at = "schedule" => ((\E g \in Forms : Rescheduling(g)) => \E g \in Forms : Rescheduling(g)')
      BY <2>1, FormMoves
    <2> QED
      BY <1>1, <1>2, <2>1, <2>2 DEF SettingsInv, SettingsTypes, BackupRight, PolicyRight, ScheduleRight, FormsWait,
           BackupsOn, Policy, FetchSchedule
  <1> QED
    BY <1>3, <1>4, <1>5, <1>6

\* The rows are read, and the entry put in its place: as they are by then, or
\* with an excuse.
LEMMA ReschedulingKeeps ==
  ASSUME SettingsInv, NEW f \in Forms, ReadsSettings(f) \/ ReadFails(f) \/ Reschedules(f)
  PROVE  SettingsInv'
  <1>1. /\ saving \in [Forms -> SavingForm] /\ saving[f] \in SavingForm /\ setting \in SettingRows
        /\ inForce \in Working /\ UNCHANGED <<setting, wizard, pinned>>
    BY DEF SettingsInv, SettingsTypes, ReadsSettings, ReadFails, Reschedules
  <1>2. wizard = "over"
    BY DEF SettingsInv, FormsWait, ReadsSettings, ReadFails, Reschedules
  <1>3. CASE ReadsSettings(f) \/ ReadFails(f)
    <2>1. PICK q \in SavingForm : q.at = "reschedule" /\ saving' = [saving EXCEPT ![f] = q]
      BY <1>1, <1>3 DEF ReadsSettings, ReadFails, SavingForm, SettingRows
    <2>2. saving' \in [Forms -> SavingForm] /\ \E g \in Forms : Rescheduling(g)'
      BY <2>1, FormMoves
    <2>3. UNCHANGED <<inForce, excused>>
      BY <1>3 DEF ReadsSettings, ReadFails
    <2> QED
      BY <1>1, <1>2, <2>2, <2>3 DEF SettingsInv, SettingsTypes, BackupRight, PolicyRight, ScheduleRight, FormsWait,
           BackupsOn, Policy
  <1>4. CASE Reschedules(f)
    <2> DEFINE now == [inForce EXCEPT !.schedule = FetchSchedule(saving[f].schedule)]
    <2>1. /\ inForce' = now
          /\ saving' = [saving EXCEPT ![f] = NoForm]
          /\ excused' = (excused \cup (IF saving[f].schedule # setting.schedule THEN {"schedule"} ELSE {})) \ Right(now)
      BY <1>4 DEF Reschedules
    <2>2. /\ now \in Working /\ now.schedule = FetchSchedule(saving[f].schedule) /\ now.web = inForce.web
          /\ now.api = inForce.api /\ now.backup = inForce.backup
      BY <1>1 DEF Working, SavingForm, FetchSchedule, Schedules
    <2> HIDE DEF now
    <2>3. /\ "schedule" \in Right(now) <=> now.schedule = FetchSchedule(setting.schedule)
          /\ "web" \in Right(now) <=> now.web = Policy(setting.register)
          /\ "api" \in Right(now) <=> now.api = Policy(setting.register)
          /\ "backup" \in Right(now) <=> now.backup = BackupsOn(setting.backup)
      BY DEF Right, Started
    <2>4. NoForm \in SavingForm
      BY DEF NoForm, SavingForm
    <2>5. saving' \in [Forms -> SavingForm]
      BY <2>1, <2>4, FormMoves
    <2>6. BackupRight' /\ PolicyRight'
      BY <1>1, <1>2, <2>1, <2>2, <2>3 DEF SettingsInv, BackupRight, PolicyRight, BackupsOn, Policy
    <2>7. ScheduleRight'
      BY <1>1, <2>1, <2>2, <2>3 DEF ScheduleRight, FetchSchedule
    <2> QED
      BY <1>1, <1>2, <2>1, <2>2, <2>5, <2>6, <2>7 DEF SettingsInv, SettingsTypes, FormsWait
  <1> QED
    BY <1>3, <1>4

LEMMA WizardSavesKeeps == SettingsInv /\ WizardSaves => SettingsInv'
  <1> SUFFICES ASSUME SettingsInv, WizardSaves PROVE SettingsInv'
    OBVIOUS
  <1>1. setting \in SettingRows /\ wizard = "waits" /\ UNCHANGED <<pinned, inForce, saving>>
    BY DEF SettingsInv, SettingsTypes, WizardSaves
  <1>2. PICK policy \in {"open", "closed"}, backup \in BOOLEAN, lost \in SUBSET {"register", "backup"} :
          /\ wizard' = policy
          /\ setting' = [setting EXCEPT !.register = IF "register" \in lost THEN @ ELSE policy,
                                        !.backup = IF "backup" \in lost THEN @ ELSE @ \/ backup]
          /\ excused' = excused \cup {"backup"} \cup (IF "register" \in lost THEN {"web", "api"} ELSE {})
    BY DEF WizardSaves
  <1>3. /\ setting' \in SettingRows /\ setting'.schedule = setting.schedule
        /\ setting'.register = policy \/ {"web", "api"} \subseteq excused'
    <2>1. (setting.backup \/ backup) \in BOOLEAN /\ setting.backup \in BOOLEAN
      BY <1>1 DEF SettingRows
    <2> QED
      BY <1>1, <1>2, <2>1 DEF SettingRows
  <1>4. BackupRight' /\ PolicyRight'
    BY <1>1, <1>2, <1>3 DEF SettingsInv, BackupRight, PolicyRight
  <1>5. ScheduleRight' /\ FormsWait'
    BY <1>1, <1>2, <1>3 DEF SettingsInv, ScheduleRight, FormsWait, FetchSchedule, Rescheduling
  <1> QED
    BY <1>1, <1>2, <1>3, <1>4, <1>5 DEF SettingsInv, SettingsTypes

LEMMA WizardAppliesKeeps == SettingsInv /\ WizardApplies => SettingsInv'
  <1> SUFFICES ASSUME SettingsInv, WizardApplies PROVE SettingsInv'
    OBVIOUS
  <1> DEFINE now == IF "register" \in pinned THEN inForce ELSE [inForce EXCEPT !.web = wizard, !.api = wizard]
  <1>1. /\ inForce \in Working /\ wizard \in {"open", "closed"} /\ wizard' = "over"
        /\ inForce' = now /\ excused' = excused \ Right(now) /\ UNCHANGED <<setting, pinned, saving>>
    BY DEF SettingsInv, SettingsTypes, WizardApplies
  <1>2. /\ now \in Working /\ now.schedule = inForce.schedule /\ now.backup = inForce.backup
        /\ "register" \notin pinned => now.web = wizard /\ now.api = wizard
        /\ "register" \in pinned => now.web = inForce.web /\ now.api = inForce.api
    BY <1>1 DEF Working
  <1> HIDE DEF now
  <1>3. /\ "schedule" \in Right(now) <=> now.schedule = FetchSchedule(setting.schedule)
        /\ "web" \in Right(now) <=> now.web = Policy(setting.register)
        /\ "api" \in Right(now) <=> now.api = Policy(setting.register)
        /\ "backup" \in Right(now) <=> now.backup = BackupsOn(setting.backup)
    BY DEF Right, Started
  <1>4. setting.register = wizard \/ {"web", "api"} \subseteq excused
    BY <1>1 DEF SettingsInv, PolicyRight
  <1>5. PolicyRight'
    <2>1. CASE "register" \in pinned
      BY <1>1, <1>2, <2>1 DEF SettingsInv, PolicyRight, Policy
    <2>2. CASE "register" \notin pinned
      <3>1. setting.register = wizard => Policy(setting.register) = wizard
        BY <1>1, <2>2 DEF Policy
      <3>2. Policy(setting.register)' = Policy(setting.register)
        BY <1>1 DEF Policy
      <3> QED
        BY <1>1, <1>2, <1>3, <1>4, <2>2, <3>1, <3>2 DEF PolicyRight
    <2> QED
      BY <2>1, <2>2
  <1>6. BackupRight' /\ ScheduleRight'
    BY <1>1, <1>2, <1>3 DEF SettingsInv, BackupRight, ScheduleRight, BackupsOn, FetchSchedule, Rescheduling
  <1> QED
    BY <1>1, <1>2, <1>5, <1>6 DEF SettingsInv, SettingsTypes, FormsWait

LEMMA RestartSettingsKeeps == SettingsInv /\ RestartSettings => SettingsInv'
  <1> SUFFICES ASSUME SettingsInv, RestartSettings PROVE SettingsInv'
    OBVIOUS
  <1>1. /\ setting' = setting /\ setting \in SettingRows /\ inForce' = Started'
        /\ saving' = [f \in Forms |-> NoForm] /\ wizard' \in {"waits", "over"}
    BY DEF SettingsInv, SettingsTypes, RestartSettings
  <1>2. SettingsTypes'
    BY <1>1 DEF SettingsTypes, Started, SettingRows, Working, SavingForm, NoForm, FetchSchedule, Policy, BackupsOn, Schedules
  <1>3. BackupRight' /\ PolicyRight' /\ ScheduleRight' /\ FormsWait'
    BY <1>1 DEF Started, BackupRight, PolicyRight, ScheduleRight, FormsWait, Policy, NoForm
  <1> QED
    BY <1>2, <1>3 DEF SettingsInv

LEMMA SettingsNextKeeps == SettingsInv /\ [SettingsNext]_settingsVars => SettingsInv'
  <1> SUFFICES ASSUME SettingsInv, [SettingsNext]_settingsVars PROVE SettingsInv'
    OBVIOUS
  <1>1. ASSUME NEW f \in Forms, SaveBegins(f) \/ SavesSchedule(f) \/ SavesBackup(f) \/ SaveEnds(f)
        PROVE  SettingsInv'
    BY <1>1, SavingKeeps
  <1>2. ASSUME NEW f \in Forms, ReadsSettings(f) \/ ReadFails(f) \/ Reschedules(f) PROVE SettingsInv'
    BY <1>2, ReschedulingKeeps
  <1>3. CASE WizardSaves
    BY <1>3, WizardSavesKeeps
  <1>4. CASE WizardApplies
    BY <1>4, WizardAppliesKeeps
  <1>5. CASE RestartSettings
    BY <1>5, RestartSettingsKeeps
  <1>6. CASE UNCHANGED settingsVars
    BY <1>6 DEF settingsVars, SettingsInv, SettingsTypes, BackupRight, PolicyRight, ScheduleRight, FormsWait,
         BackupsOn, Policy, FetchSchedule, Rescheduling
  <1> QED
    BY <1>1, <1>2, <1>3, <1>4, <1>5, <1>6 DEF SettingsNext

\* What works is what was saved (store/admin_settings.go, schedule/pcgw_cron.go,
\* webui/handlers_setup.go), for any number of forms and lapses, but for the
\* lapses that are named.
THEOREM SettingsInForceHolds == SettingsSpec => []SettingsInForce
  <1>1. SettingsInv => SettingsInForce
    BY DEF SettingsInv, SettingsInForce, BackupRight, PolicyRight, ScheduleRight, Rescheduling, Started
  <1> QED
    BY <1>1, SettingsBegin, SettingsNextKeeps, PTL DEF SettingsSpec

---------------------------------------------------------------------------
(* Users: a deletion is whole.                                              *)

\* An account is a record, and so is a request.
UserRow == [role : {"none", "gone", "user", "admin"}, disabled : BOOLEAN]
UserRequest == [at : {"idle", "register", "promote", "disable", "enable", "paths", "delete",
                      "files", "upload", "check"}, on : 0 .. MaxAccounts]
UsersTypes == users \in [AccountIds -> UserRow] /\ request \in [Requests -> UserRequest]

\* Files are removed of accounts that are gone, and that never come back.
Removing(u) == \E r \in Requests : request[r] = [at |-> "files", on |-> u]
RemovalInv == \A r \in Requests, u \in AccountIds : request[r].at = "files" /\ request[r].on = u => ~Exists(u) /\ users[u].role # "none"

Whole ==
  \A u \in AccountIds :
    IF Exists(u) THEN u \in saves => u \in stored
    ELSE /\ u \notin tied \cup devices \cup saves
         /\ u \in stored => u \in cut \/ \E r \in Requests : request[r] = [at |-> "files", on |-> u]

UsersInv == UsersTypes /\ RemovalInv /\ Whole

\* What a check reads, and what it leaves, is of an account that was made.
FindingsInv ==
  /\ \A u \in AccountIds : u \in flagged => users[u].role # "none"
  /\ \A r \in Requests, u \in AccountIds : request[r] = [at |-> "check", on |-> u] => users[u].role # "none"

LEMMA UsersBegin == UsersInit => UsersInv
  BY UsersBounds DEF UsersInit, UsersInv, UsersTypes, UserRow, UserRequest, RemovalInv, Whole, NoUser, Idle, Exists

\* One request moves, and to no removal of files: the others go on.
LEMMA RequestMoves ==
  ASSUME UsersInv, NEW r \in Requests, NEW q \in UserRequest, q.at # "files",
         request' = [request EXCEPT ![r] = q]
  PROVE  /\ request' \in [Requests -> UserRequest]
         /\ \A s \in Requests : request'[s].at = "files" => request'[s] = request[s]
         /\ request[r].at # "files" => \A u \in AccountIds : Removing(u) => Removing(u)'
  <1>1. request \in [Requests -> UserRequest]
    BY DEF UsersInv, UsersTypes
  <1>2. \A s \in Requests : request'[s] = IF s = r THEN q ELSE request[s]
    BY <1>1
  <1>3. ASSUME request[r].at # "files", NEW u \in AccountIds, Removing(u) PROVE Removing(u)'
    <2>1. PICK s \in Requests : request[s] = [at |-> "files", on |-> u]
      BY <1>3 DEF Removing
    <2>2. s # r
      BY <1>3, <2>1
    <2> QED
      BY <1>2, <2>1, <2>2 DEF Removing
  <1> QED
    BY <1>1, <1>2, <1>3

\* Requests that only move on.
LEMMA AskingKeeps ==
  ASSUME UsersInv, NEW r \in Requests,
         \/ SetupBegins(r) \/ SetupFails(r)
         \/ \E by, u \in AccountIds : AdminAsks(r, by, u)
         \/ ReadsPaths(r)
         \/ \E u \in AccountIds : UploadBegins(r, u) \/ ScanBegins(r, u)
         \/ FlagsAccount(r)
  PROVE  UsersInv'
  <1>1. UNCHANGED <<users, tied, devices, saves, stored, cut>>
    BY DEF SetupBegins, SetupFails, AdminAsks, ReadsPaths, UploadBegins, ScanBegins, FlagsAccount
  <1>2. request[r].at # "files" /\ \E q \in UserRequest : q.at # "files" /\ request' = [request EXCEPT ![r] = q]
    <2>0. request[r] \in UserRequest /\ 0 \in 0 .. MaxAccounts /\ \A u \in AccountIds : u \in 0 .. MaxAccounts
      BY UsersBounds DEF UsersInv, UsersTypes, AccountIds
    <2>1. CASE SetupBegins(r)
      BY <2>0, <2>1 DEF SetupBegins, To, UserRequest
    <2>2. CASE SetupFails(r)
      BY <2>0, <2>2 DEF SetupFails, Ends, Idle, UserRequest
    <2>3. ASSUME NEW by \in AccountIds, NEW u \in AccountIds, AdminAsks(r, by, u)
          PROVE  request[r].at # "files" /\ \E q \in UserRequest : q.at # "files" /\ request' = [request EXCEPT ![r] = q]
      BY <2>0, <2>3 DEF AdminAsks, To, UserRequest
    <2>4. CASE ReadsPaths(r)
      BY <2>0, <2>4 DEF ReadsPaths, To, UserRequest
    <2>5. ASSUME NEW u \in AccountIds, UploadBegins(r, u) \/ ScanBegins(r, u)
          PROVE  request[r].at # "files" /\ \E q \in UserRequest : q.at # "files" /\ request' = [request EXCEPT ![r] = q]
      BY <2>0, <2>5 DEF UploadBegins, ScanBegins, To, UserRequest
    <2>6. CASE FlagsAccount(r)
      BY <2>0, <2>6 DEF FlagsAccount, Ends, Idle, UserRequest
    <2> QED
      BY <2>1, <2>2, <2>3, <2>4, <2>5, <2>6
  <1>3. /\ request' \in [Requests -> UserRequest]
        /\ \A s \in Requests : request'[s].at = "files" => request'[s] = request[s]
        /\ \A u \in AccountIds : Removing(u) => Removing(u)'
    BY <1>2, RequestMoves
  <1> QED
    BY <1>1, <1>3 DEF UsersInv, UsersTypes, RemovalInv, Whole, Removing, Exists

\* A new account has nothing yet.
LEMMA NewAccountKeeps ==
  ASSUME UsersInv, NEW u \in AccountIds, NEW role \in {"user", "admin"}, NewAccount(u, role),
         UNCHANGED <<tied, devices, saves, stored, cut>>,
         \A s \in Requests : request'[s].at = "files" => request'[s] = request[s],
         \A v \in AccountIds : Removing(v) => Removing(v)',
         request' \in [Requests -> UserRequest]
  PROVE  UsersInv'
  <1>1. users \in [AccountIds -> UserRow] /\ users[u].role = "none"
    BY DEF UsersInv, UsersTypes, NewAccount
  <1>2. users' = [users EXCEPT ![u] = [role |-> role, disabled |-> FALSE]]
    BY DEF NewAccount
  <1>3. \A v \in AccountIds : users'[v] = IF v = u THEN [role |-> role, disabled |-> FALSE] ELSE users[v]
    BY <1>1, <1>2
  <1>4. UsersTypes'
    BY <1>1, <1>2 DEF UsersTypes, UserRow
  <1>5. RemovalInv'
    BY <1>1, <1>3 DEF UsersInv, RemovalInv, Exists
  <1>6. Whole'
    BY <1>1, <1>3 DEF UsersInv, Whole, Exists, Removing
  <1> QED
    BY <1>4, <1>5, <1>6 DEF UsersInv

LEMMA AccountsMade ==
  ASSUME UsersInv,
         Register \/ (\E by \in AccountIds : AdminCreates(by)) \/ \E r \in Requests : SetupRegisters(r)
  PROVE  UsersInv'
  <1>1. CASE Register \/ \E by \in AccountIds : AdminCreates(by)
    <2>1. PICK u \in AccountIds : NewAccount(u, "user")
      BY <1>1 DEF Register, AdminCreates
    <2>2. UNCHANGED <<tied, devices, saves, stored, request, cut>>
      BY <1>1 DEF Register, AdminCreates
    <2>3. /\ \A v \in AccountIds : Removing(v) => Removing(v)'
          /\ request' \in [Requests -> UserRequest]
      BY <2>2 DEF Removing, UsersInv, UsersTypes
    <2> QED
      BY <2>1, <2>2, <2>3, NewAccountKeeps
  <1>2. ASSUME NEW r \in Requests, SetupRegisters(r) PROVE UsersInv'
    <2>1. PICK u \in AccountIds : NewAccount(u, "user") /\ To(r, "promote", u)
      BY <1>2 DEF SetupRegisters
    <2>2. UNCHANGED <<tied, devices, saves, stored, cut>> /\ request[r].at = "register"
      BY <1>2 DEF SetupRegisters
    <2>3. u \in 0 .. MaxAccounts
      BY UsersBounds DEF AccountIds
    <2> DEFINE q == [at |-> "promote", on |-> u]
    <2>4. q \in UserRequest /\ q.at # "files" /\ request' = [request EXCEPT ![r] = q]
      BY <2>1, <2>3 DEF To, UserRequest
    <2> HIDE DEF q
    <2>5. /\ request' \in [Requests -> UserRequest]
          /\ \A s \in Requests : request'[s].at = "files" => request'[s] = request[s]
          /\ \A v \in AccountIds : Removing(v) => Removing(v)'
      BY <2>2, <2>4, RequestMoves
    <2> QED
      BY <2>1, <2>2, <2>5, NewAccountKeeps
  <1> QED
    BY <1>1, <1>2

\* A request that ends after it did what it was for to an account that is
\* there, or nothing to one that is not.
LEMMA EndsKeeps ==
  ASSUME UsersInv, NEW r \in Requests,
         SetupPromotes(r) \/ Disables(r) \/ UploadCommits(r) \/ UploadFails(r)
  PROVE  UsersInv'
  <1> DEFINE v == request[r].on
  <1>0. request[r].at # "files" /\ request' = [request EXCEPT ![r] = Idle]
    BY DEF SetupPromotes, Disables, UploadCommits, UploadFails, Ends
  <1>1. Idle \in UserRequest /\ Idle.at # "files"
    BY UsersBounds DEF Idle, UserRequest
  <1>2. /\ request' \in [Requests -> UserRequest]
        /\ \A s \in Requests : request'[s].at = "files" => request'[s] = request[s]
        /\ \A u \in AccountIds : Removing(u) => Removing(u)'
    BY <1>0, <1>1, RequestMoves
  <1>3. users \in [AccountIds -> UserRow]
    BY DEF UsersInv, UsersTypes
  <1>4. CASE SetupPromotes(r)
    <2>1. users' = [users EXCEPT ![v].role = IF Exists(v) THEN "admin" ELSE @]
      BY <1>4 DEF SetupPromotes
    <2>2. tied' = (IF Exists(v) THEN tied \cup {v} ELSE tied) /\ UNCHANGED <<devices, saves, stored, cut>>
      BY <1>4 DEF SetupPromotes
    <2>3. users' \in [AccountIds -> UserRow] /\ \A u \in AccountIds : (Exists(u)' <=> Exists(u)) /\ (users'[u].role = "none" <=> users[u].role = "none")
      BY <1>3, <2>1 DEF UserRow, Exists
    <2> HIDE DEF v
    <2> QED
      BY <1>2, <2>2, <2>3 DEF UsersInv, UsersTypes, RemovalInv, Whole, Removing
  <1>5. CASE Disables(r)
    <2> DEFINE toggled == IF Exists(v) THEN [users[v] EXCEPT !.disabled = request[r].at = "disable"] ELSE users[v]
    <2>1. users' = [users EXCEPT ![v] = toggled]
      BY <1>5 DEF Disables
    <2>2. UNCHANGED <<tied, devices, saves, stored, cut>>
      BY <1>5 DEF Disables
    <2>3. users' \in [AccountIds -> UserRow] /\ \A u \in AccountIds : users'[u].role = users[u].role
      <3>1. (request[r].at = "disable") \in BOOLEAN
        OBVIOUS
      <3> HIDE DEF v
      <3>2. v \in AccountIds => toggled \in UserRow /\ toggled.role = users[v].role
        BY <1>3, <3>1 DEF UserRow
      <3> HIDE DEF toggled
      <3> QED
        BY <1>3, <2>1, <3>2
    <2> QED
      BY <1>2, <2>2, <2>3 DEF UsersInv, UsersTypes, RemovalInv, Whole, Removing, Exists
  <1>6. CASE UploadCommits(r) \/ UploadFails(r)
    <2>1. UNCHANGED <<users, tied, devices, cut>>
      BY <1>6 DEF UploadCommits, UploadFails
    <2>2. \/ Exists(v) /\ saves' \in {saves, saves \cup {v}} /\ stored' = stored \cup {v}
          \/ UNCHANGED <<saves, stored>>
      BY <1>6 DEF UploadCommits, UploadFails
    <2> HIDE DEF v
    <2> QED
      BY <1>2, <2>1, <2>2 DEF UsersInv, UsersTypes, RemovalInv, Whole, Removing, Exists
  <1> QED
    BY <1>4, <1>5, <1>6

\* The deletion: rows, then files.
LEMMA DeletionKeeps ==
  ASSUME UsersInv, NEW r \in Requests, DeletesRows(r) \/ RemovesFiles(r) \/ DeletionFails(r)
  PROVE  UsersInv'
  <1> DEFINE v == request[r].on
  <1>1. request \in [Requests -> UserRequest] /\ users \in [AccountIds -> UserRow] /\ Idle \in UserRequest /\ Idle.at # "files"
    BY UsersBounds DEF UsersInv, UsersTypes, Idle, UserRequest
  <1>2. CASE DeletesRows(r) /\ v \in tied
    <2>1. UNCHANGED <<users, tied, devices, saves, stored, cut>> /\ request' = [request EXCEPT ![r] = Idle] /\ request[r].at # "files"
      BY <1>2 DEF DeletesRows, Ends
    <2>2. /\ request' \in [Requests -> UserRequest]
          /\ \A s \in Requests : request'[s].at = "files" => request'[s] = request[s]
          /\ \A u \in AccountIds : Removing(u) => Removing(u)'
      BY <1>1, <2>1, RequestMoves
    <2> QED
      BY <2>1, <2>2 DEF UsersInv, UsersTypes, RemovalInv, Whole, Removing, Exists
  <1>3. CASE DeletesRows(r) /\ v \notin tied
    <2>1. /\ users' = [users EXCEPT ![v] = NoUser("gone")]
          /\ saves' = saves \ {v} /\ devices' = devices \ {v}
          /\ request' = [request EXCEPT ![r] = [at |-> "files", on |-> v]]
          /\ UNCHANGED <<tied, stored, cut>> /\ request[r].at # "files"
      BY <1>3 DEF DeletesRows, To
    <2>2. v \in 0 .. MaxAccounts
      BY <1>1 DEF UserRequest
    <2>3. /\ users' \in [AccountIds -> UserRow]
          /\ \A u \in AccountIds : users'[u] = IF u = v THEN NoUser("gone") ELSE users[u]
      BY <1>1, <2>1 DEF UserRow, NoUser
    <2>4. /\ request' \in [Requests -> UserRequest]
          /\ \A s \in Requests : request'[s] = IF s = r THEN [at |-> "files", on |-> v] ELSE request[s]
      <3> HIDE DEF v
      <3> QED
        BY <1>1, <2>1, <2>2 DEF UserRequest
    <2> HIDE DEF v
    <2>5. \A u \in AccountIds : (Removing(u) \/ u = v) => Removing(u)'
      <3>1. ASSUME NEW u \in AccountIds, Removing(u) PROVE Removing(u)'
        <4>1. PICK s \in Requests : request[s] = [at |-> "files", on |-> u]
          BY <3>1 DEF Removing
        <4>2. s # r
          BY <2>1, <4>1
        <4> QED
          BY <2>4, <4>1, <4>2 DEF Removing
      <3>2. \A u \in AccountIds : u = v => Removing(u)'
        BY <2>4 DEF Removing
      <3> QED
        BY <3>1, <3>2
    <2>6. RemovalInv'
      BY <2>3, <2>4 DEF UsersInv, RemovalInv, Exists, NoUser
    <2>7. Whole'
      BY <1>3, <2>1, <2>3, <2>5 DEF UsersInv, Whole, Removing, Exists, NoUser
    <2> QED
      BY <2>3, <2>4, <2>6, <2>7 DEF UsersInv, UsersTypes
  <1>4. CASE RemovesFiles(r) \/ DeletionFails(r)
    <2>1. /\ UNCHANGED <<users, tied, devices, saves>>
          /\ request' = [request EXCEPT ![r] = Idle]
      BY <1>4 DEF RemovesFiles, DeletionFails, Ends
    <2>2. /\ cut \subseteq cut' /\ stored' \subseteq stored
          /\ request[r].at = "files" => v \notin stored' \/ v \in cut'
          /\ \A u \in stored : u \in stored' \/ u = v
          /\ stored' # stored => request[r].at = "files"
      BY <1>4 DEF RemovesFiles, DeletionFails
    <2>3. /\ request' \in [Requests -> UserRequest]
          /\ \A s \in Requests : request'[s] = IF s = r THEN Idle ELSE request[s]
      BY <1>1, <2>1
    <2>4. \A u \in AccountIds : u \in stored' /\ Removing(u) => Removing(u)' \/ u \in cut'
      <3> SUFFICES ASSUME NEW u \in AccountIds, u \in stored', Removing(u) PROVE Removing(u)' \/ u \in cut'
        OBVIOUS
      <3>1. PICK s \in Requests : request[s] = [at |-> "files", on |-> u]
        BY DEF Removing
      <3>2. CASE s = r
        BY <2>2, <3>1, <3>2
      <3>3. CASE s # r
        BY <2>3, <3>1, <3>3 DEF Removing
      <3> QED
        BY <3>2, <3>3
    <2>5. RemovalInv'
      BY <1>1, <2>1, <2>3 DEF UsersInv, RemovalInv, Exists
    <2>6. \A u \in AccountIds : Exists(u) /\ u \in stored => u \in stored'
      BY <2>2 DEF UsersInv, RemovalInv
    <2> HIDE DEF v
    <2>7. Whole'
      BY <2>1, <2>2, <2>4, <2>6 DEF UsersInv, Whole, Removing, Exists
    <2> QED
      BY <1>1, <2>1, <2>3, <2>5, <2>7 DEF UsersInv, UsersTypes
  <1> QED
    BY <1>2, <1>3, <1>4

\* Rows that come to an account that is there, or go.
LEMMA RowsComeAndGo ==
  ASSUME UsersInv,
         \/ WizardEnds
         \/ \E u \in AccountIds : \/ OwnerLeavesRows(u) \/ LastRowGoes(u) \/ DeviceSignsIn(u)
                                  \/ \E v \in AccountIds : RevokesClient(u, v)
  PROVE  UsersInv'
  <1>1. UNCHANGED <<users, saves, stored, request, cut>>
    BY DEF WizardEnds, OwnerLeavesRows, LastRowGoes, DeviceSignsIn, RevokesClient
  <1>2. \A u \in AccountIds : u \in tied' \cup devices' => u \in tied \cup devices \/ Exists(u)
    BY DEF WizardEnds, OwnerLeavesRows, LastRowGoes, DeviceSignsIn, RevokesClient
  <1> QED
    BY <1>1, <1>2 DEF UsersInv, UsersTypes, RemovalInv, Whole, Removing, Exists

LEMMA RestartUsersKeeps == UsersInv /\ RestartUsers => UsersInv'
  <1> SUFFICES ASSUME UsersInv, RestartUsers PROVE UsersInv'
    OBVIOUS
  <1>1. /\ UNCHANGED <<users, tied, devices, saves, stored>>
        /\ request' = [r \in Requests |-> Idle]
        /\ cut' = cut \cup {request[r].on : r \in {q \in Requests : request[q].at = "files"}}
    BY DEF RestartUsers
  <1>2. \A u \in AccountIds : Removing(u) => u \in cut'
    BY <1>1 DEF Removing
  <1>3. UsersTypes' /\ RemovalInv'
    BY <1>1, UsersBounds DEF UsersInv, UsersTypes, RemovalInv, Idle, UserRequest
  <1>4. Whole'
    BY <1>1, <1>2 DEF UsersInv, Whole, Removing, Exists
  <1> QED
    BY <1>3, <1>4 DEF UsersInv

LEMMA UsersNextKeeps == UsersInv /\ [UsersNext]_usersVars => UsersInv'
  <1> SUFFICES ASSUME UsersInv, [UsersNext]_usersVars PROVE UsersInv'
    OBVIOUS
  <1>1. ASSUME NEW r \in Requests,
               \/ SetupBegins(r) \/ SetupFails(r)
               \/ \E by, u \in AccountIds : AdminAsks(r, by, u)
               \/ ReadsPaths(r)
               \/ \E u \in AccountIds : UploadBegins(r, u) \/ ScanBegins(r, u)
               \/ FlagsAccount(r)
        PROVE  UsersInv'
    BY <1>1, AskingKeeps
  <1>2. CASE Register \/ (\E by \in AccountIds : AdminCreates(by)) \/ \E r \in Requests : SetupRegisters(r)
    BY <1>2, AccountsMade
  <1>3. ASSUME NEW r \in Requests, SetupPromotes(r) \/ Disables(r) \/ UploadCommits(r) \/ UploadFails(r)
        PROVE  UsersInv'
    BY <1>3, EndsKeeps
  <1>4. ASSUME NEW r \in Requests, DeletesRows(r) \/ RemovesFiles(r) \/ DeletionFails(r)
        PROVE  UsersInv'
    BY <1>4, DeletionKeeps
  <1>5. CASE \/ WizardEnds
             \/ \E u \in AccountIds : \/ OwnerLeavesRows(u) \/ LastRowGoes(u) \/ DeviceSignsIn(u)
                                      \/ \E v \in AccountIds : RevokesClient(u, v)
    BY <1>5, RowsComeAndGo
  <1>6. CASE RestartUsers
    BY <1>6, RestartUsersKeeps
  <1>7. CASE UNCHANGED usersVars
    BY <1>7 DEF usersVars, UsersInv, UsersTypes, RemovalInv, Whole, Exists
  <1> QED
    BY <1>1, <1>2, <1>3, <1>4, <1>5, <1>6, <1>7 DEF UsersNext

\* No account becomes one that was never made; a check begins with the saves of
\* one that is there, and a check is what records.
LEMMA FindingsKeep ==
  ASSUME UsersInv, FindingsInv, [UsersNext]_usersVars
  PROVE  FindingsInv'
  <1>0. users \in [AccountIds -> UserRow] /\ request \in [Requests -> UserRequest]
    BY DEF UsersInv, UsersTypes
  <1>1. \A u \in AccountIds : users'[u].role = "none" => users[u].role = "none"
    <2>1. CASE UNCHANGED users
      BY <2>1
    <2>2. ASSUME NEW u \in AccountIds, NEW role, NewAccount(u, role)
          PROVE  \A v \in AccountIds : users'[v].role = "none" => users[v].role = "none"
      BY <1>0, <2>2 DEF NewAccount
    <2>3. ASSUME NEW r \in Requests, DeletesRows(r)
          PROVE  \A v \in AccountIds : users'[v].role = "none" => users[v].role = "none"
      BY <1>0, <2>3 DEF DeletesRows, NoUser
    <2>4. ASSUME NEW r \in Requests, SetupPromotes(r)
          PROVE  \A v \in AccountIds : users'[v].role = "none" => users[v].role = "none"
      BY <1>0, <2>4 DEF SetupPromotes, UserRow
    <2>5. ASSUME NEW r \in Requests, Disables(r)
          PROVE  \A v \in AccountIds : users'[v].role = "none" => users[v].role = "none"
      BY <1>0, <2>5 DEF Disables, UserRow
    <2> QED
      BY <2>1, <2>2, <2>3, <2>4, <2>5
      DEF UsersNext, SetupBegins, SetupRegisters, SetupFails, AdminAsks, ReadsPaths, RemovesFiles, UploadBegins,
          ScanBegins, FlagsAccount, UploadCommits, UploadFails, DeletionFails, Register, WizardEnds, AdminCreates,
          OwnerLeavesRows, LastRowGoes, DeviceSignsIn, RevokesClient, RestartUsers, usersVars
  <1>2. \A r \in Requests : request'[r].at = "check" =>
          request'[r] = request[r] \/ \E u \in AccountIds : u \in saves /\ request'[r] = [at |-> "check", on |-> u]
    <2>1. ASSUME NEW r \in Requests, NEW q, request' = [request EXCEPT ![r] = q], q.at # "check"
          PROVE  \A s \in Requests : request'[s].at = "check" => request'[s] = request[s]
      BY <1>0, <2>1
    <2>2. ASSUME NEW r \in Requests, NEW u, NEW step, To(r, step, u), step # "check"
          PROVE  \A s \in Requests : request'[s].at = "check" => request'[s] = request[s]
      <3> DEFINE q == [at |-> step, on |-> u]
      <3>1. q.at # "check" /\ request' = [request EXCEPT ![r] = q]
        BY <2>2 DEF To
      <3> HIDE DEF q
      <3> QED
        BY <2>1, <3>1
    <2>3. ASSUME NEW r \in Requests, Ends(r)
          PROVE  \A s \in Requests : request'[s].at = "check" => request'[s] = request[s]
      BY <2>1, <2>3 DEF Ends, Idle
    <2>4. ASSUME NEW r \in Requests, NEW u \in AccountIds, ScanBegins(r, u)
          PROVE  \A s \in Requests : request'[s].at = "check" =>
                   request'[s] = request[s] \/ \E v \in AccountIds : v \in saves /\ request'[s] = [at |-> "check", on |-> v]
      BY <1>0, <2>4 DEF ScanBegins, To
    <2>5. CASE RestartUsers
      BY <2>5 DEF RestartUsers, Idle
    <2>6. CASE UNCHANGED request
      BY <2>6
    <2>7. ASSUME NEW r \in Requests, NEW u \in AccountIds, AdminAsks(r, u, u) \/ \E by \in AccountIds : AdminAsks(r, by, u)
          PROVE  \A s \in Requests : request'[s].at = "check" => request'[s] = request[s]
      BY <2>2, <2>7 DEF AdminAsks
    <2> QED
      BY <2>2, <2>3, <2>4, <2>5, <2>6, <2>7
      DEF UsersNext, SetupBegins, SetupRegisters, SetupPromotes, SetupFails, Disables, ReadsPaths, DeletesRows,
          RemovesFiles, UploadBegins, FlagsAccount, UploadCommits, UploadFails, DeletionFails, Register, WizardEnds,
          AdminCreates, OwnerLeavesRows, LastRowGoes, DeviceSignsIn, RevokesClient, usersVars
  <1>3. \A u \in AccountIds : u \in flagged' =>
          u \in flagged \/ \E r \in Requests : request[r] = [at |-> "check", on |-> u]
    <2>1. ASSUME NEW r \in Requests, FlagsAccount(r), NEW u \in AccountIds, u \in flagged', u \notin flagged
          PROVE  request[r] = [at |-> "check", on |-> u]
      BY <1>0, <2>1 DEF FlagsAccount, UserRequest
    <2>2. CASE UNCHANGED flagged
      BY <2>2
    <2> QED
      BY <2>1, <2>2
      DEF UsersNext, SetupBegins, SetupRegisters, SetupPromotes, SetupFails, AdminAsks, Disables, ReadsPaths, DeletesRows,
          RemovesFiles, UploadBegins, ScanBegins, UploadCommits, UploadFails, DeletionFails, Register, WizardEnds,
          AdminCreates, OwnerLeavesRows, LastRowGoes, DeviceSignsIn, RevokesClient, RestartUsers, usersVars
  <1>4. \A u \in AccountIds : u \in saves => users[u].role # "none"
    BY DEF UsersInv, Whole, Exists
  <1>5. ASSUME NEW r \in Requests, NEW u \in AccountIds, request'[r] = [at |-> "check", on |-> u]
        PROVE  users[u].role # "none"
    <2>1. request'[r].at = "check" /\ \A v : request'[r] = [at |-> "check", on |-> v] => v = u
      BY <1>5
    <2> QED
      BY <1>2, <1>4, <1>5, <2>1 DEF FindingsInv
  <1> QED
    BY <1>1, <1>3, <1>5 DEF FindingsInv

\* A deletion takes an account with all it has, or leaves it whole
\* (store/sqlite.go), for any number of accounts, requests and mishaps; the
\* findings of the integrity check stay, and are of accounts that were there.
THEOREM DeletionIsWholeHolds == UsersSpec => []DeletionIsWhole
  <1>1. UsersInv /\ FindingsInv => DeletionIsWhole
    BY DEF UsersInv, UsersTypes, UserRow, Whole, FindingsInv, DeletionIsWhole, Exists
  <1>2. UsersInit => FindingsInv
    BY DEF UsersInit, FindingsInv, Idle
  <1> QED
    BY <1>1, <1>2, UsersBegin, UsersNextKeeps, FindingsKeep, PTL DEF UsersSpec

---------------------------------------------------------------------------
(* Sessions and accounts: what was spent stays spent.                       *)

SignInState == [at : {"away", "comparing", "again", "second", "accepted"}, typed : Nat,
                proved : BOOLEAN, early : BOOLEAN]
Change == [at : {"none", "tokens", "sessions"}, by : SignIns \cup {0}]
Factor == [at : {"none", "secret", "flag", "tokens", "codes"}, secret : Nat]
AccountsTypes ==
  /\ tick \in Nat /\ password \in Nat /\ enabled \in BOOLEAN /\ careless \in BOOLEAN
  /\ codes \subseteq RecoveryCodes /\ made \in [secrets : Nat, codes : Nat]
  /\ seen \in [AuthCodes -> Nat] /\ uses \in [AuthCodes \cup RecoveryCodes -> Nat]
  /\ signIn \in [SignIns -> SignInState] /\ live \in [SignIns -> Nat]
  /\ change \in Change /\ factor \in Factor

\* A code of the authenticator that was used is known as used until it is no
\* longer valid; a recovery code that is there, or yet to be made, is unused.
CodesInv ==
  /\ \A c \in AuthCodes : uses[c] <= 1 /\ (uses[c] = 0 \/ seen[c] >= c[2] + 2)
  /\ \A c \in RecoveryCodes : uses[c] <= 1 /\ (c \in codes \/ c[2] > made.codes => uses[c] = 0)
  /\ \A c \in codes : ~(c[2] > made.codes)

\* Those that the change under way has dealt with, or will leave alone.
Settled(a) == change.at = "none" \/ a = change.by \/ (change.at = "sessions" /\ a \in Devices)

\* Who is settled has shown the password of now, whether signed in or about to
\* be; while the second factor is on and the tokens from before are revoked, a
\* device that is past the second step has taken it.
Good(a) ==
  /\ live[a] # 0 => signIn[a].at = "away"
  /\ ~careless /\ ~signIn[a].early /\ Settled(a) =>
       /\ live[a] # 0 => live[a] = password
       /\ signIn[a].at # "away" => signIn[a].typed = password
  /\ ~careless /\ ~signIn[a].early /\ enabled /\ factor.at # "tokens" /\ a \in Devices =>
       (live[a] # 0 \/ signIn[a].at \in {"again", "accepted"} => signIn[a].proved)

AccountsInv == AccountsTypes /\ CodesInv /\ \A a \in SignIns : Good(a)

LEMMA CodesApart == AuthCodes \cap RecoveryCodes = {}
  BY DEF AuthCodes, RecoveryCodes

LEMMA CodeStep == \A c \in AuthCodes : c[2] \in Nat
  BY AccountBounds DEF AuthCodes

LEMMA AccountsBegin == AccountsInit => AccountsInv
  <1> SUFFICES ASSUME AccountsInit PROVE AccountsInv
    OBVIOUS
  <1>1. AccountsTypes
    BY DEF AccountsInit, AccountsTypes, SignInState, Away, NoChange, NoFactor, Change, Factor
  <1>2. CodesInv
    BY DEF AccountsInit, CodesInv
  <1>3. \A a \in SignIns : Good(a)
    BY DEF AccountsInit, Good, Away
  <1> QED
    BY <1>1, <1>2, <1>3 DEF AccountsInv

\* A step of one sign-in leaves the others as good as they were.
LEMMA SignInMoves ==
  ASSUME AccountsInv, NEW a \in SignIns, NEW x \in Nat, NEW y \in SignInState,
         live' = [live EXCEPT ![a] = x], signIn' = [signIn EXCEPT ![a] = y],
         UNCHANGED <<password, enabled, change, factor, careless>>
  PROVE  /\ signIn' \in [SignIns -> SignInState] /\ live' \in [SignIns -> Nat]
         /\ live'[a] = x /\ signIn'[a] = y
         /\ \A b \in SignIns \ {a} : Good(b)'
  <1>1. signIn \in [SignIns -> SignInState] /\ live \in [SignIns -> Nat]
    BY DEF AccountsInv, AccountsTypes
  <1>2. \A b \in SignIns \ {a} : live'[b] = live[b] /\ signIn'[b] = signIn[b]
    BY <1>1
  <1>3. \A b \in SignIns \ {a} : Good(b)'
    BY <1>2 DEF AccountsInv, Good, Settled
  <1> QED
    BY <1>1, <1>3

\* The codes, by what happens to them.
CodesStay == UNCHANGED <<uses, seen, codes, made>>

LEMMA CodeIsUsed ==
  ASSUME AccountsTypes, CodesInv, NEW c \in AuthCodes, NEW key,
         Valid(c, key), Fresh(c), seen' = Remember(c), uses' = [uses EXCEPT ![c] = @ + 1],
         codes' = codes, made'.codes = made.codes
  PROVE  /\ CodesInv' /\ seen' \in [AuthCodes -> Nat] /\ uses' \in [AuthCodes \cup RecoveryCodes -> Nat]
  <1>1. /\ tick \in Nat /\ seen \in [AuthCodes -> Nat] /\ uses \in [AuthCodes \cup RecoveryCodes -> Nat]
        /\ c[2] \in Nat /\ c[2] <= tick + 1 /\ tick <= c[2] + 1
    BY CodeStep DEF AccountsTypes, Valid
  <1>2. uses[c] = 0
    BY <1>1 DEF Fresh, CodesInv
  <1>3. seen' = [seen EXCEPT ![c] = tick + 3]
    BY DEF Remember
  <1>4. seen' \in [AuthCodes -> Nat] /\ uses' \in [AuthCodes \cup RecoveryCodes -> Nat]
    BY <1>1, <1>3
  <1>5. uses'[c] = 1 /\ seen'[c] >= c[2] + 2
    BY <1>1, <1>2, <1>3
  <1>6. \A d \in AuthCodes \ {c} : uses'[d] = uses[d] /\ seen'[d] = seen[d]
    BY <1>1, <1>3
  <1>7. \A d \in RecoveryCodes : uses'[d] = uses[d]
    BY <1>1, CodesApart
  <1>8. \A d \in AuthCodes : uses'[d] <= 1 /\ (uses'[d] = 0 \/ seen'[d] >= d[2] + 2)
    BY <1>5, <1>6 DEF CodesInv
  <1>9. \A d \in RecoveryCodes : uses'[d] <= 1 /\ (d \in codes' \/ d[2] > made'.codes => uses'[d] = 0)
    BY <1>7 DEF CodesInv
  <1>10. \A d \in codes' : ~(d[2] > made'.codes)
    BY DEF CodesInv
  <1> QED
    BY <1>4, <1>8, <1>9, <1>10 DEF CodesInv

LEMMA CodesAreMade ==
  ASSUME AccountsTypes, CodesInv, made.codes < MaxCodes, NewCodes, UNCHANGED <<seen, uses>>
  PROVE  CodesInv' /\ codes' \subseteq RecoveryCodes /\ made' \in [secrets : Nat, codes : Nat]
  <1>1. made \in [secrets : Nat, codes : Nat] /\ codes \subseteq RecoveryCodes
    BY DEF AccountsTypes
  <1>2. codes' = {<<0, made.codes + 1>>} /\ made' = [made EXCEPT !.codes = @ + 1]
    BY DEF NewCodes
  <1>3. made' \in [secrets : Nat, codes : Nat] /\ made'.codes = made.codes + 1
    BY <1>1, <1>2
  <1>4. codes' \subseteq RecoveryCodes
    BY <1>1, <1>2, AccountBounds DEF RecoveryCodes
  <1>5. \A c \in RecoveryCodes : c[2] \in Nat /\ (c \in codes' \/ c[2] > made'.codes => c[2] > made.codes)
    BY <1>1, <1>2, <1>3, AccountBounds DEF RecoveryCodes
  <1>6. \A c \in codes' : ~(c[2] > made'.codes)
    BY <1>1, <1>2, <1>3
  <1> QED
    BY <1>3, <1>4, <1>5, <1>6 DEF CodesInv

\* A sign-in takes a step, gives up or is signed out, without a code.
LEMMA SigningInKeeps ==
  ASSUME AccountsInv, NEW a \in SignIns,
         TypePassword(a) \/ RightPassword(a) \/ ComparedAgain(a) \/ SignedIn(a) \/ GiveUp(a) \/ SignOut(a)
  PROVE  AccountsInv'
  <1>1. /\ signIn \in [SignIns -> SignInState] /\ live \in [SignIns -> Nat] /\ password \in Nat
        /\ Good(a) /\ enabled \in BOOLEAN
    BY DEF AccountsInv, AccountsTypes
  <1>2. UNCHANGED <<tick, password, enabled, change, factor, careless, codes, made, seen, uses>>
    BY DEF TypePassword, RightPassword, ComparedAgain, SignedIn, GiveUp, SignOut
  <1>3. Away \in SignInState /\ signIn[a] \in SignInState
    BY <1>1 DEF Away, SignInState
  <1>4. \E x \in Nat, y \in SignInState :
          /\ live' = [live EXCEPT ![a] = x] /\ signIn' = [signIn EXCEPT ![a] = y]
    <2>1. CASE TypePassword(a)
      <3>1. live' = [live EXCEPT ![a] = live[a]]
        BY <1>1, <2>1 DEF TypePassword
      <3>2. [Away EXCEPT !.at = "comparing", !.typed = password] \in SignInState
        BY <1>1 DEF Away, SignInState
      <3> QED
        BY <1>1, <2>1, <3>1, <3>2 DEF TypePassword
    <2>2. CASE RightPassword(a) \/ ComparedAgain(a) \/ GiveUp(a)
      <3>1. live' = [live EXCEPT ![a] = live[a]]
        BY <1>1, <2>2 DEF RightPassword, ComparedAgain, GiveUp
      <3>2. \E y \in SignInState : signIn' = [signIn EXCEPT ![a] = y]
        <4>1. CASE RightPassword(a)
          <5>1. PICK at \in {"second", "again", "accepted"} : signIn' = [signIn EXCEPT ![a].at = at]
            BY <4>1 DEF RightPassword
          <5>2. [signIn[a] EXCEPT !.at = at] \in SignInState
            BY <1>3 DEF SignInState
          <5> QED
            BY <5>1, <5>2
        <4>2. CASE ComparedAgain(a)
          <5>1. [signIn[a] EXCEPT !.at = "accepted"] \in SignInState
            BY <1>3 DEF SignInState
          <5> QED
            BY <1>3, <4>2, <5>1 DEF ComparedAgain
        <4>3. CASE GiveUp(a)
          BY <1>3, <4>3 DEF GiveUp
        <4> QED
          BY <2>2, <4>1, <4>2, <4>3
      <3> QED
        BY <1>1, <3>1, <3>2
    <2>3. CASE SignedIn(a)
      <3>1. [Away EXCEPT !.proved = signIn[a].proved, !.early = signIn[a].early] \in SignInState /\ signIn[a].typed \in Nat
        BY <1>3 DEF Away, SignInState
      <3> QED
        BY <2>3, <3>1 DEF SignedIn
    <2>4. CASE SignOut(a)
      BY <1>3, <2>4 DEF SignOut
    <2> QED
      BY <2>1, <2>2, <2>3, <2>4
  <1>5. /\ signIn' \in [SignIns -> SignInState] /\ live' \in [SignIns -> Nat]
        /\ \A b \in SignIns \ {a} : Good(b)'
    BY <1>2, <1>4, SignInMoves
  <1>6. Good(a)'
    <2>1. CASE TypePassword(a)
      BY <1>1, <1>2, <2>1 DEF TypePassword, Good, Settled, Away
    <2>2. CASE RightPassword(a)
      BY <1>1, <1>2, <1>3, <2>2 DEF RightPassword, Good, Settled, SignInState
    <2>3. CASE ComparedAgain(a)
      BY <1>1, <1>2, <1>3, <2>3 DEF ComparedAgain, Good, Settled, SignInState, Away
    <2>4. CASE SignedIn(a)
      BY <1>1, <1>2, <1>3, <2>4 DEF SignedIn, Good, Settled, SignInState, Away
    <2>5. CASE GiveUp(a) \/ SignOut(a)
      BY <1>1, <1>2, <1>3, <2>5 DEF GiveUp, SignOut, Good, Settled, Away
    <2> QED
      BY <2>1, <2>2, <2>3, <2>4, <2>5
  <1> QED
    BY <1>2, <1>5, <1>6 DEF AccountsInv, AccountsTypes, CodesInv

\* The second step.
LEMMA SecondStepKeeps ==
  ASSUME AccountsInv, NEW a \in SignIns,
         (\E c \in AuthCodes : GiveCode(a, c)) \/ (\E c \in RecoveryCodes : GiveRecoveryCode(a, c))
  PROVE  AccountsInv'
  <1>1. /\ signIn \in [SignIns -> SignInState] /\ live \in [SignIns -> Nat]
        /\ Good(a) /\ signIn[a] \in SignInState /\ live[a] \in Nat
    BY DEF AccountsInv, AccountsTypes
  <1>2. /\ UNCHANGED <<tick, password, enabled, change, factor, careless, made, live>>
        /\ signIn[a].at = "second"
        /\ signIn' = [signIn EXCEPT ![a] = [signIn[a] EXCEPT !.at = "accepted", !.proved = TRUE]]
    BY DEF GiveCode, GiveRecoveryCode
  <1> DEFINE y == [signIn[a] EXCEPT !.at = "accepted", !.proved = TRUE]
  <1>3. y \in SignInState /\ y.typed = signIn[a].typed /\ y.early = signIn[a].early /\ y.proved /\ y.at = "accepted"
    BY <1>1 DEF SignInState
  <1>4. live' = [live EXCEPT ![a] = live[a]] /\ signIn' = [signIn EXCEPT ![a] = y]
    BY <1>1, <1>2
  <1> HIDE DEF y
  <1>5. /\ signIn' \in [SignIns -> SignInState] /\ live' \in [SignIns -> Nat]
        /\ live'[a] = live[a] /\ signIn'[a] = y
        /\ \A b \in SignIns \ {a} : Good(b)'
    BY <1>1, <1>2, <1>3, <1>4, SignInMoves
  <1>6. Good(a)'
    BY <1>1, <1>2, <1>3, <1>5 DEF Good, Settled
  <1>7. CodesInv' /\ seen' \in [AuthCodes -> Nat] /\ uses' \in [AuthCodes \cup RecoveryCodes -> Nat] /\ codes' \subseteq RecoveryCodes
    <2>1. ASSUME NEW c \in AuthCodes, GiveCode(a, c)
          PROVE  CodesInv' /\ seen' \in [AuthCodes -> Nat] /\ uses' \in [AuthCodes \cup RecoveryCodes -> Nat] /\ codes' \subseteq RecoveryCodes
      <3>1. /\ Valid(c, secret) /\ Fresh(c) /\ seen' = Remember(c) /\ uses' = [uses EXCEPT ![c] = @ + 1]
            /\ codes' = codes /\ made' = made
        BY <2>1 DEF GiveCode
      <3> QED
        BY <3>1, CodeIsUsed DEF AccountsInv, AccountsTypes
    <2>2. ASSUME NEW c \in RecoveryCodes, GiveRecoveryCode(a, c)
          PROVE  CodesInv' /\ seen' \in [AuthCodes -> Nat] /\ uses' \in [AuthCodes \cup RecoveryCodes -> Nat] /\ codes' \subseteq RecoveryCodes
      <3>1. c \in codes /\ codes' = codes \ {c} /\ uses' = [uses EXCEPT ![c] = @ + 1] /\ seen' = seen
        BY <2>2 DEF GiveRecoveryCode, Consume
      <3>2. uses \in [AuthCodes \cup RecoveryCodes -> Nat] /\ CodesInv /\ made' = made
        BY <1>2 DEF AccountsInv, AccountsTypes
      <3>3. uses[c] = 0
        BY <3>1, <3>2 DEF CodesInv
      <3>4. uses'[c] = 1 /\ \A d \in (AuthCodes \cup RecoveryCodes) \ {c} : uses'[d] = uses[d]
        BY <3>1, <3>2, <3>3
      <3>5. uses' \in [AuthCodes \cup RecoveryCodes -> Nat]
        BY <3>1, <3>2
      <3>6. \A d \in AuthCodes : uses'[d] <= 1 /\ (uses'[d] = 0 \/ seen'[d] >= d[2] + 2)
        BY <3>1, <3>2, <3>4, CodesApart DEF CodesInv
      <3>7. c \notin codes' /\ ~(c[2] > made.codes)
        BY <3>1, <3>2 DEF CodesInv
      <3>8. \A d \in RecoveryCodes : uses'[d] <= 1 /\ (d \in codes' \/ d[2] > made'.codes => uses'[d] = 0)
        BY <3>1, <3>2, <3>4, <3>7 DEF CodesInv
      <3>9. \A d \in codes' : ~(d[2] > made'.codes)
        BY <3>1, <3>2 DEF CodesInv
      <3> QED
        BY <3>1, <3>5, <3>6, <3>8, <3>9 DEF CodesInv, AccountsInv, AccountsTypes
    <2> QED
      BY <2>1, <2>2
  <1> QED
    BY <1>2, <1>5, <1>6, <1>7 DEF AccountsInv, AccountsTypes

\* Signing out a set of devices or browsers: who is not in it stays, who is has
\* nothing, and is noted if it is signing in.
LEMMA SignsOutFacts ==
  ASSUME AccountsTypes, NEW who, SignsOut(who)
  PROVE  /\ signIn' \in [SignIns -> SignInState] /\ live' \in [SignIns -> Nat]
         /\ \A a \in SignIns \ who : live'[a] = live[a] /\ signIn'[a] = signIn[a]
         /\ \A a \in SignIns \cap who : /\ live'[a] = 0
                                       /\ \/ signIn[a].at = "away" /\ signIn'[a] = signIn[a]
                                          \/ signIn'[a].early
  <1>1. signIn \in [SignIns -> SignInState] /\ live \in [SignIns -> Nat]
    BY DEF AccountsTypes
  <1>2. /\ live' = [a \in SignIns |-> IF a \in who THEN 0 ELSE live[a]]
        /\ signIn' = [a \in SignIns |-> IF a \in who /\ signIn[a].at # "away"
                                        THEN [signIn[a] EXCEPT !.early = TRUE] ELSE signIn[a]]
    BY DEF SignsOut, Underway
  <1>3. \A a \in SignIns : [signIn[a] EXCEPT !.early = TRUE] \in SignInState /\ [signIn[a] EXCEPT !.early = TRUE].early
    BY <1>1 DEF SignInState
  <1> QED
    BY <1>1, <1>2, <1>3

\* The change of the password: its own browser or device has the new one at
\* once; the others are signed out in two steps.
LEMMA ChangeKeeps ==
  ASSUME AccountsInv,
         \/ \E a \in SignIns : ChangePassword(a)
         \/ ChangeRevokesTokens \/ ChangeDropsSessions \/ ChangeStepFails
  PROVE  AccountsInv'
  <1>1. /\ AccountsTypes /\ signIn \in [SignIns -> SignInState] /\ live \in [SignIns -> Nat] /\ password \in Nat
        /\ \A a \in SignIns : Good(a)
    BY DEF AccountsInv, AccountsTypes
  <1>2. UNCHANGED <<tick, enabled, codes, made, seen, uses, factor>>
    BY DEF ChangePassword, ChangeRevokesTokens, ChangeDropsSessions, ChangeStepFails
  <1>3. /\ signIn' \in [SignIns -> SignInState] /\ live' \in [SignIns -> Nat] /\ password' \in Nat
        /\ careless' \in BOOLEAN /\ change' \in Change
        /\ \A a \in SignIns : Good(a)'
    <2>1. ASSUME NEW a \in SignIns, ChangePassword(a)
          PROVE  /\ signIn' \in [SignIns -> SignInState] /\ live' \in [SignIns -> Nat] /\ password' \in Nat
                 /\ careless' \in BOOLEAN /\ change' \in Change
                 /\ \A b \in SignIns : Good(b)'
      <3>1. /\ live[a] # 0 /\ change.at = "none"
            /\ password' = password + 1 /\ live' = [live EXCEPT ![a] = password + 1]
            /\ change' = [at |-> "tokens", by |-> a] /\ UNCHANGED <<signIn, careless>>
        BY <2>1 DEF ChangePassword
      <3>2. live' \in [SignIns -> Nat] /\ live'[a] = password + 1 /\ \A b \in SignIns \ {a} : live'[b] = live[b]
        BY <1>1, <3>1
      <3>3. change'.at = "tokens" /\ change'.by = a /\ change' \in Change
        BY <3>1 DEF Change
      <3>4. Good(a)'
        BY <1>1, <1>2, <3>1, <3>2 DEF Good
      <3>5. ASSUME NEW b \in SignIns \ {a} PROVE Good(b)'
        <4>1. ~Settled(b)'
          BY <3>3 DEF Settled
        <4> QED
          BY <1>1, <1>2, <3>1, <3>2, <4>1 DEF Good
      <3> QED
        BY <1>1, <3>1, <3>2, <3>3, <3>4, <3>5 DEF AccountsTypes
    <2>2. CASE ChangeRevokesTokens
      <3>1. /\ SignsOut(Devices \ {change.by}) /\ change.at = "tokens"
            /\ change' = [change EXCEPT !.at = "sessions"] /\ UNCHANGED <<password, careless>>
        BY <2>2 DEF ChangeRevokesTokens
      <3>2. PICK by : by = change.by
        OBVIOUS
      <3>3. change'.at = "sessions" /\ change'.by = by /\ change' \in Change
        BY <1>1, <3>1, <3>2 DEF AccountsTypes, Change
      <3>4. SignsOut(Devices \ {by})
        BY <3>1, <3>2
      <3>5. /\ signIn' \in [SignIns -> SignInState] /\ live' \in [SignIns -> Nat]
            /\ \A a \in SignIns \ (Devices \ {by}) : live'[a] = live[a] /\ signIn'[a] = signIn[a]
            /\ \A a \in SignIns \cap (Devices \ {by}) :
                 live'[a] = 0 /\ ((signIn[a].at = "away" /\ signIn'[a] = signIn[a]) \/ signIn'[a].early)
        BY <1>1, <3>4, SignsOutFacts
      <3>6. ASSUME NEW a \in SignIns PROVE Good(a)'
        <4>1. CASE a \in Devices \ {by}
          BY <3>5, <4>1 DEF Good
        <4>2. CASE a \notin Devices \ {by}
          <5>1. Settled(a)' => Settled(a)
            BY <3>2, <3>3, <4>2 DEF Settled
          <5>2. live'[a] = live[a] /\ signIn'[a] = signIn[a]
            BY <3>5, <4>2
          <5> QED
            BY <1>1, <1>2, <3>1, <5>1, <5>2 DEF Good
        <4> QED
          BY <4>1, <4>2
      <3> QED
        BY <1>1, <3>1, <3>3, <3>5, <3>6 DEF AccountsTypes
    <2>3. CASE ChangeDropsSessions
      <3>1. /\ SignsOut(Browsers \ {change.by}) /\ change.at = "sessions"
            /\ change' = NoChange /\ UNCHANGED <<password, careless>>
        BY <2>3 DEF ChangeDropsSessions, OtherBrowsers
      <3>2. PICK by : by = change.by
        OBVIOUS
      <3>3. change'.at = "none" /\ change' \in Change
        BY <3>1 DEF NoChange, Change
      <3>4. SignsOut(Browsers \ {by})
        BY <3>1, <3>2
      <3>5. /\ signIn' \in [SignIns -> SignInState] /\ live' \in [SignIns -> Nat]
            /\ \A a \in SignIns \ (Browsers \ {by}) : live'[a] = live[a] /\ signIn'[a] = signIn[a]
            /\ \A a \in SignIns \cap (Browsers \ {by}) :
                 live'[a] = 0 /\ ((signIn[a].at = "away" /\ signIn'[a] = signIn[a]) \/ signIn'[a].early)
        BY <1>1, <3>4, SignsOutFacts
      <3>6. ASSUME NEW a \in SignIns PROVE Good(a)'
        <4>1. CASE a \in Browsers \ {by}
          BY <3>5, <4>1 DEF Good
        <4>2. CASE a \notin Browsers \ {by}
          <5>1. Settled(a)
            BY <3>1, <3>2, <4>2 DEF Settled, SignIns
          <5>2. live'[a] = live[a] /\ signIn'[a] = signIn[a]
            BY <3>5, <4>2
          <5> QED
            BY <1>1, <1>2, <3>1, <5>1, <5>2 DEF Good
        <4> QED
          BY <4>1, <4>2
      <3> QED
        BY <1>1, <3>1, <3>3, <3>5, <3>6 DEF AccountsTypes
    <2>4. CASE ChangeStepFails
      <3>1. careless' = TRUE /\ UNCHANGED <<password, signIn, live>>
        BY <2>4 DEF ChangeStepFails
      <3>2. change' \in Change
        BY <1>1, <2>4 DEF ChangeStepFails, NoChange, AccountsTypes, Change
      <3> QED
        BY <1>1, <3>1, <3>2 DEF Good
    <2> QED
      BY <2>1, <2>2, <2>3, <2>4
  <1> QED
    BY <1>1, <1>2, <1>3 DEF AccountsInv, AccountsTypes, CodesInv

\* The second factor: a code of it, then a statement at a time.
LEMMA FactorKeeps ==
  ASSUME AccountsInv,
         \/ \E c \in AuthCodes : ConfirmSecret(c) \/ ConfirmDisabling(c)
         \/ SetTOTPSecret \/ SetTOTPEnabled \/ FactorRevokesTokens \/ FactorEnds \/ FactorStepFails
  PROVE  AccountsInv'
  <1>1. /\ AccountsTypes /\ CodesInv /\ signIn \in [SignIns -> SignInState] /\ live \in [SignIns -> Nat]
        /\ \A a \in SignIns : Good(a)
    BY DEF AccountsInv, AccountsTypes
  <1>2. UNCHANGED <<tick, password, change>>
    BY DEF ConfirmSecret, ConfirmDisabling, SetTOTPSecret, SetTOTPEnabled, FactorRevokesTokens, FactorEnds, FactorStepFails
  <1>3. ASSUME NEW c \in AuthCodes, ConfirmSecret(c) \/ ConfirmDisabling(c) PROVE AccountsInv'
    <2>1. /\ UNCHANGED <<enabled, codes, signIn, live, careless>>
          /\ factor.at = "none" /\ factor'.at = "secret"
          /\ seen' = Remember(c) /\ uses' = [uses EXCEPT ![c] = @ + 1] /\ Fresh(c)
          /\ factor' \in Factor
          /\ \E key : Valid(c, key)
      BY <1>1, <1>3 DEF ConfirmSecret, ConfirmDisabling, AccountsTypes, Factor
    <2>2. made' \in [secrets : Nat, codes : Nat] /\ made'.codes = made.codes
      BY <1>1, <1>3 DEF ConfirmSecret, ConfirmDisabling, AccountsTypes
    <2>3. CodesInv' /\ seen' \in [AuthCodes -> Nat] /\ uses' \in [AuthCodes \cup RecoveryCodes -> Nat]
      BY <1>1, <2>1, <2>2, CodeIsUsed
    <2>4. \A a \in SignIns : Good(a)'
      BY <1>1, <1>2, <2>1 DEF Good, Settled
    <2> QED
      BY <1>1, <1>2, <2>1, <2>2, <2>3, <2>4 DEF AccountsInv, AccountsTypes
  <1>4. CASE SetTOTPSecret \/ SetTOTPEnabled
    <2>1. UNCHANGED <<codes, made, seen, signIn, live, uses, careless>> /\ enabled' \in BOOLEAN
      BY <1>1, <1>4 DEF SetTOTPSecret, SetTOTPEnabled, AccountsTypes
    <2>2. /\ \/ factor.at = "secret" /\ factor'.at = "flag" /\ enabled' = enabled
             \/ factor'.at = "tokens"
          /\ factor' \in Factor
      BY <1>1, <1>4 DEF SetTOTPSecret, SetTOTPEnabled, AccountsTypes, Factor
    <2>3. \A a \in SignIns : Good(a)'
      BY <1>1, <1>2, <2>1, <2>2 DEF Good, Settled
    <2> QED
      BY <1>1, <1>2, <2>1, <2>2, <2>3 DEF AccountsInv, AccountsTypes, CodesInv
  <1>5. CASE FactorRevokesTokens
    <2>1. SignsOut(Devices) /\ UNCHANGED <<enabled, codes, made, seen, uses, careless>> /\ factor' \in Factor
      BY <1>1, <1>5 DEF FactorRevokesTokens, AccountsTypes, Factor
    <2>2. /\ signIn' \in [SignIns -> SignInState] /\ live' \in [SignIns -> Nat]
          /\ \A a \in SignIns \ Devices : live'[a] = live[a] /\ signIn'[a] = signIn[a]
          /\ \A a \in SignIns \cap Devices :
               live'[a] = 0 /\ ((signIn[a].at = "away" /\ signIn'[a] = signIn[a]) \/ signIn'[a].early)
      BY <1>1, <2>1, SignsOutFacts
    <2>3. ASSUME NEW a \in SignIns PROVE Good(a)'
      <3>1. CASE a \in Devices
        BY <2>2, <3>1 DEF Good
      <3>2. CASE a \notin Devices
        BY <1>1, <1>2, <2>1, <2>2, <3>2 DEF Good, Settled
      <3> QED
        BY <3>1, <3>2
    <2> QED
      BY <1>1, <1>2, <2>1, <2>2, <2>3 DEF AccountsInv, AccountsTypes, CodesInv
  <1>6. CASE FactorEnds
    <2>1. UNCHANGED <<enabled, seen, signIn, live, uses, careless>> /\ factor.at = "codes" /\ factor' \in Factor
      BY <1>6 DEF FactorEnds, NoFactor, Factor
    <2>2. CodesInv' /\ codes' \subseteq RecoveryCodes /\ made' \in [secrets : Nat, codes : Nat]
      <3>1. CASE factor.secret = 0
        <4>1. codes' = {} /\ made' = made
          BY <1>6, <3>1 DEF FactorEnds
        <4> QED
          BY <1>1, <2>1, <4>1 DEF CodesInv, AccountsTypes
      <3>2. CASE factor.secret # 0
        <4>1. made.codes < MaxCodes /\ NewCodes
          BY <1>6, <3>2 DEF FactorEnds
        <4> QED
          BY <1>1, <2>1, <4>1, CodesAreMade
      <3> QED
        BY <3>1, <3>2
    <2>3. \A a \in SignIns : Good(a)'
      BY <1>1, <1>2, <2>1 DEF Good, Settled
    <2> QED
      BY <1>1, <1>2, <2>1, <2>2, <2>3 DEF AccountsInv, AccountsTypes
  <1>7. CASE FactorStepFails
    <2>1. careless' = TRUE /\ UNCHANGED <<enabled, codes, made, seen, signIn, live, uses>> /\ factor' \in Factor
      BY <1>1, <1>7 DEF FactorStepFails, NoFactor, AccountsTypes, Factor
    <2>2. \A a \in SignIns : Good(a)'
      BY <1>1, <2>1 DEF Good
    <2> QED
      BY <1>1, <1>2, <2>1, <2>2 DEF AccountsInv, AccountsTypes, CodesInv
  <1> QED
    BY <1>3, <1>4, <1>5, <1>6, <1>7

LEMMA RestOfAccountsKeeps ==
  ASSUME AccountsInv, Tick \/ RegenerateCodes \/ RestartAccounts
  PROVE  AccountsInv'
  <1>1. /\ AccountsTypes /\ CodesInv /\ signIn \in [SignIns -> SignInState] /\ live \in [SignIns -> Nat]
        /\ \A a \in SignIns : Good(a)
    BY DEF AccountsInv, AccountsTypes
  <1>2. CASE Tick
    BY <1>1, <1>2 DEF Tick, AccountsInv, AccountsTypes, CodesInv, Good, Settled
  <1>3. CASE RegenerateCodes
    <2>1. UNCHANGED <<tick, password, enabled, seen, signIn, live, change, factor, uses, careless>>
      BY <1>3 DEF RegenerateCodes
    <2>2. CodesInv' /\ codes' \subseteq RecoveryCodes /\ made' \in [secrets : Nat, codes : Nat]
      BY <1>1, <1>3, <2>1, CodesAreMade DEF RegenerateCodes
    <2>3. \A a \in SignIns : Good(a)'
      BY <1>1, <2>1 DEF Good, Settled
    <2> QED
      BY <1>1, <2>1, <2>2, <2>3 DEF AccountsInv, AccountsTypes
  <1>4. CASE RestartAccounts
    <2>1. /\ UNCHANGED <<tick, password, enabled, codes, made, live>>
          /\ seen' = [c \in AuthCodes |-> 0]
          /\ signIn' = [a \in SignIns |-> IF signIn[a].at \in {"comparing", "again", "accepted"} THEN Away ELSE signIn[a]]
          /\ change' = NoChange /\ factor' = NoFactor
          /\ careless' = (careless \/ change.at # "none" \/ factor.at # "none")
          /\ uses' = [c \in DOMAIN uses |-> IF c \in AuthCodes THEN 0 ELSE uses[c]]
      BY <1>4 DEF RestartAccounts
    <2>2. /\ signIn' \in [SignIns -> SignInState] /\ change'.at = "none" /\ factor'.at = "none"
          /\ change' \in Change /\ factor' \in Factor
          /\ \A a \in SignIns : signIn'[a] = signIn[a] \/ (signIn'[a].at = "away" /\ signIn[a].at # "away")
      BY <1>1, <2>1 DEF Away, SignInState, NoChange, NoFactor, Change, Factor
    <2>3. DOMAIN uses = AuthCodes \cup RecoveryCodes
      BY <1>1 DEF AccountsTypes
    <2>4. /\ seen' \in [AuthCodes -> Nat] /\ uses' \in [AuthCodes \cup RecoveryCodes -> Nat]
          /\ \A c \in AuthCodes : uses'[c] = 0
          /\ \A c \in RecoveryCodes : uses'[c] = uses[c]
      BY <1>1, <2>1, <2>3, CodesApart DEF AccountsTypes
    <2>5. CodesInv'
      BY <1>1, <2>1, <2>4 DEF CodesInv
    <2>6. careless' \in BOOLEAN /\ (~careless' => ~careless /\ change.at = "none" /\ factor.at = "none")
      BY <2>1
    <2>7. ASSUME NEW a \in SignIns PROVE Good(a)'
      <3>1. CASE signIn'[a] = signIn[a]
        BY <1>1, <2>1, <2>2, <2>6, <3>1 DEF Good, Settled
      <3>2. CASE signIn'[a].at = "away" /\ signIn[a].at # "away"
        BY <1>1, <2>1, <3>2 DEF Good
      <3> QED
        BY <2>2, <3>1, <3>2
    <2> QED
      BY <1>1, <2>1, <2>2, <2>4, <2>5, <2>6, <2>7 DEF AccountsInv, AccountsTypes
  <1> QED
    BY <1>2, <1>3, <1>4

LEMMA AccountsNextKeeps == AccountsInv /\ [AccountsNext]_accountsVars => AccountsInv'
  <1> SUFFICES ASSUME AccountsInv, [AccountsNext]_accountsVars PROVE AccountsInv'
    OBVIOUS
  <1>1. ASSUME NEW a \in SignIns,
               TypePassword(a) \/ RightPassword(a) \/ ComparedAgain(a) \/ SignedIn(a) \/ GiveUp(a) \/ SignOut(a)
        PROVE  AccountsInv'
    BY <1>1, SigningInKeeps
  <1>2. ASSUME NEW a \in SignIns,
               (\E c \in AuthCodes : GiveCode(a, c)) \/ (\E c \in RecoveryCodes : GiveRecoveryCode(a, c))
        PROVE  AccountsInv'
    BY <1>2, SecondStepKeeps
  <1>3. CASE \/ \E a \in SignIns : ChangePassword(a)
             \/ ChangeRevokesTokens \/ ChangeDropsSessions \/ ChangeStepFails
    BY <1>3, ChangeKeeps
  <1>4. CASE \/ \E c \in AuthCodes : ConfirmSecret(c) \/ ConfirmDisabling(c)
             \/ SetTOTPSecret \/ SetTOTPEnabled \/ FactorRevokesTokens \/ FactorEnds \/ FactorStepFails
    BY <1>4, FactorKeeps
  <1>5. CASE Tick \/ RegenerateCodes \/ RestartAccounts
    BY <1>5, RestOfAccountsKeeps
  <1>6. CASE UNCHANGED accountsVars
    BY <1>6 DEF accountsVars, AccountsInv, AccountsTypes, CodesInv, Good, Settled
  <1> QED
    BY <1>1, <1>2, <1>3, <1>4, <1>5, <1>6 DEF AccountsNext

LEMMA AccountsAreSafe == AccountsInv => SpentStaysSpent
  <1> SUFFICES ASSUME AccountsInv PROVE SpentStaysSpent
    OBVIOUS
  <1>1. CodesWorkOnce
    BY DEF AccountsInv, AccountsTypes, CodesInv, CodesWorkOnce
  <1>2. OthersAreSignedOut
    BY DEF AccountsInv, Good, Settled, OthersAreSignedOut
  <1> QED
    BY <1>1, <1>2 DEF SpentStaysSpent

\* What was used up or signed out stays so (server/auth, server/webui,
\* store/sqlite.go), for any number of browsers, devices, codes and passwords,
\* but for what a failed step or a restart leaves.
THEOREM SpentStaysSpentHolds == AccountsSpec => []SpentStaysSpent
  <1> QED
    BY AccountsBegin, AccountsNextKeeps, AccountsAreSafe, PTL DEF AccountsSpec

---------------------------------------------------------------------------
(* The login lock: a lock has its cause.                                    *)

\* The state of the lock is a record, and the minutes of the failures are past.
LockTypes ==
  /\ minute \in Nat
  /\ lock \in [failures : Nat, firstFail : Nat, lockedUntil : Nat]
  /\ fails \in Seq(0 .. minute)

\* The failures that the state counts are the last ones: it has the time of
\* the first of them, those that it takes for a lock are within the window of
\* that one, and before there are as many, nothing is locked.
Oldest == Len(fails) - lock.failures + 1
CountInv ==
  /\ lock.failures <= Len(fails)
  /\ lock.failures < LockAfter => lock.lockedUntil = 0
  /\ lock.lockedUntil <= minute + LockAtMost
  /\ lock.failures > 0 => fails[Oldest] = lock.firstFail
  /\ \A j \in 1 .. Len(fails) :
       j >= Oldest /\ j < Oldest + LockAfter => fails[j] - lock.firstFail <= LockWindow

LockInv == LockTypes /\ CountInv

LEMMA LockBegins == LockInit => LockInv
  <1> SUFFICES ASSUME LockInit PROVE LockInv
    OBVIOUS
  <1>1. fails \in Seq(0 .. minute) /\ Len(fails) = 0
    BY EmptySeq DEF LockInit
  <1>2. minute = 0 /\ lock = [failures |-> 0, firstFail |-> 0, lockedUntil |-> 0]
    BY DEF LockInit, NoFailures
  <1>3. LockTypes
    BY <1>1, <1>2 DEF LockTypes
  <1>4. CountInv
    BY <1>1, <1>2, LockBounds DEF CountInv, Oldest
  <1> QED
    BY <1>3, <1>4 DEF LockInv

LEMMA MinutePassesKeeps == LockInv /\ MinutePasses => LockInv'
  <1> SUFFICES ASSUME LockInv, MinutePasses PROVE LockInv'
    OBVIOUS
  <1>1. minute \in Nat /\ minute' = minute + 1 /\ UNCHANGED <<lock, fails>>
    BY DEF LockInv, LockTypes, MinutePasses
  <1>2. fails \in [1 .. Len(fails) -> 0 .. minute] /\ Len(fails) \in Nat
    BY LenProperties DEF LockInv, LockTypes
  <1>3. fails \in [1 .. Len(fails) -> 0 .. minute']
    BY <1>1, <1>2
  <1>4. fails' \in Seq(0 .. minute')
    BY <1>1, <1>2, <1>3, SeqDef
  <1>5. CountInv'
    BY <1>1, LockBounds DEF LockInv, CountInv, LockTypes, Oldest
  <1> QED
    BY <1>1, <1>4, <1>5 DEF LockInv, LockTypes

\* A lock that is over, or none.
LEMMA Cleared ==
  ASSUME LockInv, lock' = NoFailures, fails' = <<>>, minute' = minute
  PROVE  LockInv'
  <1>1. fails' \in Seq(0 .. minute') /\ Len(fails') = 0
    BY EmptySeq
  <1>2. lock' = [failures |-> 0, firstFail |-> 0, lockedUntil |-> 0]
    BY DEF NoFailures
  <1>3. LockTypes'
    BY <1>1, <1>2 DEF LockInv, LockTypes
  <1>4. CountInv'
    BY <1>1, <1>2, LockBounds DEF LockInv, LockTypes, CountInv, Oldest
  <1> QED
    BY <1>3, <1>4 DEF LockInv

LEMMA AttemptFailsKeeps ==
  ASSUME LockInv, NEW a \in Attempts, AttemptFails(a)
  PROVE  LockInv'
  <1> DEFINE n == Unexpired.failures + 1
             length == LockLength(n)
             len == Len(fails)
  <1>1. /\ minute \in Nat /\ len \in Nat /\ fails \in Seq(0 .. minute)
        /\ \A j \in 1 .. len : fails[j] \in 0 .. minute
    BY LenProperties, ElementOfSeq DEF LockInv, LockTypes
  <1>2. /\ fails' = Append(fails, minute) /\ minute' = minute
        /\ fails' \in Seq(0 .. minute) /\ Len(fails') = len + 1
        /\ \A j \in 1 .. len : fails'[j] = fails[j]
        /\ fails'[len + 1] = minute
    <2>1. fails' = Append(fails, minute) /\ minute' = minute
      BY DEF AttemptFails
    <2>2. minute \in 0 .. minute
      BY <1>1
    <2> QED
      BY <1>1, <2>1, <2>2, AppendProperties
  <1>3. LockAfter \in Nat \ {0} /\ LockWindow \in Nat \ {0} /\ LockAtMost \in Nat \ {0}
    BY LockBounds
  <1>4. /\ lock' = [Unexpired EXCEPT !.failures = n,
                      !.lockedUntil = IF n >= LockAfter THEN minute + length ELSE @]
    BY DEF AttemptFails
  <1>5. lock \in [failures : Nat, firstFail : Nat, lockedUntil : Nat]
    BY DEF LockInv, LockTypes
  <1>6. /\ lock.failures <= len /\ lock.lockedUntil <= minute + LockAtMost
        /\ lock.failures < LockAfter => lock.lockedUntil = 0
        /\ lock.failures > 0 => fails[len - lock.failures + 1] = lock.firstFail
        /\ \A j \in 1 .. len : j >= len - lock.failures + 1 /\ j < len - lock.failures + 1 + LockAfter
                                 => fails[j] - lock.firstFail <= LockWindow
    BY DEF LockInv, CountInv, Oldest
  <1>7. n \in Nat => length \in Nat /\ length <= LockAtMost
    BY <1>3 DEF LockLength
  <1>8. CASE lock.failures = 0 \/ (minute > lock.lockedUntil /\ minute - lock.firstFail > LockWindow)
    <2>1. Unexpired = [failures |-> 0, firstFail |-> minute, lockedUntil |-> 0]
      BY <1>8 DEF Unexpired, NoFailures
    <2>2. n = 1 /\ length \in Nat /\ length <= LockAtMost
      BY <1>7, <2>1
    <2> HIDE DEF length
    <2>3. lock' = [failures |-> 1, firstFail |-> minute, lockedUntil |-> IF 1 >= LockAfter THEN minute + length ELSE 0]
      BY <1>4, <2>1, <2>2
    <2>4. LockTypes'
      BY <1>1, <1>2, <2>2, <2>3 DEF LockTypes
    <2>5. Oldest' = len + 1 /\ lock'.failures = 1 /\ lock'.firstFail = minute
      BY <1>1, <1>2, <2>3 DEF Oldest
    <2>6. lock'.lockedUntil = (IF 1 >= LockAfter THEN minute + length ELSE 0)
      BY <2>3
    <2>7. \A j \in 1 .. len + 1 : j >= len + 1 => fails'[j] - minute <= LockWindow
      BY <1>1, <1>2, <1>3
    <2>8. CountInv'
      BY <1>1, <1>2, <1>3, <2>2, <2>5, <2>6, <2>7 DEF CountInv
    <2> QED
      BY <2>4, <2>8 DEF LockInv
  <1>9. CASE lock.failures # 0 /\ ~(minute > lock.lockedUntil /\ minute - lock.firstFail > LockWindow)
    <2>1. Unexpired = lock
      BY <1>9 DEF Unexpired
    <2>2. n = lock.failures + 1 /\ n \in Nat /\ length \in Nat /\ length <= LockAtMost
      BY <1>5, <1>7, <2>1
    <2> HIDE DEF length, n
    <2>3. lock' = [failures |-> n, firstFail |-> lock.firstFail,
                   lockedUntil |-> IF n >= LockAfter THEN minute + length ELSE lock.lockedUntil]
      BY <1>4, <1>5, <2>1
    <2>4. LockTypes'
      BY <1>1, <1>2, <1>5, <2>2, <2>3 DEF LockTypes
    <2>5. Oldest' = len - lock.failures + 1 /\ lock'.failures = n /\ lock'.firstFail = lock.firstFail
      BY <1>1, <1>2, <1>5, <2>2, <2>3 DEF Oldest
    <2>6. lock'.lockedUntil = (IF n >= LockAfter THEN minute + length ELSE lock.lockedUntil)
      BY <2>3
    \* A failure that is one of those it takes comes within the window: while
    \* there are fewer than it takes, nothing is locked, and a later one is
    \* the first of others.
    <2>7. len + 1 < len - lock.failures + 1 + LockAfter => minute - lock.firstFail <= LockWindow
      <3>1. CASE lock.failures < LockAfter
        <4>1. lock.lockedUntil = 0
          BY <1>6, <3>1
        <4>2. CASE minute = 0
          BY <1>3, <1>5, <4>2
        <4>3. CASE minute > 0
          BY <1>1, <1>3, <1>5, <1>9, <4>1, <4>3
        <4> QED
          BY <1>1, <4>2, <4>3
      <3> QED
        BY <1>1, <1>3, <1>5, <3>1
    <2>8. \A j \in 1 .. len + 1 : j >= Oldest' /\ j < Oldest' + LockAfter => fails'[j] - lock.firstFail <= LockWindow
      <3> SUFFICES ASSUME NEW j \in 1 .. len + 1, j >= Oldest', j < Oldest' + LockAfter
                   PROVE  fails'[j] - lock.firstFail <= LockWindow
        OBVIOUS
      <3>1. CASE j \in 1 .. len
        BY <1>1, <1>2, <1>6, <2>5, <3>1
      <3>2. CASE j = len + 1
        BY <1>2, <2>5, <2>7, <3>2
      <3> QED
        BY <1>1, <3>1, <3>2
    <2>9. Oldest' \in 1 .. len /\ fails'[Oldest'] = lock.firstFail
      BY <1>1, <1>2, <1>5, <1>6, <1>9, <2>5
    <2>10. lock'.failures <= Len(fails') /\ lock'.lockedUntil <= minute' + LockAtMost
      BY <1>1, <1>2, <1>3, <1>5, <1>6, <2>2, <2>5, <2>6
    <2>11. lock'.failures < LockAfter => lock'.lockedUntil = 0
      BY <1>3, <1>5, <1>6, <2>2, <2>5, <2>6
    <2>12. fails'[Oldest'] = lock'.firstFail
      BY <1>2, <2>5, <2>9
    <2>13. CountInv'
      BY <1>2, <2>5, <2>8, <2>10, <2>11, <2>12 DEF CountInv
    <2> QED
      BY <2>4, <2>13 DEF LockInv
  <1> QED
    BY <1>8, <1>9

LEMMA LockNextKeeps == LockInv /\ [LockNext]_lockVars => LockInv'
  <1> SUFFICES ASSUME LockInv, [LockNext]_lockVars PROVE LockInv'
    OBVIOUS
  <1>1. CASE MinutePasses
    BY <1>1, MinutePassesKeeps
  <1>2. ASSUME NEW a \in Attempts, AttemptFails(a) PROVE LockInv'
    BY <1>2, AttemptFailsKeeps
  <1>3. ASSUME NEW a \in Attempts, AttemptSucceeds(a) PROVE LockInv'
    BY <1>3, Cleared DEF AttemptSucceeds
  <1>4. CASE LockRestart
    BY <1>4, Cleared DEF LockRestart
  <1>5. ASSUME UNCHANGED <<minute, lock, fails>> PROVE LockInv'
    BY <1>5 DEF LockInv, LockTypes, CountInv, Oldest
  <1> QED
    BY <1>1, <1>2, <1>3, <1>4, <1>5 DEF LockNext, AttemptBegins, lockVars

LEMMA LockIsCaused == LockInv => LockHasCause
  <1> SUFFICES ASSUME LockInv, Locked
               PROVE  /\ lock.lockedUntil <= minute + LockAtMost
                      /\ \E i \in DOMAIN fails :
                           /\ i + LockAfter - 1 \in DOMAIN fails
                           /\ fails[i + LockAfter - 1] - fails[i] <= LockWindow
    BY DEF LockHasCause
  <1>1. LockAfter \in Nat \ {0} /\ minute \in Nat /\ Len(fails) \in Nat /\ DOMAIN fails = 1 .. Len(fails)
    BY LockBounds, LenProperties DEF LockInv, LockTypes
  <1>2. lock \in [failures : Nat, firstFail : Nat, lockedUntil : Nat]
    BY DEF LockInv, LockTypes
  <1>3. lock.failures >= LockAfter
    BY <1>1, <1>2 DEF Locked, LockInv, CountInv
  <1>4. Oldest \in DOMAIN fails /\ Oldest + LockAfter - 1 \in DOMAIN fails
    BY <1>1, <1>2, <1>3 DEF Oldest, LockInv, CountInv
  <1>5. fails[Oldest] = lock.firstFail
    BY <1>1, <1>2, <1>3 DEF LockInv, CountInv
  <1>6. fails[Oldest + LockAfter - 1] - lock.firstFail <= LockWindow
    <2>1. Oldest \in Int
      BY <1>1, <1>4
    <2> QED
      BY <1>1, <1>4, <2>1 DEF LockInv, CountInv
  <1> QED
    BY <1>4, <1>5, <1>6 DEF LockInv, CountInv

\* An account is locked for no longer than the longest lock and for a cause
\* (auth/lockout.go), whatever sign-ins overlap, for any threshold, window and
\* longest lock.
THEOREM LockHasCauseHolds == LockSpec => []LockHasCause
  <1> QED
    BY LockBegins, LockNextKeeps, LockIsCaused, PTL DEF LockSpec
=============================================================================
