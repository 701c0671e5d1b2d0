----------------------------- MODULE CoverCache -----------------------------
(***************************************************************************)
(* The covers of games (server/webui/covers.go), one cover of one game: a file   *)
(* with the art, a marker that there is none, and requests that fetch it under a  *)
(* lock whose entry is taken out of the map as soon as its holder is done, so    *)
(* that several of them may be fetching at a time.  An administrator clears the   *)
(* cache file by file.                                                       *)
(***************************************************************************)
EXTENDS FiniteSets, Naturals

CONSTANTS
  Viewers,    \* requests for the cover at a time
  MaxViews,   \* bound: requests
  MaxOlder,   \* bound: markers that grow old, clearings and aborted requests
  MaxBroken   \* bound: fetches and writes that fail

ASSUME CoverBounds == {MaxViews, MaxOlder, MaxBroken} \subseteq Nat

VARIABLES
  art,        \* the file is there
  marker,     \* the marker: none, fresh or old
  lockEntry,  \* the lock that the map names, or NoLock
  holder,     \* of each lock: who holds it
  viewer,     \* the requests
  clearing,   \* what the clearing has still to remove
  views, older, broken  \* bookkeeping of the bounds

coverVars == <<art, marker, lockEntry, holder, viewer, clearing, views, older, broken>>

NoLock == 0
Locks == 1 .. MaxViews
Nobody == "nobody"

\* owed: the art is there and has been since the request had still to look for
\* it, at its coming or in the lock's queue.
NotViewing == [at |-> "none", lock |-> NoLock, got |-> "none", gone |-> FALSE, owed |-> FALSE]

\* Both files may be there: see CachedIsServed.
CoverInit ==
  /\ art \in BOOLEAN /\ marker \in {"none", "fresh", "old"}
  /\ lockEntry = NoLock /\ holder = [l \in Locks |-> Nobody]
  /\ viewer = [v \in Viewers |-> NotViewing]
  /\ clearing = {} /\ views = 0 /\ older = 0 /\ broken = 0

Goes(v, at) == viewer' = [viewer EXCEPT ![v].at = at]
Breaks == broken < MaxBroken /\ broken' = broken + 1
Ages == older < MaxOlder /\ older' = older + 1

---------------------------------------------------------------------------
(* serveCover. *)

Comes(v) ==
  /\ viewer[v].at \in {"none", "served", "refused"} /\ views < MaxViews /\ views' = views + 1
  /\ viewer' = [viewer EXCEPT ![v] = [NotViewing EXCEPT !.at = "looks", !.owed = art]]
  /\ UNCHANGED <<art, marker, lockEntry, holder, clearing, older, broken>>

\* The browser aborts the request.
Leaves(v) ==
  /\ viewer[v].at \in {"waits", "fetches"} /\ ~viewer[v].gone /\ Ages
  /\ viewer' = [viewer EXCEPT ![v].gone = TRUE]
  /\ UNCHANGED <<art, marker, lockEntry, holder, clearing, views, broken>>

\* Mutant: the marker goes before the file.
MarkerFirst(v) ==
  /\ viewer[v].at \in {"looks", "rechecks"}
  /\ Goes(v, IF marker = "fresh" THEN IF viewer[v].at = "looks" THEN "refused" ELSE "refuses"
             ELSE IF art THEN IF viewer[v].at = "looks" THEN "serves" ELSE "servesHeld"
             ELSE IF viewer[v].at = "looks" THEN "asksMarker" ELSE "asksMarkerHeld")
  /\ UNCHANGED <<art, marker, lockEntry, holder, clearing, views, older, broken>>

\* isFile, before the lock or under it.
LooksForArt(v) ==
  /\ viewer[v].at \in {"looks", "rechecks"}
  /\ Goes(v, IF art THEN IF viewer[v].at = "looks" THEN "serves" ELSE "servesHeld"
             ELSE IF viewer[v].at = "looks" THEN "asksMarker" ELSE "asksMarkerHeld")
  /\ UNCHANGED <<art, marker, lockEntry, holder, clearing, views, older, broken>>

\* missFresh, then the game's record: a marker of less than a week, or a game
\* nobody knows, is the answer.
Known(v) ==
  /\ viewer[v].at = "asksMarker"
  /\ IF marker = "fresh" THEN Goes(v, "refused") ELSE Goes(v, "wantsLock") \/ Goes(v, "refused")
  /\ UNCHANGED <<art, marker, lockEntry, holder, clearing, views, older, broken>>

\* coverFetchLocks.LoadOrStore.
TakesEntry(v) ==
  /\ viewer[v].at = "wantsLock"
  /\ LET used == {viewer[w].lock : w \in Viewers}
     IN \E lock \in IF lockEntry # NoLock THEN {lockEntry} ELSE Locks \ used :
          /\ lockEntry' = lock
          /\ viewer' = [viewer EXCEPT ![v] = [@ EXCEPT !.at = "waits", !.lock = lock]]
  /\ UNCHANGED <<art, marker, holder, clearing, views, older, broken>>

TakesLock(v) ==
  /\ viewer[v].at = "waits" /\ holder[viewer[v].lock] = Nobody
  /\ holder' = [holder EXCEPT ![viewer[v].lock] = v] /\ Goes(v, "rechecks")
  /\ UNCHANGED <<art, marker, lockEntry, clearing, views, older, broken>>

\* The second missFresh.
KnownHeld(v) ==
  /\ viewer[v].at = "asksMarkerHeld" /\ Goes(v, IF marker = "fresh" THEN "refuses" ELSE "fetches")
  /\ UNCHANGED <<art, marker, lockEntry, holder, clearing, views, older, broken>>

\* fetchSteamArt, or fetchAllowlistedCover where the record has an address: art,
\* if the request is still there, or none, because there is none or for a fault.
Fetches(v) ==
  /\ viewer[v].at = "fetches"
  /\ \/ ~viewer[v].gone /\ Goes(v, "writes") /\ UNCHANGED broken
     \/ viewer[v].gone /\ Goes(v, "refuses") /\ UNCHANGED broken
     \/ ~viewer[v].gone /\ Breaks /\ Goes(v, "marks")
  /\ UNCHANGED <<art, marker, lockEntry, holder, clearing, views, older>>

\* writeCoverMiss.
Marks(v) ==
  /\ viewer[v].at = "marks" /\ Goes(v, "refuses")
  /\ marker' = "fresh"
  /\ UNCHANGED <<art, lockEntry, holder, clearing, views, older, broken>>

\* atomicWriteCover; when that fails the art is served from memory.
Caches(v) ==
  /\ viewer[v].at = "writes"
  /\ \/ /\ art' = TRUE /\ UNCHANGED broken
        /\ viewer' = [w \in Viewers |->
             IF w = v THEN [viewer[v] EXCEPT !.at = "unmarks"]
             ELSE [viewer[w] EXCEPT !.owed = @ \/ viewer[w].at \in {"looks", "wantsLock", "waits", "rechecks"}]]
     \/ Breaks /\ viewer' = [viewer EXCEPT ![v] = [@ EXCEPT !.at = "unlocks", !.got = "art"]] /\ UNCHANGED art
  /\ UNCHANGED <<marker, lockEntry, holder, clearing, views, older>>

\* A marker that was there is removed.
Unmarks(v) ==
  /\ viewer[v].at = "unmarks" /\ Goes(v, "servesHeld") /\ marker' = "none"
  /\ UNCHANGED <<art, lockEntry, holder, clearing, views, older, broken>>

\* serveCoverFile: the file may have been cleared by now.
Serves(v) ==
  /\ viewer[v].at = "serves" /\ Goes(v, IF art THEN "served" ELSE "refused")
  /\ UNCHANGED <<art, marker, lockEntry, holder, clearing, views, older, broken>>
ServesHeld(v) ==
  /\ viewer[v].at = "servesHeld"
  /\ viewer' = [viewer EXCEPT ![v] = [@ EXCEPT !.at = "unlocks", !.got = IF art THEN "art" ELSE "none"]]
  /\ UNCHANGED <<art, marker, lockEntry, holder, clearing, views, older, broken>>
Refuses(v) ==
  /\ viewer[v].at = "refuses" /\ Goes(v, "unlocks")
  /\ UNCHANGED <<art, marker, lockEntry, holder, clearing, views, older, broken>>

\* The deferred function: the lock first, and then whatever entry is there.
Unlocks(v) ==
  /\ viewer[v].at = "unlocks" /\ Goes(v, "deletesEntry")
  /\ holder' = [holder EXCEPT ![viewer[v].lock] = Nobody]
  /\ UNCHANGED <<art, marker, lockEntry, clearing, views, older, broken>>
DeletesEntry(v) ==
  /\ viewer[v].at = "deletesEntry"
  /\ lockEntry' = NoLock
  /\ viewer' = [viewer EXCEPT ![v] = [@ EXCEPT !.at = IF viewer[v].got = "art" THEN "served" ELSE "refused", !.lock = NoLock]]
  /\ UNCHANGED <<art, marker, holder, clearing, views, older, broken>>

---------------------------------------------------------------------------
(* The clearing, and time. *)

\* clearCoverCache: the listing ...
ClearLists ==
  /\ clearing = {} /\ Ages
  /\ clearing' = (IF art THEN {"art"} ELSE {}) \cup (IF marker # "none" THEN {"marker"} ELSE {})
  /\ UNCHANGED <<art, marker, lockEntry, holder, viewer, views, broken>>

\* ... and the files in its order, the art before the marker.
ClearArt ==
  /\ "art" \in clearing /\ clearing' = clearing \ {"art"}
  /\ art' = FALSE /\ viewer' = [v \in Viewers |-> [viewer[v] EXCEPT !.owed = FALSE]]
  /\ UNCHANGED <<marker, lockEntry, holder, views, older, broken>>
ClearMarker ==
  /\ clearing = {"marker"} /\ clearing' = {} /\ marker' = "none"
  /\ UNCHANGED <<art, lockEntry, holder, viewer, views, older, broken>>

\* coverMissTTL is over.
MarkerAges ==
  /\ marker = "fresh" /\ Ages /\ marker' = "old"
  /\ UNCHANGED <<art, lockEntry, holder, viewer, clearing, views, broken>>

CoverNext ==
  \/ \E v \in Viewers : \/ Comes(v) \/ Leaves(v) \/ LooksForArt(v) \/ Known(v) \/ TakesEntry(v) \/ TakesLock(v)
                        \/ KnownHeld(v) \/ Fetches(v) \/ Marks(v) \/ Caches(v) \/ Unmarks(v) \/ Serves(v)
                        \/ ServesHeld(v) \/ Refuses(v) \/ Unlocks(v) \/ DeletesEntry(v)
  \/ ClearLists \/ ClearArt \/ ClearMarker \/ MarkerAges

CoverSpec == CoverInit /\ [][CoverNext]_coverVars

---------------------------------------------------------------------------
(* Properties. *)

CoverTypeOK ==
  /\ art \in BOOLEAN /\ marker \in {"none", "fresh", "old"}
  /\ lockEntry \in {NoLock} \cup Locks /\ holder \in [Locks -> Viewers \cup {Nobody}]
  /\ viewer \in [Viewers -> [at : {"none", "looks", "asksMarker", "wantsLock", "waits", "rechecks",
                                   "asksMarkerHeld", "fetches", "marks", "writes", "unmarks", "serves",
                                   "servesHeld", "refuses", "unlocks", "deletesEntry", "served", "refused"},
                             lock : {NoLock} \cup Locks, got : {"none", "art"}, gone : BOOLEAN,
                             owed : BOOLEAN]]
  /\ clearing \subseteq {"art", "marker"}
  /\ views \in 0 .. MaxViews /\ older \in 0 .. MaxOlder /\ broken \in 0 .. MaxBroken

\* Art that is there is served: a request that had still to look for the art
\* when it was cached - one that comes later, or one that waits for the lock -
\* gets it without a fetch of its own unless the cache is cleared meanwhile,
\* although two fetches at a time (the lock's entry goes before its waiters do)
\* may leave a fresh marker beside the file.
CachedIsServed ==
  \A v \in Viewers : viewer[v].owed => viewer[v].at \notin {"fetches", "refused"}
=============================================================================
