---------------------------- MODULE ManifestFlow ----------------------------
(***************************************************************************)
(* How the catalogue of save paths reaches a device.                        *)
(*                                                                         *)
(* A publisher exports its tables as one bundle and then moves an index to  *)
(* it (cmd/pcgw-bundle-export).  A server fetches the index, the bundle,    *)
(* and merges it (server/job/pcgw_bundle_indexed.go, store/pcgw_bundle.go). *)
(* A client fetches the whole manifest, or what changed since the newest    *)
(* time stamp it has, and merges that (client/manifest.go).                 *)
(*                                                                         *)
(* Time is a number of seconds; a stamp of 0 means that there is no row.    *)
(***************************************************************************)
EXTENDS Naturals, FiniteSets

CONSTANTS
  Titles,         \* the games of the catalogue
  Locations,      \* the save paths a game can have
  MaxExports,     \* bound: bundles the publisher exports
  LastSecond,     \* bound: of the clock
  DayLength,      \* seconds in a day
  PageCap,        \* games on a page of the manifest, at most (500 in the code)
  ReconcileShare, \* one over pcgwReconcileMaxDeleteFraction (4 in the code)
  MaxMishaps      \* bound: imports cut, answers lost, v2 requests refused

ASSUME ManifestBounds ==
  /\ MaxExports \in Nat \ {0} /\ LastSecond \in Nat \ {0} /\ DayLength \in Nat \ {0}
  /\ PageCap \in Nat \ {0} /\ ReconcileShare \in Nat \ {0} /\ MaxMishaps \in Nat /\ Locations # {}

VARIABLES
  clock,
  asset,      \* external: manifest.json.gz: each game's paths and their stamp
  exported,   \* its number
  indexed,    \* external: index.json: the number of the bundle whose hash it has
  rows,       \* game_save_locations of the server: the stamp of each path
  gameAt,     \* pcgw_games.updated_at
  tombs,      \* pcgw_manifest_deletions.deleted_at
  merged,     \* the setting pcgw_bundle_merged_version
  indexETag,  \* the setting with the index's ETag
  importing,  \* the bundle fetch in progress
  cache,      \* the client's manifest.json: each game's paths and last_updated
  answer,     \* the manifest's answer on its way to the client
  mishaps,    \* bookkeeping of the bound MaxMishaps
  overlooked, \* history: games whose change no delta will bring
  gutted      \* history: a full_replace was cut before its rows were in

manifestVars == <<clock, asset, exported, indexed, rows, gameAt, tombs, merged, indexETag,
                  importing, cache, answer, mishaps, overlooked, gutted>>
publisherVars == <<asset, exported, indexed>>
mirrorVars == <<rows, gameAt, tombs, merged, indexETag, importing, gutted>>
copyVars == <<cache, answer>>

Seconds == 0 .. LastSecond
NewestOf(S) == IF S = {} THEN 0 ELSE CHOOSE s \in S : \A t \in S : t <= s
NoPaths == [paths |-> {}, at |-> 0]
NotImporting == [pc |-> "idle", full |-> FALSE, want |-> 0, bundle |-> [g \in Titles |-> NoPaths]]
NoAnswer == [pc |-> "none", since |-> 0, games |-> [g \in Titles |-> NoPaths], deleted |-> {}, late |-> {}]

\* The server has merged a first bundle; the client has nothing yet.
ManifestInit ==
  /\ clock = 1
  /\ asset = [g \in Titles |-> [paths |-> {CHOOSE p \in Locations : TRUE}, at |-> 1]]
  /\ exported = 1 /\ indexed = 1 /\ merged = 1 /\ indexETag = 1
  /\ rows = [g \in Titles |-> [p \in Locations |-> IF p \in asset[g].paths THEN 1 ELSE 0]]
  /\ gameAt = [g \in Titles |-> 1] /\ tombs = [g \in Titles |-> 0]
  /\ importing = NotImporting
  /\ cache = [g \in Titles |-> NoPaths] /\ answer = NoAnswer
  /\ mishaps = 0 /\ overlooked = {} /\ gutted = FALSE

TimePasses ==
  /\ clock < LastSecond /\ clock' = clock + 1
  /\ UNCHANGED <<publisherVars, mirrorVars, copyVars, mishaps, overlooked>>

Mishap == mishaps < MaxMishaps /\ mishaps' = mishaps + 1

---------------------------------------------------------------------------
(* The publisher: the bundle first, the index after it. *)

InCatalogue(b, g) == b[g].at > 0

\* A game's page was read anew, with other paths or none, or is gone.
ExportBundle ==
  /\ exported < MaxExports
  /\ \E g \in Titles, paths \in SUBSET Locations :
       \E new \in {[paths |-> paths, at |-> clock], NoPaths} :
         /\ new # asset[g] /\ (new = NoPaths => \E h \in Titles \ {g} : InCatalogue(asset, h))
         /\ asset' = [asset EXCEPT ![g] = new]
  /\ exported' = exported + 1
  /\ UNCHANGED <<clock, indexed, mirrorVars, copyVars, mishaps, overlooked>>

ExportIndex ==
  /\ indexed < exported /\ indexed' = exported
  /\ UNCHANGED <<clock, asset, exported, mirrorVars, copyVars, mishaps, overlooked>>

---------------------------------------------------------------------------
(* The client's cache and the answer on its way to it. *)

Cursor(c) == NewestOf({c[g].at : g \in {h \in Titles : c[h].paths # {}}})
CacheComplete == \E g \in Titles : cache[g].paths # {}
Carried == {g \in Titles : answer.games[g].paths # {}}

\* Mutant: paths are added to a game, never taken away.
MergedAdding(g) ==
  IF g \in Carried THEN [answer.games[g] EXCEPT !.paths = @ \cup cache[g].paths]
  ELSE IF Carried = {} /\ g \in answer.deleted THEN NoPaths
  ELSE cache[g]

\* A game in the answer replaces the cached one whole.  Deletions are applied
\* and then overwritten when the answer carries games too.
MergedGame(g) ==
  IF g \in Carried THEN answer.games[g]
  ELSE IF Carried = {} /\ g \in answer.deleted THEN NoPaths
  ELSE cache[g]

\* The cache once the answer is merged: a full one replaces it.
Coming == IF answer.since = 0 THEN answer.games ELSE [g \in Titles |-> MergedGame(g)]

---------------------------------------------------------------------------
(* The server. *)

HasRows(g) == \E p \in Locations : rows[g][p] > 0
NewestRow(g) == NewestOf({rows[g][p] : p \in Locations})
Day(s) == s \div DayLength

\* Mutant: the index's ETag is stored when the index is read.
FetchIndexEagerly ==
  /\ importing.pc = "idle" /\ indexETag # indexed /\ merged < indexed
  /\ importing' = [NotImporting EXCEPT !.pc = "download", !.want = indexed]
  /\ indexETag' = indexed
  /\ UNCHANGED <<clock, publisherVars, gutted, rows, gameAt, tombs, merged, copyVars, mishaps, overlooked>>

\* An index already known, or of a version already merged, is the end of it.
FetchIndex ==
  /\ importing.pc = "idle" /\ indexETag # indexed
  /\ IF merged < indexed
       THEN importing' = [NotImporting EXCEPT !.pc = "download", !.want = indexed] /\ UNCHANGED indexETag
       ELSE indexETag' = indexed /\ UNCHANGED importing
  /\ UNCHANGED <<clock, publisherVars, gutted, rows, gameAt, tombs, merged, copyVars, mishaps, overlooked>>

\* The bundle must be the one the index has the hash of.
Download ==
  /\ importing.pc = "download"
  /\ importing' = IF exported = importing.want THEN [importing EXCEPT !.pc = "rows", !.bundle = asset] ELSE NotImporting
  /\ UNCHANGED <<clock, publisherVars, gutted, rows, gameAt, tombs, merged, indexETag, copyVars, mishaps, overlooked>>

\* History: of the games just written or deleted, those whose change no delta
\* will bring, by what the client has, or by what it will have once the answer
\* on its way to it is merged.
Noted(gs, Behind(_, _)) ==
  /\ overlooked' = overlooked \cup {g \in gs : CacheComplete /\ Behind(g, Cursor(cache))}
  /\ answer' = [answer EXCEPT !.late = @ \cup {g \in gs : answer.pc # "none" /\ Behind(g, Cursor(Coming))}]

\* A game went: its tombstone, if it has one, is not of a later day.
Unseen(g, cursor) == Day(tombs'[g]) <= Day(cursor)

\* An admin's upload in mode full_replace: the tables are emptied (the trigger
\* leaves a tombstone for every game it has a row of) before the bundle is read in.
FullReplace ==
  /\ Mishap /\ importing.pc = "idle"
  /\ rows' = [g \in Titles |-> [p \in Locations |-> 0]]
  /\ tombs' = [g \in Titles |-> IF gameAt[g] > 0 THEN clock ELSE tombs[g]]
  /\ gameAt' = [g \in Titles |-> 0]
  /\ Noted({g \in Titles : HasRows(g)}, Unseen)
  /\ importing' = [NotImporting EXCEPT !.pc = "rows", !.full = TRUE, !.want = merged, !.bundle = asset]
  /\ UNCHANGED <<clock, publisherVars, gutted, merged, indexETag, cache>>

\* One transaction: rows are added and overwritten, none is taken away; each
\* keeps the publisher's time stamp.
ImportRows ==
  /\ importing.pc = "rows"
  /\ LET new(g) == {p \in importing.bundle[g].paths : rows[g][p] # importing.bundle[g].at}
     IN /\ rows' = [g \in Titles |-> [p \in Locations |-> IF p \in new(g) THEN importing.bundle[g].at ELSE rows[g][p]]]
        /\ Noted({g \in Titles : new(g) # {}}, LAMBDA g, cursor : importing.bundle[g].at <= cursor)
  /\ gutted' = FALSE
  /\ importing' = [importing EXCEPT !.pc = "games"]
  /\ UNCHANGED <<clock, publisherVars, gameAt, tombs, merged, indexETag, cache, mishaps>>

\* The games, those of another revision than the server's: their time is now.
ImportGames ==
  /\ importing.pc = "games"
  /\ \E changed \in SUBSET {g \in Titles : InCatalogue(importing.bundle, g)} :
       /\ \A g \in Titles : InCatalogue(importing.bundle, g) /\ gameAt[g] = 0 => g \in changed
       /\ gameAt' = [g \in Titles |-> IF g \in changed THEN clock ELSE gameAt[g]]
  /\ importing' = [importing EXCEPT !.pc = "reconcile"]
  /\ UNCHANGED <<clock, publisherVars, gutted, rows, tombs, merged, indexETag, copyVars, mishaps, overlooked>>

\* Games the bundle's catalogue does not have go, with a tombstone: unless they
\* are too many.
ToDelete == {g \in Titles : gameAt[g] > 0 /\ ~InCatalogue(importing.bundle, g)}
TooMany == ReconcileShare * Cardinality(ToDelete) > Cardinality({g \in Titles : gameAt[g] > 0})
Reconcile ==
  /\ importing.pc = "reconcile"
  /\ LET gone == IF TooMany \/ importing.full THEN {} ELSE ToDelete
     IN /\ rows' = [g \in Titles |-> IF g \in gone THEN [p \in Locations |-> 0] ELSE rows[g]]
        /\ gameAt' = [g \in Titles |-> IF g \in gone THEN 0 ELSE gameAt[g]]
        /\ tombs' = [g \in Titles |-> IF g \in gone THEN clock ELSE tombs[g]]
        /\ Noted(gone, Unseen)
  /\ importing' = [importing EXCEPT !.pc = "done"]
  /\ UNCHANGED <<clock, publisherVars, gutted, merged, indexETag, cache, mishaps>>

ImportDone ==
  /\ importing.pc = "done"
  /\ merged' = importing.want
  /\ indexETag' = IF importing.full THEN indexETag ELSE importing.want
  /\ importing' = NotImporting
  /\ UNCHANGED <<clock, publisherVars, gutted, rows, gameAt, tombs, copyVars, mishaps, overlooked>>

\* Mutant: the version counts as merged when its import breaks off.
ImportCutCounts ==
  /\ Mishap /\ importing.pc # "idle"
  /\ merged' = importing.want /\ importing' = NotImporting
  /\ UNCHANGED <<clock, publisherVars, gutted, rows, gameAt, tombs, indexETag, copyVars, overlooked>>

\* A time limit, a cancel, a restart: what is written stays written.
ImportCut ==
  /\ Mishap /\ importing.pc # "idle"
  /\ importing' = NotImporting /\ gutted' = (gutted \/ (importing.full /\ importing.pc = "rows"))
  /\ UNCHANGED <<clock, publisherVars, rows, gameAt, tombs, merged, indexETag, copyVars, overlooked>>

---------------------------------------------------------------------------
(* The client. *)

\* What the server has after a time: by game, with the game's own time (v2), or
\* row by row with theirs (v1).
Selected(since) == {g \in Titles : NewestRow(g) > since}
AnswerV2(since) ==
  [pc |-> "v2", since |-> since,
   games |-> [g \in Titles |-> IF g \in Selected(since) THEN [paths |-> {p \in Locations : rows[g][p] > 0}, at |-> gameAt[g]]
                               ELSE NoPaths],
   deleted |-> IF since = 0 THEN {} ELSE {g \in Titles : Day(tombs[g]) > Day(since)}, late |-> {}]
AnswerV1(since) ==
  [pc |-> "v1", since |-> since,
   games |-> [g \in Titles |-> IF g \in Selected(since) THEN [paths |-> {p \in Locations : rows[g][p] > since}, at |-> NewestRow(g)]
                               ELSE NoPaths],
   deleted |-> {}, late |-> {}]

\* A forced refresh, or an empty cache, asks for everything.  More games than
\* fit a page: the client takes the first page for the last, finds it short
\* and falls back to v1.
Fetch ==
  /\ answer.pc = "none"
  /\ \E since \in {0, Cursor(cache)} :
       answer' = IF Cardinality(Selected(since)) <= PageCap THEN AnswerV2(since) ELSE AnswerV1(since)
  /\ UNCHANGED <<clock, publisherVars, mirrorVars, cache, mishaps, overlooked>>

FetchFallsBack ==
  /\ Mishap /\ answer.pc = "none"
  /\ \E since \in {0, Cursor(cache)} : answer' = AnswerV1(since)
  /\ UNCHANGED <<clock, publisherVars, mirrorVars, cache, overlooked>>

AnswerLost ==
  /\ Mishap /\ answer.pc # "none" /\ answer' = NoAnswer
  /\ UNCHANGED <<clock, publisherVars, mirrorVars, cache, overlooked>>

\* An answer without games and without deletions leaves the cache alone.
MergeAnswer ==
  /\ answer.pc # "none"
  /\ cache' = Coming
  /\ overlooked' =
       answer.late \cup
       IF answer.since = 0 THEN {}
       ELSE (overlooked \ Carried)
            \cup {g \in Titles \ Carried : ~HasRows(g) /\ cache[g].paths # {} /\ (answer.pc = "v1" \/ Carried # {})}
            \cup {g \in answer.deleted \ Carried : HasRows(g)}
  /\ answer' = NoAnswer
  /\ UNCHANGED <<clock, publisherVars, mirrorVars, mishaps>>

---------------------------------------------------------------------------
ImportStep == FetchIndex \/ Download \/ ImportRows \/ ImportGames \/ Reconcile \/ ImportDone

ManifestNext ==
  \/ TimePasses \/ ExportBundle \/ ExportIndex
  \/ ImportStep \/ ImportCut \/ FullReplace
  \/ Fetch \/ FetchFallsBack \/ AnswerLost \/ MergeAnswer

\* The export is a script that runs to its end; the fetch is asked for again
\* and again by its schedule.
ManifestFairness == WF_manifestVars(ExportIndex) /\ WF_manifestVars(ImportStep)

ManifestSpec == ManifestInit /\ [][ManifestNext]_manifestVars /\ ManifestFairness

---------------------------------------------------------------------------
(* Properties. *)

ManifestTypeOK ==
  /\ clock \in Seconds /\ exported \in 0 .. MaxExports /\ indexed \in 0 .. exported
  /\ rows \in [Titles -> [Locations -> Seconds]]
  /\ gameAt \in [Titles -> Seconds] /\ tombs \in [Titles -> Seconds]
  /\ merged \in 0 .. MaxExports /\ indexETag \in 0 .. MaxExports
  /\ cache \in [Titles -> [paths : SUBSET Locations, at : Seconds]] /\ overlooked \subseteq Titles

\* A server that counts a version as merged has its rows: whichever imports
\* broke off before it (pcgw_bundle_indexed.go:108-111); but for a full_replace
\* that was cut after it had emptied the tables.
MergedIsImported ==
  merged = exported /\ importing.pc = "idle" /\ ~gutted =>
    \A g \in Titles : \A p \in asset[g].paths : rows[g][p] = asset[g].at

\* Every published bundle is merged in the end, although an import may break
\* off, a bundle be newer than the index that led to it, and an index that did
\* not change be skipped (pcgw_bundle_indexed.go:16-26).
BundlesArrive == []<>(merged = indexed)

\* What the client does not have will be in the next delta: a game whose current
\* paths it lacks, or of which it has a path the server does not, has a row
\* newer than the client's newest; but for the changes that came with a stamp the
\* client had already passed, and the deletions no delta shows.
DeltaWillTell ==
  \A g \in Titles :
    LET current == {p \in Locations : rows[g][p] > 0 /\ rows[g][p] = NewestRow(g)}
        differs == \/ ~(current \subseteq cache[g].paths)
                   \/ \E p \in cache[g].paths : rows[g][p] = 0
    IN CacheComplete /\ differs =>
         \/ NewestRow(g) > Cursor(cache)
         \/ ~HasRows(g) /\ Day(tombs[g]) > Day(Cursor(cache))
         \/ g \in overlooked
=============================================================================
