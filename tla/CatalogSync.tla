---------------------------- MODULE CatalogSync ----------------------------
(***************************************************************************)
(* The PCGamingWiki mirror of the publishing server: one sync run at a time *)
(* (server/job/pcgw_persist.go, pcgw_catalog.go) over three tables of the   *)
(* store (server/store/pcgw_catalog.go, pcgw.go): pcgw_catalog, the pages   *)
(* known to exist with their failures; pcgw_games, one row per page with    *)
(* the revision it was read at; game_save_locations, what the clients get.  *)
(*                                                                         *)
(* A run lists the wiki's pages (phase 1), builds a queue of the pages that *)
(* are missing, failed or changed, and ingests as many as its budget allows *)
(* (phase 2).  The wiki is edited meanwhile; a run can be cancelled, or the *)
(* server restarted, between any two writes.                                *)
(*                                                                         *)
(* Every wiki page has the section with the save paths, and a title.        *)
(***************************************************************************)
EXTENDS Naturals, FiniteSets, Functions, Sequences

CONSTANTS
  MaxPages,   \* bound: pages the wiki ever has
  MaxRevs,    \* bound: revisions of a page
  DeadAfter,  \* deadLetterThreshold (5 in the code)
  PageBudget, \* MaxPagesPerRun (5000 by default)
  ValveShare, \* one over the share of pages a run may delete (4 in the code)
  MaxFaults   \* bound: removed pages, requests of an admin, cancels, restarts and
              \* refused requests outside a page, together

ASSUME CatalogBounds ==
  /\ MaxPages \in Nat \ {0} /\ MaxRevs \in Nat \ {0}
  /\ DeadAfter \in Nat \ {0} /\ PageBudget \in Nat \ {0} /\ ValveShare \in Nat \ {0} /\ MaxFaults \in Nat

VARIABLES
  wiki,       \* external: each page's revision; 0 before it exists, Removed after
  catalog,    \* pcgw_catalog: the pages with a row
  retries,    \* retry_count; DeadAfter is dead_letter = 1
  gameRow,    \* pcgw_games: last_rev_id and parse_status
  paths,      \* game_save_locations: the revision they were projected from
  window,     \* the wiki pages touched since last_rev_check_at
  windowAge,  \* how old last_rev_check_at is
  lastPhase1, \* remote_total_ids and catalog_hash of the last successful run
  resumeTotal, \* remote_total_ids of the latest interrupted run; 0: none
  syncRun,    \* the run in progress
  faults,     \* bookkeeping of the bound MaxFaults
  torn,       \* history: pages whose ingest was cut, overtaken by an edit or
              \* failed without its row being put back
  dropped     \* history: touched pages that no longer are in window or queue

catalogVars == <<wiki, catalog, retries, gameRow, paths, window, windowAge, lastPhase1,
                 resumeTotal, syncRun, faults, torn, dropped>>
wikiUnchanged == UNCHANGED <<wiki, window, windowAge>>

Pages == 1 .. MaxPages
Removed == MaxRevs + 1
Revs == 0 .. MaxRevs
Exists(p) == wiki[p] \notin {0, Removed}
NoGame == [rev |-> 0, status |-> "none"]
NoSync == [pc |-> "idle", mode |-> "none", total |-> 0, hash |-> {}, grew |-> FALSE, queue |-> <<>>,
           hint |-> [p \in Pages |-> 0], done |-> 0, failed |-> FALSE, text |-> 0, rev |-> 0, canceled |-> FALSE]

CatalogInit ==
  /\ wiki = [p \in Pages |-> IF p = 1 THEN 1 ELSE 0]
  /\ catalog = {1} /\ retries = [p \in Pages |-> 0]
  /\ gameRow = [p \in Pages |-> IF p = 1 THEN [rev |-> 1, status |-> "ok"] ELSE NoGame]
  /\ paths = [p \in Pages |-> IF p = 1 THEN 1 ELSE 0]
  /\ window = {} /\ windowAge = "recent"
  /\ lastPhase1 = [total |-> 1, hash |-> {1}] /\ resumeTotal = 0
  /\ syncRun = NoSync /\ faults = 0 /\ torn = {} /\ dropped = {}

---------------------------------------------------------------------------
(* The wiki. *)

Fault == faults < MaxFaults /\ faults' = faults + 1
Listed == {p \in Pages : Exists(p)}

\* Touching a page while it is read: the text is of one revision, the number
\* recorded with it of the next.
TouchPage(p, rev) ==
  /\ wiki' = [wiki EXCEPT ![p] = rev]
  /\ window' = window \cup {p}
  /\ torn' = IF syncRun.pc = "read" /\ Head(syncRun.queue) = p THEN torn \cup {p} ELSE torn
  /\ dropped' = dropped \ {p}
  /\ UNCHANGED <<catalog, retries, gameRow, paths, windowAge, lastPhase1, resumeTotal, syncRun>>

WikiCreates(p) == wiki[p] = 0 /\ (\A q \in Pages : q < p => wiki[q] # 0) /\ TouchPage(p, 1) /\ UNCHANGED faults
WikiEdits(p) == Exists(p) /\ wiki[p] < MaxRevs /\ TouchPage(p, wiki[p] + 1) /\ UNCHANGED faults
WikiRemoves(p) == Exists(p) /\ TouchPage(p, Removed) /\ Fault

\* Seven days pass without a check; a month only when the server was away.
WindowAges ==
  /\ \/ windowAge = "recent" /\ windowAge' = "due" /\ UNCHANGED faults
     \/ windowAge = "due" /\ windowAge' = "stale" /\ Fault
  /\ UNCHANGED <<wiki, catalog, retries, gameRow, paths, window, lastPhase1, resumeTotal, syncRun, torn, dropped>>

---------------------------------------------------------------------------
(* What the store answers. *)

Parked(p) == retries[p] = DeadAfter
Missing == {p \in catalog : gameRow[p].status = "none" /\ ~Parked(p)}
FailedPartial == {p \in catalog : gameRow[p].status \in {"failed", "partial"} /\ ~Parked(p)}

\* The end of a run: what it still had to do for the window is nobody's now.
Stale(p) == Exists(p) /\ gameRow[p].status = "ok" /\ gameRow[p].rev # wiki[p]
LeftBehind == {p \in Pages : Stale(p) /\ p \notin window /\ (p \in Range(syncRun.queue))}
EndSync(status) ==
  /\ syncRun' = NoSync
  /\ lastPhase1' = IF status = "success" /\ syncRun.total > 0
                     THEN [total |-> syncRun.total, hash |-> syncRun.hash] ELSE lastPhase1
  /\ resumeTotal' = IF status = "interrupted" /\ syncRun.mode = "incremental" THEN syncRun.total ELSE resumeTotal
  /\ dropped' = dropped \cup LeftBehind

---------------------------------------------------------------------------
(* Starting, and phase 1. *)

Seeded == \E p \in Pages : gameRow[p].status # "none"
Modes == {"incremental", "full", "retry", "missing", "catalog"}

\* An incremental run takes up an interrupted one, and then does not list the
\* wiki, as long as the catalogue has as many rows as that run knew of.
SyncBegins(mode) ==
  /\ syncRun.pc = "idle" /\ Seeded
  /\ IF mode = "incremental" THEN UNCHANGED faults ELSE Fault
  /\ LET resumed == mode = "incremental" /\ resumeTotal > 0 /\ Cardinality(catalog) >= resumeTotal
     IN syncRun' = [NoSync EXCEPT !.mode = mode,
                      !.pc = IF mode \in {"retry", "missing"} THEN "queue" ELSE IF resumed THEN "verify" ELSE "catalog",
                      !.total = IF resumed THEN resumeTotal ELSE IF mode \in {"retry", "missing"} THEN lastPhase1.total ELSE 0,
                      !.hash = IF mode \in {"retry", "missing"} THEN lastPhase1.hash ELSE {}]
  /\ wikiUnchanged /\ UNCHANGED <<catalog, retries, gameRow, paths, lastPhase1, resumeTotal, torn, dropped>>

\* One page, whatever its state: the admin's refresh.
SyncOnePage(p) ==
  /\ Fault /\ syncRun.pc = "idle" /\ Seeded /\ p \in catalog
  /\ syncRun' = [NoSync EXCEPT !.mode = "single", !.pc = "ingest", !.queue = <<p>>]
  /\ wikiUnchanged /\ UNCHANGED <<catalog, retries, gameRow, paths, lastPhase1, resumeTotal, torn, dropped>>

\* RunCatalogScan, from the first page.
ScanAll(pc) ==
  /\ catalog' = catalog \cup Listed
  /\ syncRun' = [syncRun EXCEPT !.pc = pc, !.total = Cardinality(Listed), !.hash = catalog \cup Listed, !.grew = TRUE]

\* ScanCatalogTail: the pages after as many as the catalogue has rows.
PagesBeyond(n) == {p \in Listed : Cardinality({q \in Listed : q < p}) >= n}
ScanTail ==
  LET new == PagesBeyond(Cardinality(catalog))
  IN /\ catalog' = catalog \cup new
     /\ syncRun' = [syncRun EXCEPT !.pc = "verify", !.total = lastPhase1.total + Cardinality(new),
                                   !.hash = catalog \cup new, !.grew = TRUE]

\* runCatalogPhase: list everything, or ask for a page beyond the last one known.
RunCatalogPhase ==
  /\ syncRun.pc = "catalog" /\ ~syncRun.canceled
  /\ IF syncRun.mode = "full" \/ lastPhase1.total = 0 \/ catalog = {}
       THEN ScanAll("verify")
       ELSE IF PagesBeyond(Cardinality(catalog)) # {} THEN ScanTail
       ELSE /\ syncRun' = [syncRun EXCEPT !.pc = "verify", !.total = lastPhase1.total, !.hash = lastPhase1.hash]
            /\ UNCHANGED catalog
  /\ wikiUnchanged /\ UNCHANGED <<retries, gameRow, paths, lastPhase1, resumeTotal, faults, torn, dropped>>

\* The probe is refused: everything is listed.
ProbeFails ==
  /\ Fault /\ syncRun.pc = "catalog" /\ ~syncRun.canceled
  /\ ScanAll("verify")
  /\ wikiUnchanged /\ UNCHANGED <<retries, gameRow, paths, lastPhase1, resumeTotal, torn, dropped>>

\* The wiki does not answer, or the run is cancelled: before phase 2 the run is over.
CatalogPhaseEnds ==
  /\ syncRun.pc \in {"catalog", "verify"}
  /\ IF syncRun.canceled THEN EndSync("canceled") /\ UNCHANGED faults ELSE Fault /\ EndSync("failed")
  /\ wikiUnchanged /\ UNCHANGED <<catalog, retries, gameRow, paths, torn>>

\* Fewer rows than pages: everything is listed again.
VerifyCatalog ==
  /\ syncRun.pc = "verify" /\ ~syncRun.canceled
  /\ IF syncRun.total > 0 /\ Cardinality(catalog) < syncRun.total
       THEN ScanAll("queue")
       ELSE syncRun' = [syncRun EXCEPT !.pc = "queue"] /\ UNCHANGED catalog
  /\ wikiUnchanged /\ UNCHANGED <<retries, gameRow, paths, lastPhase1, resumeTotal, faults, torn, dropped>>

---------------------------------------------------------------------------
(* The queue. *)

\* The same catalogue as last time and no backlog: nothing to do, and no look
\* at the revisions either.
NothingToDo ==
  /\ syncRun.mode = "incremental"
  /\ Cardinality(catalog) >= syncRun.total
  /\ syncRun.hash # {} /\ syncRun.hash = lastPhase1.hash
  /\ Missing = {} /\ FailedPartial = {}

SyncSkips ==
  /\ syncRun.pc = "queue"
  /\ NothingToDo \/ syncRun.mode = "catalog"
  /\ EndSync("success")
  /\ wikiUnchanged /\ UNCHANGED <<catalog, retries, gameRow, paths, faults, torn>>

ChecksRevisions == syncRun.mode \in {"full", "incremental"} /\ (syncRun.mode = "full" \/ syncRun.grew \/ windowAge # "recent")

Ascending(S) == CHOOSE s \in [1 .. Cardinality(S) -> S] : \A i, j \in DOMAIN s : i < j => s[i] < s[j]
Fill(changed) ==
  LET missing == IF syncRun.mode = "retry" THEN {} ELSE Missing
      failed == (IF syncRun.mode = "missing" THEN {} ELSE FailedPartial) \ missing
  IN syncRun' = [syncRun EXCEPT !.pc = "ingest",
       !.queue = Ascending(missing) \o Ascending(failed) \o Ascending(changed \ (missing \cup failed)),
       !.hint = [p \in Pages |-> IF p \in changed /\ Exists(p) THEN wiki[p] ELSE 0]]

\* A queue without a look at the revisions.
BuildQueue ==
  /\ syncRun.pc = "queue" /\ syncRun.mode # "catalog" /\ ~NothingToDo /\ ~ChecksRevisions
  /\ Fill({})
  /\ wikiUnchanged /\ UNCHANGED <<catalog, retries, gameRow, paths, lastPhase1, resumeTotal, faults, torn, dropped>>

Checked == window' = {} /\ windowAge' = "recent"
BuildChangedQueue == syncRun.pc = "queue" /\ ~NothingToDo /\ ChecksRevisions

\* Mutant: a row is current whatever its status, and whatever it was read at.
CurrentRowBlind(p) == gameRow[p].status # "none"

\* applyRecentChanges: pages removed upstream are removed here, unless they are
\* more than a quarter of the catalogue; the others are queued, except those
\* whose row already is of the revision in the feed.
CurrentRow(p) == gameRow[p].rev = wiki[p] /\ gameRow[p].status = "ok"

ReadRecentChanges ==
  /\ BuildChangedQueue /\ windowAge # "stale"
  /\ LET gone == {p \in window \cap (catalog \cup {q \in Pages : gameRow[q].status # "none"}) : wiki[p] = Removed}
         deleted == IF catalog # {} /\ ValveShare * Cardinality(gone) > Cardinality(catalog) THEN {} ELSE gone
         changed == {p \in window : Exists(p) /\ ~CurrentRow(p)}
     IN /\ catalog' = (catalog \ deleted) \cup changed
        /\ gameRow' = [p \in Pages |-> IF p \in deleted THEN NoGame ELSE gameRow[p]]
        /\ paths' = [p \in Pages |-> IF p \in deleted THEN 0 ELSE paths[p]]
        /\ retries' = [p \in Pages |-> IF p \in deleted THEN 0 ELSE retries[p]]
        /\ torn' = torn \ deleted
        /\ Fill(changed)
  /\ Checked
  /\ UNCHANGED <<wiki, lastPhase1, resumeTotal, faults, dropped>>

\* buildChangedQueueSweep: the revision of every page stored as ok.
SweepRevisions ==
  /\ BuildChangedQueue
  /\ IF windowAge = "stale" THEN UNCHANGED faults ELSE Fault
  /\ Fill({p \in Pages : gameRow[p].status = "ok" /\ gameRow[p].rev # wiki[p]})
  /\ Checked
  /\ UNCHANGED <<wiki, catalog, retries, gameRow, paths, lastPhase1, resumeTotal, torn, dropped>>

\* Neither works; the time of the check is recorded all the same.
RevisionCheckFails ==
  /\ Fault /\ BuildChangedQueue
  /\ Fill({})
  /\ Checked
  /\ dropped' = dropped \cup {p \in window : Stale(p)}
  /\ UNCHANGED <<wiki, catalog, retries, gameRow, paths, lastPhase1, resumeTotal, torn>>

---------------------------------------------------------------------------
(* Phase 2: one page after another. *)

\* Nothing is left, or the budget is used up, or somebody cancelled.
IngestEnds ==
  /\ syncRun.pc = "ingest"
  /\ \/ syncRun.canceled /\ EndSync("canceled")
     \/ ~syncRun.canceled /\ syncRun.queue = <<>> /\ EndSync(IF syncRun.failed THEN "partial" ELSE "success")
     \/ ~syncRun.canceled /\ syncRun.queue # <<>> /\ syncRun.done >= PageBudget /\ EndSync("interrupted")
  /\ wikiUnchanged /\ UNCHANGED <<catalog, retries, gameRow, paths, faults, torn>>

NextPage(failed) ==
  [syncRun EXCEPT !.pc = "ingest", !.queue = Tail(@), !.hint[Head(syncRun.queue)] = 0,
                   !.done = @ + 1, !.failed = @ \/ failed, !.text = 0, !.rev = 0]
Single == syncRun.mode = "single"
Page == Head(syncRun.queue)
Counted(p) == IF retries[p] = DeadAfter THEN retries ELSE [retries EXCEPT ![p] = @ + 1]
Reading == syncRun.pc = "ingest" /\ syncRun.queue # <<>> /\ (Single \/ (~syncRun.canceled /\ syncRun.done < PageBudget))

\* Mutant: a page that could not be read leaves no row, and is not counted.
FetchFailsQuietly ==
  /\ Reading
  /\ syncRun' = NextPage(TRUE)
  /\ UNCHANGED <<gameRow, retries, paths, catalog, lastPhase1, resumeTotal, faults, torn, dropped>> /\ wikiUnchanged

\* The page cannot be read: a row without revision, so that it is retried and
\* no longer missing, and one failure more, which may park it.
FetchFails ==
  /\ Reading
  /\ IF syncRun.canceled THEN UNCHANGED <<gameRow, retries>>
     ELSE /\ gameRow' = [gameRow EXCEPT ![Page] = [rev |-> 0, status |-> "failed"]]
          /\ retries' = IF Single THEN retries ELSE Counted(Page)
  /\ syncRun' = NextPage(TRUE)
  /\ UNCHANGED <<paths, catalog, lastPhase1, resumeTotal, faults, torn, dropped>> /\ wikiUnchanged

FetchText ==
  /\ Reading /\ Exists(Page)
  /\ syncRun' = [syncRun EXCEPT !.pc = "read", !.text = wiki[Page]]
  /\ UNCHANGED <<gameRow, retries, paths, catalog, lastPhase1, resumeTotal, faults, torn, dropped>> /\ wikiUnchanged

\* The revision: the one change detection saw, or the page's now.
RevisionOf(p) == IF syncRun.hint[p] > 0 THEN syncRun.hint[p] ELSE wiki[p]

\* A write of the page fails: its failure is counted, if that can be written.
WriteFails ==
  /\ Fault /\ ~syncRun.canceled
  /\ retries' \in {retries, IF Single THEN retries ELSE Counted(Page)}
  /\ syncRun' = NextPage(TRUE)

\* UpsertPCGWGame fails, for the page or for the stub of one that could not be
\* read: the row stays what it was, and nothing brings the page back.
UpsertFails ==
  /\ Reading \/ syncRun.pc = "read"
  /\ WriteFails
  /\ dropped' = dropped \cup {p \in {Page} : Stale(p) /\ p \notin window}
  /\ UNCHANGED <<gameRow, paths, catalog, lastPhase1, resumeTotal, torn>> /\ wikiUnchanged

\* UpsertPCGWGame.  "bare": a page whose section with the paths did not parse
\* keeps the paths it had.
UpsertRow ==
  /\ syncRun.pc = "read" /\ ~syncRun.canceled /\ Exists(Page)
  /\ \E status \in {"ok", "partial", "bare"} :
       /\ gameRow' = [gameRow EXCEPT ![Page] = [rev |-> RevisionOf(Page), status |-> IF status = "bare" THEN "partial" ELSE status]]
       /\ IF status = "bare"
            THEN syncRun' = NextPage(FALSE) /\ retries' = IF Single THEN retries ELSE [retries EXCEPT ![Page] = 0]
            ELSE syncRun' = [syncRun EXCEPT !.pc = "row", !.rev = RevisionOf(Page)] /\ UNCHANGED retries
  /\ torn' = IF syncRun.hint[Page] > 0 THEN torn \ {Page} ELSE torn
  /\ UNCHANGED <<paths, catalog, lastPhase1, resumeTotal, faults, dropped>> /\ wikiUnchanged

\* The page went away between the two requests: no revision is known.
UpsertRowWithoutRevision ==
  /\ syncRun.pc = "read" /\ ~syncRun.canceled /\ wiki[Page] = Removed
  /\ gameRow' = [gameRow EXCEPT ![Page] = [rev |-> syncRun.hint[Page], status |-> "ok"]]
  /\ syncRun' = [syncRun EXCEPT !.pc = "row", !.rev = syncRun.hint[Page]]
  /\ UNCHANGED <<retries, paths, catalog, lastPhase1, resumeTotal, faults, torn, dropped>> /\ wikiUnchanged

\* Cancelled with the text in hand: no write is accepted any more.  The queue
\* is left as it is; the run ends with the next look at its context.
WriteRefused ==
  /\ syncRun.pc = "read" /\ syncRun.canceled
  /\ syncRun' = [syncRun EXCEPT !.pc = IF Single THEN "over" ELSE "ingest", !.text = 0]
  /\ UNCHANGED <<gameRow, retries, paths, catalog, lastPhase1, resumeTotal, faults, torn, dropped>> /\ wikiUnchanged

\* ReplaceGameSaveLocationsForGame, in one transaction.
ReplacePaths ==
  /\ syncRun.pc = "row" /\ ~syncRun.canceled
  /\ paths' = [paths EXCEPT ![Page] = syncRun.text]
  /\ torn' = IF syncRun.text >= syncRun.rev THEN torn \ {Page} ELSE torn \cup {Page}
  /\ retries' = IF Single THEN retries ELSE [retries EXCEPT ![Page] = 0]
  /\ syncRun' = NextPage(FALSE)
  /\ UNCHANGED <<gameRow, catalog, lastPhase1, resumeTotal, faults, dropped>> /\ wikiUnchanged

\* Mutant: the row keeps the revision when the paths were not written.
ReplaceFailsSilently ==
  /\ Fault /\ syncRun.pc = "row" /\ ~syncRun.canceled
  /\ retries' = IF Single THEN retries ELSE Counted(Page)
  /\ syncRun' = NextPage(TRUE)
  /\ UNCHANGED <<gameRow, paths, catalog, lastPhase1, resumeTotal, torn, dropped>> /\ wikiUnchanged

\* It fails: the row is put back to "failed" without a revision, so that the
\* page is read again.
ReplaceFails ==
  /\ Fault /\ syncRun.pc = "row" /\ ~syncRun.canceled
  /\ gameRow' = [gameRow EXCEPT ![Page] = [rev |-> 0, status |-> "failed"]]
  /\ retries' = IF Single THEN retries ELSE Counted(Page)
  /\ syncRun' = NextPage(TRUE)
  /\ UNCHANGED <<paths, catalog, lastPhase1, resumeTotal, torn, dropped>> /\ wikiUnchanged

\* UpsertPCGWMetadata, between the row and the paths, fails and nothing is
\* undone; or the paths cannot be replaced and the row cannot be put back.
RowStaysAhead ==
  /\ syncRun.pc = "row"
  /\ WriteFails
  /\ torn' = torn \cup {Page}
  /\ UNCHANGED <<gameRow, paths, catalog, lastPhase1, resumeTotal, dropped>> /\ wikiUnchanged

\* Cancelled between the two writes: neither the paths nor the mark is accepted.
ReplaceRefused ==
  /\ syncRun.pc = "row" /\ syncRun.canceled
  /\ torn' = torn \cup {Page}
  /\ syncRun' = [syncRun EXCEPT !.pc = IF Single THEN "over" ELSE "ingest", !.text = 0, !.rev = 0]
  /\ UNCHANGED <<gameRow, retries, paths, catalog, lastPhase1, resumeTotal, faults, dropped>> /\ wikiUnchanged

SingleEnds ==
  /\ syncRun.pc = "over"
  /\ EndSync("failed")
  /\ wikiUnchanged /\ UNCHANGED <<catalog, retries, gameRow, paths, faults, torn>>

---------------------------------------------------------------------------
(* The admin, and the process. *)

CancelSyncRun ==
  /\ Fault /\ syncRun.pc # "idle" /\ ~syncRun.canceled
  /\ syncRun' = [syncRun EXCEPT !.canceled = TRUE]
  /\ wikiUnchanged /\ UNCHANGED <<catalog, retries, gameRow, paths, lastPhase1, resumeTotal, torn, dropped>>

\* A crash: the run's row becomes "interrupted" at the start.
RestartSync ==
  /\ Fault /\ syncRun.pc # "idle"
  /\ torn' = IF syncRun.pc = "row" THEN torn \cup {Page} ELSE torn
  /\ syncRun' = NoSync
  /\ resumeTotal' = IF syncRun.mode = "incremental" /\ syncRun.total > 0 THEN syncRun.total ELSE resumeTotal
  /\ dropped' = dropped \cup LeftBehind
  /\ wikiUnchanged /\ UNCHANGED <<catalog, retries, gameRow, paths, lastPhase1>>

ResetDeadLetter ==
  /\ Fault /\ \E p \in Pages : Parked(p)
  /\ retries' = [p \in Pages |-> IF Parked(p) THEN 0 ELSE retries[p]]
  /\ wikiUnchanged /\ UNCHANGED <<catalog, gameRow, paths, lastPhase1, resumeTotal, syncRun, torn, dropped>>

CatalogStep ==
  \/ RunCatalogPhase \/ VerifyCatalog \/ SyncSkips \/ BuildQueue \/ ReadRecentChanges \/ SweepRevisions
  \/ FetchFails \/ FetchText \/ UpsertRow \/ UpsertRowWithoutRevision \/ WriteRefused
  \/ ReplacePaths \/ ReplaceRefused \/ SingleEnds \/ IngestEnds
  \/ syncRun.canceled /\ CatalogPhaseEnds

CatalogNext ==
  \/ \E p \in Pages : WikiCreates(p) \/ WikiEdits(p) \/ WikiRemoves(p) \/ SyncOnePage(p)
  \/ WindowAges \/ ProbeFails \/ CatalogPhaseEnds \/ RevisionCheckFails
  \/ UpsertFails \/ ReplaceFails \/ RowStaysAhead
  \/ \E mode \in Modes : SyncBegins(mode)
  \/ CatalogStep \/ CancelSyncRun \/ RestartSync \/ ResetDeadLetter

\* A run goes on, and the scheduled incremental run comes round again.
CatalogFairness == WF_catalogVars(CatalogStep) /\ SF_catalogVars(SyncBegins("incremental"))

CatalogSpec == CatalogInit /\ [][CatalogNext]_catalogVars /\ CatalogFairness

---------------------------------------------------------------------------
(* Properties. *)

CatalogTypeOK ==
  /\ wiki \in [Pages -> 0 .. Removed] /\ catalog \subseteq Pages /\ retries \in [Pages -> 0 .. DeadAfter]
  /\ gameRow \in [Pages -> [rev : Revs, status : {"none", "ok", "partial", "failed"}]]
  /\ paths \in [Pages -> Revs] /\ window \subseteq Pages /\ windowAge \in {"recent", "due", "stale"}
  /\ syncRun.mode \in Modes \cup {"none", "single"} /\ syncRun.done \in 0 .. PageBudget + 1
  /\ resumeTotal \in 0 .. MaxPages /\ faults \in 0 .. MaxFaults

\* A row that says its page was read at a revision has the paths of that
\* revision or of a later one: the row is written first, and a failure to write
\* the paths is undone (pcgw_persist.go:1158-1170).  But for pages cut between
\* the two writes by a cancel or a restart, pages edited between their text and
\* their revision, and pages whose metadata, between the two, or whose undoing
\* could not be written (pcgw_persist.go:1073, 1167).
RowTellsTruth ==
  \A p \in Pages :
    gameRow[p].status = "ok" => \/ paths[p] >= gameRow[p].rev \/ p \in torn
                                \/ syncRun.pc = "row" /\ Page = p

\* A page whose stored revision is not the wiki's is in the window that the next
\* check of the changes will read, or queued by the run that read it: the window
\* is closed as soon as it was read (pcgw_persist.go:411).  But for what a run
\* that stopped early had queued, for the window of a check that failed, and for
\* a page whose row could not be written.
NoForgottenChange ==
  \A p \in Pages : Stale(p) => p \in window \cup Range(syncRun.queue) \cup dropped

\* A page that is listed and never read is tried: it gets a row, or is parked
\* after so many failures, or leaves the catalogue.
MissingPagesAreTried == \A p \in Pages : p \in Missing ~> p \notin Missing
=============================================================================
