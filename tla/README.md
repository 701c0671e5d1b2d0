# GSBS in TLA+

GSBS (Game Sync & Backup Service) keeps game saves in step between machines. A
server stores one current file per *save slot* (user, game, path key) and a
history of its versions. On every machine a client watches the save
directories, uploads what changes and pulls what others changed. Around that
core stand a catalogue of save paths that the server mirrors and clients fetch,
background jobs, backups, accounts, device tokens and a client that replaces
itself. Nobody holds a lock across the network, and few parts hold one for as
long as an operation takes. What keeps saves from being lost is a set of small
protocols between goroutines, files, tables and requests.

This directory models those protocols from the Go source, checks the models
with TLC and proves what matters most with TLAPS. File and line numbers below
are relative to the repository.

    tlc -workers 2 -config MCSaveStore.cfg MCSaveStore.tla
    tlapm SaveStoreProofs.tla

`PROJECT.json` lists the components, the runs, the hazards, the lines every
definition stands for (`map`), and for every checked property one bug, written
as a "Variant with a bug" or "Mutant" next to the definition it would replace, that the
property catches.

## The system

Status: **m** modelled, **p** partly (what is missing is under "Not modelled"),
**–** not modelled.

| component | code | state | operations | module | |
|---|---|---|---|---|---|
| Save store | `server/store/sqlite.go`, `save_storage.go` | tables `saves`, `save_versions`; files under the save root; staged temp files | upsert, restore, delete, read with hash check, pruning, sweep at startup | `SaveStore` | p |
| Save API | `server/api/handler.go` | none of its own | push with `If-Hash` / `If-Absent`, pull, delete, restore, account, manifest | `SaveStore`, `DeviceSync`, `Archive`, `DeviceToken` | p |
| Client push path | `client/sync/client.go`, `pkg/retry` | attempt counter, request under way | `Push`, error classes | `DeviceSync`, `DeviceToken` | p |
| Client pull path | `client/sync/client.go`, `decide.go` | summary or blob in hand | `PullAndApply`, `DecidePull`, write, `ForceApply` | `DeviceSync`, `Archive` | p |
| Push-hash cache | `client/sync/push_hash_cache.go` | map slot to hash, JSON copy | mark, skip, seed, flush, evict | `DeviceSync` | m |
| Watcher | `client/sync/watcher.go`, `watcher_supervisor.go` | pending pushes, timers, rechecks | debounce, settle, defer, rescan, flush, restart | `UploadQueue` | m |
| Outbox | `client/sync/outbox.go` | JSON files | enqueue, retry, expiry, pause after a 401 | `UploadQueue` | m |
| Startup reconciliation | `client/sync/reconcile.go` | server hashes read at startup | upload missing, compare-and-swap newer | `DeviceSync` | m |
| Client conflict records | `client/sync/conflict.go` | JSON list | record, resolve, clear | `DeviceSync`, `TrayState` | p |
| Client main loop, its control | `client/run_sync.go`, `tray_common.go`, `tray_menu.go` | pause flag in memory and on disk, snooze, hook, loops | pause, snooze, resume, restart, sync now | `ClientControl`, `DeviceSync`, `UploadQueue`, `EventHub` | p |
| Tray state and menu | `client/tray_state.go`, `tray_hooks.go` | counts, marks, status, subscriptions | set, list again, notify, redraw | `TrayState` | p |
| Game watch | `client/gamewatch` | running game | defer, end | `UploadQueue` | p |
| Job runner | `server/job/runner.go` | flags, handles, run rows | run once, cancel, resume, catch up | `JobRunner` | m |
| Backup, restore | `server/job/backup.go`, `server/restore.go` | archives, database files | snapshot, archive, prune, restore | `Backups` | m |
| Integrity check | `server/store/integrity.go` | findings | scan, purge | `Backups` | m |
| Server schedule and settings | `server/runtime.go`, `schedule/pcgw_cron.go`, `store/admin_settings.go` | setting rows, what is in force | save, reschedule, wizard, start | `AdminSettings` | p |
| Device credentials | `client/token_refresh.go`, `secrets.go`, `login.go` | token in keyring, file, two memories | rotate, save, reload, log in, revoke | `DeviceToken` | m |
| Client encryption setting | `client/account_encryption.go`, `account_cache.go` | cache file, client's flag | ask, assume, ask later, enable | `Encryption` | m |
| Export and import | `server/webui/handlers_export_import.go`, `client/export.go` | archive | list, read, write, import | `Archive` | p |
| Cover cache | `server/webui/covers.go` | art, marker, map of locks | look, fetch under a lock, clear | `CoverCache` | m |
| Conflict centre | `server/store/conflicts.go`, `notify`, `inbox.go` | open rows, queue, inbox | record, supersede, resolve, notify | `ConflictCentre` | m |
| Event hub | `server/sse/hub.go`, `client/manifest.go` (`ListenSSE`) | streams, one-place channels | subscribe, evict, broadcast, pull | `EventHub` | m |
| Login protection | `server/auth/lockout.go`, `totp_replay.go` | windows, used codes | fail, lock, spend | `LoginLock`, `Accounts` | m |
| Web sessions and accounts | `server/auth/auth.go`, `webui/handlers_auth.go`, `handlers_settings.go` | sessions, secrets, codes | sign in, change, sign out | `Accounts` | p |
| Users and administration | `webui/handlers_admin.go`, `handlers_setup.go` | accounts, their rows and files | set up, register, delete | `Users` | p |
| Schema migrations | `server/store/migrate.go` | `user_version`, keys of slots | steps, merge, deferred file operations | `Migrations` | p |
| PCGamingWiki catalogue | `server/job/pcgw_persist.go`, `store/pcgw*.go` | catalogue, game rows, paths, window | list, check, ingest, park, resume | `CatalogSync` | p |
| Manifest and bundles | `client/manifest.go`, `store/pcgw_bundle.go`, `job/pcgw_bundle_*.go` | bundle, rows, stamps, client's copy | export, merge, delta | `ManifestFlow` | p |
| Client updater | `client/update*.go`, `single_instance*.go` | staged file, program files, instance lock | check, download, swap, hand over | `Updater` | m |
| Pull arithmetic, discovery, paths and rules, cryptography, request limiter, pages | `pkg/paths`, `pkg/saverule`, `pkg/crypto`, … | | | | – |

What is hard here:

- **Files beside a database.** SQLite serialises write transactions. Nothing
  serialises the save root with it: a file is renamed before the commit of its
  row, unlinked after the commit that removes the row, archived after the
  snapshot it belongs to, moved after the migration that renamed its key.
- **Checks outside the lock.** A precondition, a path, an open conflict, a
  listing, a setting or a running flag is read, the lock or transaction ends, and
  the result is used.
- **Shared memory of the device.** Debounce timers, the select loop, the
  startup reconciliation and the conflict page push through one hash cache. The
  precondition of a request is read from it when the request leaves, not when
  its sender decided to push.
- **Lost, late and repeated requests**: an upload that arrives after its sender
  gave up, a token whose rotation was not heard of, an import that broke off.
- **Several copies of one fact**: pause, encryption, schedule, token and menu are
  each kept in a file or table and in one or more memories.
- **Restarts of a part**: a loop is replaced while its goroutines still run, a
  server restarts between two writes, a program replaces its own file.
- **Edits at the wrong moment**: while an upload of the same file is under way,
  during startup, under a pause, while a game runs, while a conflict is open.

What makes each part correct, in a word: a slot is an atomic register with
conditional writes; rows, history and files agree or reads fail closed; an
upload never replaces what its device has not heard of; an edit stays somebody's
business until it arrives; a conflict is listed; a job runs once and its row
tells the truth; a device keeps a token that works; a catalogue row has the
paths it claims; a change reaches the clients; a backup restores what was there;
what is spent or signed out stays so; a migration, an update, a deletion either
happens as a whole or leaves what was there.

## Modules

| module | what it is |
|---|---|
| `SaveRegister` | abstract: one register per slot, conditional writes that take effect at one instant between request and answer, or not at all |
| `SaveStore` | the store in filesystem mode, with concurrent handlers, crashes and pruning; implements `SaveRegister` |
| `DeviceSync` | one slot from one device: file, client threads, cache, outbox, conflicts, and the server's slot as an atomic register |
| `UploadQueue` | from the edit of a file to its upload: watcher, timers, goroutines, outbox, and all that holds uploads back |
| `JobRunner` | the server's background jobs: flags, handles, rows, cancel, resume |
| `DeviceToken` | the device's token through rotation, stores, outages and requests |
| `CatalogSync` | the sync run over the wiki's pages and three tables |
| `ManifestFlow` | from the publisher's bundle over the server's rows to the client's manifest |
| `EventHub`, `ConflictCentre`, `Backups`, `Accounts`, `LoginLock`, `Migrations`, `Updater`, `Users`, `ClientControl`, `TrayState`, `AdminSettings`, `Encryption`, `Archive`, `CoverCache` | one component each, as in the table above |
| `SaveStoreProofs`, `DeviceSyncProofs`, `UploadQueueProofs` | theorems, each about the module of its name |
| `ProgressProofs` | about `JobRunner`, `DeviceToken`, `CatalogSync`, `ManifestFlow`, and their composition `MCProgress` |
| `ServerProofs` | about `ConflictCentre`, `CoverCache`, `EventHub`, `AdminSettings`, `Users`, `Accounts`, `LoginLock` |
| `ClientProofs` | about `Encryption`, `ClientControl`, `TrayState`, `Updater` |
| `StorageProofs` | about `Backups`, `Migrations`, `Archive` |
| `ServicesProofs` | the types of those fourteen, and what their composition `MCServices` keeps |
| `MCSaveStore`, `MCDeviceSync`, `MCUploadQueue` | instances for TLC |
| `MCProgress` | `JobRunner`, `DeviceToken`, `CatalogSync`, `ManifestFlow` side by side: those with liveness |
| `MCServices` | the fourteen components with safety properties only, side by side |

How they meet. `DeviceSync` runs a conditional upload as one atomic step of the
server (`Serve`); that is justified by `Refinement` in `SaveStoreProofs`: the
store, with all its windows, implements exactly such a register. `UploadQueue`
opens up what is one flag, `queued`, in `DeviceSync`, and takes from it only that an
upload is stored, refused or not answered. `ConflictCentre` keeps on the server
what `DeviceSync` records on the client; `TrayState` shows the latter.
`ClientControl` says when the rescans of `UploadQueue` must begin. `JobRunner`
runs what `CatalogSync` and `ManifestFlow` detail. The components in `MCProgress`
and `MCServices` share no variable: in a behaviour of these modules one
component runs and the others stay as they begin, so a run explores the sum of
the state spaces, not the product, and shows of each what a run of its own would.

### SaveStore and the code

| state | in the code |
|---|---|
| `row` | table `saves`: content hash, encrypted flag, size, storage path |
| `versions` | table `save_versions`; the blobs of old versions stay in the database |
| `file` | the save root, by storage path |
| `temps` | staged temp files, by the request that wrote them |
| `txOwner` | SQLite's write lock (`BEGIN IMMEDIATE`, `_txlock`) |
| `op` | a handler's local variables and its position |

An upsert is cut where another request or a crash can see a difference: *stage*
(begin, precondition, temp file), *promote* (limits, rename), *commit*, *drop
the old path*. Inside the write transaction nothing else is visible to others,
so its SQL statements are one step. A delete is read, commit, one unlink at a
time; a read is row, then file; a restore is two reads, then an upsert. `Abort`
is every error return. `Crash` loses the handlers and the uncommitted
transaction and keeps files; `Restart` sweeps the temp files.

Abstractions. All slots belong to one user and one game, so one quota covers
them and "delete the game" deletes any set of them. A blob is its plaintext
hash, a flag that says it is ciphertext, and a size. One path is shared, as
old releases left it: slots of the same relative name pointed at one file. The
check of the precondition that `handlePush` makes before it takes the body is
left out, because the one under the lock decides and refusing earlier changes
no state. Version numbers are bounded in the guard of `Stage` by `MaxVersion`.

### DeviceSync and the code

The threads are those of the client process. `Watchers` are debounce timers
(`pushDebounced`). `Main` is the goroutine of `runSyncInternal`: it pulls and
retries the outbox, one after the other. `Recon` is the goroutine of the startup
reconciliation. `Ui` is the handler that resolves conflicts.

| state | in the code |
|---|---|
| `srv`, `held` | the server's slot; history of what it has held |
| `file`, `rel` | the save file; how its mtime compares with `updated_at` |
| `cache`, `disk` | `lastPushedHash` in memory and in `push_hash_cache.json` |
| `queued` | the watcher's pending entry and its timer |
| `outbox` | entries of the slot, by file name |
| `conflict`, `rejected` | the record in `conflicts.json`, by the server hash it names; was it recorded by a 409 |
| `abandoned` | how an upload was given up: refused, timed out, or its outbox entry expired (kept for the properties) |
| `late` | requests that may still reach a server nobody listens to any more |
| `seen` | history of what the device has been told |
| `task` | what each thread is doing |

A push is ready, sent, stored, received. `Send` reads the cache for
`ShouldSkipPush` and for the precondition, in the order of the code; a retry
goes through `Send` again. `ConnectionLost`, `TimedOut`, `Reject` (409) and
`Refuse` (413) are the classes of error the code tells apart. `GaveUp` and
`Dropped` say what each caller does when a push is over. A pull reads the
summaries (or everything, when that call fails), decides, fetches, decides
again on the file as it is, writes, and marks the hash. `WritePulled` is a step
of its own because the code decides and then writes: the game may save in
between.

Abstractions. There is one slot and one device; other devices, the web UI and
restores are `OthersWrite` and `OthersDelete`, at any moment. A content is its
hash. Clocks enter only through the outcome of `DecidePull`'s comparison: `rel`
may come out "near" or on the side that the order of the two writes allows,
never the other. `RelSeenWith` gives a decision on a server state that is old by
now the outcomes that were possible then. A slot that changes and changes back
between two reads of a pull counts as unchanged. Two entry names are enough,
because `Enqueue` leaves at most the new entry and the one being retried.
Answers 409 and 413 change nothing on the server, so they arrive in the step
that decides them. A graceful shutdown is a crash after the steps it completes
(pushes of what is pending, a flush). Startup may find sync paused: then there
is no reconciliation (`Optional`) and the initial pull is skipped
(`PullFails`).

### UploadQueue and the code

| state | in the code |
|---|---|
| `events`, `watched`, `todo` | fsnotify's queue, the watched directories, what a rescan has still to visit |
| `pending`, `armed` | `w.pending` with its sequence numbers; timers that will still fire |
| `push` | each goroutine of `pushDebounced`, and `ProcessOutbox`, at its step |
| `emptied`, `settle` | the one-shot recheck of an empty file, the rechecks of a changing one |
| `outbox`, `batch`, `authFailed` | the entries, those of the pass under way, the pause after a 401 |
| `gate`, `deferred`, `wasQuiet`, `catchUp` | pause, quiet hours, metered connection; games running or snoozed; the ticker's memory; a resume's rescan |
| `missed`, `skipped` | history: what the queue never hears of, what a rescan passed over |

A timer may fire after it was stopped and while a newer one is queued, so
`pending` and `armed` are separate and an entry has a number. A push is cut at
each check it makes: start (pause, running game), read (locked, empty, gone),
settle, send, and the deferred cleanup, which removes the entry only if it is
its own. A retry of the outbox is a step of its own beside a flush at shutdown.

### Server jobs and the catalogue

`JobRunner`: `running` is the flag, `handles` the three maps of cancel functions
and row numbers, `runs` the goroutines, `asks` the callers between the first
look at the flag and the second (the database is asked without the mutex),
`cancelling` the admin between taking the handles and writing the two rows. The
manifest sync and the bundle fetch run through their own steps; jobs that only
work are `PlainJobs`. A restart turns rows left
running into interrupted ones.

`CatalogSync`: `catalog`, `gameRow` and `paths` are the three tables, `wiki` the
pages with their revisions (external), `window` the pages touched since
`last_rev_check_at`, `syncRun` the run with its queue and budget. Every write to a
table is a step, so that a cancel or a restart falls between any two; the text
of a page and its revision number are two requests, between which it may be
edited.

`ManifestFlow`: `asset` and `indexed` are the published bundle and its index,
`rows`, `gameAt` and `tombs` the server's tables with their stamps, `cache` the
client's copy, `answer` what is on its way. Stamps are small numbers; an import
keeps the publisher's stamp, as the code does, so rows need not come in the
order of their stamps. `Coming` is the client's copy once the answer that is on its
way is merged: the history `overlooked` measures a change by the cursor of that copy,
because that is what the client will ask with.

### The device beside its saves

`DeviceToken`: the server accepts some tokens; `ring` and `copy` are the keyring
and `secrets.enc`, `cfgToken` and `liveToken` the two memories. A rotation is ask,
save, set; a page loads and later saves the whole configuration; a keyring may be
away and return.

`ClientControl`: `paused` is the flag in memory and `saved` its copy in the file,
which differ while a click is between the two; `loop` is every run of the sync
loop, from the moment it was asked for to its end, with the flag of the
configuration it was given; `hook` the loop that owns `resumeCatchUpHook`;
`search` the rescans and reconciliations under way.

`TrayState`: `recorded` is the conflict file, `row`, `count`, `status` the state
under its lock, `updater` the goroutines between what they read and what they
write, `token` the one-place channel, `shown` what the menu was drawn from.

`Encryption`: `account` numbers the successive values of the account's flag, so
that the property can speak of an older answer; the code sees its parity only.
`party` is the loop's client and a command's, `lateAsker` the goroutines that go
on asking, `remembered` the cache file.

`Updater`: `part`, `digest`, `exe`, `exeOld`, `exeNew` are the files, `client` the
holder of the instance lock, `helper` the script or process that swaps, at its
step on each of three platforms. `CopyFails`, `MoveFails`, `SwapFails` and the machine's
stop fall between any two of them, and `RollBackFails` is the rename back that fails and
that nobody looks at. `hollow` is history: the machine was left without a program that way,
or stopped between the renames.

### The server beside its store

`EventHub` has the hub's set, the channels, and the device's end of them: a
channel of one place into a loop that may be paused, quiet or busy.
`ConflictCentre` cuts a refusal into look, then update or insert, in requests of
their own. `Backups` cuts a backup into snapshot, one file at a time and the
rename, the check into one row at a time, the restore into database, log and
files, beside uploads that promote and then commit; `Sealed` are the contents that
devices encrypt, whose hash is not that of the file, so that the check passes them
by (`Faulty`). `Accounts` has sign-ins in
two steps, and changes of password and second factor statement by statement.
`LoginLock` is the tracker's arithmetic in minutes, capped by the clock's
bound. `Migrations` has one step that merges keys and defers its file operations;
other steps are a transaction that commits or does not. `Users` cuts a deletion
into check, paths, rows and files; `flagged` are the accounts with integrity findings,
which a scan leaves and a deletion does not take. `AdminSettings` has one setting for each of
the three ways to come into force. `Archive` cuts export and import at every
save; `PromotesOnly` is an upload that replaced a file and did not commit, and `mixed` the
places where a row's meaning was lost that way or by an import. `CoverCache` has the map's entry and the locks apart, because the entry
goes before the waiters do.

Variables called history are written and never read by the actions; they
exist so that a property can name its exceptions. Each exception is something
the code is known not to cover; all are listed under "What the properties
leave out".

## Runs

| run | question | states |
|---|---|---|
| `store` | Do tables, files and limits agree, and is every slot a register? | 0.57 M |
| `store_delete_shared` | Is a shared legacy file kept while a row needs it? *Violated* | |
| `store_delete_race` | Is every row's file there, without sharing? *Violated* | |
| `device` | Is every edit still somebody's business, and nothing overwritten unseen? | 2.3 M |
| `device_arrival` | Does every edit arrive or surface? (fairness) | 0.20 M |
| `device_resolve` | Is the cache honest while the user resolves conflicts? | 0.96 M |
| `device_timeout` | Are uploads that time out kept like other failures? *Violated* | |
| `device_swap` | Does an upload replace only the version its sender compared with? *Violated* | |
| `device_await` | Is a save that a 409 rejected left to the user's choice? *Violated* | |
| `uploads` | Does an edit ever drop out of sight, does it leave the queue? (fairness) | 0.5 M |
| `progress` | Jobs, token, catalogue, manifest: is what they claim true, do they get somewhere? (fairness) | 0.29 M |
| `services` | The other fourteen components: each property below | 1.3 M |

What `uploads`, `progress` and `services` show, component by component:

| property | says |
|---|---|
| `NoEditOutOfSight`, `EditsLeaveTheQueue` | an edit is in an event, a queued push that will fire, a running push that has it, the outbox or a rescan that is due; and it leaves the queue |
| `OneRunPerJob`, `JobRowsTellTruth`, `JobsEnd` | one goroutine per job; "running" has somebody to finish it and "canceled" was cancelled; auto catch-up ends |
| `TokenKept`, `TokenHeals` | the stored token is good outside the swap; a 401 is healed again and again |
| `RowTellsTruth`, `NoForgottenChange`, `MissingPagesAreTried` | a row's revision has its paths; a changed page is in a window or a queue; a listed page is tried |
| `MergedIsImported`, `DeltaWillTell`, `BundlesArrive` | a version counted as merged is in the tables; a delta brings what the client lacks; every bundle is merged |
| `EventsGetThrough` | streams in the hub are open and within the cap; a push that a device heard of is pulled (the hub may drop a push on a full buffer) |
| `RefusedIsListed` | a refused push has an open row |
| `DamageIsRepairable` | a calm archive restores what was there; a finding is a damaged save that was not encrypted, and the other way round |
| `SpentStaysSpent` | a code works once; a changed password or factor signs the others out |
| `LockHasCause` | a lock needs its failures within the window, and is no longer than the cap |
| `MigrationKeepsSaves` | no content is lost in a merge of keys, wherever it fails |
| `UpdateLeavesAClient` | there is a program to start and a process that runs it, whichever one thing fails in the update, with two exceptions named below |
| `DeletionIsWhole` | an account goes with its rows and files or stays with them; only integrity findings outlive it |
| `ResumeCatchesUp` | whoever lifts a pause, edits made under it are looked for |
| `MenuTellsOfConflicts` | a menu that differs from the state has a redrawing on its way |
| `SettingsInForce` | the process works with what is saved |
| `PlaintextOnlyWhenTold` | a client with a passphrase uploads plaintext only when the newest answer says so |
| `ArchiveKeepsMeaning` | an entry's flag and hash are those of its bytes, in the archive and after an import, where nothing wrote to the place meanwhile |
| `CachedIsServed` | a request that had still to look serves what is cached without a second fetch |

Bounds, and why they are enough to be interesting:

- `store`: two handlers, two slots, two contents, one of them encrypted, with
  sizes 1 and 2. Every hazard listed is a race of two requests, or of one and a
  crash. The slots start on the shared file, so the migration of a path, the
  count of its references and the delete of both occur. The limit of 6 bytes is
  below what two slots with two versions each take, so it blocks, allows, and is
  already exceeded in different states. Retention is 1 or 2 with `MaxVersion`
  2: pruning removes something and spares the newest. Handlers are
  interchangeable, and so are slots (the initial state treats them alike), which
  the symmetry set uses.
- `store_delete_shared` has one handler and so shows that no race is needed;
  `store_delete_race` has no legacy slot and so shows that no sharing is needed.
- `device`: two contents, one watcher timer, two events of the world (edits,
  foreign writes, deletes, crashes). A lost edit takes an edit and one thing
  that interferes; what the client does is not bounded by events. Symmetry is
  over contents, which every definition treats alike. The same instance with
  two watcher timers was run once by hand (4.1 M states, no error) and is too
  slow to keep. There is one attempt and no late request: those are in `device_arrival`,
  and in the theorem `NoBlindOverwriteHolds`, which holds for any number of both.
- `device_arrival`: two attempts and one late request, so an upload is retried
  and its first copy may arrive after the second. No reconciliation, so that
  nothing but watcher and outbox can deliver the edit. No symmetry, because it
  checks liveness.
- `device_resolve`: the user resolves conflicts either way at any moment. The view leaves
  out `rejected` and `abandoned`, which no guard and no other variable's new value
  depends on and which `CacheHonest` does not mention.
- `device_swap`, `device_await` have three contents: file, slot and the version
  that was seen must all differ.
- `uploads`: one file, two edits and two troubles, two goroutines, which is
  what a stale timer, a replaced entry and a push that overlaps the next need.
  Six numbers and three entry names are never used up, so no guard on them hides
  a behaviour (`FreeSeqs`, `NamesInUse`).
- `progress`: two runs of jobs, so that a late write can meet a later run; one
  upset; three tokens, so that two rotations happen (the bug a comment tells of
  needed the second); two pages of two revisions with a budget of one, so that a
  queue is cut; two games with two paths, two bundles, a page limit of one, a day
  of two seconds, so that stamps collide.
- `services`: two of everything that can race (pushes, handlers, sign-ins,
  forms, viewers, updaters, loops, askers), one or two of what can fail; limits
  (queue, buffer, cap, inbox, archives kept) of one or two, so that they are
  reached. Three platforms for the updater, two systems' keys for the merge.
  The initial states of `Migrations`, `Updater`, `ClientControl`, `TrayState`,
  `AdminSettings`, `Encryption`, `Archive` and `CoverCache` are many, and all of
  them are taken where that component runs.

The runs of `DeviceSync` use the default policy `last_write_wins`. The proofs cover
any subset of the three policies (`NoEditIsForgotten`: any without `keep_local`),
any number of watchers, attempts and late requests.

Deadlock is checked in the store, device and upload runs: a server can always be asked to read,
to prune or to restart, and the select loop of a client always comes back to its
next pull. In `progress` and `services` it is not: these components wait for
requests, and once the bounded requests, faults and clicks are used up nothing
more need happen.

`OnlyDeletesLoseFiles`, `CommittedBytes` and `GrowthStaysWithinLimits` are
properties of steps; so are `NoBlindOverwrite`, `CompareAndSwap` and
`RejectedAwaitsTheUser`.

### Fairness

Only the runs that check liveness need it.

`device_arrival` (`FairSpec` of `DeviceSync`):

- *weak* fairness of debounce timers, of `Send` and of the steps of a pull that
  are under way: Go runs a runnable goroutine in the end, and a timer fires;
- *strong* fairness of an answer to a request that is sent again and again, for
  success and for rejection: a network that fails for ever refutes every
  delivery, so this is the assumption a retry loop is built on;
- *strong* fairness of `OutboxRetry`: the ticker fires for ever, the select loop
  is busy in between, and an entry is retried whenever it finds the loop idle.

Nothing is assumed about the game, other devices, crashes, pulls, flushes, the
startup or the user. `EditsArrive` therefore ends in arrival, or in a conflict
or an error that the user sees, or in a new edit, or in a stopped client.

`uploads`: weak fairness of the watcher's goroutine, of timers and of each
goroutine that pushes, without the troubles. Each is a goroutine or a timer of Go's
runtime. Nothing is assumed of the outbox, the user or the game, so
`EditsLeaveTheQueue` ends in the outbox, or under a pause, too.

`progress`: weak fairness of the steps of a run (`RunStep`), of a request, of the
sync run (`CatalogStep`), of the export's second step and of the import: each is
the next statement of a goroutine or script that has begun. Strong fairness of
`SyncBegins("incremental")`: the schedule asks again and again, and a run may be
busy when it does. Nothing is assumed of admins, the wiki, the network or restarts,
whose number is bounded, so an import that is repeated is not cut for ever.

## What is proved

Eight modules of proofs are checked by TLAPS to the last leaf, for any values of
the constants that satisfy the named `ASSUME`s of the modules they are about.
Nearly all of these are typing: distinct markers, natural bounds, limits and
retentions of at least one, finitely many slots, pages, games and keys. Three are more:

- in the store, an unencrypted content is determined by its hash, which is what
  SHA-256 is used for;
- in `Migrations`, the key of the merged slots is none of the old ones;
- in `ManifestFlow`, there is a location to have a path in, and a publisher that has
  made its first bundle (`MaxExports` is not 0), which is where its model begins.

TLC evaluates the same assumptions in the runs. Every invariant and every step
property that a passing run checks is a theorem; `NoForgottenEdit` alone with a
hypothesis, see below.
Each needs an inductive invariant, and those say why the code is right.

**SaveStore.** `Invariance` proves `Spec => []IInv`. `IInv` is more than the
properties, because they are not inductive alone:

- `LockInv`: a handler between stage and commit holds the write lock alone.
- `PreconditionInv`: so what it checked under the lock is still true. This is
  what makes a commit a conditional write at one instant.
- `PathInv`: a row's file is its slot's own or the shared one, and only the
  shared one is ever cleaned up after a commit. Hence cleaning never hits a file
  that was just promoted.
- `PromotedInv`: nobody overwrites a promoted file before its commit.
- `TempInv`: staged files and handlers match, and a stopped server has no
  handlers.
- `HistoryHead`, `ReadsFailClosed` and `TypeOK` themselves. `HistoryHead` needs
  the arithmetic of version numbers: the next is larger than all, and pruning,
  of either kind, spares the newest.
- `QuotaInv`, beside it: histories are finite, and the limits an upload passed
  before it was promoted still hold, since it keeps the write lock until its commit.

`GrowthStaysWithinLimitsHolds` compares sums over finite sets of any size.
`TotalIsCount` proves, by a smallest counterexample, that such a sum counts a
set of cells; removing rows and versions removes cells (`UsageShrinks`), so only a
commit can grow, and `QuotaInv` says what it has passed.

From `IInv` follow `TypeCorrect`, `HistoryHeadHolds`, `ReadsFailClosedHolds`,
`NoStrayTempsHolds`, the step properties `OnlyDeletesLoseFilesHolds` and
`CommittedBytesHolds`, and `Refinement`: the mapping sends a row to a register
and a handler to its request, the commit of an upsert to `Write`, the commit of
a delete to `Remove`, and every other step to an arrival, an end without effect
or a stutter.

**DeviceSync.** `DeviceInvariance` proves an invariant about knowledge: whatever
the device keeps, in the cache, on disk, in a conflict record, in a pull, as the
precondition of a request under way or late, is a hash that the server has told
it (`seen`), and the server has held all of those. `RetryInv` adds that the
select loop pushes only for outbox entries. Knowledge never shrinks, so a step
of one thread cannot disturb another's; this is the lemma `ThreadStep`, and each
action needs only its own part. `CacheHonestHolds` is a consequence.
`NoBlindOverwriteHolds` follows from what the server accepts: an upload changes
the slot only if the slot is empty or is the precondition, and the precondition
is known.

`NoEditIsForgotten` proves `NoForgottenEdit` under `Unattended`: the reconciliation
runs at startup, nobody resolves conflicts on the device, and the policy is not
`keep_local` (the instance of run `device` satisfies it). `EditInv` has to say more
than the property: an entry of the outbox counts only if it is not the one that the
select loop retries and will remove, perhaps with an older content (`Backed`), and a
file that is not newer than the slot will be looked at by the next pull. All of
`Unattended` is needed. A start that finds sync paused skips the reconciliation, and an
edit made while the client was down has then nobody. A resolution ends by clearing the records of its slot
(`conflict.go:186`), also one that a 409 of a later edit has made meanwhile. Under
`keep_local` a pull skips a file whose time is near the slot's, and the reconciliation
uploads only what is newer.

**UploadQueue.** `QueueTypeCorrect` proves the shape of every map, timer, entry and
goroutine. `batch` holds queued pushes while a shutdown flushes and outbox entries
otherwise, and the record a goroutine carries depends on its step, so that the shape
of a push and its place are proved together (`BatchTypes`, `PushRecords`).
`EditsStayInSight` proves `NoEditOutOfSight` from `EditInv`: an edit that no
upload has handled is in an event, a queued push whose timer will fire, a push that
has it, an outbox entry that *outlasts the retry under way*, or a rescan that is due.
`BatchInv` is what the outbox needs: an entry picked by a pass is backed by itself or
by one the pass has not picked.

**JobRunner** (`ProgressProofs`). `JobInvariance` proves `JobInv`, from which `OneRunPerJobHolds` and
`JobRowsTellTruthHolds` follow.

- `OneRunPerJob` is part of it: a goroutine begins only in the step that looks at
  the flag for the second time, under the mutex.
- `HandleInv`: a job's cancel function and row numbers are those of its one
  live goroutine, once it has registered. So what an admin's cancel takes from the
  maps belongs to a run that is there.
- `JobRowInv`: a row is "running" only before its goroutine's finish, and
  "canceled" only if the run was stopped or is over.
- `SyncRowInv` says for the second table which steps own a running row: a crawl,
  a resumed run before its first cycle, a bundle fetch.
- `CancelInv`: the row the admin will write late belongs to a run that was
  stopped. A later run of the job has a row of its own, so the late write cannot hit it.

`RunsGetNearer` is the part of `JobsEnd` that a step can show. `ToGo` counts the
steps a run has left at most: those from its place to the end, and three for every
cycle of auto catch-up that is left. Each step of a run lowers it, and nothing that a
caller, an admin, another run, a time limit or a restart does raises it. So the limit of
cycles alone bounds a run, whatever the backlog does; `RunsCycle` has to say that only a
run with cycles left looks at the backlog again. What remains for TLC is that such a run
always has a next step, and that fairness takes it.

**Catalogue** (`ProgressProofs`). `MirrorInvariance` proves `SyncInv`, and with it
`RowTellsTruth` and `NoForgottenChange`, which are inductive only together with:
`HintInv` (a revision that the check of changes has seen is the page's, or the page was
touched since), `RowInv` (between its two writes a row has the revision in hand),
`SingleInv` (an admin's refresh takes nothing from the window) and `QueueInv`. The
queue is sorted; `OrderExists` proves that a finite set of page numbers can be.

`SyncRunGetsNearer` bounds a run of the mirror likewise: `ToEnd` counts the phases
before the first page and three steps for every page that the budget leaves. An edit of
the wiki does not lengthen it, because it goes into the next run's window, not
into this run's queue; nor does a cancellation, which only cuts it. A write that fails
takes the page out of the queue too; what it leaves behind is in `torn` (a row ahead of
its paths) or `dropped` (a change nobody will come back to), which the two properties
except by name.

`MergedIsImportedHolds` rests on `FlowInv`: `ImportInv` says that an import brings a
version newer than the merged one, that the paths of its bundle are in the rows once they
are written, and that with the newest version merged the published paths are there,
unless a replacement of the whole was cut. `DeltaWillTellHolds` rests on `DeltaInv`: what the
client lacks, the rows newer than its cursor or the tombstones tell it, *and the same
holds of the copy it will have* when an answer under way is merged. Answers are computed
at one moment and merged at another, so the second half is what a merge needs.
The first attempt at this proof failed for good reasons, which TLC then
showed on a larger instance: the history had measured an import against the cursor
of the answer instead of that of the merged copy, and did not know of a game that a
`full_replace` drops without a tombstone.

**The two compositions.** `ProgressTypeCorrect` and `ServicesTypeCorrect` prove the
composed type invariants, `ProgressIsSafe` and `ServicesAreSafe` every safety property
of the eighteen components in a behaviour of the composition. `EachGoesAlone` and
`EachIsItself` show what that rests on: a behaviour of the composition is, to each
component, one of its own or nothing at all. The types bound counters, and some of those bounds are
arguments about the code:

- `RunsCycle`: the cycles and the streak of a run stay below their limits.
- `CatalogSmall`: what a run has counted of the wiki's list is at most the pages with a
  row or gone (`Totalled`), although the tail of the list is asked for by the number of
  rows and pages are removed meanwhile (`BeyondIsBeyond`); no run reads more pages
  than its budget (`Budgeted`).
- `FlowSmall`: an ETag is of an index there was.
- `ServicesTypeOK`: the notification queue and the inbox keep their limits, and what
  one variable says of another (a row's version, a stream's number, an archive's name)
  is of something there is, across restarts too.

**Server** (`ServerProofs`).

- `RefusedIsListedHolds` needs `CentreInv`: a device that is owed a row has an open
  one, or a handler that will still *insert* one or has not yet looked. A
  handler that found a row to refresh does not count, because that row may be closed
  before it writes; that is why the update's affected rows matter.
- `CachedIsServedHolds` needs `CoverInv`: a request keeps its claim to the art as long
  as the art is there and it is on a way that ends in serving it. It does not depend
  on how many locks there are, and so holds although the map's entry goes before the
  waiters do.
- `EventsGetThroughHolds` needs `HubInv`: streams in the hub are open, and what a
  device has heard is pulled, about to be, or asked for by a token in the channel,
  unless the loop put it off to its ticker. What a device hears is another matter: a
  full buffer drops a push, and a stream that was evicted hears no more.
- `SettingsInForceHolds` needs `SettingsInv`: for each of the three ways to come into
  force, what works is what is saved or somebody is on the way to change it, and
  before the wizard is over nobody saves.
- `DeletionIsWholeHolds` needs `RemovalInv`: files are removed of accounts that are
  gone and never come back; and `FindingsInv`: a scan under way, and what it
  has left, is of an account there is or was.
- `SpentStaysSpentHolds` needs `CodesInv` (a used code is known as used until it is no
  longer valid; a recovery code that is there, or yet to be made, is unused) and
  `Good`: a sign-in or device that is live and that the change under way has dealt with
  holds the current password and, with the factor on, has taken it.
- `LockHasCauseHolds` needs `CountInv`: the failures counted are the last ones, from
  the first of them on and within its window.

**Client** (`ClientProofs`, and `ProgressProofs` for the token).

- `TokenInvariance` proves `TokenInv`, and `TokenKeptHolds` follows. Without a mishap the
  two places agree, a page that is being edited holds what is stored (`StoreInv`), and
  what is stored or about to be saved is accepted (`AcceptedInv`). Not inductive
  without `IssuedInv`: a login that has not saved its token is the only one to have it,
  so no rotation can swap that token away.
- `PlaintextOnlyWhenToldHolds` needs `PartiesInv` (what a client goes by is an answer, the
  cache, or the assumption), `AnswersInv` (an answer on its way is a value the account
  has had) and `CacheInv` (unless the cache slipped, it holds the newest answer).
- `ResumeCatchesUpHolds` needs `ControlInv`: unless a loop overran its successor, one
  runs at most, beside none that stops, the hook is that of the loop that watches
  (`LoopsInv`), and who lifted the pause has yet to search or a search is under way.
- `MenuTellsOfConflictsHolds` needs `TrayInv`: what the menu does not show, a token in
  the channel or a goroutine between its write and its notice will make it show.
- `UpdateLeavesAClientHolds` needs `UpdaterInv`: two installs never work at once, one of
  the files is a program at every step of the swap, and a process that ends leaves
  another behind.

**Storage** (`StorageProofs`).

- `DamageIsRepairableHolds` needs `BackupsInv`: a calm run's archive has, or will find,
  what its rows stand for; a restore unpacks that archive's files and no others; what
  a check has read of a save nobody touched is what there is.
- `MigrationKeepsSavesHolds` needs `MigrationInv`: before the merging step nothing
  has moved; after it, every slot is where the merge put it, or the file operation
  that takes it there is still deferred, unless the program was cut short there.
- `ArchiveKeepsMeaningHolds` needs `ArchiveInv`: what is listed and not yet read, is an
  entry or is known to be omitted, and everything not known to be torn has the flag
  and hash of its bytes.

Only model-checked is liveness: `EditsArrive`, `EditsLeaveTheQueue`, `JobsEnd`,
`TokenHeals`, `MissingPagesAreTried` and `BundlesArrive`. Liveness under fairness and
ENABLED are out of the prover's reach; of `JobsEnd` and `MissingPagesAreTried` the
decreasing bound is proved, as said above. So is induction over data as the libraries
state it, with an operator as parameter; where an argument needs it (`TotalIsCount`,
`OrderExists`, `BeyondIsBeyond`), it is made by a smallest counterexample instead, for
the function at hand. `NoForgottenEdit` is proved under `Unattended`. The five
properties of the violated runs are of course false. No module uses RECURSIVE.

## Where code and documents part

1. **Deleting a slot can take another slot's file**
   (`store_delete_shared`). `CHANGELOG.md:81` and `docs/REVIEW-2026-09-20.md:8`
   say a shared legacy file is kept while referenced. The upsert counts
   references (`sqlite.go:1090`), `DeleteSave` does not (`sqlite.go:1280`).
2. **A delete can take a new upload's file** (`store_delete_race`). It unlinks
   after its commit and outside any lock; an upload of the same slot that
   promotes before the unlink and commits loses its file. The next read fails
   closed, and the history still has the bytes.
3. **An upload that times out is given up** (`device_timeout`).
   `IsRetryableError` says no to `context.DeadlineExceeded` (`retry.go:82`), which
   is what a client timeout wraps; the comment at `retry.go:100` says timeouts
   are retryable. Neither the watcher nor the outbox keeps the edit; the next
   pull or start may still find it.
4. **The reconciliation's compare-and-swap can compare with another version**
   (`device_swap`). It seeds the shared cache, and the request reads the cache
   when it leaves; a pull in between has marked a newer hash.
5. **A conflict that a 409 recorded does not hold back the pull** (`device_await`).
   `docs/ARCHITECTURE.md:45` says that a 409 is recorded as a conflict "and resolved by
   the user, not auto-picked". No step of the pull path looks at the records: when
   the rejected save is the older one, `DecidePull` under `last_write_wins` says apply,
   and the next pull writes the server's copy over a save that the server has never held.

`NoForgottenEdit` excludes finding 3 by name. It, `EditsSurviveTimeouts` (which run
`device_timeout` refutes) and `EditsArrive` also exclude an entry that the outbox gave up
after a week. `NoBlindOverwrite` is what remains true in spite of 4, and
`OnlyDeletesLoseFiles` and `CommittedBytes` what remains true in spite of 1 and 2.

## What the properties leave out

The properties hold with the exceptions they name. Each is something the code
does not cover; a reader of the code should know them.

- *Conflict records.* A resolution clears all records of its slot, also one that a
  later push has made meanwhile (`conflict.go:186`): `NoEditIsForgotten` and run
  `device` leave the resolving user out. Under `keep_local` a file whose time is near the
  slot's is neither pulled nor uploaded at startup.
- *Outbox.* An entry that has failed for a week is removed without a word (`outbox.go:209-214`). A
  later reconciliation uploads only what the server has not got or what is definitely
  newer (`reconcile.go:23-25`, `:109-111`), so such an edit may stay on its device.
- *Upload queue.* A rescan skips a file whose timer entry is there although its push has
  already dropped an older content (`watcher.go:597`). An outbox entry or a
  settle recheck may upload again what is stored (`watcher.go:788`). A push that
  the shutdown cancels counts as final (`retry.go:82`, `watcher.go:818`,
  `outbox.go:258`). The end of a metered connection goes unnoticed
  (`run_sync.go:547`).
- *Restored history.* That a restored version's bytes belong to the metadata it is
  restored with (`sqlite.go:1422`) no property compares; a read of an unencrypted save
  fails closed when they do not (`ReadsFailClosed`).
- *Jobs.* That the finish of a row is written is assumed (`runner.go:34-36` logs a
  failure). A resumed sync that refuses to crawl leaves its row running. The bundle
  fetch's incremental fallback never starts, because the fetch's own sync row is
  running (`docs/MANIFEST_BUNDLE.md:69` offers it as a setting).
- *Token.* A swap whose answer or save is lost costs the token. A page that saves the
  configuration it loaded earlier brings an old token back. An outage of the
  keyring leaves two copies that differ.
- *Catalogue.* The time of a revision check is recorded although the check
  failed (`pcgw_persist.go:396`). Changed pages that a run had queued are gone when
  its budget or a cancel ends it. More than a quarter of deletions are skipped. A
  catalogue that looks the same ends a run before the look at revisions. A page
  edited between its text and its revision number keeps the old text. When the
  metadata cannot be written after the row (`pcgw_persist.go:1073`), or the mark for another
  try fails too (`:1167`), the row claims a revision whose paths are not there; when the row
  itself cannot be written, the change that was read from the window is not looked at again.
- *Manifest.* A row with a stamp older than the client's newest is in no delta. A
  game whose page lost its paths has no tombstone. In one answer, games overwrite
  deletions (`manifest.go:471`). A `full_replace` that is cut leaves the tables empty. The
  client asks for 5000 games a page and the server gives 500 at most
  (`manifest.go:39`, `handler.go:1649`), so that a larger answer falls back to the old
  protocol.
- *Events.* `syncNowCh` has no buffer, so a click while the loop is busy is dropped.
- *Conflict centre.* Two refusals at once leave two open rows; one recorded after
  the push that settles it stays open; one found within a transaction is not
  announced.
- *Backups.* An archive pairs the snapshot with files of a later time; a purge may
  act on findings that are no longer true. The check cannot tell of an encrypted save
  whether its file is there or whole, and clears what was found of it before
  (`integrity.go:76-80`).
- *Accounts.* Enabling the factor is two statements; used codes are forgotten at a
  restart; a sign-in under way survives the sign-out of the others.
- *Migrations.* A crash between the commit and the file operations loses what was
  deferred; a dry run rolls back the step it shows while the steps after it
  commit and pass it by (`migrate.go:92`; `docs/wiki/Upgrading.md:100` says that no data is written).
- *Updater.* The Windows script does not verify the staged file again; a machine that
  stops between the two renames has no program, and neither has one on which the rename
  back fails after the second one failed: its error is ignored
  (`update_apply_linux.go:82`, `update_apply_darwin.go:99`, `:110`, `:114`, and the script).
- *Users.* Deleting a user with rows in a table that does not cascade is refused
  by a foreign key (`sqlite.go:99`) and rolled back; two setups at once make two accounts; disabling
  can leave no administrator; findings of the integrity check carry a user's id without a foreign key
  (`migrate.go:474-485`) and outlive the account (`sqlite.go:349-364`).
- *Pause.* A settings form saves the pause flag it read (`handlers_settings.go:305`); a
  new loop takes the flag of its configuration although the item was clicked during
  the drain; an old loop that overruns its 12 seconds takes away the new loop's
  hook.
- *Tray.* `refreshTrayCounts` lists outside the lock and announces nothing; a pending
  upload hides a conflict's mark.
- *Settings.* A form that fails at a later field leaves the earlier ones saved and not
  rescheduled; a rescheduling may use rows that were replaced since; backup
  schedules need a restart.
- *Encryption.* A client that knows an answer asks no more while it runs. Without a
  passphrase it uploads plaintext whatever the account says.
  `saveAppearanceCache` writes back the flag it read (`account_cache.go:78`).
- *Archives.* An entry whose place was written to between listing and reading has the flag
  and hash of one version and the bytes of another. `GetSave` does not compare an
  encrypted row with its file (`sqlite.go:1235-1240`), so after an upload that replaced the
  file and did not commit (`:1073-1080`) other bytes are exported under its hash.
- *Covers.* More than one fetch of a cover may run; a hiccup of the source counts as
  "no cover" for a week.

## Not modelled

- *Save store*: inline storage and the move to the filesystem while the server
  runs: `file` would become part of the row. *Save API*: listing, request limits,
  the cache of the manifest's answers.
- *Push and pull*: compression, bandwidth limits, paging, backups of the overwritten
  file. *Conflict records*: concurrent writers of the JSON list, two records of one
  slot.
- *Pull arithmetic*: skew, offset and tolerance; `DeviceSync` keeps the outcome of
  the comparison, with every outcome the order of two writes allows.
- *Main loop, tray, game watch*: discovery, notifications, icons, the scan of
  processes.
- *Integrity check*: rows without a hash. *Settings*: the wizard's storage limit, a start
  that cannot read its settings.
- *Sessions*: expiry, CSRF tokens. *Users*: pages that only read. *Migrations*: the
  SQL of the steps that do not move files. *Catalogue*: wiki text, search,
  statistics. *Manifest*: compression, signatures. *Archives*: earlier versions.
- *Discovery, paths and rules, cryptography, pages*: I/O, string work, primitives
  and presentation. That a file has the same key on every machine is assumed.
- *Request limiter*: one sliding window under one lock; `LoginLock` models the limiter
  whose windows and locks interact.

## Plan

Done: the store and its refinement, the device, the upload queue, jobs, token,
catalogue, manifest, and the components of `services`; eight modules of proofs that
state every invariant the runs check.
What would come next, most useful first:

1. `NoForgottenEdit` with a user who resolves conflicts: a history of the records that a
   resolution cleared would name the exception.
2. `UploadQueue` as a refinement of the queue that `DeviceSync` abstracts to one flag.
3. Inline storage in `SaveStore`, with the migration that runs while requests do.
4. Pull arithmetic as operators on bounded integers, against the matrix of
   `docs/ARCHITECTURE.md:52-56`.
