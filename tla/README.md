# NinjaCrawler: specification and proofs

NinjaCrawler is a desktop application (Tauri: a Rust core under
`src/src-tauri`, a React frontend under `src/src`, a browser companion) that
mirrors social-media profiles into a local library. Its core logic is a set of
in-process queues whose worker threads run long, cancellable jobs over one
SQLite workspace and a media folder. This directory specifies those parts in
TLA+, checks them on small instances with TLC, and proves the most important
safety properties for every instance with TLAPS.

## Inventory

Paths are below `src/src-tauri/src/infrastructure`.

| Part | State | Operations | What is hard |
|---|---|---|---|
| `source_sync_runtime.rs` | per provider: a queue, the active job, "worker running", "paused"; the set of queued keys; all behind one mutex | enqueue, restore at boot, cancel (profile, provider), pause, resume, reorder, dequeue, requeue on a rate limit, finish | worker spawn and exit against arrivals; rows written after the mutex is released; restarts |
| `workspace_repository/sync.rs` | table `source_sync_queue_jobs`, cancel-token registry, `provider_sync_account_holds`, runs and ledgers | persist/remove/load jobs, register/clear/request cancel, set/clear hold, execute a sync | one token per profile; errors of writes ignored |
| `twitter_connector.rs`, `tiktok_connector.rs`, `youtube_connector.rs`, `vsco_connector.rs`, `instagram_connector.rs`, and `execute_*` in `sync.rs` | per profile: the files, the media ledger, the post ledger; Twitter's resume cursors and baselines | list, choose, download in batches, retry, record, cancel | listings cut short with and without notice; what one run saves decides what the next one asks for |
| `upstream_presence.rs`, `gallery.rs` | the misses of each recorded post; the tombstones of deleted media | evaluate after a scan; delete a medium | five connectors' idea of "full" and "truncated"; a deletion while a sync runs |
| `source_identity.rs` and the identity steps of `sync.rs` | a profile's handle, user id, hint, problem and readiness | preflight, load, verdict, duplicate on the first sync, availability check, edit | handles change hands between any two of them |
| `tiktok_likes_runtime.rs` | the account's ledger of liked videos, "a full scan completed" | list by pages in a hidden window, download, record | a listing recorded before its downloads |
| `source_delete_runtime.rs` | a FIFO, the active job, "worker running" | enqueue, wait for sync to clear, cancel thumbnails, delete | nothing stops a sync enqueued after the wait; the wait polls for a state that may not come |
| `media_path_migration_runtime.rs`, `workspace_repository/sources.rs` | a FIFO with its table, cancel flags; the media folder, the database's path | enqueue, restore, cancel all, move (rename or copy and verify), update paths | crash between the file system and the database; partial removal; a sync already running |
| `media_thumbnail_runtime.rs` | a FIFO, the active job, a set of cancel requests | enqueue, cancel and wait (8 s), run with several threads, finish | an error halfway through a batch; a stale cancel request |
| `media_dedupe_runtime.rs`, `media_dedupe.rs`, `media_dedupe_vdf.rs` | the job under way with its cancel flag, the locked profiles, the rows of scans (files, hashes), of applies and of their actions; backups beside the files | scan (inventory, hash, report), apply (hard links for equal files, recycle bin for similar ones the user chose), cancel, recover at boot | an apply interrupted between two renames; the lock looked at before a job is queued; recovery two seconds after boot |
| `media_index_runtime.rs`, `media_index.rs` | the run and its cancellation token; per file a row with size, time and hashes; fingerprint jobs with leases and attempts | scan, pause, resume, retry, walk, plan, lease, read, store, wind up, recover at boot | files replaced while they are hashed; leases of a run that ended; recovery beside a live run |
| `scheduler_runtime.rs`, `scheduler.rs` | one row per plan: pause, skip, last run | a tick every few seconds that runs what is due and rewrites the rest; run now, pause, resume, skip, edit, delete | a row is read, merged and written with no lock; time boundaries |
| `connector_runtime.rs` | one row per connector (mode, active, pending, latest), the executables on disk, a count of jobs using it | check, update, activate, override, resolve, use | every command edits a row it loaded earlier; an update waits for the job that uses the old version |
| `import_runtime.rs`, `workspace_repository/import.rs` | a FIFO; the folders imported once; each imported profile's ledgers and import date | preview, import of the legacy program's folders, renaming backfill | matched before the first transaction, while the user edits; from which date later syncs start |
| `single_video_runtime.rs`, `single_videos.rs` | a FIFO; the catalogue, the root folder | enqueue, download a video or slideshow, set the root with or without the files, delete | a move that stops half way, beside a download |
| `accounts.rs`, `session_secret_store.rs`, the Companion's part of `import.rs` | the accounts, their health, session and import rows; the protected files | save cookies, import, revert, clear, edit, clone, validate; use and report by syncs | files and rows change in separate steps; a verdict on a session that was replaced |
| `database.rs` | the database file and its log, the ledger of migrations, the snapshots before migrations, the set of migrated paths | open, snapshot, migrate, prune | a migration that fails half way; two migrators |
| `workspace_backup.rs`, `atomic_file.rs` | the database moved aside, its restored successor | export, restore: checkpoint, move, remove the log, write | the end of the process between two file operations; a connection that stays open |
| `companion_api.rs`, `desktop_runtime.rs`, `notification_runtime.rs`, `runtime_log.rs`, `app_update.rs`, media tools | | HTTP and window plumbing | outside a model checker's reach, or thin wrappers |

How they interact. Every user action, companion request and scheduler tick that
wants a sync goes through `enqueue_source_sync`. The lane worker calls
`run_source_sync`, which registers a cancel token, downloads, updates the
database and may put the account on a rate-limit hold; on success the worker
enqueues the profile with the thumbnail queue. `dequeue_next` asks the
media-path migration queue whether a profile is migrating and passes it over if
so. The delete worker cancels the profile's syncs, waits until the queue shows
none, cancels its thumbnails, then deletes; the synchronous delete command does
the second half on its caller's thread. The media cleanup (dedupe) locks the
profiles it touches, then asks the sync, delete and migration queues whether
they are idle; those three look at the lock before they queue a job. The
scheduler's tick records a plan as run and hands its profiles to the sync
queue. Syncs and the gallery tell the index which file they stored or removed.
Every downloader run takes a usage guard of its connector, and an update that
finds the guard taken is activated when the guard is dropped. A sync loads the
profile's ledgers, asks its connector for a listing and the files, and writes
the ledgers; what it reports of the listing decides whether posts it did not
see count as missed. It uses the session of the profile's account and reports
whether the session still worked. Imports seed the ledgers syncs go by. All of
them open the same database, which the first opening of a process migrates.

Correctness, per part: jobs of a provider run one by one, none is forgotten and
none runs twice for one request (sync queue); an accepted job survives a
restart (persistence); a cancellation reaches the run it was meant for
(tokens); the media is in one place and the database knows it (migration);
requests queued are processed and a cancel request dies with its job
(thumbnails); a deleted profile is not written to, and one that survives its
deletion does not believe in files it lost (delete); bytes survive their
consolidation (cleanup); a plan runs when, and only when, the user let it
(scheduler); a hash is of the file it stands beside, and a run that ended left
nothing leased (index); the user's choice of executable holds and an update is
not lost (connector); the workspace survives migrations and restores
(database); a sync that reports success got all it answers for, what the user
deleted stays deleted, and only posts that left are said to have left
(connectors); a folder holds the media of one person (identity); a session's row,
its backup and its files agree, and its health is about it (accounts); what an
import recorded is not skipped wrongly (import); a single video is where its row
says (single videos); duplicates shown are duplicates, and none is left out
(cleanup's scan).

## Modules

| Module | Models | Checked by | Proofs |
|---|---|---|---|
| `SyncLanes` | what the sync queue promises, with no threads, locks or rows | refined in `lanes`; part of `ProfileDelete` | |
| `SourceSyncQueue` | `source_sync_runtime.rs`, and from `sync.rs` the job table, the token registry and the holds | `MCSourceSyncQueue`: `lanes`, `live` | `SourceSyncQueueProofs` |
| `MediaPathMigration` | `media_path_migration_runtime.rs` and the move in `sources.rs` | `MCMediaPathMigration`: `migration_live`, `migration_resume`; as part of `SyncDuringMigration` | `MediaPathMigrationProofs` |
| `SyncDuringMigration` | the migration composed with syncs of the same profiles | `MCSyncDuringMigration`: `migration_errors`, `migration_overlap` | `MediaPathMigrationProofs` |
| `MediaThumbnailQueue` | `media_thumbnail_runtime.rs` | as part of `ProfileDelete` | `ProfileDeleteProofs` |
| `ProfileDelete` | `source_delete_runtime.rs` and the deletion in `sources.rs`, composed with `MediaThumbnailQueue` (extended) and `SyncLanes` (instantiated) | `MCProfileDelete`: `delete_wipe`, `delete_ends`, `delete_ledger` | `ProfileDeleteProofs` |
| `MediaDedupe` | `media_dedupe_runtime.rs`, `workspace_repository/media_dedupe.rs`: jobs, lock, apply, recovery, and the lock as the other queues look at it | `MCLibraryParts`: `library` | `MediaLibraryProofs` |
| `DuplicateScan` | the same files and `media_dedupe_vdf.rs`: what a scan finds, and what it takes over from earlier ones | `parts` | `MediaLibraryProofs` |
| `SyncPlans` | `scheduler_runtime.rs`, `workspace_repository/scheduler.rs` | `MCWorkspaceParts`: `parts` | `WorkspacePartsProofs` |
| `MediaIndex` | `media_index_runtime.rs`, `workspace_repository/media_index.rs` | `library` | `MediaLibraryProofs` |
| `ConnectorRuntime` | `connector_runtime.rs` | `parts` | `UpgradeProofs` |
| `WorkspaceDatabase` | `database.rs`, and the restore of `workspace_backup.rs` | `parts` | `UpgradeProofs` |
| `AccountSessions` | `accounts.rs`, `session_secret_store.rs`, the Companion import of `import.rs`, the health report of `sync.rs` | `parts` | `WorkspacePartsProofs` |
| `LegacyImport` | `import_runtime.rs`, `import.rs`, the renaming backfill of `media.rs` | `parts` | `WorkspacePartsProofs` |
| `SingleVideos` | `single_video_runtime.rs`, `single_videos.rs` | `parts` | `WorkspacePartsProofs` |
| `UpstreamPresence` | `upstream_presence.rs`, the ledgers, the deletion of media in `gallery.rs` | extended by the five below | `ProviderScansProofs` |
| `TwitterScan`, `TikTokScan`, `YoutubeScan`, `VscoScan`, `InstagramScan` | each provider's connector and its `execute_*` in `sync.rs` | `library`; `TikTokScan` alone: `scan_presence` | `ProviderScansProofs`, `ProviderSuccessProofs` |
| `SourceIdentity` | `source_identity.rs`, the identity steps of the Instagram and YouTube syncs and of the availability check in `sync.rs` | `library` | `ProviderScansProofs` |
| `TikTokLikes` | `tiktok_likes_runtime.rs` | `library` | `ProviderScansProofs` |

Each `MC` module adds budgets for what the environment does, fairness, and the
values of the constants. An operator whose comment starts with "Fault:" is not
part of the specification: it is a mutated copy of the next definition,
listed in `PROJECT.json`, which a property has to notice.

### SourceSyncQueue

One action is one critical section of the queue mutex or one statement on the
table. An API call that needs several keeps its place in `call[c]`, a worker in
`wpc[w]`, the boot thread in `restore`:

* `enqueue_source_sync` is `Enqueue` (the critical section: promote, append,
  claim the worker) then `Persist` (the row, then the spawn). When the key is
  already waiting or running it is `EnqueueDuplicate`.
* `cancel_source_sync_profile` and `..._provider` are `CancelProfile` and
  `CancelProvider` (the critical section), then one `Unpersist` per withdrawn
  job, then `RequestCancel`.
* a worker is `StartJob` (`dequeue_next` with an eligible job), `RegisterToken`
  or `FailEarly`, `EndRun`, then `Requeue` (account on hold) or `FinishRow` and
  `Finish`; with nothing to do it is `StopWorker`. With only held or migrating
  jobs the code rotates the lane once and sleeps: a stutter.
* `restore_persisted_queue` is `LoadRows`, a `RestoreRow` or `DiscardRow` per
  row, `RestoreSpawn` per lane, `RestoreDone`. It runs on a thread of its own
  while calls are served.
* `Restart` ends the process in any state; rows, holds and profiles stay.
* `HoldExpires`, `MigrationStarts`, `MigrationEnds`, `SourceDeleted` are what
  other parts do to the queue's inputs.

Abstractions. Job payloads are their key and their mode: plain, "timeline"
(promotes a waiting job) and "force" (promotes, and may also wait while the
same key runs). Progress, counters, recent results and log lines are dropped.
The table's `order_index` is dropped: the boot thread may restore rows in any
order. `dequeue_next` reads holds and migrations in the same step as it takes
the job (it holds the mutex, and nothing it reads can make a taken job wrong
later except through an action of the model). The spawn of a worker is one
step with the statement before it. A cancellation looks only at the profile's
own lane, which is where its jobs are (`QueuesConsistent`, proved). A poisoned
mutex is not modelled.

Properties:

* `OneWorkerPerLane`: the `workers_running` flag, set in one critical section
  and honoured in another, has exactly one owner.
* `QueuesConsistent`: `queued_keys` mirrors the queues.
* `ActiveMatchesWorker`: the active job is the one being run.
* `NoStrandedLane`: a lane with jobs, not paused, has a worker coming.
* `TokenMatchesRun`: a profile's runs do not overlap and its token is there
  exactly while its run is cancellable.
* `ImplementsLanes`: the refinement of `SyncLanes`.
* `AcceptedJobsPersisted`: a job that waits or runs is in the table or about to
  be, as the comment at `source_sync_runtime.rs:305` states it. Checked as
  `PersistedUnlessEarly`: it holds until a call runs beside the boot thread,
  which may then queue a job from a row that the call's run has deleted.
* `WaitingJobsLeave`, `RestoredJobsRun`: liveness.

### MediaPathMigration

The state is the queue (`queue`, `ids`, `active`, `cancel`, `worker`), the
worker's place in `change_source_media_path_internal` (`wpc`, `todo`,
`outcome`), the table (`rows`), the boot thread, and the world outside memory:
`root`, the place the database names for each profile, and `disk`, the content
of each folder. One action is one critical section, one statement or one file
operation:

* `Enqueue` (row, id and queue under one mutex), `EnqueueBadBatch` (a later
  profile of the same call is refused: the call returns before the worker is
  started), `CancelAll` then one `Unpersist` per dropped job.
* the worker: `Dequeue`; the move returns at once (`AlreadyThere`, `Refuse`),
  has nothing to move (`NothingToMove`), promotes a staging folder left behind
  (`PromoteLeftover`), renames (`MoveByRename`), or copies: `StartCopy`,
  `CopyFile` per file, `Promote`, `RemoveFile` per file of the origin,
  `RemoveFolder`; then `UpdateProfile`. `GiveUp` is any error on the way.
* closing: `Settle` (cancelled jobs remove their staging folder), `RemoveRow`,
  `Close`; with an empty queue `StopWorker`.
* `LoadRows`, `RestoreJobs` at boot; `Restart` in any state: memory is lost;
  `rows`, `root` and `disk` stay.

Abstractions. A file is a member of a small set; a folder is the set of its
files or `Missing`. Whether the rename works (same volume) is a free choice.
Rows are restored in any order (`queued_at` is not kept). The removal of an old
staging folder before a copy is not observed half done. Copy verification is
part of `CopyFile`; its failure is `GiveUp`. The database update is one
transaction and one step. That a profile is deleted while its migration is only
a row, waiting for the next boot, is left out.

Properties: `CompleteCopy` (some place holds everything the profile had,
whatever fails or is cut off), `QueueConsistent` (ids, queue and worker; proved),
`SettledComplete` (with no migration under way the database names the whole
library), `JobsDurable` (a waiting or running job has a row). The last two hold
until a crash, respectively until a cancellation or a call beside the boot
thread; these conditions are `SettledUntilCrash` and `DurableUntilCancelled`.
`MigrationsEnd` and `RestoredMigrationsEnd` are liveness.

### SyncDuringMigration

Adds the syncs of the same profiles: `TakeSync` (held while the profile
migrates), `ResolveFolder` (the folder named by the database at that moment,
created if missing; TikTok, the `Reconciling` profiles, compare their ledger
with the disk here), `SaveFile`, `EndSync` (the ledger). A copy reads the
directory as it goes and may or may not see a file saved meanwhile.
`HistoryConsistent`: when no migration is under way, every file the ledger
records is in the folder the database names. When migrations are asked only
for profiles with no sync running and nothing is asked before the boot thread
is done (`Careful`), it holds through every failure, cancellation and end of the
process (`HistoryUntilSpoiled`) except those between the promotion of the copy
and the update of the database (`spoiled`). Without that care it does not
(`migration_overlap`).

### MediaThumbnailQueue

One action is one critical section of the queue's mutex. `EnqueueThumbnails`,
`EnqueueKnown`, `EnqueueMissing` and `EnqueueBadBatch` are the outcomes of
`enqueue` for one profile or a batch. `cancel_queued_and_wait` is
`CancelThumbnails`, then `FindGone` and `ClearRequest`, which are separate
sections, or `GiveUpWaiting` when the eight seconds are over. The worker is
`TakeJob`, `BeginJob`, `ListFiles` or `ListFails`, `Join`, `CloseJob`; each
generator thread is `Look`, `TakeFile`, `MakeThumbnail`. How many files lack a
thumbnail is a free choice up to `MaxFiles`; time is a free choice.

Properties: `NoStaleRequest` (a request names a job being worked on or a profile
somebody waits for, never one that waits); proved only: `ThumbnailsServed`, and
`KeepsRequest` (nothing but the end of the job, or a second thread cancelling the
same profile, takes back a request while the job runs).

### ProfileDelete

Extends the thumbnail queue, whose cancellers are the deleting threads, and
instantiates `SyncLanes` for the syncs. A run in a lane is `StartSync`,
`LoadProfile` (what the ledger and the folder hold is not downloaded),
`SaveFile`, `EndSync` (the ledger), `Announce` (asks for thumbnails),
`FinishSync` or `HoldSync`. The delete queue is `EnqueueDelete`, `TakeDelete`,
`StopDeleter`; a deletion is `CheckSync`, `WithdrawSync`, `AwaitSync` (the
worker only), then, for the worker and for the synchronous command
(`DeleteNow`), `AskThumbnails`, `AwaitThumbnails`, `Prepare`, `Hide` or
`WipeFile` per file, `EndWipe`, `PurgeLedger`, `RemoveImages`, `DeleteRow`,
`CloseDelete`; `FailDelete` is a database or image-cache error on the way.

Abstractions. A profile has one folder. The sync queue appears as its abstract
specification, which `SourceSyncQueue` is proved to implement, so pausing, rows
and tokens are left out here (a run that was asked to stop ends in its own
time). Ledgers are those of the providers whose ledger is one table purged by
`purge_provider_ledgers_missing_on_disk`; TikTok's reconciliation and
Instagram's per-section ledgers are not modelled. There is no `Restart`: the
delete and thumbnail queues live in memory only, and a deletion that was cut
off is simply gone. The ten attempts at removing a file are one choice between
"gone" and "resists".

Properties: `DeletesServed`; `WipeUndisturbed` (while a folder is wiped no
sync, migration or thumbnail job of the profile waits or runs);
`GoneLeavesNothing` (a profile deleted with its media leaves no file, not even
later); `LedgerMatches` (a profile that survives its deletion has in its ledger
only what is in its folder); `DeletesEnd` (liveness).

The history variable `slips` records the events the properties are conditional
on: "request" (a call about a profile that is being deleted), "batch" (an
enqueue that failed half way), "timeout" (a wait for thumbnails given up),
"database" (a deletion stopped by a database error). `UndisturbedIfCareful`
(`WipeUndisturbed` and `GoneLeavesNothing`) and `MatchesIfCareful` hold as long as
none occurred; `DeletesServed` and `NoStaleRequest` depend on none.

### MediaDedupe

The state is the one job (`place`, with the groups of files on the `agenda` of an
apply, the `group` it works on, the file `at_hand` in it and what is `staged` in its
backup), the lock (`locked_sources`), the rows (`scan_row`,
`signature`, `actions`, `interrupted`), the disk (`placed`: what each name refers
to; `backups`: what lies beside it), and the jobs of the other queues
(`requested` between the look at the lock and the queue, `at_work` after it).
Names refer to inodes and inodes have bytes, so that a hard link and an equal
copy are different things.

* the scan: `EnqueueScan`, `CancelScan`, `ScanInventory`, `ScanHash` per file,
  `ScanComplete`, `ScanReport`; `ScanStops` and `ScanWindUp` on its error arms.
* the apply: `EnqueueApply` takes the lock, `EnsureIdle` looks at one queue after
  the other, `ApplyBegin`; then per group `CheckKept`, and per file
  `LinkBegin`, `LinkCompare`, `LinkStage`, `LinkMake`, `LinkRelease`,
  `LinkSettle`, or `LinkUndo` and `LinkRestore`, or `RecycleBegin` and
  `RecycleBin`; `ApplyDone`.
* the others: `PassLock` then `QueueJob`, `StoreFile`, `FolderGoes`, `JobEnds`;
  `GalleryDelete`, which looks at no lock.
* `Die` in any state; then `RepairRows`, `RepairFile` per interrupted link,
  `RepairDone`, beside whatever is asked meanwhile.

Abstractions. Perceptual comparison is the user's choice of a selection. A
hash stands for the bytes. What the recycle bin and its tombstones do is one step.
The window between the comparison of two files and the rename that follows is a
pair of steps; a comparison itself is one.

Properties: `BytesKept` (what was stored under a name is under it or in a backup
beside it, at every step), `LastCopyStays` (no set of files is
recycled each for the sake of another of the set, `kept_for`, however selections
overlap and over however many applies). The first is about a job that had the library to itself
(`CleanedAlone`): no other job passed the lock before it was taken and was queued
after the look at its queue (`slipped`), and recovery was over when the job
started (`overlapped`).

### SyncPlans

A plan's row is what decides when it runs: `pause_mode`, `pause_until`,
`skip_until`, `last_run_at`. `update_sync_plan_runtime_state` reads the row,
merges a patch and writes every column, and no lock is held from the read to
the write: an actor's write under way is `writing["tick"]` or
`writing["user"]`. The tick is `TickBegins` (it loads the automatic plans, and
works on what it loaded), per plan `TickRunsPlan`, `TickRefreshesPlan` or
`TickMissesPlan`, then `TickWrites` or `TickLosesPlan`, and `TickEnds`;
`TickFails` is a database that does not answer. The commands are `Pause`,
`Resume`, `Skip`, `ResetSkip`, `RunNow`, completed by `UserWrites`, and
`EditPlan` and `DeletePlan`. `TimePasses` and `Relaunch` are the world's.

Abstractions: scheduler sets and groups appear as "loaded by the tick or not";
which profiles a plan resolves to is not modelled; pauses of one to twelve hours are
"unlimited", since the tick treats them so.

Properties: `PausesStand`, `RunsAsAsked`, both against `asked`, what the user last
said of the plan, unless two actors were at work on one plan at once (`torn`).

### MediaIndex

`newest` and `on_disk` are the revisions of each file, `rows_of` its row with
the revision its size and time are of and those its hashes are of, `fjobs` the
fingerprint jobs with status, attempts and the revision they expect. A run is
`StartScan` or `ResumeFingerprints`, then `WalkFolder` or `SkipWalk`,
`IndexOne` per file (a changed file loses its hashes), `WalkEnds`,
`PlanJobs`, and per kind `LeaseBatch`, `ReadItem`, `StoreHash` or `FailHash` or
`LeaveItem`, until `PhaseStops`; then `WindUp` (leases are released),
`GroupAndEnd`, `EndRun`, `DropToken`. `PauseRun`, `RetryFailed`,
`WriteIndexed` and `RemoveIndexed` (a sync or the gallery changes a file and its
row) come in between; `IndexDies` and `RecoverRuns` are the end of the process
and the recovery of the next one, which may come after a run was started.

Abstractions: one profile; the two perceptual kinds are one, as a file has one
of them; the comparison of hashes is left out; a batch takes all that waits.

Properties: `HashesAreOfTheFile`, `ActiveRunHasThread`, `RunsEndSettled`.

### ConnectorRuntime

Every command loads the row, edits it and saves it whole: `LoadRow` and
`SaveRow`, with `todo[t]` the edits and look-ups a thread is still to make and
`seen[t]` the row it loaded. `Normalized` is what each command begins with: it
compares the row with the executables on disk. An update is `Lookup`, `Decide`,
`Install` and `LookBusy`, which settles on the new version or defers it; a job
first resolves the executable (`LookIdle`, which may let what waits be
activated, and `Take`), then uses it (`ClaimUse`, `DropUse`, whose last one
activates what waits). `ExecutableGoes` is the disk's.

Abstractions: one connector; download and verification are one step that works
or not; the lookup of the latest version returns any of a set, or nothing.

Property: `ChosenIsTaken`: a job gets the user's executable exactly while he
wants it, and what an update downloaded is active or waits, unless one command
changed the row in the middle of another (`crossed`).

### WorkspaceDatabase

`main` is the database file (whose workspace it is, what was committed, which
migrations it has), `wal` what is only in its log, `snapshots` and `copies` what was
put aside. `BeginMigrations` takes the snapshot and prunes, `ApplyMigration` is
one transaction with its ledger row, `MigrationFails`; there are two migrators,
the opening, which a mutex serialises, and the window's, which takes none.
`OpenDatabase`, `CommitChange`, `OpenReader`, `CloseReader` are commands. A restore
is `BeginRestore` (a validated archive), `Checkpoint`, `MoveAside`, `SweepLog`,
`CreateRestored`, `WriteRestored`. `Restart` ends the process between any two.

Abstractions: what a migration does is its number; secrets, media and the
cryptography of a backup are left out.

Properties: `WorkspaceKept` (the workspace with everything committed is in the
database or in a pre-restore copy, unless a connection was open when the file
was moved, or two restores share a second: `moved_open`); `OriginKept` (the
database from before a series of migrations is in a snapshot until as many
attempts followed as snapshots are kept).

### DuplicateScan

`held` is the version of each file on disk (two versions differ in size or
time), `index_rows` the catalogue with the version each file had when it was
listed and the hashes it has had since, `hunts` the rows of the scans so far. A
scan is `BeginHunt`, `ListFile` per file, `PersistInventory`; then for each file
with another of its size on its volume `LookAt`, `ReadBytes`, `ReadImage`,
`RecordHashes`; then, per profile, a comparison of its videos: `BeginJob` (which
takes over the result of an earlier scan when the fingerprint of the inventory
and the depth are the same: `Reusable`), `CompareVideos` or
`CompareFails`, `ImportPairs`; `EndLanes`, `CompleteHunt`, `HuntDone`, or
`HuntEnds`. `FileChanges` comes at any time. What the window is shown is
`LastResult`, computed by `Equal`, `VideoPairs` and `ImageGroups`.

Abstractions. The external comparison finds exactly what its depth makes alike
(`Alike`, a constant). Files whose content changes while size and time stay are
left out, as the program cannot tell. Hard links are `MediaDedupe`'s.

Property: `FoundAndShown`: what is shown as equal or alike is so of the files that
stood still (`ShownIsSo`), and what stood still and is so is shown
(`SoIsShown`), although hashes and comparisons are taken over from earlier
scans. Excused are a file that was swapped and put back while it was hashed
(`doubt`), and a folder that changed between the inventory and the comparison
(`shifted`).

### AccountSessions

`session` and `imports` name the protected files of each account, `secrets` is
what is in them. The window's commands (one at a time) and the Companion's
import are sequences of steps, each a file operation or a statement: `SaveCookies`,
`SaveCommit`, `SaveClean`; `ImportCapture`, `ImportCommit`, `ImportClean`;
`Revert`, `RevertCommit`; `Clear`, `ClearRows`; `Delete`, `DeleteRow`;
`EditHeaders`, `EditCommit`; `Validate`, then `ReadSession` and `SettleHealth`,
which an import goes on to as well. `SaveAccount`, `CloneAccount` and `Bind` are
one statement each. A sync takes the session with `UseSession` and reports with
`ReportHealth`. `ProcessEnds` comes between any two.

Abstractions. Cookies are whose they are; `Genuine` logins pass a validation.
Names, fingerprints and settings are left out. Database errors of a validation,
and a session that expires by itself, are left out.

Properties: `FilesMatchRows` (the files named by rows are there and whole, and
nothing else is left behind), `RevertReturns` (a revert brings back what the last
import or revert replaced), `HealthIsCurrent` (a ready account has the session
that was found ready). `accidents` names what each is conditional on: "crossed" (two
commands on one account at once), "left" (a file that could not be removed),
"wiped" (a deletion the database refused after the files went), "torn" (the
process ended while a file was overwritten), "late" (a verdict on a session
replaced meanwhile), "declared" (a health saved from the editor or cloned),
"unjudged" (the process ended before the validation).

### LegacyImport

The queue is `EnqueueImport`, `TakeJob`, `FinishJob`: one job of a kind at a time.
An import settles which folders it works on and into which profiles from the
preview (`StartImport`, `Reviewed`), then runs one transaction per folder
(`ImportFolder`), which writes the import date and seeds the ledgers from the
folder's catalogue (`Stamped`, `Records`). `StartBackfill` and `BackfillProfile`
are the renaming backfill. Between them the user adds, renames and removes
profiles, deletes media and syncs (`AddByHand`, `GiveHandle`, `RemoveProfile`,
`EraseMedia`, `StartSync`, `FinishSync`), and the author publishes.

Abstractions. A post's number is its date. A sync fetches what it must (the
scans are the modules below); what matters is from which date and past which
ledger. Folders are worked on in any order. Ledgers of media and posts are one.
A backfill that fails for a profile (it is not one transaction) is left out.

Property: `CaughtUp`: a sync of an imported profile leaves in its folder all that
was published since the first import, and a forced one everything, unless the user
deleted it; until a folder is imported into a profile that has another one
("joined"), a second import moves the date forward ("reimported") or two profiles
have one folder ("shared").

### SingleVideos

`folders` are the files of each folder, whole or in part, `catalogue` the file each row
names, relative to the `root` of the moment. The worker is `TakeSingle`,
`StartFetch` (which resolves the root), `FetchVideo` or, for a slideshow,
`BeginImage` and `EndImage` per image and `FetchSound`; `Catalogue` or
`FetchFails`. The command that sets the root is `SetRoot`, then per file
`RenameInto`, or `BeginCopy`, `EndCopy` and `DropOriginal` across volumes, or
`DropCopied` (an equal one is there), or `StopMove`; `EndMove`. A deletion is
`RemoveFiles`, `RemoveRow`. `StopProcess` comes in between.

Abstractions. Titles, uploaders and dates; which links are supported. One window
command at a time.

Property: `SinglesAreThere`: the file a row names is whole in some folder, and, when
no move is under way or was left half way (`halfway` has the folders such moves were
going to, until a later one gets to its end there), in the root; unless the root was set
and the files left ("apart") or set during a download ("overtaken"), or the post
is `doubtful`: deleted or moved while being downloaded, its image cut off, or deleted
while another folder had a copy of its file that was cut off. The copy across volumes
is written under the file's own name (`single_videos.rs:151`), so what is left of it
passes for the video if the post is downloaded to that folder again.

### UpstreamPresence and the scans

`UpstreamPresence` is a profile: what its provider shows (`shown`), the files
(`held`), the media ledger (`media`), the post ledger with the misses of each post
(`ledger`) and the tombstones (`tombs`). Posts are numbered in the order of their
publication, with one medium each. `Presence` is `evaluate_upstream_presence`: a
scan that qualifies (`Qualifies`) clears the misses of what it observed and adds
one to what it did not, in the sections it answers for. The author is `Publish`,
`Withdraw` and `Return`, the user `DeleteMedium`. Each provider's module adds the run,
one action per page, section or batch, with the ledgers loaded at its start as
fields of `scan`:

* `TwitterScan`: `TwitterStart` (cursors, cutoff), `TwitterList` by model (to its
  end, dying midway, failing, rate-limited, or elsewhere after a second
  redirect), `TwitterRedirect`, `TwitterDownload`, `TwitterRecordPosts` (cursors,
  ledger, verdict), `TwitterRecordMedia` (media, baseline), `TwitterEnd`;
  `TwitterForget` and `TwitterToggle` are the user's.
* `TikTokScan`: `TikTokStart` and `TikTokRecover` (the ledgers are brought in line
  with the folder), `TikTokList`, `TikTokFallback` (the signed-in session),
  `TikTokSettle` or `TikTokRename`, `TikTokBatch`, `TikTokRetry`,
  `TikTokRecordPosts`, `TikTokRecordMedia`.
* `YoutubeScan`: `YoutubeList` by tab, `YoutubeSelect`, `YoutubeDownload`,
  `YoutubeRecordPosts`, `YoutubeRecordMedia`.
* `VscoScan`: `VscoList` by section, `VscoPlan`, `VscoDownload` one by one with copies
  dropped, `VscoRecordPosts`, `VscoRecordMedia`.
* `InstagramScan`: `InstagramPage` and `InstagramRefused` (pages of one post, pinned
  ones first, over either interface, until enough known pages in a row),
  `InstagramPlan`, `InstagramFetch`, `InstagramRecordMedia`,
  `InstagramRecordPosts`.

Each has a step in which it is stopped at any point (`TwitterStop`, ...), by a
cancellation, an error or the end of the process: what was downloaded stays, and
nothing is recorded that the code records at its end.

Abstractions. One run at a time per profile (proved of the queue:
`CancelTokenOfRun`). Statistics, names of files, stories, highlights, tagged
posts, reposts, date filters and the search model are left out; Instagram has its
default error policy.

Properties, over all five:

* `FlaggedWasGone`: a post flagged as removed was off the provider since a scan that
  judges last saw it.
* `DeletedStaysDeleted`: what the user deleted is not downloaded again.
* `SucceededHolds`: a sync that ends as succeeded leaves nothing behind of what it
  answers for.

`blame` names what the scans cannot notice or what the code gets wrong, and each
property says which it is conditional on: "short" (a listing came back short with
nothing to show for it), "limited" (TikTok's rate limit that does not reach the
outcome), "raised" (a like of a newer post, the author's own or somebody else's, raised
the cutoff of a Twitter run that went on in the middle of the media), "unwanted"
(Twitter took a video that had been withdrawn and came back for seen, while the user
wanted none, and never asks for it again), "hidden" and "dropped" (an Instagram sync
that was stopped, or failed on a medium, hides older posts from later incremental ones),
"unseen" (a known post was listed and not reported as observed), "unrecorded" (a
deletion that is not in the ledger the provider goes by), "overtaken" (a deletion after
the running scan chose to fetch the post).

### SourceIdentity

Upstream a handle changes hands (`Upstream`); a profile is known by its handle and
by the ids that runs resolved. Instagram: `TakeProfile`, `UserIdentify` (the
preflight: `Resolved`, `Identify`), `UserDownload` (the handle is looked up again);
YouTube: `ChannelDownload`, which downloads and looks at the id afterwards. The
availability check is `ProbeProfile`, then `SettleCheck`. `SaveProfile` is the user's
form. `Verdict` is `apply_source_identity_verdict`, `Duplicate` the look for a
profile of the same user on a first sync.

Abstractions. Media are whose they are. Deletions by the user, and hints imported
with a profile, are left out; so are Twitter's and TikTok's own resolutions.

Property: `OnePersonEach`: an Instagram folder holds the media of one person, and no
two profiles keep the same one; until a handle changes hands between the preflight
and the load ("overtaken"). YouTube has no such property: it downloads before it
looks, and clears the pause at the end of the same run ("poured" marks it).

### TikTokLikes

A sync is `StartScan`, `ListPage` until the end, the limit or a row of pages whose
videos all have files (only once a listing reached the end), then per video
`SkipClip`, `FetchClip` and `SaveClip`, or `ClipFails`; `EndScan`, `ListFails` or
`FetchStops`. The owner likes and unlikes, the user deletes.

Property: `LikesAreFetched`: a sync that ends well leaves no liked video without a
file, unless an earlier one, once a listing had reached the end, stopped at the
item limit ("limited") or did not download what it listed ("cut").

## Runs, bounds, fairness

| Run | Instance | Shows |
|---|---|---|
| `lanes` | 2 lanes, 3 keys (one a story target), 3 modes, 2 calls in flight, 3 workers, 3 calls, cancellations | one worker per lane, no stranded lane, a token per run, and the refinement of `SyncLanes` |
| `live` | 1 lane, 2 profiles, 3 calls, 1 restart, 1 migration or deletion | persistence, and that waiting and restored jobs run |
| `migration_errors` | 1 profile, 3 places, 2 jobs, 3 files, syncs in between, every error, cancellations, 2 ends of the process | `CompleteCopy`, `HistoryUntilSpoiled` |
| `migration_live` | 2 profiles, 2 places, 2 jobs, 2 files, 1 cancellation, 1 crash, no I/O errors | settled profiles, durable jobs, liveness |
| `migration_resume` | 1 profile, 1 job, 1 crash | a resumed job refuses its own destination (violation) |
| `migration_overlap` | 1 reconciling profile, 1 job | a migration enqueued during a sync splits media and ledger (violation) |
| `delete_wipe` | 2 profiles in 1 lane, worker and a command, 1 generator, 2 files, 3 calls, 1 hold, 1 kind of slip | the delete and thumbnail safety properties |
| `delete_ends` | the same with 1 file, no slips | `DeletesEnd` |
| `delete_ledger` | the same with 1 file, all slips | a deletion that fails after the wipe keeps the ledger (violation) |
| `library` | the scans of five providers, the identities, the liked videos, the cleanup and the index side by side, each behaviour exercising one (`focus`) | the three properties of the scans, `OnePersonEach`, `LikesAreFetched`, the two of the cleanup, the two of the index and the types, with every error on |
| `parts` | the seven other parts side by side in the same way | their ten safety properties, `RunsAsAsked` and the types, with every error on |
| `scan_presence` | a TikTok profile with its default settings, 2 posts, 1 trouble | known posts are flagged as removed after two clean scans (violation) |

Bounds. Calls, restarts, holds, cancellations and moves of the world are
budgets of the `MC` modules or constants of the modules (`MaxMoves`, `MaxTrouble`,
`MaxDeeds`, ...); steps of workers, of calls under way and of boot threads are
never bounded. Three calls are enough for a job, a second one that arrives in any
phase of it, and a cancellation, pause, reorder or deletion between them. Two
workers are one more than a lane may have, so a second one would show. Two files
separate "partly copied or removed" from "all" and "none", and a third is one a
sync brings; three places let a second job move what a first one left half way.
One profile waits while another runs: two are enough for every order of a FIFO. A
second generator only repeats the first one's looks at the request; that the
number does not matter is proved.

In `library` and `parts`, by part (the scans, identities and liked videos below):

* cleanup: 1 profile, 2 names, 3 inodes of which two have the same bytes, 1 file
  stored over either name, 1 job of another queue, two selections that each keep
  what the other removes: the smallest library with a link to make and an overlap.
* plans: 1 plan, interval and startup delay of 1, pauses of 1, up to time 2: "due",
  "not yet" and "past the skip" are apart.
* index: 1 video, 2 revisions, 1 worker, 1 end of the process: a hash is of the row, of
  the file or of neither. The proofs cover any number.
* connector: 2 releases, one pinned and one newer, 2 threads (one crosses the
  other), 1 use, 1 lost file.
* database: from version 1 to 3, a backup of version 2 (a restored database has
  migrations to run), 2 snapshots kept (a third prunes one), 1 commit, 2 seconds.
* sessions: 2 accounts, 2 logins of which one passes a validation, 3 files, 3
  commands; at a time one command of the window, one import of the Companion and
  one sync. Three files are a session, its backup and a third that replaces one.
* import: 2 folders of one handle, a second handle, 3 posts of which the last is
  published later, 2 profiles, 2 jobs, 2 deeds of the user.
* singles: a video and a slideshow of two images and a sound, 2 folders, 4 orders, 1
  end of the process: a move, a second one over what it left, and a download; or a
  download, a move cut off, a deletion and the download again.
* duplicate scans: 3 files; videos of two profiles on two volumes, or images of one;
  4 versions of one size of which two have the same bytes; 2 scans at two depths; 2
  changes of files: one scan to learn, one to take over, and a file that goes and
  comes back.

In the scans, each profile has 2 posts and publishes a third, during a scan at most
1; 2 troubles, so that a failure can meet another, a deletion or a post withdrawn;
a video, a liked post, a reel, a short, a journal entry and a copy are among the
posts; batches hold one, so that something may come between two; any number of
scans. Identities: 2 profiles, 2 handles, 2 people, 2 changes upstream, 2 edits.
Liked videos: 2 and a third, 3 scans, 1 known page as threshold, limits of none and one,
1 deletion.

The invariants are conditional on histories (`slipped`, `overlapped`, `torn`,
`crossed`, `moved_open`, `accidents`, `excuses`, `doubtful`; `blame`, `mishaps`, `gap`); once one
that ends the interest of a part is set the CONSTRAINT of the run
does not go on from there. In `parts` an account other than the first is not bound
to a profile. The VIEW tells states apart by the part in focus, as the others stay
in their initial states, and a connector's threads by what they do.

All runs set CHECK_DEADLOCK FALSE: a spent budget leaves an idle system, as when
nobody uses the application.

Symmetry is used in safety runs only, over values no definition tells apart:
workers and clients, job ids, files, and profiles where all share one lane.

Fairness. Threads are scheduled, so the steps of workers, calls under way, boot
threads, generators and deleting threads are weakly fair. Runs end because
connector calls have timeouts; a hold has a deadline; a migration ends, which
`migration_live` checks for the migration itself and the others assume. No call
is fair: nobody has to ask for anything. The parts and scans are checked for
safety only.

## What is proved

For every number of profiles, lanes, threads, places and files, from the
assumptions the modules name:

* `SourceSyncQueueProofs`: `TypeCorrect`, `LanesServedOnce`, `KeysMatchQueues`,
  `ActiveIsRun`, `NoJobForgotten`, `CancelTokenOfRun`, `LanesRefined`. The
  inductive invariant `IInv` joins the types with the ownership of lanes, the
  agreement of `queued_keys` with the queues, of the active slot with the
  worker, and the registry of tokens. None is inductive alone: that
  `StopWorker` may clear the active slot needs that its lane has no other
  worker; that a spawn is safe needs that the lane it was announced for is
  marked and has no owner; that a withdrawn or started key leaves `queuedKeys`
  consistent needs that each key waits once and in its own lane; that a token
  matches a run needs that two workers never share a profile, which follows
  from one worker per lane. The refinement maps each action to a step of
  `SyncLanes` or a stutter using the same invariant. `AcceptedStayPersisted` is about
  the specification the runs check, when writes succeed, nothing is cancelled and no
  sync is forced (`PlainSyncs`, what `live` runs with; a failed write, a cancellation
  and a forced sync each break the promise, as the code accepts). `RowsInv` adds to
  `IInv` why nothing else breaks it: until the boot thread is done no call is under way,
  while it has rows to enqueue no worker is at work, these rows are still in the table
  and their keys not queued; and a key that runs does not wait, so that the row deleted
  at the end of a run is its own.
* `MediaPathMigrationProofs`: `TypeCorrect`, `CopyAlwaysComplete`,
  `QueueAlwaysConsistent` (the last when `BadBatches` is FALSE), and, about the
  specifications the runs check, `SettledBeforeCrash` (when no operation fails),
  `JobsStayDurable`, and, with syncs beside the moves and when migrations are asked
  for with care (`Careful`), `DownloadsStayWithLedger` and `CopyCompleteBesideSyncs`.
  `CompleteCopy` is not inductive: `MoveInv` adds `CopyUnderWay` (what the
  staging folder and `todo` hold together covers the library until the
  promotion) and `OriginSpare` (while the origin is being removed the
  destination is full), and that staging folders are not places. That a settled
  profile has its media, and that downloads stay beside their records, is one fact
  about what a profile should hold, `Kept`: at rest it is where the database says,
  and at each place of the worker it is split between two folders and `todo` in the
  way that place leaves it. It stands on `Mirrored`: `ids` and
  the queue agree, and a profile waits once and has one row. `SyncApart` adds that a sync and a move of one
  profile do not meet.
* `ProfileDeleteProofs`, the thumbnail queue: `ThumbnailTypeCorrect`, `JobsServed` (when
  `BadBatches` is FALSE), `RequestsFresh`, `RequestsKept` (when `TimeOuts` is
  FALSE). `NoStaleRequest` needs that a waiting profile is not the active one,
  and that a canceller about to clear still names the profile it waited for;
  `KeepsRequest` needs `RequestAwaited`: a request for the running job is
  awaited by a thread that has not yet found a job gone, which is why the threads
  that did find one gone do no harm.
* `ProfileDeleteProofs`, the deletion: `DeleteTypeCorrect`, `DeletionsServed`, and
  `ThumbnailsRefined`: the composition implements the thumbnail queue's own
  specification, so `DeleteRequestsFresh` follows from `RequestsFresh` without
  a second induction. `CarefulWipesUndisturbed` and `CarefulLedgersMatch` are
  conditional on `slips`, so what is inductive is `CarefulAlways`: that as long as it is
  empty `CarefulInv` holds. A deletion is then alone (`OneDeleter`, `NotMoved`) and its
  place in the code says what it may rely on: past the wait for the sync, that none of
  the profile is anywhere (`SyncOver`), which counts the hold and the withdrawal, since
  the wait itself looks once; past the wait for the thumbnails, that no job is left,
  which needs that the request it made is its own and still stands (`WaitsForOwn`,
  `ThumbnailsOver`). `SavedThere` and `FolderEmpty` follow the files, from a run that
  saves them to the wipe, and `LedgerMatches` stands on both.
* `MediaLibraryProofs`, the index: `IndexTypeCorrect`, `ActiveRunAlwaysHasThread`,
  `HashesAlwaysOfTheFile`, `RunsAlwaysEndSettled`, by three invariants, each
  on top of the one before. `Typed` joins the types with the run and its thread.
  `Bounds` orders revisions: a file only grows newer; a hash in a row is of a
  file at least as new as the row, and what a worker read is at least as new
  as what it leased, which is why a hash that does not belong to the file
  sits on a row the next walk replaces. `PhaseItems` and `LeasesEnd` say, by
  where the run is, which kinds may have leases, which may have jobs waiting and
  which are settled: that a run ends settled needs that a phase ends with
  nothing waiting, and that the phase after it puts nothing back.
* `MediaLibraryProofs`, the cleanup: `CleanupTypeCorrect`, `LastCopyAlwaysStays`,
  `BytesAlwaysKept`. `CleanupInv` adds `Recycling` (a name whose file was recycled is empty
  until something is stored there, and the file to keep of the group at hand is not
  such a name: so each recycling is for the sake of a file that is not recycled,
  and no set can close on itself), `Undisturbed` (a locked profile has no job
  at work once its queue was looked at, and recovery is over while a job runs) and `LinkAsBelieved` (at each step of a
  consolidation, what the canonical name, the target's name and the backup refer
  to, as far as the rest of the step relies on it). Recovery needs
  no more: it moves a backup to an empty name, or removes one whose bytes the name
  has, and loses nothing by either.
* `MediaLibraryProofs`, the scans of the cleanup: `HuntsTypeCorrect`, `FoundIsShown`, from
  `ScanAssumption`. What is shown must be so, and what is so must be shown. For the first,
  `HashesTrue` says of every hash, in the catalogue, in a scan or on its way there, that
  it is of the version it stands beside unless it is in doubt, and `JobsTrue` that a
  comparison whose folder was as listed pairs the videos that resemble each other, also
  when it was taken over. For the second, `SteadyListed`, `SteadyHashed` and
  `SteadyCompared` follow the files that stood still since the scan began: listed as they
  are, hashed once the cursor is past them if another has their size, in the inventory of
  their profile's comparison; `EqualsShown` and `VideosShown` keep that of the scans that
  ended. The groups of images are made by a recursive function: `GroupsRight` holds of
  them after each file of the shelf, as there is no first file where it fails.
* `UpgradeProofs`, the database: `DatabaseTypeCorrect`, `WorkspaceAlwaysKept`,
  `OriginAlwaysKept`. `DatabaseInv` adds to the types that commits fit their
  counter (`Fits`), and, by the step a restore is at, where the workspace is:
  at the path with its log (`AtPath`, `LogHeld`), in the copy of the second
  (`InCopy`, `MovedAway`); and the place of the origin among the
  snapshots (`OriginPlaced`), without which pruning could not be bounded.
* `UpgradeProofs`, the connectors: `ConnectorTypeCorrect`, `ChosenIsAlwaysTaken`.
  A command is a list of steps, and `ConnectorInv` says of what is still to do
  (`WellFormed`) that every save follows the load it edits; that one command at a
  time edits (`Editing`) unless commands crossed; that then the row agrees with the
  user's choice (`RowAgreed`), the update that was downloaded is held by the row or
  by the command on its way to it (`UpdateHeld`), and a decision taken under the
  look at the usage count still fits the row it will be saved to (`DecisionsHold`).
* `WorkspacePartsProofs`, the scheduler: `PlansTypeCorrect`, `PausesAlwaysStand`,
  `TicksRunAsAsked`. `PlansKept` compares every row, and every copy of it that the
  tick or the user has loaded and will write, with what the user asked for.
* `WorkspacePartsProofs`, the sessions: `SessionsTypeCorrect`,
  `ReadyIsForThisSession`, `BackupIsWhatWasReplaced`, `FilesAndRowsMatch`, from
  `SessionsAssumption` and `LoginAssumption`. A file is reached from a row only
  through what commands hold meanwhile, so `Owned` says of every file which account
  it is of, by the rows, the imports and the commands that are to name it; from it
  follow `FilesWhole` (a file named by a row, or to be named, is whole, and holds
  what its owner thinks it does) and `NoneStray` (a file nobody names is about to
  be removed by somebody). `HealthJudged` follows a verdict from the session it
  was reached on to the row it is written to.
* `WorkspacePartsProofs`, the import: `ImportTypeCorrect`, `AlwaysCaughtUp`, from
  `ImportAssumption`. A sync skips what the ledger knows and what is older than the import date, so
  the invariant says that both are harmless: what a ledger knows, or a running sync has
  loaded of it, is in the profile's folder or was deleted by the user (`KnownHeld`), the
  date is not later than the first import (`StampedOnce`), also as a running sync has it
  (`SyncFromImport`), and no two profiles have one folder (`FoldersApart`), each unless
  the history excuses the profile.
* `WorkspacePartsProofs`, the single videos: `SinglesTypeCorrect`, `SinglesAlwaysThere`,
  from `SinglesAssumption`, for any links, folders and number of moves. A file may be in
  several folders at once, cut off in some of them, so the invariant counts copies: where
  any folder has a file, some folder has it whole or the worker is writing it there
  (`WholeBesideParts`); while a move copies a file, a whole copy is outside the folder it
  goes to, and once it is copied one is outside the root, so that the original may go
  (`CopyBesideWhole`). `NamedAreHeld` and `FetchedAreHeld` say that rows and the running
  download name files that are there, and `WithinReach` that without trouble all files
  are in the root or in a folder a move was left halfway to. The proof corrected the
  model: with one `halfway` folder, and without the last clause of `doubtful`, the
  property held only of instances with two folders and three orders.
* `ProviderScansProofs`: for Twitter, TikTok, YouTube, VSCO and Instagram, that
  `FlaggedWasGone` and `DeletedStaysDeleted` hold of its own specification, for any
  number of posts, scans, batches, failures and limits. The TikTok theorem about
  flags has a hypothesis, `Refresh`: without it the statement is false, which is the
  finding `scan_presence`. Common to all: `ProfileSound`, the ledgers'
  agreement with the history; and `SuspectsHaveLeft`, that a post with a miss was
  off the provider since a judging scan saw it, from which `FlaggedWasGone` follows.
  It is kept by an evaluation only if the scan that judges saw every post that is
  still there, and each provider has its own reason for that: `...Orderly` says
  where a run is and what its listing and batches hold, and `...Seen` that what is
  not seen yet is still to be listed, or that the listing will be counted as
  truncated. For Instagram's paged listings, which an author's pins reorder, this
  rests on `PageIsNext`: what is ahead of a place comes with the next page or after
  it (there is a first post of every set of them, by the least number of a set of
  naturals). `...PassesOver` says for the deletions what a run has loaded of them,
  and that what it plans to fetch was not among them.
* `ProviderScansProofs`, the liked videos: `LikesTypeCorrect`, `LikesAreAlwaysFetched`.
  A listing may stop at pages it knows because of `SettledBelow`: between syncs, once a
  listing has reached the end, every liked video older than one with a file has a file or
  was discarded. That a sync restores it follows from `FetchingSound` (what it still has to
  fetch is all that is not settled of what was liked when it began) and `ListingSound`
  (what was liked since is newer than all it has).
* `ProviderScansProofs`, the identities: `IdentityTypeCorrect`, `OnePersonInEachFolder`.
  `UsersKnown` says what an Instagram profile is known by: the column and the hint agree
  (`IdsAgree`), a run that got through is of that person and so is the folder
  (`RunsAreOfUser`, `FoldersAreOfRuns`), no two profiles that are there have the same
  one (`UsersDiffer`), and a running sync goes by what the row says (`RunGoesByRow`).
  That a sync that is not the first is not compared with the others does no harm
  because a profile that was synced is known already (`SyncedAreKnown`).
* `ProviderSuccessProofs`, which extends it, what a sync leaves behind:
  `TwitterSuccessIsWhole`, `TikTokSuccessIsWhole` and `InstagramSuccessIsWhole` state
  `SucceededHolds` of each specification. (YouTube's and VSCO's syncs are never at the step "succeeded": of them
  the property says nothing.) It says that a sync did well, and a sync does well only
  because those before it did, so each invariant is about what outlives a sync.
  `TwitterKept`: what the ledger names is here (`TwitterHas`); all that is older than a
  saved baseline is here or has left, for the syncs that want videos and for those that
  want none (`TwitterBased`); what the models that were listed answer for was found, is
  here or has left, and what a run from a cursor found is behind it (`TwitterListed`);
  and a run without an error got what it found (`TwitterFetched`). A cutoff saved from
  such a run is then sound (`Settles`). `TikTokKept`: what a sync takes for done is here
  (`TikTokHas`), what it answers for is in its listing (`TikTokWhole`), and what never
  came is an error (`TikTokFetched`). `InstagramKept`: a listing may stop at pages it
  knows because of `InstagramGapless`, that with a post all the older ones of its kind
  are here or have left; `InstagramCovers` says that what is owed of a section (`Owed`:
  what the sync answers for, and what is older than a post it listed) was listed, is
  ahead or is here, and `InstagramHas` that what was planned came. Pinned posts come
  before newer ones, and a known one says nothing of what is older, so the listing must
  not stop among them: `InstagramPaged` bounds a run of known pages there by the pinned
  posts, and the theorem assumes `Cardinality(OnTop) < KnownPages`. The code's threshold
  is three pages (`INSTAGRAM_INCREMENTAL_KNOWN_PAGE_THRESHOLD`,
  `instagram_connector.rs:2775`, which is there to tolerate pinned and seen posts), and
  a page is asked for with 12 or 30 posts, so that a profile's few pinned posts fill
  one; a page of the model holds one post. With two pinned posts and two pages TLC finds
  older posts left behind. The proof corrected the property, whose exemptions did not
  name a cutoff raised by the author's own newer post that he had liked, nor a video
  that came back; neither shows in the instance of `library`.

Only proved, as TLC shows nothing more of them in these instances: the type
invariants of the queue, migration and deletion, `QueuesConsistent`,
`ActiveMatchesWorker`, `QueueConsistent`, `ThumbnailsServed`, `KeepsRequest` and
`ActiveRunHasThread`.

Only model-checked: every liveness property (`WaitingJobsLeave`, `RestoredJobsRun`,
`MigrationsEnd`, `RestoredMigrationsEnd`, `DeletesEnd`) and what rests on ENABLED, which
are out of the prover's reach; and the type invariants of the modules that compose the
parts in one run (`PartsTypeOK`, `LibraryTypeOK`), conjunctions of those of the parts.
No definition of a module with theorems is RECURSIVE and no theorem rests on an
induction over data, which the provers cannot do: sums and walks over folders,
listings and tables are actions taken one element at a time, or quantifiers.

## Findings

* `migration_resume`: a crash while the origin is being removed. The resumed
  job finds its own destination taken and fails; the database keeps naming the
  partly removed origin.
* `migration_overlap`: enqueueing a migration does not look at running syncs. A
  sync that resolved the old folder goes on saving there, and its ledger
  records files the profile's folder does not hold.
* `delete_ledger`: only a failure of the wipe is followed by a purge of the
  ledger. If the wipe succeeds and a later statement fails, the profile stays
  with an empty folder and a full ledger, and its next sync skips every file.
* `scan_presence`: a TikTok listing passes over known posts without reporting them
  as observed, yet the scan judges: after two clean scans each of them is flagged
  as removed by its author.

Seen while modelling, without a run of their own. They are what the code does;
the models contain those that concern their state, as actions or as the history
variables the properties are conditional on.

* Sync queue: a row written after the mutex is released can outlive a job
  cancelled in between, or the removal can take the row of the job enqueued
  again; two calls may write the row of one job in the opposite order; a
  cancellation between the dequeue and the registration of the token finds
  nothing, and one that read the active job before it finished fires the token
  of the next run; a full-timeline request for a running profile is dropped; a
  force backfill queued behind the running sync of its profile shares the job's
  key, so `finish_active` deletes its row and a restart forgets it.
* Deletion and migration: a call about a profile under deletion is
  accepted and works on the folder being wiped; a deletion waits without limit for
  a cancelled run that was put back by an account hold into a lane that is
  paused; a copy that fails for a reason other than cancellation leaves its
  staging folder; a cancellation that comes after the last look at it turns a
  failure into a cancellation, whose report says that the origin is whole.
* Cleanup: the other queues look at the lock and queue their job in two steps,
  so an apply that locks and looks in between shares the library (`slipped`);
  restored syncs and migrations do not look at all; a job started in the two
  seconds before recovery is recovered while it runs (`overlapped`); a backup
  whose rename back failed stays; the gallery deletes without a look at the lock;
  a cancellation's second section may label a later job.
* Scheduler: resetting a skip keeps it; pauses of one to twelve hours do not
  expire; a tick that loaded a plan before a command writes the old pause
  back (`torn`); a tick that fails on one plan drops the requests of those it
  already recorded as run; running now shows a plan as resumed while its pause
  decides otherwise.
* Index: the size and time compared when a hash is stored are the row's with the
  row's, not the file's; the end of a run and a cancellation each
  have a second section that may meet a later run; a pause costs an attempt;
  a run whose row is refused counts as active with no thread; a late
  recovery takes the leases of a live run.
* Connectors: an override set during a download is overwritten (`crossed`); an
  update that finds the connector busy as its last job ends waits for the next
  resolution; a reinstallation removes the old program before it moves the new one.
* Database: each failing opening takes a snapshot, and the third prunes the
  one from before the migrations; the window's migrator takes no lock and may fail
  beside an opening; a restore whose secrets cannot be stored reports an error
  though the database was swapped; the end of the process between the move and
  the write leaves the next start an empty database (the copy keeps the
  old one); the log is removed even if an open connection kept the checkpoint from
  completing (`moved_open`).
* Duplicate scan: an image is hashed only if another file of its size is on its
  volume, so similar images of different sizes are never found
  (`docs/media-dedupe-runtime.md` promises image similarity); a comparison is kept
  under the fingerprint of the inventory though the external program read the
  folder later, so a file that was away then is missed by the scans that take it
  over; a cancellation after the last look at it completes the scan.
* Missing posts: under default settings TikTok, YouTube and Instagram full scans flag every
  known post after two clean scans (`upstream_presence.rs:33` says they count as
  observed; for TikTok see `scan_presence`); a Twitter scan with a failed section,
  with a parser that died after some pages, or after a second redirect in one run still
  judges (against `upstream_presence.rs:41`); VSCO reads a failing parser as an empty
  section, and counts the posts of a media type that was switched off as missed.
* Deletions: Twitter and VSCO skip by the media ledger and TikTok's likes by the
  files, not by the tombstones of `gallery.rs`; YouTube loads the keys of posts
  only. A deletion after a run loaded its ledgers is undone once ("overtaken").
* Twitter: a run that did not notice a dead parser saves a baseline, and what it
  missed is not asked for again.
* TikTok: the rate limit of the second listing is lost, and a limited listing ends
  as succeeded; a flawed file whose new copy has the same name cannot be replaced;
  archived stories and reposts get a second row of the timeline; the branch for a
  private profile is dead code.
* YouTube: a file downloaded by a run that was stopped is fetched and discarded by
  each later one, and not recorded; a channel that is gone ends as succeeded once
  something of it is known, and its problem is cleared.
* Instagram: a run cancelled among its downloads, or one whose medium failed after its
  post was recorded, hides older posts from incremental runs; a GraphQL page with
  only reels ends the timeline; a refusal of the reels ends them unnoticed; with
  the errors not logged a failed section is not counted as truncated; an invalid
  session returns an error, so what should disable its sections is dead code.
* Identity: the run looks the handle up again after the preflight ("overtaken"), and
  the id it then records outranks the hint; an availability check and a
  preflight clear any problem, also the pause for a recycled handle; YouTube,
  VSCO and TikTok clear that pause at the end of the run that set it.
* Accounts: the editor saves the health it holds, and a clone takes over "ready"
  without a session (against the last line of `docs/provider-account-flow.md`); a
  sync's late verdict is written to a newer session; cookies saved by hand leave the
  user id of the import.
* Import: a folder imported into a profile with another one puts rows in its ledgers
  that its folder has no files for; a forced import moves the date forward past posts
  not synced; what was published between the older program's last run and the import comes
  with a forced backfill only; marking one of two conflicting folders as skipped
  leaves the other blocked (against the message at `import.rs:723`); the list of
  imported folders outlives the profile.
* Single videos: setting the root during a download leaves its files behind; a move
  that meets a file of another size stops there at each retry, with the files
  before it moved and the setting unchanged; the part of a file that a copy across
  volumes left behind is taken for the video by a later download to that folder; a
  slideshow downloaded again is written in place; errors of a deletion are ignored and
  the row goes.
* Liked videos: the listing is recorded as complete before its downloads, so what a
  stopped run did not download is hidden from later ones ("cut", "limited").

## Not modelled, and plan

Everything named in the table of modules is modelled and checked. What is left, in
order:

1. Parts of modelled components that are left out: stories, highlights, tagged posts,
   reposts and filters by date (scans), Twitter's and TikTok's resolution of a
   moved handle as an identity of its own, candidate reviews and the installation of the
   video comparison tool (cleanup), sets and groups of plans (scheduler), the grouping
   of variants (index), the export and the secrets (backup), the previews (import).
2. The pairing of the companion.

The rest stays out. The HTTP surface, the desktop window, notifications, logs,
updates, media tools and the storage layout are input and output or thin wrappers;
the React frontend and the browser extension keep no state of the system. They
are most of the code, together with what the modelled parts hold besides their
control: parsing of provider responses, SQL over domain records and the types of
both are data with no protocol to check.
