---------------------------- MODULE ProfileDelete -----------------------------
(***************************************************************************)
(* Deleting a profile (source_delete_runtime.rs, sources.rs) beside what   *)
(* else works on its folder: its sync, taken from SyncLanes, its thumbnail *)
(* job (MediaThumbnailQueue) and its media-path migration.  A worker takes *)
(* deletions from a FIFO, cancels the profile's sync and waits for it,     *)
(* cancels its thumbnails, wipes the folder, and removes the profile; the  *)
(* synchronous command does the second half on a thread of its own.        *)
(***************************************************************************)
EXTENDS MediaThumbnailQueue, FiniteSets

CONSTANTS
    Provider,   \* sync lanes
    ProviderOf, \* the lane of each profile
    Deleter,    \* the delete queue's worker; the other cancellers are commands
    File,       \* media files
    DiskErrors, \* whether files can resist removal
    DbErrors    \* whether the database and the image cache can fail

Job == [source : Source, mode : {"UserOnly", "WithMedia"}]

ASSUME DeleteAssumption ==
    /\ None \notin Job
    /\ ProviderOf \in [Source -> Provider]
    /\ Deleter \in Canceller
    /\ DiskErrors \in BOOLEAN
    /\ DbErrors \in BOOLEAN

VARIABLES
    sync_pending,   \* profiles whose sync waits
    sync_running,   \* the profile each lane syncs, or None
    sync_stage,     \* how far the run of each lane is
    wanted,         \* files the run of each lane is still to download
    saved,          \* files it has downloaded
    delete_queue,   \* deletions waiting
    delete_worker,  \* whether the delete worker was spawned
    step,           \* where each deleting thread is
    doing,          \* the deletion it carries out, or None
    profile,        \* each profile: "live", "hidden" (soft-deleted) or "gone"
    media,          \* the files in each profile's folder
    ledger,         \* the files each profile's ledger records as downloaded
    moving          \* profiles with a media-path migration

lanes == <<sync_pending, sync_running>>
runs == <<lanes, sync_stage, wanted, saved>>
deletions == <<delete_queue, delete_worker, step, doing>>
library == <<profile, media, ledger>>
dvars == <<tvars, runs, deletions, library, moving>>

Sync == INSTANCE SyncLanes WITH
            Key     <- Source,
            LaneOf  <- ProviderOf,
            NoKey   <- None,
            pending <- sync_pending,
            running <- sync_running

DeleteTypeOK ==
    /\ ThumbnailTypeOK
    /\ Sync!LanesTypeOK
    /\ sync_stage \in [Provider -> {"none", "started", "syncing", "synced", "settling"}]
    /\ wanted \in [Provider -> SUBSET File]
    /\ saved \in [Provider -> SUBSET File]
    /\ delete_queue \in Seq(Job)
    /\ delete_worker \in BOOLEAN
    /\ step \in [Canceller -> {"idle", "loop", "check", "withdraw", "wait", "thumbs", "release",
                               "hide", "wipe", "purge", "image", "row", "close"}]
    /\ doing \in [Canceller -> Job \cup {None}]
    /\ profile \in [Source -> {"live", "hidden", "gone"}]
    /\ media \in [Source -> SUBSET File]
    /\ ledger \in [Source -> SUBSET File]
    /\ moving \subseteq Source
    /\ \A c \in Canceller : doing[c] = None <=> step[c] \in {"idle", "loop"}

DeleteInit ==
    /\ ThumbnailInit
    /\ Sync!Init
    /\ sync_stage = [p \in Provider |-> "none"]
    /\ wanted = [p \in Provider |-> {}]
    /\ saved = wanted
    /\ delete_queue = <<>>
    /\ delete_worker = FALSE
    /\ step = [c \in Canceller |-> "idle"]
    /\ doing = [c \in Canceller |-> None]
    /\ profile = [s \in Source |-> "live"]
    /\ media \in [Source -> SUBSET File]
    /\ ledger = media
    /\ moving = {}
-----------------------------------------------------------------------------
\* The sync of a profile

RequestSync(s) ==
    /\ profile[s] = "live"
    /\ Sync!Submit(s)
    /\ UNCHANGED <<tvars, sync_stage, wanted, saved, deletions, library, moving>>

StartSync(p, s) ==
    /\ s \notin moving
    /\ Sync!Start(p, s)
    /\ sync_stage' = [sync_stage EXCEPT ![p] = "started"]
    /\ UNCHANGED <<tvars, wanted, saved, deletions, library, moving>>

\* What is in the folder or in the ledger now is not downloaded.
LoadProfile(p) ==
    LET s == sync_running[p] IN
    /\ sync_stage[p] = "started"
    /\ profile[s] = "live"
    /\ wanted' = [wanted EXCEPT ![p] = File \ (ledger[s] \cup media[s])]
    /\ sync_stage' = [sync_stage EXCEPT ![p] = "syncing"]
    /\ UNCHANGED <<tvars, lanes, saved, deletions, library, moving>>

\* The folder is created if it is gone.
SaveFile(p, f) ==
    /\ sync_stage[p] = "syncing"
    /\ f \in wanted[p]
    /\ media' = [media EXCEPT ![sync_running[p]] = @ \cup {f}]
    /\ wanted' = [wanted EXCEPT ![p] = @ \ {f}]
    /\ saved' = [saved EXCEPT ![p] = @ \cup {f}]
    /\ UNCHANGED <<tvars, lanes, sync_stage, deletions, profile, ledger, moving>>

\* The run returns.  A run that succeeds has recorded what it downloaded, one
\* that fails may have; the record of a profile that is gone takes nothing.
EndSync(p) ==
    LET s == sync_running[p] IN
    /\ sync_stage[p] \in {"started", "syncing"}
    /\ \/ /\ sync_stage[p] = "syncing"
          /\ ledger' = IF profile[s] = "gone" THEN ledger ELSE [ledger EXCEPT ![s] = @ \cup saved[p]]
          /\ \E next \in {"synced", "settling"} : sync_stage' = [sync_stage EXCEPT ![p] = next]
       \/ /\ ledger' = ledger
          /\ sync_stage' = [sync_stage EXCEPT ![p] = "settling"]
    /\ wanted' = [wanted EXCEPT ![p] = {}]
    /\ saved' = [saved EXCEPT ![p] = {}]
    /\ UNCHANGED <<tvars, lanes, deletions, profile, media, moving>>

\* The sync worker asks for the thumbnails of what it downloaded before it
\* gives up the lane.
Announce(p) ==
    LET s == sync_running[p] IN
    /\ sync_stage[p] = "synced"
    /\ \/ profile[s] = "live" /\ (EnqueueThumbnails(s) \/ EnqueueKnown(s))
       \/ profile[s] # "live" /\ EnqueueMissing(s)
       \/ Known(s) /\ UNCHANGED tvars
    /\ sync_stage' = [sync_stage EXCEPT ![p] = "settling"]
    /\ UNCHANGED <<lanes, wanted, saved, deletions, library, moving>>

\* finish_active, or requeue_active_on_account_hold.
LeaveLane(p, leave) ==
    /\ sync_stage[p] = "settling"
    /\ leave
    /\ sync_stage' = [sync_stage EXCEPT ![p] = "none"]
    /\ UNCHANGED <<tvars, wanted, saved, deletions, library, moving>>

FinishSync(p) == LeaveLane(p, Sync!Finish(p))

HoldSync(p) == LeaveLane(p, Sync!GiveBack(p))
-----------------------------------------------------------------------------
\* Media-path migrations and thumbnails asked for by hand

StartMove(s) ==
    /\ profile[s] = "live"
    /\ s \notin moving
    /\ moving' = moving \cup {s}
    /\ UNCHANGED <<tvars, runs, deletions, library>>

EndMove(s) ==
    /\ s \in moving
    /\ moving' = moving \ {s}
    /\ UNCHANGED <<tvars, runs, deletions, library>>

RequestThumbnails(s) ==
    /\ \/ profile[s] = "live" /\ (EnqueueThumbnails(s) \/ EnqueueKnown(s))
       \/ profile[s] # "live" /\ EnqueueMissing(s)
    /\ UNCHANGED <<runs, deletions, library, moving>>

RequestBadBatch(s, t) ==
    /\ profile[s] = "live"
    /\ profile[t] # "live"
    /\ EnqueueBadBatch(s, t)
    /\ UNCHANGED <<runs, deletions, library, moving>>

\* The thumbnail worker's folder and file list come from the profile.
RunThumbnails ==
    /\ ThumbnailRun
    /\ wpc = "list" /\ wpc' = "make" => profile[active] = "live"
    /\ UNCHANGED <<runs, deletions, library, moving>>
-----------------------------------------------------------------------------
\* Calls that delete

DeleteQueued(s) == \E i \in DOMAIN delete_queue : delete_queue[i].source = s

\* Fault: only looks at the waiting deletions.
DeleteWaits(s) == DeleteQueued(s)

DeleteKnown(s) == DeleteQueued(s) \/ (doing[Deleter] # None /\ doing[Deleter].source = s)

\* Fault: a sync that runs is not seen.
SyncWaits(s) == s \in sync_pending

SyncLive(s) == s \in sync_pending \/ \E p \in Provider : sync_running[p] = s

EnqueueDelete(s, mode) ==
    /\ profile[s] = "live"
    /\ s \notin moving
    /\ delete_queue' = IF DeleteKnown(s) THEN delete_queue
                       ELSE Append(delete_queue, [source |-> s, mode |-> mode])
    /\ delete_worker' = TRUE
    /\ step' = IF delete_worker THEN step ELSE [step EXCEPT ![Deleter] = "loop"]
    /\ UNCHANGED <<tvars, runs, doing, library, moving>>

\* delete_source_profile, the synchronous command.
DeleteNow(c, s, mode) ==
    /\ c # Deleter
    /\ step[c] = "idle"
    /\ s \notin moving
    /\ ~SyncLive(s)
    /\ doing' = [doing EXCEPT ![c] = [source |-> s, mode |-> mode]]
    /\ step' = [step EXCEPT ![c] = "thumbs"]
    /\ UNCHANGED <<tvars, runs, delete_queue, delete_worker, library, moving>>
-----------------------------------------------------------------------------
\* A deletion: the delete worker from "check", a command from "thumbs"

Goto(c, next) == step' = [step EXCEPT ![c] = next]

TakeDelete ==
    /\ step[Deleter] = "loop"
    /\ delete_queue # <<>>
    /\ doing' = [doing EXCEPT ![Deleter] = Head(delete_queue)]
    /\ delete_queue' = Tail(delete_queue)
    /\ Goto(Deleter, "check")
    /\ UNCHANGED <<tvars, runs, delete_worker, library, moving>>

\* Fault: the thread ends and leaves the flag.
StopDeleterKeepsFlag ==
    /\ step[Deleter] = "loop"
    /\ delete_queue = <<>>
    /\ Goto(Deleter, "idle")
    /\ UNCHANGED <<tvars, runs, delete_queue, delete_worker, doing, library, moving>>

StopDeleter ==
    /\ step[Deleter] = "loop"
    /\ delete_queue = <<>>
    /\ delete_worker' = FALSE
    /\ Goto(Deleter, "idle")
    /\ UNCHANGED <<tvars, runs, delete_queue, doing, library, moving>>

CheckSync(c) ==
    /\ step[c] = "check"
    /\ Goto(c, IF SyncLive(doing[c].source) THEN "withdraw" ELSE "thumbs")
    /\ UNCHANGED <<tvars, runs, delete_queue, delete_worker, doing, library, moving>>

\* cancel_source_sync_profile: a waiting sync is dropped, a running one asked
\* to stop, which it does in its own time.
WithdrawSync(c) ==
    /\ step[c] = "withdraw"
    /\ Sync!Withdraw({doing[c].source})
    /\ \E next \in {"wait"} \cup (IF DbErrors THEN {"close"} ELSE {}) : Goto(c, next)
    /\ UNCHANGED <<tvars, sync_stage, wanted, saved, delete_queue, delete_worker, doing,
                   library, moving>>

AwaitSync(c) ==
    /\ step[c] = "wait"
    /\ ~SyncLive(doing[c].source)
    /\ Goto(c, "thumbs")
    /\ UNCHANGED <<tvars, runs, delete_queue, delete_worker, doing, library, moving>>

AskThumbnails(c) ==
    /\ step[c] = "thumbs"
    /\ CancelThumbnails(c, doing[c].source)
    /\ Goto(c, "release")
    /\ UNCHANGED <<runs, delete_queue, delete_worker, doing, library, moving>>

AwaitThumbnails(c) ==
    /\ CancellerStep(c)
    /\ UNCHANGED <<runs, deletions, library, moving>>

\* The profile is read again: it may be gone by now.
Prepare(c) ==
    /\ step[c] = "release"
    /\ waits[c] = None
    /\ Goto(c, CASE profile[doing[c].source] # "live" -> "close"
                 [] doing[c].mode = "UserOnly" -> "hide"
                 [] OTHER -> "wipe")
    /\ UNCHANGED <<tvars, runs, delete_queue, delete_worker, doing, library, moving>>

\* The soft delete leaves folder and ledger alone.
Hide(c) ==
    LET s == doing[c].source IN
    /\ step[c] = "hide"
    /\ profile' = IF profile[s] = "live" THEN [profile EXCEPT ![s] = "hidden"] ELSE profile
    /\ Goto(c, "close")
    /\ UNCHANGED <<tvars, runs, delete_queue, delete_worker, doing, media, ledger, moving>>

WipeFile(c, f) ==
    LET s == doing[c].source IN
    /\ step[c] = "wipe"
    /\ f \in media[s]
    /\ media' = [media EXCEPT ![s] = @ \ {f}]
    /\ UNCHANGED <<tvars, runs, deletions, profile, ledger, moving>>

\* The folder is gone, or a file still resists after ten attempts.
EndWipe(c) ==
    /\ step[c] = "wipe"
    /\ \/ media[doing[c].source] = {} /\ Goto(c, "image")
       \/ DiskErrors /\ Goto(c, "purge")
    /\ UNCHANGED <<tvars, runs, delete_queue, delete_worker, doing, library, moving>>

\* Fault: the ledger is left as it was.
PurgeNothing(s) == ledger

\* purge_provider_ledgers_missing_on_disk
Purged(s) == [ledger EXCEPT ![s] = @ \cap media[s]]

PurgeLedger(c) ==
    LET s == doing[c].source IN
    /\ step[c] = "purge"
    /\ ledger' = Purged(s)
    /\ Goto(c, IF media[s] = {} THEN "image" ELSE "close")
    /\ UNCHANGED <<tvars, runs, delete_queue, delete_worker, doing, profile, media, moving>>

RemoveImages(c) ==
    /\ step[c] = "image"
    /\ Goto(c, "row")
    /\ UNCHANGED <<tvars, runs, delete_queue, delete_worker, doing, library, moving>>

\* The hard delete takes the profile's ledgers along.
DeleteRow(c) ==
    LET s == doing[c].source IN
    /\ step[c] = "row"
    /\ profile' = [profile EXCEPT ![s] = "gone"]
    /\ ledger' = [ledger EXCEPT ![s] = {}]
    /\ Goto(c, "close")
    /\ UNCHANGED <<tvars, runs, delete_queue, delete_worker, doing, media, moving>>

\* The workspace cannot be opened, the profile's custom images or its row
\* cannot be removed: the deletion returns at once.
FailDelete(c) ==
    /\ DbErrors
    /\ step[c] \in {"hide", "purge", "image", "row"}
    /\ Goto(c, "close")
    /\ UNCHANGED <<tvars, runs, delete_queue, delete_worker, doing, library, moving>>

CloseDelete(c) ==
    /\ step[c] = "close"
    /\ doing' = [doing EXCEPT ![c] = None]
    /\ Goto(c, IF c = Deleter THEN "loop" ELSE "idle")
    /\ UNCHANGED <<tvars, runs, delete_queue, delete_worker, library, moving>>
-----------------------------------------------------------------------------
SyncStep(p) ==
    \/ \E s \in Source : StartSync(p, s)
    \/ LoadProfile(p)
    \/ \E f \in File : SaveFile(p, f)
    \/ EndSync(p)
    \/ Announce(p)
    \/ FinishSync(p)

DeleteStep(c) ==
    \/ CheckSync(c)
    \/ WithdrawSync(c)
    \/ AwaitSync(c)
    \/ AskThumbnails(c)
    \/ AwaitThumbnails(c)
    \/ Prepare(c)
    \/ Hide(c)
    \/ \E f \in File : WipeFile(c, f)
    \/ EndWipe(c)
    \/ PurgeLedger(c)
    \/ RemoveImages(c)
    \/ DeleteRow(c)
    \/ CloseDelete(c)

DeleterStep == TakeDelete \/ StopDeleter \/ DeleteStep(Deleter)

Call ==
    \/ \E s \in Source : RequestSync(s) \/ StartMove(s) \/ RequestThumbnails(s)
    \/ \E s, t \in Source : RequestBadBatch(s, t)
    \/ \E s \in Source, mode \in {"UserOnly", "WithMedia"} :
        EnqueueDelete(s, mode) \/ \E c \in Canceller : DeleteNow(c, s, mode)

DeleteNext ==
    \/ Call
    \/ \E p \in Provider : SyncStep(p) \/ HoldSync(p)
    \/ \E s \in Source : EndMove(s)
    \/ RunThumbnails
    \/ DeleterStep
    \/ \E c \in Canceller \ {Deleter} : DeleteStep(c)
    \/ \E c \in Canceller : FailDelete(c)

DeleteSpec == DeleteInit /\ [][DeleteNext]_dvars
-----------------------------------------------------------------------------
\* Safety

\* A profile is waiting to be deleted once, not while the worker deletes it,
\* and a waiting deletion has the worker.
DeletesServed ==
    /\ \A i, j \in DOMAIN delete_queue : delete_queue[i].source = delete_queue[j].source => i = j
    /\ doing[Deleter] # None => ~DeleteQueued(doing[Deleter].source)
    /\ delete_worker <=> step[Deleter] # "idle"
    /\ delete_queue # <<>> => delete_worker

Wiping(s) ==
    \E c \in Canceller :
        /\ step[c] \in {"wipe", "purge", "image", "row"}
        /\ doing[c].source = s

\* source_delete_runtime.rs:210, "Stopping queued/running sync for this profile
\* before delete": while a profile's folder is wiped nothing else works on it.
\* The sync is waited for before the thumbnails are cancelled because its last
\* act is to ask for thumbnails.
WipeUndisturbed ==
    \A s \in Source :
        Wiping(s) =>
            /\ s \notin sync_pending \cup moving
            /\ \A p \in Provider : sync_running[p] # s
            /\ ~Known(s)

\* sources.rs:690, "Partial wipe is the dangerous case: files gone, ledger still
\* claims every post is known": a profile that survives its deletion has in its
\* ledger only what is in its folder.
LedgerMatches ==
    \A s \in Source : profile[s] = "live" /\ ~Wiping(s) => ledger[s] \subseteq media[s]

\* A profile deleted with its media leaves no file behind, not even later.
GoneLeavesNothing == \A s \in Source : profile[s] = "gone" => media[s] = {}
=============================================================================
