-------------------------- MODULE MediaPathMigration --------------------------
(***************************************************************************)
(* The media-path migration queue (media_path_migration_runtime.rs) and    *)
(* the move it runs (sources.rs): a profile's media folder goes from the   *)
(* place the database names to another one, by a rename or, across         *)
(* volumes, by a copy to a staging folder, its promotion and the removal   *)
(* of the origin; then the database is updated.                            *)
(*                                                                         *)
(* An action is one critical section of the queue's mutex, one statement   *)
(* on the database or one operation on the file system, so the process can *)
(* end, or a cancellation arrive, between any two of them.                 *)
(***************************************************************************)
EXTENDS Naturals, Sequences, FiniteSets

CONSTANTS
    Source,     \* profiles
    Place,      \* places a profile's folder can be in, target bases included
    Home,       \* the place each profile's folder starts in
    JobId,      \* job ids: each is used once
    File,       \* media files a profile's folder can hold
    Library,    \* the files downloaded before any migration
    IoErrors,   \* whether the file system and the database can fail
    BadBatches, \* whether an enqueue can fail after its first profile
    Missing,    \* a folder that is not there
    None

ASSUME MoveAssumption ==
    /\ Home \in [Source -> Place]
    /\ Library \subseteq File
    /\ IoErrors \in BOOLEAN
    /\ BadBatches \in BOOLEAN
    /\ \A content \in SUBSET File : content # Missing
    /\ Place \cap JobId = {}

Job == [id : JobId, source : Source, target : Place]

ASSUME NoJobAssumption == None \notin Job

VARIABLES
    queue,      \* jobs waiting
    ids,        \* profiles with a waiting job
    active,     \* the job being run, or None
    cancel,     \* whether the active job was asked to stop
    worker,     \* whether a worker was spawned
    wpc,        \* where the worker thread is
    todo,       \* files the copy has still to copy
    outcome,    \* how the last move ended
    rows,       \* the persisted jobs
    used,       \* job ids given out
    removing,   \* job ids a cancellation has still to delete
    restore,    \* the boot thread: "boot", "loaded", "done"
    loaded,     \* the rows the boot thread read
    root,       \* the place the database names for each profile
    disk        \* for each profile, the files of each folder, or Missing

waiting == <<queue, ids>>
running == <<active, cancel, worker>>
thread == <<wpc, todo, outcome>>
table == <<rows, used, removing>>
boot == <<restore, loaded>>
media == <<root, disk>>
vars == <<waiting, running, thread, table, boot, media>>

\* The staging folder of a job is named by its id.
Folder == Place \cup JobId

TypeOK ==
    /\ queue \in Seq(Job)
    /\ ids \subseteq Source
    /\ active \in Job \cup {None}
    /\ cancel \in BOOLEAN
    /\ worker \in BOOLEAN
    /\ wpc \in {"idle", "loop", "start", "copy", "remove", "update", "settle", "unrow", "close"}
    /\ todo \subseteq File
    /\ outcome \in {"none", "ok", "error", "cancelled"}
    /\ rows \subseteq Job
    /\ used \subseteq JobId
    /\ removing \subseteq JobId
    /\ restore \in {"boot", "loaded", "done"}
    /\ loaded \subseteq Job
    /\ root \in [Source -> Place]
    /\ disk \in [Source -> [Folder -> (SUBSET File) \cup {Missing}]]
    /\ active # None <=> wpc \notin {"idle", "loop"}

Init ==
    /\ queue = <<>>
    /\ ids = {}
    /\ active = None
    /\ cancel = FALSE
    /\ worker = FALSE
    /\ wpc = "idle"
    /\ todo = {}
    /\ outcome = "none"
    /\ rows = {}
    /\ used = {}
    /\ removing = {}
    /\ restore = "boot"
    /\ loaded = {}
    /\ root = Home
    /\ disk = [s \in Source |-> [d \in Folder |-> IF d = Home[s] THEN Library ELSE Missing]]
-----------------------------------------------------------------------------
\* A database write whose error is ignored.
AfterWrite(new) == IF IoErrors THEN {rows, new} ELSE {new}

WithoutRow(i) == {r \in rows : r.id # i}

\* One row per profile: a second one is silently not inserted.
WithRow(job) == IF \E r \in rows : r.source = job.source THEN rows ELSE rows \cup {job}

IsMigrating(s) == s \in ids \/ (active # None /\ active.source = s)

Exists(s, d) == disk[s][d] # Missing

\* Profile s with what is in its folder at d replaced.
Put(s, d, content) == [disk EXCEPT ![s][d] = content]

\* Profile s with its folder at d renamed to e.
Renamed(s, d, e) == [disk EXCEPT ![s] = [@ EXCEPT ![e] = disk[s][d], ![d] = Missing]]
-----------------------------------------------------------------------------
\* API calls.

\* The part of enqueue that adds one profile; the mutex is held throughout.
Add(s, t) ==
    \E i \in JobId \ used :
        LET job == [id |-> i, source |-> s, target |-> t] IN
        /\ ~IsMigrating(s)
        /\ rows' = WithRow(job)
        /\ used' = used \cup {i}
        /\ ids' = ids \cup {s}
        /\ queue' = Append(queue, job)

\* Fault: queues without a worker to take the job.
NoWorker == UNCHANGED <<worker, wpc>>

StartWorker ==
    /\ worker' = TRUE
    /\ wpc' = IF worker THEN wpc ELSE "loop"

Enqueue(s, t) ==
    /\ Add(s, t)
    /\ StartWorker
    /\ UNCHANGED <<active, cancel, todo, outcome, removing, boot, media>>

\* The next profile of the same batch is refused (it is gone, its provider is
\* not supported, its row cannot be written): the call returns at once.
EnqueueBadBatch(s, t) ==
    /\ BadBatches
    /\ Add(s, t)
    /\ UNCHANGED <<running, thread, removing, boot, media>>

CancelAll ==
    /\ cancel' = (cancel \/ active # None)
    /\ removing' = removing \cup {queue[i].id : i \in DOMAIN queue}
    /\ queue' = <<>>
    /\ ids' = {}
    /\ UNCHANGED <<active, worker, thread, rows, used, boot, media>>

\* The rows of the dropped jobs go after the mutex is released.
Unpersist(i) ==
    /\ i \in removing
    /\ rows' \in AfterWrite(WithoutRow(i))
    /\ removing' = removing \ {i}
    /\ UNCHANGED <<waiting, running, thread, used, boot, media>>
-----------------------------------------------------------------------------
\* The worker: taking a job.

\* Fault: takes the job out of the table when it starts.
DequeueForgets ==
    /\ wpc = "loop"
    /\ queue # <<>>
    /\ queue' = Tail(queue)
    /\ ids' = ids \ {Head(queue).source}
    /\ active' = Head(queue)
    /\ cancel' = FALSE
    /\ wpc' = "start"
    /\ rows' = WithoutRow(Head(queue).id)
    /\ UNCHANGED <<worker, todo, outcome, used, removing, boot, media>>

Dequeue ==
    /\ wpc = "loop"
    /\ queue # <<>>
    /\ queue' = Tail(queue)
    /\ ids' = ids \ {Head(queue).source}
    /\ active' = Head(queue)
    /\ cancel' = FALSE
    /\ wpc' = "start"
    /\ UNCHANGED <<worker, todo, outcome, table, boot, media>>

\* Fault: the flag stays set after the thread is gone.
StopKeepsFlag ==
    /\ wpc = "loop"
    /\ queue = <<>>
    /\ active' = None
    /\ wpc' = "idle"
    /\ UNCHANGED <<waiting, cancel, worker, todo, outcome, table, boot, media>>

StopWorker ==
    /\ wpc = "loop"
    /\ queue = <<>>
    /\ active' = None
    /\ worker' = FALSE
    /\ wpc' = "idle"
    /\ UNCHANGED <<waiting, cancel, todo, outcome, table, boot, media>>
-----------------------------------------------------------------------------
\* The worker: the move (change_source_media_path_internal).

Old == root[active.source]
New == active.target
Staging == active.id
OldExists == Exists(active.source, Old)
NewExists == Exists(active.source, New)
StagingExists == Exists(active.source, Staging)

\* The move returns, with the outcome the worker will report.
Return(result) ==
    /\ outcome' = result
    /\ wpc' = "settle"
    /\ todo' = {}

Unmoved == UNCHANGED <<waiting, running, table, boot, root>>

AlreadyThere ==
    /\ wpc = "start"
    /\ New = Old
    /\ Return("ok")
    /\ Unmoved
    /\ UNCHANGED disk

\* The destination is taken, or the job was cancelled before the first file.
Refuse ==
    /\ wpc = "start"
    /\ \/ New # Old /\ NewExists /\ (StagingExists \/ OldExists)
       \/ New # Old /\ cancel /\ OldExists
       \/ IoErrors
    /\ Return("error")
    /\ Unmoved
    /\ UNCHANGED disk

\* Neither an origin nor a staging folder: only the database is updated.
NothingToMove ==
    /\ wpc = "start"
    /\ New # Old
    /\ ~StagingExists
    /\ ~OldExists
    /\ wpc' = "update"
    /\ Unmoved
    /\ UNCHANGED <<todo, outcome, disk>>

\* A staging folder left by an earlier run is the only copy: promote it.
PromoteLeftover ==
    /\ wpc = "start"
    /\ New # Old
    /\ StagingExists
    /\ ~NewExists
    /\ ~OldExists
    /\ disk' = Renamed(active.source, Staging, New)
    /\ wpc' = "update"
    /\ Unmoved
    /\ UNCHANGED <<todo, outcome>>

MayMove ==
    /\ wpc = "start"
    /\ New # Old
    /\ OldExists
    /\ ~NewExists
    /\ ~cancel

\* fs::rename, which works within a volume.
MoveByRename ==
    /\ MayMove
    /\ disk' = Renamed(active.source, Old, New)
    /\ wpc' = "update"
    /\ Unmoved
    /\ UNCHANGED <<todo, outcome>>

\* The rename failed: start over in an empty staging folder.
StartCopy ==
    /\ MayMove
    /\ disk' = Put(active.source, Staging, {})
    /\ todo' = disk[active.source][Old]
    /\ wpc' = "copy"
    /\ Unmoved
    /\ UNCHANGED outcome

\* Cancellation is looked at after each file.
CopyFile(f) ==
    /\ wpc = "copy"
    /\ f \in todo
    /\ disk' = Put(active.source, Staging, disk[active.source][Staging] \cup {f})
    /\ IF cancel THEN Return("error")
       ELSE /\ todo' = todo \ {f}
            /\ UNCHANGED <<wpc, outcome>>
    /\ Unmoved

\* A copy, the promotion or the removal fails, or the promotion is cancelled.
\* What was copied or removed until then stays as it is.
GiveUp ==
    /\ \/ wpc = "copy" /\ IoErrors
       \/ wpc = "copy" /\ todo = {} /\ cancel
       \/ wpc = "remove" /\ IoErrors
       \/ wpc = "update" /\ IoErrors
    /\ Return("error")
    /\ Unmoved
    /\ UNCHANGED disk

\* Fault: promotes what was copied so far.
AnythingCopied == disk[active.source][Staging] # {}

Copied == todo = {}

Promote ==
    /\ wpc = "copy"
    /\ Copied
    /\ ~cancel
    /\ disk' = Renamed(active.source, Staging, New)
    /\ todo' = {}
    /\ wpc' = "remove"
    /\ Unmoved
    /\ UNCHANGED outcome

\* remove_dir_all takes the files one by one, then the folder.
RemoveFile(f) ==
    /\ wpc = "remove"
    /\ OldExists
    /\ f \in disk[active.source][Old]
    /\ disk' = Put(active.source, Old, disk[active.source][Old] \ {f})
    /\ Unmoved
    /\ UNCHANGED thread

RemoveFolder ==
    /\ wpc = "remove"
    /\ disk[active.source][Old] = {}
    /\ disk' = Put(active.source, Old, Missing)
    /\ wpc' = "update"
    /\ Unmoved
    /\ UNCHANGED <<todo, outcome>>

\* Fault: returns without updating the database.
UpdateForgotten ==
    /\ wpc = "update"
    /\ Return("ok")
    /\ Unmoved
    /\ UNCHANGED disk

UpdateProfile ==
    /\ wpc = "update"
    /\ root' = [root EXCEPT ![active.source] = active.target]
    /\ Return("ok")
    /\ UNCHANGED <<waiting, running, table, boot, disk>>
-----------------------------------------------------------------------------
\* The worker: closing a job.

\* A failed move of a job that was asked to stop is reported as cancelled, and
\* its staging folder removed.
Settle ==
    LET stopped == cancel /\ outcome = "error" IN
    /\ wpc = "settle"
    /\ outcome' = IF stopped THEN "cancelled" ELSE outcome
    /\ disk' \in IF stopped /\ ~IoErrors
                 THEN {Put(active.source, Staging, Missing)}
                 ELSE IF stopped /\ StagingExists
                      THEN {Put(active.source, Staging, Missing)} \cup
                           {Put(active.source, Staging, part) :
                                part \in SUBSET disk[active.source][Staging]}
                      ELSE {disk}
    /\ wpc' = "unrow"
    /\ Unmoved
    /\ UNCHANGED todo

RemoveRow ==
    /\ wpc = "unrow"
    /\ rows' \in AfterWrite(WithoutRow(active.id))
    /\ wpc' = "close"
    /\ UNCHANGED <<waiting, running, todo, outcome, used, removing, boot, media>>

Close ==
    /\ wpc = "close"
    /\ active' = None
    /\ outcome' = "none"
    /\ wpc' = "loop"
    /\ UNCHANGED <<waiting, cancel, worker, todo, table, boot, media>>
-----------------------------------------------------------------------------
\* The boot thread reads the table, then takes the mutex.

LoadRows ==
    /\ restore = "boot"
    /\ restore' = IF rows = {} THEN "done" ELSE "loaded"
    /\ loaded' = rows
    /\ UNCHANGED <<waiting, running, thread, table, media>>

\* The rows come by queued_at, which is not kept here: they come in some order.
Orders(jobs) ==
    {q \in UNION {[1..n -> jobs] : n \in 0..Cardinality(jobs)} :
        /\ \A i, j \in DOMAIN q : q[i] = q[j] => i = j
        /\ \A job \in jobs : \E i \in DOMAIN q : q[i] = job}

\* A profile that already waits is skipped; one whose job runs is not.
Restored == {r \in loaded : r.source \notin ids}

RestoreJobs ==
    /\ restore = "loaded"
    /\ \E q \in Orders(Restored) : queue' = queue \o q
    /\ ids' = ids \cup {r.source : r \in Restored}
    /\ IF queue' # <<>> THEN StartWorker ELSE UNCHANGED <<worker, wpc>>
    /\ restore' = "done"
    /\ loaded' = {}
    /\ UNCHANGED <<active, cancel, todo, outcome, table, media>>

\* The process ends, in any state, and starts again.
Restart ==
    /\ queue' = <<>>
    /\ ids' = {}
    /\ active' = None
    /\ cancel' = FALSE
    /\ worker' = FALSE
    /\ wpc' = "idle"
    /\ todo' = {}
    /\ outcome' = "none"
    /\ removing' = {}
    /\ restore' = "boot"
    /\ loaded' = {}
    /\ UNCHANGED <<rows, used, media>>
-----------------------------------------------------------------------------
Call ==
    \/ \E s \in Source, t \in Place : Enqueue(s, t) \/ EnqueueBadBatch(s, t)
    \/ CancelAll

MoveStep ==
    \/ AlreadyThere
    \/ Refuse
    \/ NothingToMove
    \/ PromoteLeftover
    \/ MoveByRename
    \/ StartCopy
    \/ \E f \in File : CopyFile(f) \/ RemoveFile(f)
    \/ GiveUp
    \/ Promote
    \/ RemoveFolder
    \/ UpdateProfile

WorkerStep == Dequeue \/ StopWorker \/ MoveStep \/ Settle \/ RemoveRow \/ Close

BootStep == LoadRows \/ RestoreJobs

UnpersistStep == \E i \in JobId : Unpersist(i)

Next == Call \/ UnpersistStep \/ WorkerStep \/ BootStep \/ Restart

Spec == Init /\ [][Next]_vars
-----------------------------------------------------------------------------
\* Safety

Full(s, d) == Exists(s, d) /\ Library \subseteq disk[s][d]

\* Whatever fails, is cancelled or is cut off by the end of the process, one
\* folder still holds everything a profile had: the origin is not touched
\* before a complete copy stands at its destination.
CompleteCopy == \A s \in Source : \E d \in Place : Full(s, d)

\* A profile waits at most once, `ids` mirrors the queue, and whatever is
\* waiting or being moved has a worker: sync holds on a profile (which look at
\* `ids` and `active`) end when its migration does.
QueueConsistent ==
    /\ \A i, j \in DOMAIN queue : queue[i].source = queue[j].source => i = j
    /\ ids = {queue[i].source : i \in DOMAIN queue}
    /\ worker <=> wpc # "idle"
    /\ queue # <<>> => worker

\* sources.rs:1571, "a staging directory is owned by this durable job. It makes
\* a cross-volume copy resumable": a profile with no migration under way, or
\* to be resumed, has its media where the database says.
SettledComplete ==
    \A s \in Source :
        \/ IsMigrating(s)
        \/ \E r \in rows : r.source = s
        \/ Full(s, root[s])

\* A job that waits or runs is in the table, under its own id or that of an
\* earlier job of the profile, so a restart resumes it.
JobsDurable ==
    \A s \in Source :
        s \in ids \/ (active # None /\ active.source = s /\ wpc # "close")
            => \E r \in rows : r.source = s
=============================================================================
