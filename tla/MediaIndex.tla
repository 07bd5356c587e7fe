------------------------------- MODULE MediaIndex -------------------------------
(***************************************************************************)
(* The media index (media_index_runtime.rs, workspace_repository/          *)
(* media_index.rs): a run brings the rows in line with the files on disk,  *)
(* plans the fingerprints that are missing, leases them in batches to its  *)
(* workers and stores what they computed; the user pauses and resumes it,  *)
(* files change under it, and the process may die.  One profile.           *)
(* The two perceptual kinds are one, "look": a file has one of them.       *)
(***************************************************************************)
EXTENDS Naturals, FiniteSets

CONSTANTS
    IndexFile,    \* the names of the profile's media files
    VideoFile,    \* those that are videos
    Eligibles,    \* which jobs comparison may call for: sets of <<file, kind>>
    Workers,      \* workers of a phase
    IndexErrors,  \* whether a file or the database can refuse a step
    MaxRev,       \* bound: revisions of a file
    MaxEnding     \* bound: runs that ended and are still to drop their token

Kind == {"look", "exact"}
Rev == 1..MaxRev
None == 0       \* no file, no hash; the size and time of a file that is gone

ASSUME IndexAssumption ==
    /\ VideoFile \subseteq IndexFile
    /\ \A set \in Eligibles : set \subseteq IndexFile \X Kind
    /\ Workers \in Nat \ {0}
    /\ IndexErrors \in BOOLEAN
    /\ MaxRev \in Nat \ {0}
    /\ MaxEnding \in Nat \ {0}

\* A revision stands for the bytes of a file and for its size and time.
VARIABLES
    newest,     \* the last revision of each file
    on_disk,    \* the revision that is there, or None
    rows_of,    \* the row of each file: whether it is there, the revision its size
                \* and time are of, the revisions its hashes are of, its status
    fjobs,      \* the fingerprint jobs
    run,        \* the status of the run
    token,      \* the runtime holds a cancellation token
    cancelled,  \* the token of the run at work is set
    ending,     \* runs that ended and are still to drop the runtime's token
    at,         \* where the run's thread is
    to_index,   \* files of the walk still to be put in the index
    walked,     \* files of the walk
    batch,      \* leased items no worker took yet
    reading,    \* items a worker read
    recovered,  \* the recovery of this start is over
    refused,    \* history: since the last plan the database refused a step
    retried     \* history: since the last plan failed jobs were put back

files == <<newest, on_disk>>
catalog == <<rows_of, fjobs>>
runtime == <<run, token, cancelled, ending>>
work == <<at, to_index, walked, batch, reading>>
index_vars == <<files, catalog, runtime, work, recovered, refused, retried>>

Hash == Rev \cup {None}
IndexRow == [here : {"none", "present", "missing"}, rev : Hash, look : Hash, exact : Hash,
             state : {"pending", "complete", "failed"}]
FJob == [status : {"none", "queued", "running", "complete", "failed"},
         attempts : 0..2, expected : Hash]
NoFJob == [status |-> "none", attempts |-> 0, expected |-> None]
Item == [file : IndexFile, kind : Kind, rev : Hash, also : BOOLEAN]
Result == [item : Item, bytes : Hash]

Active == run \in {"running", "pausing"}

IndexTypeOK ==
    /\ newest \in [IndexFile -> Rev]
    /\ on_disk \in [IndexFile -> Hash]
    /\ rows_of \in [IndexFile -> IndexRow]
    /\ fjobs \in [IndexFile \X Kind -> FJob]
    /\ run \in {"none", "running", "pausing", "paused", "completed", "failed"}
    /\ {token, cancelled, recovered, refused, retried} \subseteq BOOLEAN
    /\ ending \in 0..MaxEnding
    /\ at \in {"rest", "scan", "walk", "plan", "look", "exact", "wind up", "group"}
    /\ to_index \subseteq IndexFile
    /\ walked \subseteq IndexFile
    /\ batch \subseteq Item
    /\ reading \subseteq Result

IndexInit ==
    /\ newest = [f \in IndexFile |-> 1]
    /\ on_disk = newest
    /\ rows_of = [f \in IndexFile |->
          [here |-> "none", rev |-> None, look |-> None, exact |-> None, state |-> "pending"]]
    /\ fjobs = [j \in IndexFile \X Kind |-> NoFJob]
    /\ run = "none"
    /\ token = FALSE
    /\ cancelled = FALSE
    /\ ending = 0
    /\ at = "rest"
    /\ to_index = {}
    /\ walked = {}
    /\ batch = {}
    /\ reading = {}
    /\ recovered = FALSE
    /\ refused = FALSE
    /\ retried = FALSE

----------------------------------------------------------------------------
\* The commands.

\* install_run, then the row of the run, which may be refused: the run then
\* counts as active with no thread to end it.
StartRun(place) ==
    /\ ~Active
    /\ ending < MaxEnding
    /\ run' = "running"
    /\ token' = TRUE
    /\ cancelled' = FALSE
    /\ \/ at' = place /\ UNCHANGED refused
       \/ IndexErrors /\ refused' = TRUE /\ UNCHANGED at
    /\ UNCHANGED <<files, catalog, ending, to_index, walked, batch, reading, recovered,
                   retried>>

\* start_scan; resume_fingerprints goes to the planning.
StartScan == StartRun("scan")
ResumeFingerprints == StartRun("plan")

\* cancel_scan
PauseRun ==
    /\ token
    /\ cancelled' = TRUE
    /\ run' = IF run = "running" THEN "pausing" ELSE run
    /\ UNCHANGED <<files, catalog, token, ending, work, recovered, refused, retried>>

\* retry_failed_fingerprints puts the failed jobs back and then resumes, which
\* is refused while a run is active: ResumeFingerprints is a step of its own.
RetryFailed ==
    /\ \E j \in DOMAIN fjobs : fjobs[j].status = "failed"
    /\ fjobs' = [j \in DOMAIN fjobs |->
          IF fjobs[j].status = "failed" THEN [fjobs[j] EXCEPT !.status = "queued", !.attempts = 0]
          ELSE fjobs[j]]
    /\ retried' = TRUE
    /\ UNCHANGED <<files, rows_of, runtime, work, recovered, refused>>

----------------------------------------------------------------------------
\* complete_run: the status, and later the tokens, of whatever run is then at work.

EndRun(status) ==
    /\ run' = status
    /\ at' = "rest"
    /\ ending' = ending + 1
    /\ UNCHANGED <<token, cancelled>>

DropToken ==
    /\ ending > 0
    /\ ending' = ending - 1
    /\ token' = FALSE
    /\ UNCHANGED <<files, catalog, run, cancelled, work, recovered, refused, retried>>

GoOn(place) == at' = place /\ UNCHANGED runtime

----------------------------------------------------------------------------
\* run_scan: reconcile_source_media_index.

\* The walk, unless the run is cancelled first; it may fail, which leaves the
\* index as it is.
WalkFolder ==
    /\ at = "scan"
    /\ walked' = {f \in IndexFile : on_disk[f] # None}
    /\ to_index' = walked'
    /\ GoOn("walk")
    /\ UNCHANGED <<files, catalog, batch, reading, recovered, refused, retried>>

SkipWalk ==
    /\ at = "scan"
    /\ \/ cancelled /\ EndRun("paused")
       \/ ~cancelled /\ IndexErrors /\ GoOn("plan")
    /\ UNCHANGED <<files, catalog, to_index, walked, batch, reading, recovered, refused,
                   retried>>

\* Fault: the hashes of a row stay.
IndexOneKeepsHashes(f) ==
    /\ at = "walk"
    /\ f \in to_index
    /\ to_index' = to_index \ {f}
    /\ rows_of' = [rows_of EXCEPT ![f].here = "present", ![f].rev = on_disk[f]]
    /\ UNCHANGED <<files, fjobs, runtime, at, walked, batch, reading, recovered,
                   refused, retried>>

\* upsert_media_index_entry: hashes of another size or time are dropped.
IndexOne(f) ==
    /\ at = "walk"
    /\ f \in to_index
    /\ to_index' = to_index \ {f}
    /\ rows_of' = [rows_of EXCEPT ![f] =
          IF @.here # "none" /\ @.rev = on_disk[f] THEN [@ EXCEPT !.here = "present"]
          ELSE [here |-> "present", rev |-> on_disk[f], look |-> None, exact |-> None,
                state |-> "pending"]]
    /\ UNCHANGED <<files, fjobs, runtime, at, walked, batch, reading, recovered,
                   refused, retried>>

\* The rows of files the walk did not meet are missing ...
AfterWalk(f) ==
    IF f \in walked \/ rows_of[f].here = "none" THEN rows_of[f]
    ELSE [rows_of[f] EXCEPT !.here = "missing"]

\* ... and some pending rows take the hashes the cleanup's catalog has of the
\* same size and time, which may lack the perceptual ones.
Inherits(f, row, looks) ==
    [here |-> row.here, rev |-> row.rev, exact |-> row.rev, state |-> "complete",
     look |-> IF f \in VideoFile THEN row.look ELSE IF looks THEN row.rev ELSE None]

WalkEnds(inherit) ==
    /\ at = "walk"
    /\ to_index = {}
    /\ \A f \in inherit : rows_of[f].state = "pending" /\ rows_of[f].rev # None
    /\ \E looks \in BOOLEAN :
          rows_of' = [f \in IndexFile |->
             IF f \in inherit THEN Inherits(f, AfterWalk(f), looks) ELSE AfterWalk(f)]
    /\ walked' = {}
    /\ IF cancelled THEN EndRun("paused") ELSE GoOn("plan")
    /\ UNCHANGED <<files, fjobs, to_index, batch, reading, recovered, refused, retried>>

WalkFails ==
    /\ at = "walk"
    /\ IndexErrors
    /\ walked' = {}
    /\ to_index' = {}
    /\ IF cancelled THEN EndRun("paused") ELSE GoOn("plan")
    /\ UNCHANGED <<files, catalog, batch, reading, recovered, refused, retried>>

----------------------------------------------------------------------------
\* finish_fingerprint_run.

\* refresh_media_index_fingerprint_status_with_connection
Refreshed(rows, jobs) ==
    [f \in IndexFile |->
        LET has(s) == \E k \in Kind : jobs[<<f, k>>].status \in s IN
        IF rows[f].here # "present" THEN rows[f]
        ELSE [rows[f] EXCEPT !.state = IF has({"queued", "running"}) THEN "pending"
                                       ELSE IF has({"failed"}) THEN "failed" ELSE "complete"]]

\* The planned job of a present row: settled when the row has the hash, afresh
\* when the row changed, given up when it failed before.
Planned(job, row, kind) ==
    LET changed == job.status = "none" \/ job.expected # row.rev IN
    [status   |-> IF row[kind] # None THEN "complete"
                  ELSE IF ~changed /\ job.status = "failed" /\ job.attempts >= 2 THEN "failed"
                  ELSE "queued",
     attempts |-> IF changed THEN 0 ELSE job.attempts,
     expected |-> row.rev]

\* plan_media_fingerprint_jobs: jobs comparison does not call for are deleted.
PlanJobs(eligible) ==
    /\ at = "plan"
    /\ fjobs' = [j \in DOMAIN fjobs |->
          IF j \in eligible /\ rows_of[j[1]].here = "present"
          THEN Planned(fjobs[j], rows_of[j[1]], j[2]) ELSE NoFJob]
    /\ rows_of' = Refreshed(rows_of, fjobs')
    /\ GoOn("look")
    /\ refused' = FALSE
    /\ retried' = FALSE
    /\ UNCHANGED <<files, to_index, walked, batch, reading, recovered>>

PlanFails ==
    /\ at = "plan"
    /\ IndexErrors
    /\ refused' = TRUE
    /\ EndRun("failed")
    /\ UNCHANGED <<files, catalog, to_index, walked, batch, reading, recovered, retried>>

AfterPhase(kind) == IF kind = "look" THEN "exact" ELSE "wind up"

Leased(jobs) ==
    {[file |-> j[1], kind |-> j[2], rev |-> rows_of[j[1]].rev,
      also |-> jobs[<<j[1], "exact">>].status \in {"queued", "running"}] :
        j \in {i \in DOMAIN jobs : i[2] = at /\ jobs[i].status = "running"}}

\* A lease counts as an attempt; two are enough to give up.
TakenUp(job) ==
    [status |-> "running", expected |-> job.expected,
     attempts |-> IF job.attempts < 2 THEN job.attempts + 1 ELSE 2]

\* lease_pending_fingerprints: what is queued and what the run still holds.  A
\* batch takes four or more, here all.
LeaseBatch ==
    /\ at \in Kind
    /\ batch = {} /\ reading = {}
    /\ ~cancelled
    /\ fjobs' = [j \in DOMAIN fjobs |->
          IF j[2] = at /\ fjobs[j].status = "queued" THEN TakenUp(fjobs[j]) ELSE fjobs[j]]
    /\ batch' = Leased(fjobs')
    /\ IF batch' = {} THEN GoOn(AfterPhase(at)) ELSE UNCHANGED <<at, runtime>>
    /\ UNCHANGED <<files, rows_of, to_index, walked, reading, recovered, refused, retried>>

\* A phase stops when it is cancelled or its lease is refused; the items no
\* worker took stay leased.
PhaseStops ==
    /\ at \in Kind
    /\ reading = {}
    /\ \/ cancelled /\ UNCHANGED refused
       \/ IndexErrors /\ batch = {} /\ refused' = TRUE
    /\ batch' = {}
    /\ GoOn(AfterPhase(at))
    /\ UNCHANGED <<files, catalog, to_index, walked, reading, recovered, retried>>

\* A worker takes an item and reads its file, which may have changed since.
ReadItem(i) ==
    /\ i \in batch
    /\ ~cancelled
    /\ Cardinality(reading) < Workers
    /\ batch' = batch \ {i}
    /\ reading' = reading \cup {[item |-> i, bytes |-> on_disk[i.file]]}
    /\ UNCHANGED <<files, catalog, runtime, at, to_index, walked, recovered, refused, retried>>

SettleItem(r) ==
    /\ r \in reading
    /\ reading' = reading \ {r}
    /\ UNCHANGED <<files, runtime, at, to_index, walked, batch, recovered, retried>>

\* The exact hash that comes with a look: from the same read of an image, from
\* a second read of a video.
AlsoBytes(r) == IF r.item.file \in VideoFile THEN on_disk[r.item.file] ELSE r.bytes

\* complete_media_fingerprint_job: what the row becomes ...
Stored(row, r) ==
    [here |-> row.here, rev |-> row.rev, state |-> "complete",
     look  |-> IF r.item.kind = "look" THEN r.bytes ELSE row.look,
     exact |-> IF r.item.kind = "exact" THEN r.bytes
               ELSE IF r.item.also THEN AlsoBytes(r) ELSE row.exact]

\* ... unless its size and time changed since the lease; those of the file are
\* not looked at.
StoreHash(r) ==
    LET i == r.item
        done == {<<i.file, i.kind>>} \cup (IF i.also THEN {<<i.file, "exact">>} ELSE {})
    IN
    /\ SettleItem(r)
    /\ r.bytes # None
    /\ i.also /\ i.kind = "look" => AlsoBytes(r) # None
    /\ IF rows_of[i.file].rev = i.rev
       THEN /\ rows_of' = [rows_of EXCEPT ![i.file] = Stored(@, r)]
            /\ fjobs' = [j \in DOMAIN fjobs |->
                 IF j \in done THEN [fjobs[j] EXCEPT !.status = "complete"] ELSE fjobs[j]]
       ELSE /\ fjobs' = [fjobs EXCEPT ![<<i.file, i.kind>>].status = "queued"]
            /\ UNCHANGED rows_of
    /\ UNCHANGED refused

\* mark_fingerprint_job_failed
FailHash(r) ==
    LET i == r.item IN
    /\ SettleItem(r)
    /\ \/ r.bytes = None
       \/ i.also /\ i.kind = "look" /\ AlsoBytes(r) = None
       \/ IndexErrors
    /\ fjobs' = [fjobs EXCEPT ![<<i.file, i.kind>>].status =
          IF fjobs[<<i.file, i.kind>>].attempts >= 2 THEN "failed" ELSE "queued"]
    /\ UNCHANGED <<rows_of, refused>>

\* A video's child process is stopped by the token; or the database refuses
\* the result.  The job stays leased.
LeaveItem(r) ==
    /\ SettleItem(r)
    /\ \/ cancelled /\ r.item.kind = "look" /\ r.item.file \in VideoFile /\ UNCHANGED refused
       \/ IndexErrors /\ refused' = TRUE
    /\ UNCHANGED catalog

\* Fault: the leases stay.
WindUpKeepsLeases ==
    /\ at = "wind up"
    /\ IF cancelled THEN EndRun("paused") ELSE GoOn("group")
    /\ UNCHANGED <<files, catalog, to_index, walked, batch, reading, recovered, refused,
                   retried>>

\* After the phases: a cancelled run gives its leases back.
WindUp ==
    /\ at = "wind up"
    /\ \/ /\ cancelled
          /\ fjobs' = [j \in DOMAIN fjobs |->
                IF fjobs[j].status = "running" THEN [fjobs[j] EXCEPT !.status = "queued"]
                ELSE fjobs[j]]
          /\ EndRun("paused")
          /\ UNCHANGED refused
       \/ cancelled /\ IndexErrors /\ refused' = TRUE /\ EndRun("paused") /\ UNCHANGED fjobs
       \/ ~cancelled /\ GoOn("group") /\ UNCHANGED <<fjobs, refused>>
    /\ UNCHANGED <<files, rows_of, to_index, walked, batch, reading, recovered, retried>>

\* The variants are grouped and finalize_media_fingerprint_jobs refreshes the rows.
GroupAndEnd ==
    /\ at = "group"
    /\ \/ rows_of' = Refreshed(rows_of, fjobs) /\ UNCHANGED refused
       \/ IndexErrors /\ refused' = TRUE /\ UNCHANGED rows_of
    /\ EndRun(IF cancelled THEN "paused" ELSE "completed")
    /\ UNCHANGED <<files, fjobs, to_index, walked, batch, reading, recovered, retried>>

----------------------------------------------------------------------------
\* The files, which syncs and users change; the end of the process; recovery.

WriteIndexed(f) ==
    /\ newest[f] < MaxRev
    /\ newest' = [newest EXCEPT ![f] = @ + 1]
    /\ on_disk' = [on_disk EXCEPT ![f] = newest'[f]]
    /\ UNCHANGED <<catalog, runtime, work, recovered, refused, retried>>

RemoveIndexed(f) ==
    /\ on_disk[f] # None
    /\ on_disk' = [on_disk EXCEPT ![f] = None]
    /\ UNCHANGED <<newest, catalog, runtime, work, recovered, refused, retried>>

IndexDies ==
    /\ Active \/ at # "rest"
    /\ run' = "none"
    /\ token' = FALSE
    /\ cancelled' = FALSE
    /\ ending' = 0
    /\ at' = "rest"
    /\ to_index' = {}
    /\ walked' = {}
    /\ batch' = {}
    /\ reading' = {}
    /\ recovered' = FALSE
    /\ UNCHANGED <<files, catalog, refused, retried>>

\* recover_interrupted_media_index_runs, two seconds after the start, whatever
\* run was started by then.
RecoverRuns ==
    /\ ~recovered
    /\ recovered' = TRUE
    /\ \/ /\ fjobs' = [j \in DOMAIN fjobs |->
                IF fjobs[j].status = "running" THEN [fjobs[j] EXCEPT !.status = "queued"]
                ELSE fjobs[j]]
          /\ UNCHANGED refused
       \/ IndexErrors /\ refused' = TRUE /\ UNCHANGED fjobs
    /\ UNCHANGED <<files, rows_of, runtime, work, retried>>

----------------------------------------------------------------------------
RunStep ==
    \/ WalkFolder \/ SkipWalk \/ WalkFails
    \/ PlanFails \/ LeaseBatch \/ PhaseStops \/ WindUp \/ GroupAndEnd \/ DropToken
    \/ \E f \in IndexFile : IndexOne(f)
    \/ \E inherit \in SUBSET IndexFile : WalkEnds(inherit)
    \/ \E eligible \in Eligibles : PlanJobs(eligible)
    \/ \E i \in batch : ReadItem(i)
    \/ \E r \in reading : StoreHash(r) \/ FailHash(r) \/ LeaveItem(r)

IndexNext ==
    \/ StartScan \/ ResumeFingerprints \/ PauseRun \/ RetryFailed
    \/ RunStep
    \/ \E f \in IndexFile : WriteIndexed(f) \/ RemoveIndexed(f)
    \/ IndexDies \/ RecoverRuns

IndexSpec == IndexInit /\ [][IndexNext]_index_vars

----------------------------------------------------------------------------
\* A row of the file that is there never has a hash of other bytes: a hash of
\* a file that was replaced after the lease sits on a row whose size and time
\* are no longer the file's, and the next walk drops it
\* (complete_media_fingerprint_job, upsert_media_index_entry).
HashesAreOfTheFile ==
    \A f \in IndexFile : on_disk[f] # None /\ rows_of[f].rev = on_disk[f] =>
        \A k \in Kind : rows_of[f][k] \in {None, on_disk[f]}

\* A run that counts as active has its thread, and a thread its run, so that a
\* new one can start and two never work at once; only a run whose row the
\* database refused has none (install_run, complete_run).
ActiveRunHasThread == (Active <=> at # "rest") \/ (Active /\ refused)

\* Between runs no job stays leased, whether they ended, were paused at any
\* point or died, once the start's recovery is over; and a run that counts as
\* completed left none waiting: each is settled or was given up, also those that
\* failed once, changed under it or were put back by a late recovery, unless
\* the user put failed ones back meanwhile (run_phase,
\* release_media_fingerprint_leases, recover_interrupted_media_index_runs).
RunsEndSettled ==
    \A j \in DOMAIN fjobs : ~refused =>
        /\ at = "rest" /\ recovered => fjobs[j].status # "running"
        /\ run = "completed" /\ ~retried => fjobs[j].status \in {"none", "complete", "failed"}
=============================================================================
