--------------------------- MODULE SourceSyncQueue ---------------------------
(***************************************************************************)
(* The source-sync queue of source_sync_runtime.rs: one lane per provider, *)
(* one worker thread per lane, all lanes behind one mutex, and a table of  *)
(* persisted jobs written after the mutex is released.                     *)
(*                                                                         *)
(* One action is one critical section of that mutex or one statement on    *)
(* the table.  A call of the desktop API that needs several of them keeps  *)
(* its place in `call`; a worker thread keeps its place in `wpc`; the boot *)
(* thread that reloads the table keeps its place in `restore`.             *)
(*                                                                         *)
(* An operator introduced by "Fault:" is not part of the specification: it *)
(* is the next definition with a plausible bug, kept to show that the      *)
(* properties notice it (PROJECT.json, "mutants").                         *)
(***************************************************************************)
EXTENDS Naturals, Sequences, FiniteSets

CONSTANTS
    Key,            \* job keys: a profile, or one story target of a profile
    Source,         \* profiles
    Provider,       \* lanes
    Account,        \* provider accounts
    Client,         \* threads that may be inside an API call
    Worker,         \* worker threads
    SourceOf,       \* the profile of a job key
    ProviderOf,     \* the lane of a profile
    AccountOf,      \* the account of a profile
    HoldAccount,    \* accounts that can be rate-limited (Twitter only)
    Mode,           \* run modes in use
    DiskErrors,     \* whether a write to the table may fail
    None

ASSUME DomainAssumption ==
    /\ SourceOf \in [Key -> Source]
    /\ ProviderOf \in [Source -> Provider]
    /\ AccountOf \in [Source -> Account]
    /\ HoldAccount \subseteq Account
    /\ DiskErrors \in BOOLEAN

ASSUME ModeAssumption == Mode \subseteq {"normal", "timeline", "force"}

Job == [key : Key, mode : Mode]

ASSUME NoneAssumption == None \notin Key /\ None \notin Provider /\ None \notin Job

Lane(k) == ProviderOf[SourceOf[k]]

VARIABLES
    queues,         \* the waiting jobs of each lane
    queuedKeys,     \* keys waiting in any lane
    active,         \* the job each lane runs, or None
    workersRunning, \* lanes a worker was spawned for
    paused,         \* lanes that must not start jobs
    wpc,            \* where each worker thread is
    wlane,          \* the lane of each worker thread
    wjob,           \* the job each worker thread took
    call,           \* where each API call is
    rows,           \* the persisted jobs
    restore,        \* the boot thread: "boot", "rows", "done"
    pendingRows,    \* rows the boot thread has still to enqueue
    pendingSpawns,  \* lanes the boot thread has still to spawn a worker for
    holds,          \* accounts on a rate-limit hold
    migrating,      \* profiles whose media folder is being moved
    exists,         \* profiles not deleted
    token           \* cancel token of each profile's run

memory == <<queues, queuedKeys, active, workersRunning, paused>>
threads == <<wpc, wlane, wjob>>
boot == <<restore, pendingRows, pendingSpawns>>
world == <<holds, migrating, exists>>
vars == <<memory, threads, call, rows, boot, world, token>>

\* A call between two of its steps: what it still has to persist, unpersist,
\* spawn or cancel.
Call == [step   : {"idle", "persist", "unpersist"},
         job    : Job \cup {None},
         spawn  : BOOLEAN,
         keys   : SUBSET Key,
         cancel : Source \cup {None}]

IdleCall == [step |-> "idle", job |-> None, spawn |-> FALSE,
             keys |-> {}, cancel |-> None]

TypeOK ==
    /\ queues \in [Provider -> Seq(Job)]
    /\ queuedKeys \subseteq Key
    /\ active \in [Provider -> Job \cup {None}]
    /\ workersRunning \subseteq Provider
    /\ paused \subseteq Provider
    /\ wpc \in [Worker -> {"idle", "loop", "starting", "running", "settling", "closing"}]
    /\ wlane \in [Worker -> Provider \cup {None}]
    /\ wjob \in [Worker -> Job \cup {None}]
    /\ call \in [Client -> Call]
    /\ rows \subseteq Job
    /\ restore \in {"boot", "rows", "done"}
    /\ pendingRows \subseteq Job
    /\ pendingSpawns \subseteq Provider
    /\ holds \subseteq Account
    /\ migrating \subseteq Source
    /\ exists \subseteq Source
    /\ token \in [Source -> {"none", "armed", "fired"}]

Init ==
    /\ queues = [p \in Provider |-> <<>>]
    /\ queuedKeys = {}
    /\ active = [p \in Provider |-> None]
    /\ workersRunning = {}
    /\ paused = {}
    /\ wpc = [w \in Worker |-> "idle"]
    /\ wlane = [w \in Worker |-> None]
    /\ wjob = [w \in Worker |-> None]
    /\ call = [c \in Client |-> IdleCall]
    /\ rows = {}
    /\ restore = "boot"
    /\ pendingRows = {}
    /\ pendingSpawns = {}
    /\ holds = {}
    /\ migrating = {}
    /\ exists = Source
    /\ token = [s \in Source |-> "none"]
-----------------------------------------------------------------------------
\* The persisted table: every write is attempted once and its error ignored.

AfterWrite(new) == IF DiskErrors THEN {rows, new} ELSE {new}

WithRow(job) == {r \in rows : r.key # job.key} \cup {job}

WithoutRow(k) == {r \in rows : r.key # k}
-----------------------------------------------------------------------------
\* enqueue_job: what one critical section does with a new job.

Promotes(mode) == mode \in {"timeline", "force"}

Promoted(job) ==
    /\ Promotes(job.mode)
    /\ \E i \in DOMAIN queues[Lane(job.key)] : queues[Lane(job.key)][i].key = job.key

AlreadyActive(k) == active[Lane(k)] # None /\ active[Lane(k)].key = k

\* A key waits at most once; it may wait while it runs only to force a backfill.
QueuedNow(job) ==
    /\ job.key \notin queuedKeys
    /\ AlreadyActive(job.key) => job.mode = "force"

\* Fault: takes an idle lane for a lane without a worker.
ShouldSpawnIfIdle(p) == active[p] = None

\* One worker per lane.
ShouldSpawn(p) == p \notin workersRunning

PromoteIn(q, job) ==
    [i \in DOMAIN q |-> IF Promotes(job.mode) /\ q[i].key = job.key THEN job ELSE q[i]]

EnqueueJob(job) ==
    LET p == Lane(job.key)
        q == PromoteIn(queues[p], job)
    IN  /\ queues' = [queues EXCEPT ![p] = IF QueuedNow(job) THEN Append(q, job) ELSE q]
        /\ queuedKeys' = IF QueuedNow(job) THEN queuedKeys \cup {job.key} ELSE queuedKeys
        /\ workersRunning' = workersRunning \cup {p}

SpawnWorker(p) ==
    \E w \in Worker :
        /\ wpc[w] = "idle"
        /\ wpc' = [wpc EXCEPT ![w] = "loop"]
        /\ wlane' = [wlane EXCEPT ![w] = p]
        /\ UNCHANGED wjob

SpawnIf(needed, p) == IF needed THEN SpawnWorker(p) ELSE UNCHANGED threads
-----------------------------------------------------------------------------
\* The API calls of the desktop, the companion and the scheduler.

\* enqueue_source_sync when the job is queued or promotes a queued one: the
\* row is written, and the worker spawned, after the mutex is released.
Enqueue(c, k, mode) ==
    LET job == [key |-> k, mode |-> mode] IN
    /\ call[c].step = "idle"
    /\ SourceOf[k] \in exists
    /\ QueuedNow(job) \/ Promoted(job)
    /\ EnqueueJob(job)
    /\ call' = [call EXCEPT ![c] = [IdleCall EXCEPT !.step = "persist",
                                                    !.job = job,
                                                    !.spawn = ShouldSpawn(Lane(k))]]
    /\ UNCHANGED <<active, paused, threads, rows, boot, world, token>>

\* The same call when the key already waits or runs: nothing to persist.
EnqueueDuplicate(c, k, mode) ==
    LET job == [key |-> k, mode |-> mode] IN
    /\ call[c].step = "idle"
    /\ SourceOf[k] \in exists
    /\ ~QueuedNow(job)
    /\ ~Promoted(job)
    /\ EnqueueJob(job)
    /\ SpawnIf(ShouldSpawn(Lane(k)), Lane(k))
    /\ UNCHANGED <<active, paused, call, rows, boot, world, token>>

\* The rest of the call: write the row, then spawn the worker asked for.
Persist(c) ==
    /\ call[c].step = "persist"
    /\ rows' \in AfterWrite(WithRow(call[c].job))
    /\ SpawnIf(call[c].spawn, Lane(call[c].job.key))
    /\ call' = [call EXCEPT ![c] = IdleCall]
    /\ UNCHANGED <<memory, boot, world, token>>

\* The ways to list the positions `keep` of q, each once.
Listings(q, keep) ==
    UNION {{f \in [1..n -> keep] :
                /\ \A i, j \in 1..n : f[i] = f[j] => i = j
                /\ \A x \in keep : \E i \in 1..n : f[i] = x} : n \in 0..Len(q)}

InOrder(f) == \A i, j \in DOMAIN f : i < j => f[i] < f[j]

ListedBy(q, f) == [i \in DOMAIN f |-> q[f[i]]]

\* q without the keys `gone`, the rest in its old order.
Retained(q, gone) ==
    {ListedBy(q, f) : f \in {f \in Listings(q, {i \in DOMAIN q : q[i].key \notin gone}) : InOrder(f)}}

QueuedIn(p, ks) == {k \in ks : \E i \in DOMAIN queues[p] : queues[p][i].key = k}

\* The critical section both cancellations share: drop the waiting jobs `ks`
\* of lane p, and remember the profile whose run is to be cancelled.
WithdrawFrom(c, p, ks, cancelled) ==
    /\ call[c].step = "idle"
    /\ \E q \in Retained(queues[p], ks) : queues' = [queues EXCEPT ![p] = q]
    /\ queuedKeys' = queuedKeys \ QueuedIn(p, ks)
    /\ call' = [call EXCEPT ![c] = [IdleCall EXCEPT !.step = "unpersist",
                                                    !.keys = QueuedIn(p, ks),
                                                    !.cancel = cancelled]]
    /\ UNCHANGED <<active, workersRunning, paused, threads, rows, boot, world, token>>

\* Only the profile's own lane can hold its jobs (QueuesConsistent).
CancelProfile(c, s) ==
    LET p == ProviderOf[s]
        runs == active[p] # None /\ SourceOf[active[p].key] = s
    IN  WithdrawFrom(c, p, {k \in Key : SourceOf[k] = s}, IF runs THEN s ELSE None)

CancelProvider(c, p) ==
    WithdrawFrom(c, p, Key, IF active[p] # None THEN SourceOf[active[p].key] ELSE None)

\* The rows of the withdrawn jobs go one statement at a time.
Unpersist(c, k) ==
    /\ call[c].step = "unpersist"
    /\ k \in call[c].keys
    /\ rows' \in AfterWrite(WithoutRow(k))
    /\ call' = [call EXCEPT ![c].keys = @ \ {k}]
    /\ UNCHANGED <<memory, threads, boot, world, token>>

\* request_source_sync_cancel: it finds a token only while a run holds one.
RequestCancel(c) ==
    /\ call[c].step = "unpersist"
    /\ call[c].keys = {}
    /\ token' = [s \in Source |->
                    IF s = call[c].cancel /\ token[s] = "armed" THEN "fired" ELSE token[s]]
    /\ call' = [call EXCEPT ![c] = IdleCall]
    /\ UNCHANGED <<memory, threads, rows, boot, world>>

Pause(p) ==
    /\ paused' = paused \cup {p}
    /\ UNCHANGED <<queues, queuedKeys, active, workersRunning, threads, call, rows,
                   boot, world, token>>

\* Fault: resuming only clears the flag.
ResumeOnlyUnpauses(p) == FALSE

ResumeNeedsWorker(p) == queues[p] # <<>> /\ ShouldSpawn(p)

Resume(p) ==
    /\ paused' = paused \ {p}
    /\ workersRunning' = IF ResumeNeedsWorker(p) THEN workersRunning \cup {p} ELSE workersRunning
    /\ SpawnIf(ResumeNeedsWorker(p), p)
    /\ UNCHANGED <<queues, queuedKeys, active, call, rows, boot, world, token>>

\* The ranks sent by drag-and-drop can ask for any order of the lane.
Reorder(p) ==
    /\ \E f \in Listings(queues[p], DOMAIN queues[p]) :
            queues' = [queues EXCEPT ![p] = ListedBy(queues[p], f)]
    /\ UNCHANGED <<queuedKeys, active, workersRunning, paused, threads, call, rows,
                   boot, world, token>>
-----------------------------------------------------------------------------
\* A worker thread.

\* A job whose profile is migrating or whose account is held is rotated past.
Eligible(job) ==
    /\ SourceOf[job.key] \notin migrating
    /\ AccountOf[SourceOf[job.key]] \notin holds

FirstEligible(q, i) ==
    /\ Eligible(q[i])
    /\ \A j \in 1..(i - 1) : ~Eligible(q[j])

\* What is left of q when its i-th job is taken: the ones before it were
\* pushed to the back while looking for it.
Rotated(q, i) ==
    [n \in 1..(Len(q) - 1) |-> IF n <= Len(q) - i THEN q[i + n] ELSE q[n + i - Len(q)]]

\* dequeue_next on an eligible job.  With none eligible the whole lane is
\* rotated once, which leaves it as it was, and the thread sleeps: a stutter.
StartJob(w) ==
    LET p == wlane[w] IN
    /\ wpc[w] = "loop"
    /\ p \notin paused
    /\ \E i \in DOMAIN queues[p] :
        /\ FirstEligible(queues[p], i)
        /\ queues' = [queues EXCEPT ![p] = Rotated(queues[p], i)]
        /\ queuedKeys' = queuedKeys \ {queues[p][i].key}
        /\ active' = [active EXCEPT ![p] = queues[p][i]]
        /\ wjob' = [wjob EXCEPT ![w] = queues[p][i]]
    /\ wpc' = [wpc EXCEPT ![w] = "starting"]
    /\ UNCHANGED <<workersRunning, paused, wlane, call, rows, boot, world, token>>

\* Fault: the thread ends without giving the lane up.
StopWithoutRelease(w) ==
    /\ wpc[w] = "loop"
    /\ wlane[w] \in paused \/ queues[wlane[w]] = <<>>
    /\ wpc' = [wpc EXCEPT ![w] = "idle"]
    /\ wlane' = [wlane EXCEPT ![w] = None]
    /\ UNCHANGED <<memory, wjob, call, rows, boot, world, token>>

\* dequeue_next on a paused or empty lane: the thread ends.
StopWorker(w) ==
    LET p == wlane[w] IN
    /\ wpc[w] = "loop"
    /\ p \in paused \/ queues[p] = <<>>
    /\ active' = [active EXCEPT ![p] = None]
    /\ workersRunning' = workersRunning \ {p}
    /\ wpc' = [wpc EXCEPT ![w] = "idle"]
    /\ wlane' = [wlane EXCEPT ![w] = None]
    /\ UNCHANGED <<queues, queuedKeys, paused, wjob, call, rows, boot, world, token>>

\* A run that fails before it has a cancel token (profile gone, preflight).
FailEarly(w) ==
    /\ wpc[w] = "starting"
    /\ wpc' = [wpc EXCEPT ![w] = "settling"]
    /\ UNCHANGED <<memory, wlane, wjob, call, rows, boot, world, token>>

\* register_source_sync_cancel_token: a fresh token, whatever was there.
RegisterToken(w) ==
    /\ wpc[w] = "starting"
    /\ SourceOf[wjob[w].key] \in exists
    /\ token' = [token EXCEPT ![SourceOf[wjob[w].key]] = "armed"]
    /\ wpc' = [wpc EXCEPT ![w] = "running"]
    /\ UNCHANGED <<memory, wlane, wjob, call, rows, boot, world>>

\* The run ends: finished, cancelled or failed, or rate-limited, which puts
\* its account on hold; a run that was not limited may clear the hold.
EndRun(w) ==
    LET s == SourceOf[wjob[w].key]
        a == AccountOf[s]
    IN  /\ wpc[w] = "running"
        /\ token' = [token EXCEPT ![s] = "none"]
        /\ holds' \in {holds, holds \ {a}} \cup (IF a \in HoldAccount THEN {holds \cup {a}} ELSE {})
        /\ wpc' = [wpc EXCEPT ![w] = "settling"]
        /\ UNCHANGED <<memory, wlane, wjob, call, rows, boot, migrating, exists>>

\* Fault: takes a run that was rate-limited for a finished one.
RequeueUnpersists(w) ==
    LET job == wjob[w]
        p == Lane(job.key)
    IN  /\ wpc[w] = "settling"
        /\ AccountOf[SourceOf[job.key]] \in holds
        /\ active' = [active EXCEPT ![p] = None]
        /\ queues' = IF job.key \in queuedKeys THEN queues
                     ELSE [queues EXCEPT ![p] = Append(@, job)]
        /\ queuedKeys' = queuedKeys \cup {job.key}
        /\ wpc' = [wpc EXCEPT ![w] = "loop"]
        /\ wjob' = [wjob EXCEPT ![w] = None]
        /\ rows' \in AfterWrite(WithoutRow(job.key))
        /\ UNCHANGED <<workersRunning, paused, wlane, call, boot, world, token>>

\* requeue_active_on_account_hold
Requeue(w) ==
    LET job == wjob[w]
        p == Lane(job.key)
    IN  /\ wpc[w] = "settling"
        /\ AccountOf[SourceOf[job.key]] \in holds
        /\ active' = [active EXCEPT ![p] = None]
        /\ queues' = IF job.key \in queuedKeys THEN queues
                     ELSE [queues EXCEPT ![p] = Append(@, job)]
        /\ queuedKeys' = queuedKeys \cup {job.key}
        /\ wpc' = [wpc EXCEPT ![w] = "loop"]
        /\ wjob' = [wjob EXCEPT ![w] = None]
        /\ UNCHANGED <<workersRunning, paused, wlane, call, rows, boot, world, token>>

\* finish_active, first half: the row goes before the mutex is taken.
FinishRow(w) ==
    /\ wpc[w] = "settling"
    /\ AccountOf[SourceOf[wjob[w].key]] \notin holds
    /\ rows' \in AfterWrite(WithoutRow(wjob[w].key))
    /\ wpc' = [wpc EXCEPT ![w] = "closing"]
    /\ UNCHANGED <<memory, wlane, wjob, call, boot, world, token>>

\* finish_active, second half.
Finish(w) ==
    LET k == wjob[w].key IN
    /\ wpc[w] = "closing"
    /\ active' = IF AlreadyActive(k) THEN [active EXCEPT ![Lane(k)] = None] ELSE active
    /\ wpc' = [wpc EXCEPT ![w] = "loop"]
    /\ wjob' = [wjob EXCEPT ![w] = None]
    /\ UNCHANGED <<queues, queuedKeys, workersRunning, paused, wlane, call, rows, boot,
                   world, token>>
-----------------------------------------------------------------------------
\* restore_persisted_queue, on a thread of its own that starts while the API
\* already serves calls.

LoadRows ==
    /\ restore = "boot"
    /\ restore' = IF rows = {} THEN "done" ELSE "rows"
    /\ pendingRows' = rows
    /\ UNCHANGED <<memory, threads, call, rows, pendingSpawns, world, token>>

RestoreRow(r) ==
    /\ restore = "rows"
    /\ r \in pendingRows
    /\ SourceOf[r.key] \in exists
    /\ EnqueueJob(r)
    /\ pendingSpawns' = IF ShouldSpawn(Lane(r.key)) THEN pendingSpawns \cup {Lane(r.key)}
                        ELSE pendingSpawns
    /\ pendingRows' = pendingRows \ {r}
    /\ UNCHANGED <<active, paused, threads, call, rows, restore, world, token>>

\* The profile was deleted since: its row is discarded.
DiscardRow(r) ==
    /\ restore = "rows"
    /\ r \in pendingRows
    /\ SourceOf[r.key] \notin exists
    /\ rows' \in AfterWrite(WithoutRow(r.key))
    /\ pendingRows' = pendingRows \ {r}
    /\ UNCHANGED <<memory, threads, call, restore, pendingSpawns, world, token>>

RestoreSpawn(p) ==
    /\ restore = "rows"
    /\ pendingRows = {}
    /\ p \in pendingSpawns
    /\ SpawnWorker(p)
    /\ pendingSpawns' = pendingSpawns \ {p}
    /\ UNCHANGED <<memory, call, rows, restore, pendingRows, world, token>>

\* Fault: does not wait for the workers to be spawned.
RestoreDoneEarly ==
    /\ restore = "rows"
    /\ pendingRows = {}
    /\ restore' = "done"
    /\ pendingSpawns' = {}
    /\ UNCHANGED <<memory, threads, call, rows, pendingRows, world, token>>

RestoreDone ==
    /\ restore = "rows"
    /\ pendingRows = {}
    /\ pendingSpawns = {}
    /\ restore' = "done"
    /\ UNCHANGED <<memory, threads, call, rows, pendingRows, pendingSpawns, world, token>>

\* The process ends, in any state, and starts again: the table, the holds and
\* the profiles are on disk; everything else is gone.
Restart ==
    /\ queues' = [p \in Provider |-> <<>>]
    /\ queuedKeys' = {}
    /\ active' = [p \in Provider |-> None]
    /\ workersRunning' = {}
    /\ paused' = {}
    /\ wpc' = [w \in Worker |-> "idle"]
    /\ wlane' = [w \in Worker |-> None]
    /\ wjob' = [w \in Worker |-> None]
    /\ call' = [c \in Client |-> IdleCall]
    /\ restore' = "boot"
    /\ pendingRows' = {}
    /\ pendingSpawns' = {}
    /\ token' = [s \in Source |-> "none"]
    /\ UNCHANGED <<rows, world>>
-----------------------------------------------------------------------------
\* What the rest of the program does to the queue's inputs.

\* active_source_sync_account_hold_until clears a hold that is over.
HoldExpires(a) ==
    /\ a \in holds
    /\ holds' = holds \ {a}
    /\ UNCHANGED <<memory, threads, call, rows, boot, migrating, exists, token>>

MigrationStarts(s) ==
    /\ s \notin migrating
    /\ migrating' = migrating \cup {s}
    /\ UNCHANGED <<memory, threads, call, rows, boot, holds, exists, token>>

MigrationEnds(s) ==
    /\ s \in migrating
    /\ migrating' = migrating \ {s}
    /\ UNCHANGED <<memory, threads, call, rows, boot, holds, exists, token>>

\* The delete worker waits for the profile's jobs to clear and deletes it
\* later, so a job enqueued in between is waiting, or running, by then.
SourceDeleted(s) ==
    /\ s \in exists
    /\ exists' = exists \ {s}
    /\ UNCHANGED <<memory, threads, call, rows, boot, holds, migrating, token>>
-----------------------------------------------------------------------------
ClientStep(c) ==
    \/ Persist(c)
    \/ \E k \in Key : Unpersist(c, k)
    \/ RequestCancel(c)

ClientCall(c) ==
    \/ \E k \in Key, m \in Mode : Enqueue(c, k, m) \/ EnqueueDuplicate(c, k, m)
    \/ \E s \in Source : CancelProfile(c, s)
    \/ \E p \in Provider : CancelProvider(c, p)

LaneCall(p) == Pause(p) \/ Resume(p) \/ Reorder(p)

WorkerStep(w) ==
    \/ StartJob(w)
    \/ StopWorker(w)
    \/ FailEarly(w)
    \/ RegisterToken(w)
    \/ EndRun(w)
    \/ Requeue(w)
    \/ FinishRow(w)
    \/ Finish(w)

BootStep ==
    \/ LoadRows
    \/ \E r \in pendingRows : RestoreRow(r) \/ DiscardRow(r)
    \/ \E p \in Provider : RestoreSpawn(p)
    \/ RestoreDone

Environment ==
    \/ \E a \in Account : HoldExpires(a)
    \/ \E s \in Source : MigrationStarts(s) \/ MigrationEnds(s) \/ SourceDeleted(s)

Next ==
    \/ \E c \in Client : ClientCall(c) \/ ClientStep(c)
    \/ \E p \in Provider : LaneCall(p)
    \/ \E w \in Worker : WorkerStep(w)
    \/ BootStep
    \/ Environment
    \/ Restart

Spec == Init /\ [][Next]_vars
-----------------------------------------------------------------------------
\* Safety

Working(w) == wpc[w] \in {"starting", "running", "settling", "closing"}

WorkerOwns(w, p) == wpc[w] # "idle" /\ wlane[w] = p

\* A call that owes the lane the worker its critical section announced.
CallOwns(c, p) ==
    /\ call[c].step = "persist"
    /\ call[c].spawn
    /\ Lane(call[c].job.key) = p

LaneOwned(p) ==
    \/ \E w \in Worker : WorkerOwns(w, p)
    \/ \E c \in Client : CallOwns(c, p)
    \/ p \in pendingSpawns

\* A lane is marked as served exactly while one thread serves it or is about
\* to be spawned for it, and never by two: jobs of a provider run one by one.
\* workers_running is set in one critical section and honoured in another.
OneWorkerPerLane ==
    /\ \A p \in Provider : p \in workersRunning <=> LaneOwned(p)
    /\ \A p \in Provider, v, w \in Worker : WorkerOwns(v, p) /\ WorkerOwns(w, p) => v = w
    /\ \A p \in Provider, c, d \in Client : CallOwns(c, p) /\ CallOwns(d, p) => c = d
    /\ \A p \in Provider, c \in Client, w \in Worker : ~(CallOwns(c, p) /\ WorkerOwns(w, p))
    /\ \A p \in pendingSpawns, c \in Client : ~CallOwns(c, p)
    /\ \A p \in pendingSpawns, w \in Worker : ~WorkerOwns(w, p)

\* queued_keys mirrors the queues: no key waits twice, none waits in another
\* provider's lane, none is remembered as waiting once it left.  A key left
\* behind in the set would make its profile impossible to queue again.
QueuesConsistent ==
    /\ \A p \in Provider : \A i \in DOMAIN queues[p] : Lane(queues[p][i].key) = p
    /\ \A p \in Provider : \A i, j \in DOMAIN queues[p] :
            queues[p][i].key = queues[p][j].key => i = j
    /\ \A k \in Key : k \in queuedKeys <=>
            \E i \in DOMAIN queues[Lane(k)] : queues[Lane(k)][i].key = k

\* The job shown as active is the one the lane's worker runs, and a lane with
\* no worker at work shows none.
ActiveMatchesWorker ==
    /\ \A w \in Worker : Working(w) =>
            /\ wjob[w] \in Job
            /\ Lane(wjob[w].key) = wlane[w]
            /\ active[wlane[w]] = wjob[w]
    /\ \A p \in Provider : active[p] # None =>
            \E w \in Worker : Working(w) /\ wlane[w] = p

\* No waiting job is forgotten: a lane that is not paused and has one has a
\* worker, or one on its way, across pauses, resumes and worker exits.
NoStrandedLane ==
    \A p \in Provider : queues[p] # <<>> /\ p \notin paused => p \in workersRunning

\* Two runs of one profile never overlap, story targets included, and the
\* profile's cancel token is there exactly while its run can be cancelled:
\* runs share the registry entry, so an overlap would lose a cancellation.
TokenMatchesRun ==
    /\ \A v, w \in Worker : Working(v) /\ Working(w) /\ SourceOf[wjob[v].key] = SourceOf[wjob[w].key]
            => v = w
    /\ \A s \in Source : token[s] # "none" <=>
            \E w \in Worker : wpc[w] = "running" /\ SourceOf[wjob[w].key] = s
-----------------------------------------------------------------------------
\* The table against the queue

HasRow(k) == \E r \in rows : r.key = k

Persisting(k) == \E c \in Client : call[c].step = "persist" /\ call[c].job.key = k

\* A job whose row is not due to be gone yet: waiting, or running unfinished.
Unfinished(k) ==
    \/ k \in queuedKeys
    \/ \E w \in Worker : wpc[w] \in {"starting", "running", "settling"} /\ wjob[w].key = k

\* source_sync_runtime.rs:305, "Persiste o job para que a fila sobreviva ao
\* fechamento do app": an accepted job is in the table, or about to be, until
\* it finishes, so a restart at any moment keeps it.
AcceptedJobsPersisted == \A k \in Key : Unfinished(k) => HasRow(k) \/ Persisting(k)
-----------------------------------------------------------------------------
\* The queue implements SyncLanes: waiting keys are the pending set, the
\* active job of a lane is what the lane runs.

RunningKey == [p \in Provider |-> IF active[p] = None THEN None ELSE active[p].key]

Lanes == INSTANCE SyncLanes WITH
            LaneOf  <- [k \in Key |-> Lane(k)],
            NoKey   <- None,
            pending <- queuedKeys,
            running <- RunningKey

ImplementsLanes == Lanes!Spec
=============================================================================
