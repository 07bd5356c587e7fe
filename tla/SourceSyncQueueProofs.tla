------------------------ MODULE SourceSyncQueueProofs ------------------------
(***************************************************************************)
(* Theorems about SourceSyncQueue, for every set of profiles, lanes,       *)
(* clients and workers.                                                    *)
(***************************************************************************)
EXTENDS MCSourceSyncQueue, SequenceTheorems, TLAPS
-----------------------------------------------------------------------------
\* What the queue operators return.

LEMMA SeqOfFunction ==
    ASSUME NEW S, NEW n \in Nat, NEW f \in [1..n -> S]
    PROVE  f \in Seq(S) /\ Len(f) = n /\ DOMAIN f = 1..n
  BY SMT

LEMMA DomainOfSeq ==
    ASSUME NEW S, NEW q \in Seq(S)
    PROVE  Len(q) \in Nat /\ DOMAIN q = 1..Len(q) /\ \A i \in DOMAIN q : q[i] \in S
  BY SMT

\* Listing positions of a queue gives a queue whose i-th job is at position
\* f[i] of the old one, and no position is listed twice.
LEMMA ListedBySpec ==
    ASSUME NEW q \in Seq(Job), NEW keep \in SUBSET DOMAIN q, NEW f \in Listings(q, keep)
    PROVE  /\ ListedBy(q, f) \in Seq(Job)
           /\ \A i \in DOMAIN ListedBy(q, f) : f[i] \in keep /\ ListedBy(q, f)[i] = q[f[i]]
           /\ \A i, j \in DOMAIN ListedBy(q, f) : f[i] = f[j] => i = j
           /\ \A x \in keep : \E i \in DOMAIN ListedBy(q, f) : f[i] = x
  <1>1. PICK n \in 0..Len(q) :
            /\ f \in [1..n -> keep]
            /\ \A i, j \in 1..n : f[i] = f[j] => i = j
            /\ \A x \in keep : \E i \in 1..n : f[i] = x
        BY DEF Listings
  <1>2. n \in Nat /\ DOMAIN q = 1..Len(q) /\ \A i \in DOMAIN q : q[i] \in Job
        BY DomainOfSeq
  <1>3. ListedBy(q, f) \in [1..n -> Job]
        BY <1>1, <1>2 DEF ListedBy
  <1>4. ListedBy(q, f) \in Seq(Job) /\ DOMAIN ListedBy(q, f) = 1..n
        BY <1>2, <1>3, SeqOfFunction
  <1>5. \A i \in 1..n : ListedBy(q, f)[i] = q[f[i]]
        BY <1>1 DEF ListedBy
  <1> QED BY <1>1, <1>4, <1>5
-----------------------------------------------------------------------------
\* Type correctness.  TypeOK alone is not inductive: a step of a thread or of a
\* call uses the lane and the job it noted earlier.

ThreadsOK ==
    /\ \A w \in Worker : wpc[w] # "idle" => wlane[w] \in Provider
    /\ \A w \in Worker : Working(w) => wjob[w] \in Job
    /\ \A c \in Client : call[c].step = "persist" => call[c].job \in Job

TypeInv == TypeOK /\ ThreadsOK

LEMMA LaneType == \A k \in Key : SourceOf[k] \in Source /\ Lane(k) \in Provider
  BY DomainAssumption DEF Lane

LEMMA JobType == \A job \in Job : job.key \in Key /\ job.mode \in Mode
  BY DEF Job

LEMMA MakeJob ==
    ASSUME NEW k \in Key, NEW mode \in Mode
    PROVE  [key |-> k, mode |-> mode] \in Job
  BY DEF Job

LEMMA PromoteInType ==
    ASSUME NEW q \in Seq(Job), NEW job \in Job
    PROVE  PromoteIn(q, job) \in Seq(Job) /\ DOMAIN PromoteIn(q, job) = DOMAIN q
  <1>1. Len(q) \in Nat /\ DOMAIN q = 1..Len(q) /\ \A i \in DOMAIN q : q[i] \in Job
        BY DomainOfSeq
  <1>2. PromoteIn(q, job) \in [1..Len(q) -> Job]
        BY <1>1 DEF PromoteIn
  <1> QED BY <1>1, <1>2, SeqOfFunction

LEMMA RotatedType ==
    ASSUME NEW q \in Seq(Job), NEW i \in DOMAIN q
    PROVE  Rotated(q, i) \in Seq(Job) /\ DOMAIN Rotated(q, i) = 1..(Len(q) - 1)
  <1>1. Len(q) \in Nat /\ DOMAIN q = 1..Len(q) /\ \A j \in DOMAIN q : q[j] \in Job
        BY DomainOfSeq
  <1>2. Len(q) - 1 \in Nat
        BY <1>1
  <1>3. ASSUME NEW n \in 1..(Len(q) - 1)
        PROVE  IF n <= Len(q) - i THEN i + n \in 1..Len(q) ELSE n + i - Len(q) \in 1..Len(q)
        BY <1>1
  <1>4. Rotated(q, i) \in [1..(Len(q) - 1) -> Job]
        BY <1>1, <1>3 DEF Rotated
  <1> QED BY <1>2, <1>4, SeqOfFunction

LEMMA EnqueueJobType ==
    ASSUME TypeInv, NEW job \in Job, EnqueueJob(job)
    PROVE  /\ queues' \in [Provider -> Seq(Job)]
           /\ queuedKeys' \subseteq Key
           /\ workersRunning' \subseteq Provider
  <1> DEFINE p == Lane(job.key)
             q == PromoteIn(queues[p], job)
  <1>1. job.key \in Key /\ p \in Provider
        BY JobType, LaneType
  <1>2. queues \in [Provider -> Seq(Job)] /\ queuedKeys \subseteq Key /\ workersRunning \subseteq Provider
        BY DEF TypeInv, TypeOK
  <1>3. q \in Seq(Job)
        BY <1>1, <1>2, PromoteInType
  <1>4. Append(q, job) \in Seq(Job)
        BY <1>3
  <1>5. queues' \in [Provider -> Seq(Job)]
        BY <1>1, <1>2, <1>3, <1>4 DEF EnqueueJob
  <1> QED BY <1>1, <1>2, <1>5 DEF EnqueueJob

ThreadsType ==
    /\ wpc \in [Worker -> {"idle", "loop", "starting", "running", "settling", "closing"}]
    /\ wlane \in [Worker -> Provider \cup {None}]
    /\ wjob \in [Worker -> Job \cup {None}]
    /\ \A w \in Worker : wpc[w] # "idle" => wlane[w] \in Provider
    /\ \A w \in Worker : Working(w) => wjob[w] \in Job

LEMMA SpawnWorkerType ==
    ASSUME TypeInv, NEW p \in Provider, SpawnWorker(p)
    PROVE  ThreadsType'
  BY DEF TypeInv, TypeOK, ThreadsOK, ThreadsType, SpawnWorker, Working

LEMMA SpawnIfType ==
    ASSUME TypeInv, NEW p \in Provider, NEW needed, SpawnIf(needed, p)
    PROVE  ThreadsType'
  <1>1. CASE needed
        BY <1>1, SpawnWorkerType DEF SpawnIf
  <1>2. CASE ~needed
        BY <1>2 DEF SpawnIf, threads, TypeInv, TypeOK, ThreadsOK, ThreadsType, Working
  <1> QED BY <1>1, <1>2

LEMMA IdleCallType == IdleCall \in Call /\ IdleCall.step # "persist"
  BY DEF IdleCall, Call

LEMMA WithdrawFromType ==
    ASSUME TypeInv, NEW c \in Client, NEW p \in Provider, NEW ks \in SUBSET Key,
           NEW cancelled \in Source \cup {None}, WithdrawFrom(c, p, ks, cancelled)
    PROVE  TypeInv'
  <1> DEFINE keep == {i \in DOMAIN queues[p] : queues[p][i].key \notin ks}
             new == [IdleCall EXCEPT !.step = "unpersist", !.keys = QueuedIn(p, ks),
                                     !.cancel = cancelled]
  <1>1. PICK f \in Listings(queues[p], keep) :
            queues' = [queues EXCEPT ![p] = ListedBy(queues[p], f)]
        BY DEF WithdrawFrom, Retained
  <1>2. ListedBy(queues[p], f) \in Seq(Job)
        BY <1>1, ListedBySpec DEF TypeInv, TypeOK
  <1>3. queues' \in [Provider -> Seq(Job)]
        BY <1>1, <1>2 DEF TypeInv, TypeOK
  <1>4. new \in Call /\ new.step = "unpersist"
        BY DEF Call, IdleCall, QueuedIn
  <1>5. call' = [call EXCEPT ![c] = new]
        BY DEF WithdrawFrom
  <1>6. call' \in [Client -> Call] /\ \A d \in Client : call'[d].step = "persist" => call'[d].job \in Job
        BY <1>4, <1>5 DEF TypeInv, TypeOK, ThreadsOK
  <1> QED BY <1>3, <1>6 DEF WithdrawFrom, TypeInv, TypeOK, ThreadsOK, Working, threads, boot, world

LEMMA TypeStep == TypeInv /\ [Next]_vars => TypeInv'
  <1> SUFFICES ASSUME TypeInv, [Next]_vars PROVE TypeInv'
      OBVIOUS
  <1>1. ASSUME NEW c \in Client, NEW k \in Key, NEW mode \in Mode, Enqueue(c, k, mode) PROVE TypeInv'
    <2> DEFINE job == [key |-> k, mode |-> mode]
               new == [IdleCall EXCEPT !.step = "persist", !.job = job,
                                       !.spawn = ShouldSpawn(Lane(k))]
    <2>1. job \in Job
          BY MakeJob
    <2>2. EnqueueJob(job) /\ call' = [call EXCEPT ![c] = new]
          BY <1>1 DEF Enqueue
    <2>3. new \in Call /\ new.step = "persist" /\ new.job = job
          BY <2>1 DEF Call, IdleCall, ShouldSpawn
    <2>4. call' \in [Client -> Call] /\ \A d \in Client : call'[d].step = "persist" => call'[d].job \in Job
          BY <2>1, <2>2, <2>3 DEF TypeInv, TypeOK, ThreadsOK
    <2>5. /\ queues' \in [Provider -> Seq(Job)]
          /\ queuedKeys' \subseteq Key
          /\ workersRunning' \subseteq Provider
          BY <2>1, <2>2, EnqueueJobType
    <2> QED BY <1>1, <2>4, <2>5 DEF Enqueue, TypeInv, TypeOK, ThreadsOK, Working, threads, boot, world
  <1>2. ASSUME NEW c \in Client, NEW k \in Key, NEW mode \in Mode, EnqueueDuplicate(c, k, mode) PROVE TypeInv'
    <2> DEFINE job == [key |-> k, mode |-> mode]
    <2>1. job \in Job /\ Lane(k) \in Provider
          BY MakeJob, LaneType
    <2>2. EnqueueJob(job) /\ SpawnIf(ShouldSpawn(Lane(k)), Lane(k))
          BY <1>2 DEF EnqueueDuplicate
    <2>3. /\ queues' \in [Provider -> Seq(Job)]
          /\ queuedKeys' \subseteq Key
          /\ workersRunning' \subseteq Provider
          BY <2>1, <2>2, EnqueueJobType
    <2>4. ThreadsType'
          BY <2>1, <2>2, SpawnIfType
    <2> QED BY <1>2, <2>3, <2>4 DEF EnqueueDuplicate, TypeInv, TypeOK, ThreadsOK, ThreadsType, boot, world
  <1>3. ASSUME NEW c \in Client, NEW s \in Source, CancelProfile(c, s) PROVE TypeInv'
        BY <1>3, WithdrawFromType, DomainAssumption DEF CancelProfile
  <1>4. ASSUME NEW c \in Client, NEW p \in Provider, CancelProvider(c, p) PROVE TypeInv'
    <2>1. active[p] # None => SourceOf[active[p].key] \in Source
          BY LaneType, JobType DEF TypeInv, TypeOK
    <2> QED BY <1>4, <2>1, WithdrawFromType DEF CancelProvider
  <1>5. ASSUME NEW c \in Client, Persist(c) PROVE TypeInv'
    <2>1. call[c].job \in Job /\ Lane(call[c].job.key) \in Provider
          BY <1>5, JobType, LaneType DEF Persist, TypeInv, ThreadsOK
    <2>2. ThreadsType'
          BY <1>5, <2>1, SpawnIfType DEF Persist
    <2>3. call' \in [Client -> Call] /\ \A d \in Client : call'[d].step = "persist" => call'[d].job \in Job
          BY <1>5, IdleCallType DEF Persist, TypeInv, TypeOK, ThreadsOK
    <2>4. rows' \subseteq Job
          BY <1>5, <2>1 DEF Persist, TypeInv, TypeOK, AfterWrite, WithRow
    <2> QED BY <1>5, <2>2, <2>3, <2>4 DEF Persist, TypeInv, TypeOK, ThreadsOK, ThreadsType, memory, boot, world
  <1>6. ASSUME NEW c \in Client, NEW k \in Key, Unpersist(c, k) PROVE TypeInv'
    <2> DEFINE new == [call[c] EXCEPT !.keys = @ \ {k}]
    <2>1. call' = [call EXCEPT ![c] = new] /\ call[c] \in Call /\ call[c].step = "unpersist"
          BY <1>6 DEF Unpersist, TypeInv, TypeOK
    <2>3. new \in Call /\ new.step = "unpersist"
          BY <2>1 DEF Call
    <2>4. call' \in [Client -> Call] /\ \A d \in Client : call'[d].step = "persist" => call'[d].job \in Job
          BY <2>1, <2>3 DEF TypeInv, TypeOK, ThreadsOK
    <2>2. rows' \subseteq Job
          BY <1>6 DEF Unpersist, TypeInv, TypeOK, AfterWrite, WithoutRow
    <2> QED BY <1>6, <2>2, <2>4 DEF Unpersist, TypeInv, TypeOK, ThreadsOK, Working, memory, threads, boot, world
  <1>7. ASSUME NEW c \in Client, RequestCancel(c) PROVE TypeInv'
        BY <1>7, IdleCallType DEF RequestCancel, TypeInv, TypeOK, ThreadsOK, Working, memory, threads, boot, world
  <1>8. ASSUME NEW p \in Provider, Pause(p) PROVE TypeInv'
        BY <1>8 DEF Pause, TypeInv, TypeOK, ThreadsOK, Working, memory, threads, boot, world
  <1>9. ASSUME NEW p \in Provider, Resume(p) PROVE TypeInv'
    <2>1. ThreadsType'
          BY <1>9, SpawnIfType DEF Resume
    <2> QED BY <1>9, <2>1 DEF Resume, TypeInv, TypeOK, ThreadsOK, ThreadsType, boot, world
  <1>10. ASSUME NEW p \in Provider, Reorder(p) PROVE TypeInv'
    <2>1. PICK f \in Listings(queues[p], DOMAIN queues[p]) :
              queues' = [queues EXCEPT ![p] = ListedBy(queues[p], f)]
          BY <1>10 DEF Reorder
    <2>2. ListedBy(queues[p], f) \in Seq(Job)
          BY <2>1, ListedBySpec DEF TypeInv, TypeOK
    <2>3. queues' \in [Provider -> Seq(Job)]
          BY <2>1, <2>2 DEF TypeInv, TypeOK
    <2> QED BY <1>10, <2>3 DEF Reorder, TypeInv, TypeOK, ThreadsOK, Working, threads, boot, world
  <1>11. ASSUME NEW w \in Worker, StartJob(w) PROVE TypeInv'
    <2> DEFINE p == wlane[w]
    <2>1. p \in Provider
          BY <1>11 DEF StartJob, TypeInv, ThreadsOK
    <2>2. PICK i \in DOMAIN queues[p] :
              /\ queues' = [queues EXCEPT ![p] = Rotated(queues[p], i)]
              /\ queuedKeys' = queuedKeys \ {queues[p][i].key}
              /\ active' = [active EXCEPT ![p] = queues[p][i]]
              /\ wjob' = [wjob EXCEPT ![w] = queues[p][i]]
          BY <1>11 DEF StartJob
    <2>3. queues[p] \in Seq(Job) /\ queues[p][i] \in Job
          BY <2>1, <2>2, DomainOfSeq DEF TypeInv, TypeOK
    <2>4. Rotated(queues[p], i) \in Seq(Job)
          BY <2>2, <2>3, RotatedType
    <2>5. queues' \in [Provider -> Seq(Job)]
          BY <2>1, <2>2, <2>4 DEF TypeInv, TypeOK
    <2>6. active' \in [Provider -> Job \cup {None}] /\ wjob' \in [Worker -> Job \cup {None}]
          BY <2>1, <2>2, <2>3 DEF TypeInv, TypeOK
    <2>7. \A v \in Worker : Working(v)' => wjob'[v] \in Job
          BY <1>11, <2>2, <2>3 DEF StartJob, TypeInv, TypeOK, ThreadsOK, Working
    <2> QED BY <1>11, <2>2, <2>5, <2>6, <2>7 DEF StartJob, TypeInv, TypeOK, ThreadsOK, boot, world
  <1>12. ASSUME NEW w \in Worker, StopWorker(w) PROVE TypeInv'
        BY <1>12 DEF StopWorker, TypeInv, TypeOK, ThreadsOK, Working, memory, threads, boot, world
  <1>13. ASSUME NEW w \in Worker, FailEarly(w) PROVE TypeInv'
        BY <1>13 DEF FailEarly, TypeInv, TypeOK, ThreadsOK, Working, memory, threads, boot, world
  <1>14. ASSUME NEW w \in Worker, RegisterToken(w) PROVE TypeInv'
        BY <1>14 DEF RegisterToken, TypeInv, TypeOK, ThreadsOK, Working, memory, threads, boot, world
  <1>15. ASSUME NEW w \in Worker, EndRun(w) PROVE TypeInv'
    <2>1. SourceOf[wjob[w].key] \in Source
          BY <1>15, JobType, LaneType DEF EndRun, TypeInv, ThreadsOK, Working
    <2>2. AccountOf[SourceOf[wjob[w].key]] \in Account
          BY <2>1, DomainAssumption
    <2>3. holds' \subseteq Account
          BY <1>15, <2>2 DEF EndRun, TypeInv, TypeOK
    <2> QED BY <1>15, <2>3 DEF EndRun, TypeInv, TypeOK, ThreadsOK, Working, memory, boot
  <1>16. ASSUME NEW w \in Worker, Requeue(w) PROVE TypeInv'
    <2> DEFINE job == wjob[w]
               p == Lane(job.key)
    <2>1. job \in Job /\ job.key \in Key /\ p \in Provider
          BY <1>16, JobType, LaneType DEF Requeue, TypeInv, ThreadsOK, Working
    <2>2. Append(queues[p], job) \in Seq(Job)
          BY <2>1 DEF TypeInv, TypeOK
    <2>3. queues' \in [Provider -> Seq(Job)] /\ queuedKeys' \subseteq Key
          BY <1>16, <2>1, <2>2 DEF Requeue, TypeInv, TypeOK
    <2> QED BY <1>16, <2>3 DEF Requeue, TypeInv, TypeOK, ThreadsOK, Working, boot, world
  <1>17. ASSUME NEW w \in Worker, FinishRow(w) PROVE TypeInv'
        BY <1>17 DEF FinishRow, TypeInv, TypeOK, ThreadsOK, Working, memory, threads, boot, world, AfterWrite, WithoutRow
  <1>18. ASSUME NEW w \in Worker, Finish(w) PROVE TypeInv'
        BY <1>18 DEF Finish, TypeInv, TypeOK, ThreadsOK, Working, memory, threads, boot, world
  <1>19. ASSUME LoadRows PROVE TypeInv'
        BY <1>19 DEF LoadRows, TypeInv, TypeOK, ThreadsOK, Working, memory, threads, boot, world
  <1>20. ASSUME NEW r \in pendingRows, RestoreRow(r) PROVE TypeInv'
    <2>1. r \in Job /\ Lane(r.key) \in Provider
          BY <1>20, JobType, LaneType DEF TypeInv, TypeOK
    <2>2. /\ queues' \in [Provider -> Seq(Job)]
          /\ queuedKeys' \subseteq Key
          /\ workersRunning' \subseteq Provider
          BY <1>20, <2>1, EnqueueJobType DEF RestoreRow
    <2> QED BY <1>20, <2>1, <2>2 DEF RestoreRow, TypeInv, TypeOK, ThreadsOK, Working, threads, world
  <1>21. ASSUME NEW r \in pendingRows, DiscardRow(r) PROVE TypeInv'
        BY <1>21 DEF DiscardRow, TypeInv, TypeOK, ThreadsOK, Working, memory, threads, boot, world, AfterWrite, WithoutRow
  <1>22. ASSUME NEW p \in Provider, RestoreSpawn(p) PROVE TypeInv'
    <2>1. ThreadsType'
          BY <1>22, SpawnWorkerType DEF RestoreSpawn
    <2> QED BY <1>22, <2>1 DEF RestoreSpawn, TypeInv, TypeOK, ThreadsOK, ThreadsType, memory, world
  <1>23. ASSUME RestoreDone PROVE TypeInv'
        BY <1>23 DEF RestoreDone, TypeInv, TypeOK, ThreadsOK, Working, memory, threads, boot, world
  <1>24. ASSUME Environment PROVE TypeInv'
    <2>1. holds' \subseteq Account /\ migrating' \subseteq Source /\ exists' \subseteq Source
          BY <1>24 DEF Environment, HoldExpires, MigrationStarts, MigrationEnds, SourceDeleted, TypeInv, TypeOK
    <2>2. UNCHANGED <<memory, threads, call, rows, boot, token>>
          BY <1>24 DEF Environment, HoldExpires, MigrationStarts, MigrationEnds, SourceDeleted
    <2> QED BY <2>1, <2>2 DEF TypeInv, TypeOK, ThreadsOK, Working, memory, threads, boot
  <1>25. ASSUME Restart PROVE TypeInv'
        BY <1>25 DEF Restart, TypeInv, TypeOK, ThreadsOK, Working, memory, threads, boot, world, Call, IdleCall
  <1>26. CASE UNCHANGED vars
        BY <1>26 DEF TypeInv, TypeOK, ThreadsOK, Working, vars, memory, threads, boot, world
  <1> QED BY <1>1, <1>2, <1>3, <1>4, <1>5, <1>6, <1>7, <1>8, <1>9, <1>10, <1>11, <1>12, <1>13, <1>14, <1>15, <1>16, <1>17, <1>18, <1>19, <1>20, <1>21, <1>22, <1>23, <1>24, <1>25, <1>26 DEF Next, ClientCall, ClientStep, LaneCall, WorkerStep, BootStep

LEMMA TypeInit == Init => TypeInv
  <1> SUFFICES ASSUME Init PROVE TypeInv
      OBVIOUS
  <1>1. <<>> \in Seq(Job)
        OBVIOUS
  <1> QED BY <1>1, IdleCallType DEF Init, TypeInv, TypeOK, ThreadsOK, Working

LEMMA TypeInvariant == Spec => []TypeInv
  BY TypeInit, TypeStep, PTL DEF Spec

\* Every variable keeps its type: in particular every lane is a sequence of
\* jobs of known keys whatever calls, restarts and rotations went before.
THEOREM TypeCorrect == Spec => []TypeOK
  BY TypeInvariant, PTL DEF TypeInv
-----------------------------------------------------------------------------
\* One worker per lane.  A step leaves the owners of lanes alone, gives an
\* unserved lane one owner, hands a lane from one owner to a new thread, or
\* takes a lane from the thread that serves it.

CallsOwnSame == \A c \in Client, q \in Provider : CallOwns(c, q)' <=> CallOwns(c, q)

WorkersOwnSame == \A v \in Worker, q \in Provider : WorkerOwns(v, q)' <=> WorkerOwns(v, q)

WorkerGains(w, p) ==
    \A v \in Worker, q \in Provider :
        WorkerOwns(v, q)' <=> WorkerOwns(v, q) \/ (v = w /\ q = p)

LEMMA OwnersSame ==
    ASSUME TypeInv, OneWorkerPerLane, UNCHANGED <<workersRunning, pendingSpawns>>,
           CallsOwnSame, WorkersOwnSame
    PROVE  OneWorkerPerLane'
  <1>1. pendingSpawns \subseteq Provider /\ workersRunning \subseteq Provider
        BY DEF TypeInv, TypeOK
  <1>2. (\A q \in Provider : q \in workersRunning <=> LaneOwned(q))'
        BY <1>1 DEF OneWorkerPerLane, LaneOwned, CallsOwnSame, WorkersOwnSame
  <1> QED BY <1>1, <1>2 DEF OneWorkerPerLane, LaneOwned, CallsOwnSame, WorkersOwnSame

LEMMA WorkerAdded ==
    ASSUME TypeInv, OneWorkerPerLane, NEW p \in Provider, NEW w \in Worker, p \notin workersRunning,
           workersRunning' = workersRunning \cup {p}, UNCHANGED pendingSpawns,
           CallsOwnSame, WorkerGains(w, p)
    PROVE  OneWorkerPerLane'
  <1>1. pendingSpawns \subseteq Provider /\ workersRunning \subseteq Provider
        BY DEF TypeInv, TypeOK
  <1>2. (\A q \in Provider : q \in workersRunning <=> LaneOwned(q))'
        BY <1>1 DEF OneWorkerPerLane, LaneOwned, CallsOwnSame, WorkerGains
  <1> QED BY <1>1, <1>2 DEF OneWorkerPerLane, LaneOwned, CallsOwnSame, WorkerGains

LEMMA CallAdded ==
    ASSUME TypeInv, OneWorkerPerLane, NEW p \in Provider, NEW c \in Client, p \notin workersRunning,
           workersRunning' = workersRunning \cup {p}, UNCHANGED pendingSpawns,
           \A d \in Client, q \in Provider : CallOwns(d, q)' <=> CallOwns(d, q) \/ (d = c /\ q = p),
           WorkersOwnSame
    PROVE  OneWorkerPerLane'
  <1>1. pendingSpawns \subseteq Provider /\ workersRunning \subseteq Provider
        BY DEF TypeInv, TypeOK
  <1>2. (\A q \in Provider : q \in workersRunning <=> LaneOwned(q))'
        BY <1>1 DEF OneWorkerPerLane, LaneOwned, WorkersOwnSame
  <1> QED BY <1>1, <1>2 DEF OneWorkerPerLane, LaneOwned, WorkersOwnSame

LEMMA BootAdded ==
    ASSUME TypeInv, OneWorkerPerLane, NEW p \in Provider, p \notin workersRunning,
           workersRunning' = workersRunning \cup {p}, pendingSpawns' = pendingSpawns \cup {p},
           CallsOwnSame, WorkersOwnSame
    PROVE  OneWorkerPerLane'
  <1>1. pendingSpawns \subseteq Provider /\ workersRunning \subseteq Provider
        BY DEF TypeInv, TypeOK
  <1>2. (\A q \in Provider : q \in workersRunning <=> LaneOwned(q))'
        BY <1>1 DEF OneWorkerPerLane, LaneOwned, CallsOwnSame, WorkersOwnSame
  <1> QED BY <1>1, <1>2 DEF OneWorkerPerLane, LaneOwned, CallsOwnSame, WorkersOwnSame

LEMMA CallHandsOver ==
    ASSUME TypeInv, OneWorkerPerLane, NEW p \in Provider, NEW c \in Client, NEW w \in Worker,
           CallOwns(c, p), UNCHANGED <<workersRunning, pendingSpawns>>,
           \A d \in Client, q \in Provider : CallOwns(d, q)' <=> CallOwns(d, q) /\ d # c,
           \A q \in Provider : CallOwns(c, q) => q = p,
           WorkerGains(w, p)
    PROVE  OneWorkerPerLane'
  <1>1. pendingSpawns \subseteq Provider /\ workersRunning \subseteq Provider
        BY DEF TypeInv, TypeOK
  <1>2. (\A q \in Provider : q \in workersRunning <=> LaneOwned(q))'
        BY <1>1 DEF OneWorkerPerLane, LaneOwned, WorkerGains
  <1> QED BY <1>1, <1>2 DEF OneWorkerPerLane, LaneOwned, WorkerGains

LEMMA BootHandsOver ==
    ASSUME TypeInv, OneWorkerPerLane, NEW p \in pendingSpawns, NEW w \in Worker,
           pendingSpawns' = pendingSpawns \ {p}, UNCHANGED workersRunning,
           CallsOwnSame, WorkerGains(w, p)
    PROVE  OneWorkerPerLane'
  <1>1. pendingSpawns \subseteq Provider /\ workersRunning \subseteq Provider
        BY DEF TypeInv, TypeOK
  <1>2. (\A q \in Provider : q \in workersRunning <=> LaneOwned(q))'
        BY <1>1 DEF OneWorkerPerLane, LaneOwned, CallsOwnSame, WorkerGains
  <1> QED BY <1>1, <1>2 DEF OneWorkerPerLane, LaneOwned, CallsOwnSame, WorkerGains

LEMMA WorkerRemoved ==
    ASSUME TypeInv, OneWorkerPerLane, NEW p \in Provider, NEW w \in Worker, WorkerOwns(w, p),
           workersRunning' = workersRunning \ {p}, UNCHANGED pendingSpawns, CallsOwnSame,
           \A v \in Worker, q \in Provider : WorkerOwns(v, q)' <=> WorkerOwns(v, q) /\ v # w,
           \A q \in Provider : WorkerOwns(w, q) => q = p
    PROVE  OneWorkerPerLane'
  <1>1. pendingSpawns \subseteq Provider /\ workersRunning \subseteq Provider
        BY DEF TypeInv, TypeOK
  <1>2. (\A q \in Provider : q \in workersRunning <=> LaneOwned(q))'
        BY <1>1 DEF OneWorkerPerLane, LaneOwned, CallsOwnSame
  <1> QED BY <1>1, <1>2 DEF OneWorkerPerLane, LaneOwned, CallsOwnSame

LEMMA SpawnWorkerOwner ==
    ASSUME TypeInv, NEW p \in Provider, SpawnWorker(p)
    PROVE  \E w \in Worker : WorkerGains(w, p)
  <1>1. PICK w \in Worker :
            /\ wpc[w] = "idle"
            /\ wpc' = [wpc EXCEPT ![w] = "loop"]
            /\ wlane' = [wlane EXCEPT ![w] = p]
        BY DEF SpawnWorker
  <1>2. WorkerGains(w, p)
        BY <1>1 DEF TypeInv, TypeOK, WorkerGains, WorkerOwns
  <1> QED BY <1>2

LEMMA WithdrawFromOwners ==
    ASSUME TypeInv, OneWorkerPerLane, NEW c \in Client, NEW p \in Provider, NEW ks \in SUBSET Key,
           NEW cancelled \in Source \cup {None}, WithdrawFrom(c, p, ks, cancelled)
    PROVE  OneWorkerPerLane'
  <1>1. CallsOwnSame /\ WorkersOwnSame
        BY DEF WithdrawFrom, CallsOwnSame, WorkersOwnSame, CallOwns, WorkerOwns, IdleCall,
               TypeInv, TypeOK, threads
  <1> QED BY <1>1, OwnersSame DEF WithdrawFrom, boot

LEMMA OneWorkerStep == TypeInv /\ OneWorkerPerLane /\ [Next]_vars => OneWorkerPerLane'
  <1> SUFFICES ASSUME TypeInv, OneWorkerPerLane, [Next]_vars PROVE OneWorkerPerLane'
      OBVIOUS
  <1>1. ASSUME NEW c \in Client, NEW k \in Key, NEW mode \in Mode, Enqueue(c, k, mode) PROVE OneWorkerPerLane'
    <2> DEFINE p == Lane(k)
    <2>1. p \in Provider
          BY LaneType
    <2>2. /\ workersRunning' = workersRunning \cup {p}
          /\ UNCHANGED pendingSpawns
          /\ WorkersOwnSame
          BY <1>1 DEF Enqueue, EnqueueJob, WorkersOwnSame, WorkerOwns, threads, boot
    <2>3. \A d \in Client, q \in Provider :
              CallOwns(d, q)' <=> CallOwns(d, q) \/ (d = c /\ q = p /\ p \notin workersRunning)
          BY <1>1 DEF Enqueue, CallOwns, IdleCall, ShouldSpawn, TypeInv, TypeOK
    <2>4. CASE p \in workersRunning
          BY <2>2, <2>3, <2>4, OwnersSame DEF CallsOwnSame
    <2>5. CASE p \notin workersRunning
          BY <2>1, <2>2, <2>3, <2>5, CallAdded
    <2> QED BY <2>4, <2>5
  <1>2. ASSUME NEW c \in Client, NEW k \in Key, NEW mode \in Mode, EnqueueDuplicate(c, k, mode) PROVE OneWorkerPerLane'
    <2> DEFINE p == Lane(k)
    <2>1. p \in Provider
          BY LaneType
    <2>2. /\ workersRunning' = workersRunning \cup {p}
          /\ UNCHANGED pendingSpawns
          /\ CallsOwnSame
          /\ SpawnIf(ShouldSpawn(p), p)
          BY <1>2 DEF EnqueueDuplicate, EnqueueJob, CallsOwnSame, CallOwns, boot
    <2>3. CASE ShouldSpawn(p)
          BY <2>1, <2>2, <2>3, SpawnWorkerOwner, WorkerAdded DEF SpawnIf, ShouldSpawn
    <2>4. CASE ~ShouldSpawn(p)
      <3>1. WorkersOwnSame /\ UNCHANGED workersRunning
            BY <2>2, <2>4 DEF SpawnIf, ShouldSpawn, WorkersOwnSame, WorkerOwns, threads
      <3> QED BY <2>2, <3>1, OwnersSame
    <2> QED BY <2>3, <2>4
  <1>3. ASSUME NEW c \in Client, NEW s \in Source, CancelProfile(c, s) PROVE OneWorkerPerLane'
        BY <1>3, WithdrawFromOwners, DomainAssumption DEF CancelProfile
  <1>4. ASSUME NEW c \in Client, NEW p \in Provider, CancelProvider(c, p) PROVE OneWorkerPerLane'
    <2>1. active[p] # None => SourceOf[active[p].key] \in Source
          BY LaneType, JobType DEF TypeInv, TypeOK
    <2> QED BY <1>4, <2>1, WithdrawFromOwners DEF CancelProvider
  <1>5. ASSUME NEW c \in Client, Persist(c) PROVE OneWorkerPerLane'
    <2> DEFINE p == Lane(call[c].job.key)
    <2>1. call[c].job \in Job /\ p \in Provider
          BY <1>5, JobType, LaneType DEF Persist, TypeInv, ThreadsOK
    <2>2. UNCHANGED <<workersRunning, pendingSpawns>> /\ SpawnIf(call[c].spawn, p)
          BY <1>5 DEF Persist, memory, boot
    <2>3. \A d \in Client, q \in Provider : CallOwns(d, q)' <=> CallOwns(d, q) /\ d # c
          BY <1>5 DEF Persist, CallOwns, IdleCall, TypeInv, TypeOK
    <2>4. \A q \in Provider : CallOwns(c, q) <=> call[c].spawn /\ q = p
          BY <1>5 DEF Persist, CallOwns
    <2>5. CASE call[c].spawn
      <3>1. PICK w \in Worker : WorkerGains(w, p)
            BY <2>1, <2>2, <2>5, SpawnWorkerOwner DEF SpawnIf
      <3> QED BY <2>1, <2>2, <2>3, <2>4, <2>5, <3>1, CallHandsOver
    <2>6. CASE ~call[c].spawn
      <3>1. WorkersOwnSame
            BY <2>2, <2>6 DEF SpawnIf, WorkersOwnSame, WorkerOwns, threads
      <3>2. CallsOwnSame
            BY <2>3, <2>4, <2>6 DEF CallsOwnSame
      <3> QED BY <2>2, <3>1, <3>2, OwnersSame
    <2> QED BY <2>5, <2>6
  <1>6. ASSUME NEW c \in Client, NEW k \in Key, Unpersist(c, k) PROVE OneWorkerPerLane'
    <2>1. CallsOwnSame /\ WorkersOwnSame
          BY <1>6 DEF Unpersist, CallsOwnSame, WorkersOwnSame, CallOwns, WorkerOwns, TypeInv, TypeOK, threads, boot
    <2> QED BY <1>6, <2>1, OwnersSame DEF Unpersist, memory, boot
  <1>7. ASSUME NEW c \in Client, RequestCancel(c) PROVE OneWorkerPerLane'
    <2>1. CallsOwnSame /\ WorkersOwnSame
          BY <1>7 DEF RequestCancel, CallsOwnSame, WorkersOwnSame, CallOwns, WorkerOwns, TypeInv, TypeOK, threads, boot, IdleCall
    <2> QED BY <1>7, <2>1, OwnersSame DEF RequestCancel, memory, boot
  <1>8. ASSUME NEW p \in Provider, Pause(p) PROVE OneWorkerPerLane'
    <2>1. CallsOwnSame /\ WorkersOwnSame
          BY <1>8 DEF Pause, CallsOwnSame, WorkersOwnSame, CallOwns, WorkerOwns, TypeInv, TypeOK, threads, boot
    <2> QED BY <1>8, <2>1, OwnersSame DEF Pause, memory, boot
  <1>9. ASSUME NEW p \in Provider, Resume(p) PROVE OneWorkerPerLane'
    <2>1. CallsOwnSame /\ UNCHANGED pendingSpawns /\ SpawnIf(ResumeNeedsWorker(p), p)
          BY <1>9 DEF Resume, CallsOwnSame, CallOwns, boot
    <2>2. CASE ResumeNeedsWorker(p)
          BY <1>9, <2>1, <2>2, SpawnWorkerOwner, WorkerAdded
          DEF Resume, SpawnIf, ResumeNeedsWorker, ShouldSpawn
    <2>3. CASE ~ResumeNeedsWorker(p)
      <3>1. WorkersOwnSame /\ UNCHANGED workersRunning
            BY <1>9, <2>1, <2>3 DEF Resume, SpawnIf, WorkersOwnSame, WorkerOwns, threads
      <3> QED BY <2>1, <3>1, OwnersSame
    <2> QED BY <2>2, <2>3
  <1>10. ASSUME NEW p \in Provider, Reorder(p) PROVE OneWorkerPerLane'
    <2>1. CallsOwnSame /\ WorkersOwnSame
          BY <1>10 DEF Reorder, CallsOwnSame, WorkersOwnSame, CallOwns, WorkerOwns, TypeInv, TypeOK, threads, boot
    <2> QED BY <1>10, <2>1, OwnersSame DEF Reorder, memory, boot
  <1>11. ASSUME NEW w \in Worker, StartJob(w) PROVE OneWorkerPerLane'
    <2>1. CallsOwnSame /\ WorkersOwnSame
          BY <1>11 DEF StartJob, CallsOwnSame, WorkersOwnSame, CallOwns, WorkerOwns, TypeInv, TypeOK, threads, boot
    <2> QED BY <1>11, <2>1, OwnersSame DEF StartJob, memory, boot
  <1>12. ASSUME NEW w \in Worker, StopWorker(w) PROVE OneWorkerPerLane'
    <2>1. wlane[w] \in Provider
          BY <1>12 DEF StopWorker, TypeInv, ThreadsOK
    <2>2. /\ WorkerOwns(w, wlane[w])
          /\ workersRunning' = workersRunning \ {wlane[w]}
          /\ UNCHANGED pendingSpawns
          /\ CallsOwnSame
          /\ \A q \in Provider : WorkerOwns(w, q) => q = wlane[w]
          BY <1>12 DEF StopWorker, WorkerOwns, CallsOwnSame, CallOwns, boot
    <2>3. \A v \in Worker, q \in Provider : WorkerOwns(v, q)' <=> WorkerOwns(v, q) /\ v # w
          BY <1>12 DEF StopWorker, WorkerOwns, TypeInv, TypeOK
    <2> QED BY <2>1, <2>2, <2>3, WorkerRemoved
  <1>13. ASSUME NEW w \in Worker, FailEarly(w) PROVE OneWorkerPerLane'
    <2>1. CallsOwnSame /\ WorkersOwnSame
          BY <1>13 DEF FailEarly, CallsOwnSame, WorkersOwnSame, CallOwns, WorkerOwns, TypeInv, TypeOK, threads, boot
    <2> QED BY <1>13, <2>1, OwnersSame DEF FailEarly, memory, boot
  <1>14. ASSUME NEW w \in Worker, RegisterToken(w) PROVE OneWorkerPerLane'
    <2>1. CallsOwnSame /\ WorkersOwnSame
          BY <1>14 DEF RegisterToken, CallsOwnSame, WorkersOwnSame, CallOwns, WorkerOwns, TypeInv, TypeOK, threads, boot
    <2> QED BY <1>14, <2>1, OwnersSame DEF RegisterToken, memory, boot
  <1>15. ASSUME NEW w \in Worker, EndRun(w) PROVE OneWorkerPerLane'
    <2>1. CallsOwnSame /\ WorkersOwnSame
          BY <1>15 DEF EndRun, CallsOwnSame, WorkersOwnSame, CallOwns, WorkerOwns, TypeInv, TypeOK, threads, boot
    <2> QED BY <1>15, <2>1, OwnersSame DEF EndRun, memory, boot
  <1>16. ASSUME NEW w \in Worker, Requeue(w) PROVE OneWorkerPerLane'
    <2>1. CallsOwnSame /\ WorkersOwnSame
          BY <1>16 DEF Requeue, CallsOwnSame, WorkersOwnSame, CallOwns, WorkerOwns, TypeInv, TypeOK, threads, boot
    <2> QED BY <1>16, <2>1, OwnersSame DEF Requeue, memory, boot
  <1>17. ASSUME NEW w \in Worker, FinishRow(w) PROVE OneWorkerPerLane'
    <2>1. CallsOwnSame /\ WorkersOwnSame
          BY <1>17 DEF FinishRow, CallsOwnSame, WorkersOwnSame, CallOwns, WorkerOwns, TypeInv, TypeOK, threads, boot
    <2> QED BY <1>17, <2>1, OwnersSame DEF FinishRow, memory, boot
  <1>18. ASSUME NEW w \in Worker, Finish(w) PROVE OneWorkerPerLane'
    <2>1. CallsOwnSame /\ WorkersOwnSame
          BY <1>18 DEF Finish, CallsOwnSame, WorkersOwnSame, CallOwns, WorkerOwns, TypeInv, TypeOK, threads, boot
    <2> QED BY <1>18, <2>1, OwnersSame DEF Finish, memory, boot
  <1>19. ASSUME LoadRows PROVE OneWorkerPerLane'
    <2>1. CallsOwnSame /\ WorkersOwnSame
          BY <1>19 DEF LoadRows, CallsOwnSame, WorkersOwnSame, CallOwns, WorkerOwns, TypeInv, TypeOK, threads, boot
    <2> QED BY <1>19, <2>1, OwnersSame DEF LoadRows, memory, boot
  <1>20. ASSUME NEW r \in pendingRows, RestoreRow(r) PROVE OneWorkerPerLane'
    <2> DEFINE p == Lane(r.key)
    <2>1. p \in Provider
          BY JobType, LaneType DEF TypeInv, TypeOK
    <2>2. /\ workersRunning' = workersRunning \cup {p}
          /\ CallsOwnSame
          /\ WorkersOwnSame
          BY <1>20 DEF RestoreRow, EnqueueJob, CallsOwnSame, CallOwns, WorkersOwnSame, WorkerOwns, threads
    <2>3. CASE ShouldSpawn(p)
          BY <1>20, <2>1, <2>2, <2>3, BootAdded DEF RestoreRow, ShouldSpawn
    <2>4. CASE ~ShouldSpawn(p)
          BY <1>20, <2>2, <2>4, OwnersSame DEF RestoreRow, ShouldSpawn
    <2> QED BY <2>3, <2>4
  <1>21. ASSUME NEW r \in pendingRows, DiscardRow(r) PROVE OneWorkerPerLane'
    <2>1. CallsOwnSame /\ WorkersOwnSame
          BY <1>21 DEF DiscardRow, CallsOwnSame, WorkersOwnSame, CallOwns, WorkerOwns, TypeInv, TypeOK, threads, boot
    <2> QED BY <1>21, <2>1, OwnersSame DEF DiscardRow, memory, boot
  <1>22. ASSUME NEW p \in Provider, RestoreSpawn(p) PROVE OneWorkerPerLane'
    <2>1. PICK w \in Worker : WorkerGains(w, p)
          BY <1>22, SpawnWorkerOwner DEF RestoreSpawn
    <2>2. CallsOwnSame
          BY <1>22 DEF RestoreSpawn, CallsOwnSame, CallOwns
    <2> QED BY <1>22, <2>1, <2>2, BootHandsOver DEF RestoreSpawn, memory
  <1>23. ASSUME RestoreDone PROVE OneWorkerPerLane'
    <2>1. CallsOwnSame /\ WorkersOwnSame
          BY <1>23 DEF RestoreDone, CallsOwnSame, WorkersOwnSame, CallOwns, WorkerOwns, TypeInv, TypeOK, threads, boot
    <2> QED BY <1>23, <2>1, OwnersSame DEF RestoreDone, memory, boot
  <1>24. ASSUME Environment PROVE OneWorkerPerLane'
    <2>1. UNCHANGED <<memory, threads, call, boot>>
          BY <1>24 DEF Environment, HoldExpires, MigrationStarts, MigrationEnds, SourceDeleted
    <2>2. CallsOwnSame /\ WorkersOwnSame
          BY <2>1 DEF CallsOwnSame, WorkersOwnSame, CallOwns, WorkerOwns, threads
    <2> QED BY <2>1, <2>2, OwnersSame DEF memory, boot
  <1>25. ASSUME Restart PROVE OneWorkerPerLane'
        BY <1>25 DEF Restart, OneWorkerPerLane, LaneOwned, WorkerOwns, CallOwns, IdleCall
  <1>26. CASE UNCHANGED vars
    <2>1. CallsOwnSame /\ WorkersOwnSame
          BY <1>26 DEF vars, threads, CallsOwnSame, WorkersOwnSame, CallOwns, WorkerOwns
    <2> QED BY <1>26, <2>1, OwnersSame DEF vars, memory, boot
  <1> QED BY <1>1, <1>2, <1>3, <1>4, <1>5, <1>6, <1>7, <1>8, <1>9, <1>10, <1>11, <1>12, <1>13, <1>14, <1>15, <1>16, <1>17, <1>18, <1>19, <1>20, <1>21, <1>22, <1>23, <1>24, <1>25, <1>26 DEF Next, ClientCall, ClientStep, LaneCall, WorkerStep, BootStep

LEMMA OneWorkerInit == Init => OneWorkerPerLane
  BY DEF Init, OneWorkerPerLane, LaneOwned, WorkerOwns, CallOwns, IdleCall

LEMMA OneWorkerInvariant == Spec => []OneWorkerPerLane
  BY TypeInvariant, OneWorkerInit, OneWorkerStep, PTL DEF Spec
-----------------------------------------------------------------------------
\* Queues and queued_keys.  Each operation replaces one lane by a queue whose
\* keys are known; LaneReplaced carries that to all lanes.

KeysOf(q) == {q[i].key : i \in DOMAIN q}

NoRepeat(q) == \A i, j \in DOMAIN q : q[i].key = q[j].key => i = j

LEMMA AppendKeys ==
    ASSUME NEW q \in Seq(Job), NEW job \in Job, NoRepeat(q), job.key \notin KeysOf(q)
    PROVE  NoRepeat(Append(q, job)) /\ KeysOf(Append(q, job)) = KeysOf(q) \cup {job.key}
  <1> DEFINE r == Append(q, job)
  <1>1. /\ Len(q) \in Nat /\ DOMAIN q = 1..Len(q) /\ DOMAIN r = 1..(Len(q) + 1)
        /\ \A i \in 1..Len(q) : r[i] = q[i]
        /\ r[Len(q) + 1] = job
        OBVIOUS
  <1> HIDE DEF r
  <1>2. \A i \in DOMAIN r : i \in DOMAIN q \/ i = Len(q) + 1
        BY <1>1
  <1>3. \A i \in DOMAIN q : i \in DOMAIN r /\ r[i].key = q[i].key /\ q[i].key # job.key
        BY <1>1 DEF KeysOf
  <1>4. NoRepeat(r)
        BY <1>1, <1>2, <1>3 DEF NoRepeat
  <1>5. KeysOf(r) = KeysOf(q) \cup {job.key}
        BY <1>1, <1>2, <1>3 DEF KeysOf
  <1> QED BY <1>4, <1>5 DEF r

LEMMA PromoteKeys ==
    ASSUME NEW q \in Seq(Job), NEW job \in Job
    PROVE  /\ KeysOf(PromoteIn(q, job)) = KeysOf(q)
           /\ NoRepeat(q) => NoRepeat(PromoteIn(q, job))
  <1>1. DOMAIN PromoteIn(q, job) = DOMAIN q
        BY PromoteInType
  <1>2. \A i \in DOMAIN q : PromoteIn(q, job)[i].key = q[i].key
        BY DEF PromoteIn
  <1> QED BY <1>1, <1>2 DEF KeysOf, NoRepeat

LEMMA ListedKeys ==
    ASSUME NEW q \in Seq(Job), NEW keep \in SUBSET DOMAIN q, NEW f \in Listings(q, keep),
           NoRepeat(q)
    PROVE  /\ NoRepeat(ListedBy(q, f))
           /\ KeysOf(ListedBy(q, f)) = {q[x].key : x \in keep}
  BY ListedBySpec DEF KeysOf, NoRepeat

LEMMA RotatedKeys ==
    ASSUME NEW q \in Seq(Job), NEW i \in DOMAIN q, NoRepeat(q)
    PROVE  /\ NoRepeat(Rotated(q, i))
           /\ KeysOf(Rotated(q, i)) = KeysOf(q) \ {q[i].key}
  <1> DEFINE n == Len(q)
             at(m) == IF m <= n - i THEN i + m ELSE m + i - n
  <1>1. n \in Nat /\ DOMAIN q = 1..n /\ i \in 1..n
        BY DomainOfSeq
  <1>2. DOMAIN Rotated(q, i) = 1..(n - 1)
        BY RotatedType
  <1>3. \A m \in 1..(n - 1) : at(m) \in 1..n /\ at(m) # i /\ Rotated(q, i)[m] = q[at(m)]
        BY <1>1 DEF Rotated
  <1>4. \A l, m \in 1..(n - 1) : at(l) = at(m) => l = m
        BY <1>1
  <1>5. \A x \in 1..n : x # i => \E m \in 1..(n - 1) : at(m) = x
    <2> SUFFICES ASSUME NEW x \in 1..n, x # i PROVE \E m \in 1..(n - 1) : at(m) = x
        OBVIOUS
    <2>1. CASE x > i
      <3>1. x - i \in 1..(n - 1) /\ at(x - i) = x
            BY <1>1, <2>1
      <3> QED BY <3>1
    <2>2. CASE x < i
      <3>1. x + n - i \in 1..(n - 1) /\ at(x + n - i) = x
            BY <1>1, <2>2
      <3> QED BY <3>1
    <2> QED BY <1>1, <2>1, <2>2
  <1> HIDE DEF at
  <1>6. NoRepeat(Rotated(q, i))
        BY <1>1, <1>2, <1>3, <1>4 DEF NoRepeat
  <1>7. KeysOf(Rotated(q, i)) = KeysOf(q) \ {q[i].key}
    <2>1. \A k \in KeysOf(Rotated(q, i)) : \E x \in 1..n : x # i /\ q[x].key = k
          BY <1>2, <1>3 DEF KeysOf
    <2>2. \A x \in 1..n : x # i => q[x].key \in KeysOf(Rotated(q, i))
          BY <1>2, <1>3, <1>5 DEF KeysOf
    <2>3. \A x \in 1..n : x # i => q[x].key # q[i].key
          BY <1>1 DEF NoRepeat
    <2> QED BY <1>1, <2>1, <2>2, <2>3, ZenonT(60) DEF KeysOf
  <1> QED BY <1>6, <1>7

LEMMA ConsistentLane ==
    ASSUME QueuesConsistent, NEW p \in Provider
    PROVE  /\ NoRepeat(queues[p])
           /\ \A k \in KeysOf(queues[p]) : Lane(k) = p
           /\ \A k \in Key : Lane(k) = p => (k \in queuedKeys <=> k \in KeysOf(queues[p]))
  BY DEF QueuesConsistent, NoRepeat, KeysOf

LEMMA LaneReplaced ==
    ASSUME TypeInv, QueuesConsistent, NEW p \in Provider, NEW q \in Seq(Job),
           queues' = [queues EXCEPT ![p] = q],
           NoRepeat(q),
           \A k \in KeysOf(q) : Lane(k) = p,
           \A k \in Key : Lane(k) = p => (k \in queuedKeys' <=> k \in KeysOf(q)),
           \A k \in Key : Lane(k) # p => (k \in queuedKeys' <=> k \in queuedKeys)
    PROVE  QueuesConsistent'
  <1>1. queues' \in [Provider -> Seq(Job)] /\ queues'[p] = q
           /\ \A o \in Provider : o # p => queues'[o] = queues[o]
        BY DEF TypeInv, TypeOK
  <1>2. (\A o \in Provider : \A i \in DOMAIN queues[o] : Lane(queues[o][i].key) = o)'
        BY <1>1 DEF QueuesConsistent, KeysOf
  <1>3. (\A o \in Provider : \A i, j \in DOMAIN queues[o] :
            queues[o][i].key = queues[o][j].key => i = j)'
        BY <1>1 DEF QueuesConsistent, NoRepeat
  <1>4. ASSUME NEW k \in Key
        PROVE  (k \in queuedKeys <=>
                    \E i \in DOMAIN queues[Lane(k)] : queues[Lane(k)][i].key = k)'
    <2>1. Lane(k) \in Provider
          BY LaneType
    <2>2. CASE Lane(k) = p
          BY <1>1, <2>2 DEF KeysOf
    <2>3. CASE Lane(k) # p
          BY <1>1, <2>1, <2>3 DEF QueuesConsistent
    <2> QED BY <2>2, <2>3
  <1> QED BY <1>2, <1>3, <1>4 DEF QueuesConsistent

LEMMA QueuesKept ==
    ASSUME QueuesConsistent, UNCHANGED <<queues, queuedKeys>>
    PROVE  QueuesConsistent'
  BY DEF QueuesConsistent

LEMMA EnqueueJobConsistent ==
    ASSUME TypeInv, QueuesConsistent, NEW job \in Job, EnqueueJob(job)
    PROVE  QueuesConsistent'
  <1> DEFINE p == Lane(job.key)
             old == queues[p]
             promoted == PromoteIn(old, job)
             q == IF QueuedNow(job) THEN Append(promoted, job) ELSE promoted
  <1>1. job.key \in Key /\ p \in Provider /\ old \in Seq(Job)
        BY JobType, LaneType DEF TypeInv, TypeOK
  <1>2. /\ queues' = [queues EXCEPT ![p] = q]
        /\ queuedKeys' = IF QueuedNow(job) THEN queuedKeys \cup {job.key} ELSE queuedKeys
        BY DEF EnqueueJob
  <1>3. promoted \in Seq(Job) /\ NoRepeat(promoted) /\ KeysOf(promoted) = KeysOf(old)
        BY <1>1, PromoteInType, PromoteKeys, ConsistentLane
  <1> HIDE DEF promoted
  <1>4. CASE QueuedNow(job)
    <2>1. job.key \notin KeysOf(promoted)
          BY <1>1, <1>3, <1>4, ConsistentLane DEF QueuedNow
    <2>2. /\ Append(promoted, job) \in Seq(Job)
          /\ NoRepeat(Append(promoted, job))
          /\ KeysOf(Append(promoted, job)) = KeysOf(old) \cup {job.key}
          BY <1>3, <2>1, AppendKeys
    <2> QED BY <1>1, <1>2, <1>4, <2>2, ConsistentLane, LaneReplaced
  <1>5. CASE ~QueuedNow(job)
        BY <1>1, <1>2, <1>3, <1>5, ConsistentLane, LaneReplaced
  <1> QED BY <1>4, <1>5

LEMMA WithdrawFromConsistent ==
    ASSUME TypeInv, QueuesConsistent, NEW c \in Client, NEW p \in Provider, NEW ks \in SUBSET Key,
           NEW cancelled, WithdrawFrom(c, p, ks, cancelled)
    PROVE  QueuesConsistent'
  <1> DEFINE q == queues[p]
             keep == {i \in DOMAIN q : q[i].key \notin ks}
  <1>1. PICK f \in Listings(q, keep) : queues' = [queues EXCEPT ![p] = ListedBy(q, f)]
        BY DEF WithdrawFrom, Retained
  <1>2. queuedKeys' = queuedKeys \ QueuedIn(p, ks)
        BY DEF WithdrawFrom
  <1>3. q \in Seq(Job) /\ NoRepeat(q)
        BY ConsistentLane DEF TypeInv, TypeOK
  <1>4. /\ ListedBy(q, f) \in Seq(Job)
        /\ NoRepeat(ListedBy(q, f))
        /\ KeysOf(ListedBy(q, f)) = {q[x].key : x \in keep}
        BY <1>1, <1>3, ListedBySpec, ListedKeys
  <1>5. KeysOf(ListedBy(q, f)) = KeysOf(q) \ ks
        BY <1>4 DEF KeysOf
  <1>6. QueuedIn(p, ks) = ks \cap KeysOf(q)
        BY DEF QueuedIn, KeysOf
  <1> DEFINE r == ListedBy(q, f)
  <1> HIDE DEF keep, r, q
  <1>7. \A k \in KeysOf(r) : Lane(k) = p
        BY <1>5, ConsistentLane DEF q, r
  <1>8. \A k \in Key : Lane(k) = p => (k \in queuedKeys' <=> k \in KeysOf(r))
        BY <1>2, <1>5, <1>6, ConsistentLane DEF q, r
  <1>9. \A k \in Key : Lane(k) # p => (k \in queuedKeys' <=> k \in queuedKeys)
        BY <1>2, <1>6, ConsistentLane DEF q
  <1> QED BY <1>1, <1>4, <1>7, <1>8, <1>9, LaneReplaced DEF q, r

LEMMA QueuesStep == TypeInv /\ QueuesConsistent /\ [Next]_vars => QueuesConsistent'
  <1> SUFFICES ASSUME TypeInv, QueuesConsistent, [Next]_vars PROVE QueuesConsistent'
      OBVIOUS
  <1>1. ASSUME NEW c \in Client, NEW k \in Key, NEW mode \in Mode, Enqueue(c, k, mode) PROVE QueuesConsistent'
        BY <1>1, MakeJob, EnqueueJobConsistent DEF Enqueue
  <1>2. ASSUME NEW c \in Client, NEW k \in Key, NEW mode \in Mode, EnqueueDuplicate(c, k, mode) PROVE QueuesConsistent'
        BY <1>2, MakeJob, EnqueueJobConsistent DEF EnqueueDuplicate
  <1>3. ASSUME NEW c \in Client, NEW s \in Source, CancelProfile(c, s) PROVE QueuesConsistent'
        BY <1>3, WithdrawFromConsistent, DomainAssumption DEF CancelProfile
  <1>4. ASSUME NEW c \in Client, NEW p \in Provider, CancelProvider(c, p) PROVE QueuesConsistent'
        BY <1>4, WithdrawFromConsistent DEF CancelProvider
  <1>5. ASSUME NEW c \in Client, Persist(c) PROVE QueuesConsistent'
        BY <1>5, QueuesKept DEF Persist, memory
  <1>6. ASSUME NEW c \in Client, NEW k \in Key, Unpersist(c, k) PROVE QueuesConsistent'
        BY <1>6, QueuesKept DEF Unpersist, memory
  <1>7. ASSUME NEW c \in Client, RequestCancel(c) PROVE QueuesConsistent'
        BY <1>7, QueuesKept DEF RequestCancel, memory
  <1>8. ASSUME NEW p \in Provider, Pause(p) PROVE QueuesConsistent'
        BY <1>8, QueuesKept DEF Pause, memory
  <1>9. ASSUME NEW p \in Provider, Resume(p) PROVE QueuesConsistent'
        BY <1>9, QueuesKept DEF Resume, memory
  <1>10. ASSUME NEW p \in Provider, Reorder(p) PROVE QueuesConsistent'
    <2> DEFINE q == queues[p]
    <2>1. PICK f \in Listings(q, DOMAIN q) : queues' = [queues EXCEPT ![p] = ListedBy(q, f)]
          BY <1>10 DEF Reorder
    <2>2. q \in Seq(Job) /\ ListedBy(q, f) \in Seq(Job)
          BY <2>1, ListedBySpec DEF TypeInv, TypeOK
    <2>3. NoRepeat(ListedBy(q, f)) /\ KeysOf(ListedBy(q, f)) = KeysOf(q)
          BY <2>1, <2>2, ConsistentLane, ListedKeys DEF KeysOf
    <2>4. UNCHANGED queuedKeys
          BY <1>10 DEF Reorder
    <2> HIDE DEF q
    <2> QED BY <2>1, <2>2, <2>3, <2>4, ConsistentLane, LaneReplaced DEF q
  <1>11. ASSUME NEW w \in Worker, StartJob(w) PROVE QueuesConsistent'
    <2> DEFINE p == wlane[w]
    <2>1. p \in Provider
          BY <1>11 DEF StartJob, TypeInv, ThreadsOK
    <2>2. PICK i \in DOMAIN queues[p] :
              /\ queues' = [queues EXCEPT ![p] = Rotated(queues[p], i)]
              /\ queuedKeys' = queuedKeys \ {queues[p][i].key}
          BY <1>11 DEF StartJob
    <2>3. queues[p] \in Seq(Job) /\ Rotated(queues[p], i) \in Seq(Job)
          BY <2>1, <2>2, RotatedType DEF TypeInv, TypeOK
    <2>4. /\ NoRepeat(Rotated(queues[p], i))
          /\ KeysOf(Rotated(queues[p], i)) = KeysOf(queues[p]) \ {queues[p][i].key}
          BY <2>1, <2>2, <2>3, ConsistentLane, RotatedKeys
    <2>5. queues[p][i].key \in KeysOf(queues[p])
          BY <2>2 DEF KeysOf
    <2>6. Lane(queues[p][i].key) = p
          BY <2>1, <2>5, ConsistentLane
    <2> DEFINE r == Rotated(queues[p], i)
    <2> HIDE DEF p, r
    <2>7. /\ \A k \in KeysOf(r) : Lane(k) = p
          /\ \A k \in Key : Lane(k) = p => (k \in queuedKeys' <=> k \in KeysOf(r))
          BY <2>1, <2>2, <2>4, ConsistentLane DEF r
    <2>8. \A k \in Key : Lane(k) # p => (k \in queuedKeys' <=> k \in queuedKeys)
          BY <2>2, <2>6
    <2> QED BY <2>1, <2>2, <2>3, <2>4, <2>7, <2>8, LaneReplaced DEF r
  <1>12. ASSUME NEW w \in Worker, StopWorker(w) PROVE QueuesConsistent'
        BY <1>12, QueuesKept DEF StopWorker, memory
  <1>13. ASSUME NEW w \in Worker, FailEarly(w) PROVE QueuesConsistent'
        BY <1>13, QueuesKept DEF FailEarly, memory
  <1>14. ASSUME NEW w \in Worker, RegisterToken(w) PROVE QueuesConsistent'
        BY <1>14, QueuesKept DEF RegisterToken, memory
  <1>15. ASSUME NEW w \in Worker, EndRun(w) PROVE QueuesConsistent'
        BY <1>15, QueuesKept DEF EndRun, memory
  <1>16. ASSUME NEW w \in Worker, Requeue(w) PROVE QueuesConsistent'
    <2> DEFINE job == wjob[w]
               p == Lane(job.key)
               q == Append(queues[p], job)
    <2>1. job \in Job /\ job.key \in Key /\ p \in Provider
          BY <1>16, JobType, LaneType DEF Requeue, TypeInv, ThreadsOK, Working
    <2>2. queues[p] \in Seq(Job) /\ q \in Seq(Job)
          BY <2>1 DEF TypeInv, TypeOK
    <2>3. CASE job.key \in queuedKeys
          BY <1>16, <2>3, QueuesKept DEF Requeue
    <2>4. CASE job.key \notin queuedKeys
      <3>1. queues' = [queues EXCEPT ![p] = q] /\ queuedKeys' = queuedKeys \cup {job.key}
            BY <1>16, <2>4 DEF Requeue
      <3>2. job.key \notin KeysOf(queues[p])
            BY <2>1, <2>4, ConsistentLane
      <3>3. NoRepeat(q) /\ KeysOf(q) = KeysOf(queues[p]) \cup {job.key}
            BY <2>1, <2>2, <3>2, ConsistentLane, AppendKeys
      <3> HIDE DEF q
      <3> QED BY <2>1, <2>2, <3>1, <3>3, ConsistentLane, LaneReplaced
    <2> QED BY <2>3, <2>4
  <1>17. ASSUME NEW w \in Worker, FinishRow(w) PROVE QueuesConsistent'
        BY <1>17, QueuesKept DEF FinishRow, memory
  <1>18. ASSUME NEW w \in Worker, Finish(w) PROVE QueuesConsistent'
        BY <1>18, QueuesKept DEF Finish, memory
  <1>19. ASSUME LoadRows PROVE QueuesConsistent'
        BY <1>19, QueuesKept DEF LoadRows, memory
  <1>20. ASSUME NEW r \in pendingRows, RestoreRow(r) PROVE QueuesConsistent'
        BY <1>20, EnqueueJobConsistent DEF RestoreRow, TypeInv, TypeOK
  <1>21. ASSUME NEW r \in pendingRows, DiscardRow(r) PROVE QueuesConsistent'
        BY <1>21, QueuesKept DEF DiscardRow, memory
  <1>22. ASSUME NEW p \in Provider, RestoreSpawn(p) PROVE QueuesConsistent'
        BY <1>22, QueuesKept DEF RestoreSpawn, memory
  <1>23. ASSUME RestoreDone PROVE QueuesConsistent'
        BY <1>23, QueuesKept DEF RestoreDone, memory
  <1>24. ASSUME Environment PROVE QueuesConsistent'
    <2>1. UNCHANGED memory
          BY <1>24 DEF Environment, HoldExpires, MigrationStarts, MigrationEnds, SourceDeleted
    <2> QED BY <2>1, QueuesKept DEF memory
  <1>25. ASSUME Restart PROVE QueuesConsistent'
        BY <1>25, LaneType DEF Restart, QueuesConsistent
  <1>26. CASE UNCHANGED vars
        BY <1>26, QueuesKept DEF vars, memory
  <1> QED BY <1>1, <1>2, <1>3, <1>4, <1>5, <1>6, <1>7, <1>8, <1>9, <1>10, <1>11, <1>12, <1>13, <1>14, <1>15, <1>16, <1>17, <1>18, <1>19, <1>20, <1>21, <1>22, <1>23, <1>24, <1>25, <1>26 DEF Next, ClientCall, ClientStep, LaneCall, WorkerStep, BootStep

LEMMA QueuesInit == Init => QueuesConsistent
  BY LaneType DEF Init, QueuesConsistent

LEMMA QueuesInvariant == Spec => []QueuesConsistent
  BY TypeInvariant, QueuesInit, QueuesStep, PTL DEF Spec
-----------------------------------------------------------------------------
\* What a lane shows as active.

LEMMA UniqueWorker ==
    ASSUME OneWorkerPerLane, NEW v \in Worker, NEW w \in Worker,
           wpc[v] # "idle", wpc[w] # "idle", wlane[v] = wlane[w], wlane[w] \in Provider
    PROVE  v = w
  BY DEF OneWorkerPerLane, WorkerOwns

WorkSame ==
    /\ \A v \in Worker : Working(v)' <=> Working(v)
    /\ \A v \in Worker : Working(v) => wlane'[v] = wlane[v] /\ wjob'[v] = wjob[v]

LEMMA WorkKept ==
    ASSUME ActiveMatchesWorker, UNCHANGED active, WorkSame
    PROVE  ActiveMatchesWorker'
  BY DEF ActiveMatchesWorker, WorkSame

LEMMA SpawnIfWork ==
    ASSUME TypeInv, NEW needed, NEW p, SpawnIf(needed, p)
    PROVE  WorkSame
  <1>1. CASE needed
        BY <1>1 DEF SpawnIf, SpawnWorker, WorkSame, Working, TypeInv, TypeOK
  <1>2. CASE ~needed
        BY <1>2 DEF SpawnIf, WorkSame, Working, threads
  <1> QED BY <1>1, <1>2

LEMMA ActiveStep ==
    TypeInv /\ OneWorkerPerLane /\ QueuesConsistent /\ ActiveMatchesWorker /\ [Next]_vars
        => ActiveMatchesWorker'
  <1> SUFFICES ASSUME TypeInv, OneWorkerPerLane, QueuesConsistent, ActiveMatchesWorker, [Next]_vars
               PROVE  ActiveMatchesWorker'
      OBVIOUS
  <1>1. ASSUME NEW c \in Client, NEW k \in Key, NEW mode \in Mode, Enqueue(c, k, mode) PROVE ActiveMatchesWorker'
    <2>1. WorkSame
          BY <1>1 DEF Enqueue, WorkSame, Working, threads
    <2> QED BY <1>1, <2>1, WorkKept DEF Enqueue, memory
  <1>2. ASSUME NEW c \in Client, NEW k \in Key, NEW mode \in Mode, EnqueueDuplicate(c, k, mode) PROVE ActiveMatchesWorker'
    <2>1. WorkSame
          BY <1>2, SpawnIfWork DEF EnqueueDuplicate
    <2> QED BY <1>2, <2>1, WorkKept DEF EnqueueDuplicate, memory
  <1>3. ASSUME NEW c \in Client, NEW s \in Source, CancelProfile(c, s) PROVE ActiveMatchesWorker'
    <2>1. WorkSame
          BY <1>3 DEF CancelProfile, WithdrawFrom, WorkSame, Working, threads
    <2> QED BY <1>3, <2>1, WorkKept DEF CancelProfile, WithdrawFrom, memory
  <1>4. ASSUME NEW c \in Client, NEW p \in Provider, CancelProvider(c, p) PROVE ActiveMatchesWorker'
    <2>1. WorkSame
          BY <1>4 DEF CancelProvider, WithdrawFrom, WorkSame, Working, threads
    <2> QED BY <1>4, <2>1, WorkKept DEF CancelProvider, WithdrawFrom, memory
  <1>5. ASSUME NEW c \in Client, Persist(c) PROVE ActiveMatchesWorker'
    <2>1. WorkSame
          BY <1>5, SpawnIfWork DEF Persist
    <2> QED BY <1>5, <2>1, WorkKept DEF Persist, memory
  <1>6. ASSUME NEW c \in Client, NEW k \in Key, Unpersist(c, k) PROVE ActiveMatchesWorker'
    <2>1. WorkSame
          BY <1>6 DEF Unpersist, WorkSame, Working, threads
    <2> QED BY <1>6, <2>1, WorkKept DEF Unpersist, memory
  <1>7. ASSUME NEW c \in Client, RequestCancel(c) PROVE ActiveMatchesWorker'
    <2>1. WorkSame
          BY <1>7 DEF RequestCancel, WorkSame, Working, threads
    <2> QED BY <1>7, <2>1, WorkKept DEF RequestCancel, memory
  <1>8. ASSUME NEW p \in Provider, Pause(p) PROVE ActiveMatchesWorker'
    <2>1. WorkSame
          BY <1>8 DEF Pause, WorkSame, Working, threads
    <2> QED BY <1>8, <2>1, WorkKept DEF Pause, memory
  <1>9. ASSUME NEW p \in Provider, Resume(p) PROVE ActiveMatchesWorker'
    <2>1. WorkSame
          BY <1>9, SpawnIfWork DEF Resume
    <2> QED BY <1>9, <2>1, WorkKept DEF Resume, memory
  <1>10. ASSUME NEW p \in Provider, Reorder(p) PROVE ActiveMatchesWorker'
    <2>1. WorkSame
          BY <1>10 DEF Reorder, WorkSame, Working, threads
    <2> QED BY <1>10, <2>1, WorkKept DEF Reorder, memory
  <1>11. ASSUME NEW w \in Worker, StartJob(w) PROVE ActiveMatchesWorker'
    <2> DEFINE p == wlane[w]
    <2>1. p \in Provider /\ wpc[w] = "loop"
          BY <1>11 DEF StartJob, TypeInv, ThreadsOK
    <2>2. PICK i \in DOMAIN queues[p] :
              /\ active' = [active EXCEPT ![p] = queues[p][i]]
              /\ wjob' = [wjob EXCEPT ![w] = queues[p][i]]
          BY <1>11 DEF StartJob
    <2>3. queues[p][i] \in Job /\ Lane(queues[p][i].key) = p
          BY <2>1, <2>2, DomainOfSeq DEF TypeInv, TypeOK, QueuesConsistent
    <2>4. wpc' = [wpc EXCEPT ![w] = "starting"] /\ UNCHANGED wlane
          BY <1>11 DEF StartJob
    <2>5. /\ active'[p] = queues[p][i] /\ wjob'[w] = queues[p][i] /\ wpc'[w] = "starting"
          /\ \A q \in Provider : q # p => active'[q] = active[q]
          /\ \A v \in Worker : v # w => wjob'[v] = wjob[v] /\ wpc'[v] = wpc[v]
          BY <2>1, <2>2, <2>4 DEF TypeInv, TypeOK
    <2>6. \A v \in Worker : v # w /\ Working(v) => wlane[v] # p /\ wlane[v] \in Provider
          BY <2>1, UniqueWorker DEF Working, TypeInv, ThreadsOK
    <2> QED BY <2>1, <2>3, <2>4, <2>5, <2>6 DEF ActiveMatchesWorker, Working
  <1>12. ASSUME NEW w \in Worker, StopWorker(w) PROVE ActiveMatchesWorker'
    <2> DEFINE p == wlane[w]
    <2>1. p \in Provider /\ wpc[w] = "loop"
          BY <1>12 DEF StopWorker, TypeInv, ThreadsOK
    <2>2. \A v \in Worker : Working(v) => wlane[v] # p
          BY <2>1, UniqueWorker DEF Working
    <2>3. active[p] = None
          BY <2>1, <2>2 DEF ActiveMatchesWorker
    <2>4. UNCHANGED active
          BY <1>12, <2>1, <2>3 DEF StopWorker, TypeInv, TypeOK
    <2>5. WorkSame
          BY <1>12 DEF StopWorker, WorkSame, Working, TypeInv, TypeOK
    <2> QED BY <2>4, <2>5, WorkKept
  <1>13. ASSUME NEW w \in Worker, FailEarly(w) PROVE ActiveMatchesWorker'
    <2>1. /\ wpc[w] \in {"starting", "running", "settling", "closing"}
          /\ wpc'[w] \in {"starting", "running", "settling", "closing"}
          /\ \A v \in Worker : v # w => wpc'[v] = wpc[v]
          /\ UNCHANGED <<active, wlane, wjob>>
          BY <1>13 DEF FailEarly, TypeInv, TypeOK, memory
    <2> QED BY <2>1, WorkKept DEF WorkSame, Working
  <1>14. ASSUME NEW w \in Worker, RegisterToken(w) PROVE ActiveMatchesWorker'
    <2>1. /\ wpc[w] \in {"starting", "running", "settling", "closing"}
          /\ wpc'[w] \in {"starting", "running", "settling", "closing"}
          /\ \A v \in Worker : v # w => wpc'[v] = wpc[v]
          /\ UNCHANGED <<active, wlane, wjob>>
          BY <1>14 DEF RegisterToken, TypeInv, TypeOK, memory
    <2> QED BY <2>1, WorkKept DEF WorkSame, Working
  <1>15. ASSUME NEW w \in Worker, EndRun(w) PROVE ActiveMatchesWorker'
    <2>1. /\ wpc[w] \in {"starting", "running", "settling", "closing"}
          /\ wpc'[w] \in {"starting", "running", "settling", "closing"}
          /\ \A v \in Worker : v # w => wpc'[v] = wpc[v]
          /\ UNCHANGED <<active, wlane, wjob>>
          BY <1>15 DEF EndRun, TypeInv, TypeOK, memory
    <2> QED BY <2>1, WorkKept DEF WorkSame, Working
  <1>16. ASSUME NEW w \in Worker, Requeue(w) PROVE ActiveMatchesWorker'
    <2> DEFINE p == wlane[w]
    <2>1. /\ p \in Provider /\ Lane(wjob[w].key) = p /\ active[p] = wjob[w] /\ wjob[w] # None
          BY <1>16, NoneAssumption DEF Requeue, TypeInv, ThreadsOK, Working, ActiveMatchesWorker
    <2>2. active' = [active EXCEPT ![p] = None]
          BY <1>16, <2>1 DEF Requeue, AlreadyActive
    <2>3. /\ active'[p] = None /\ wpc'[w] = "loop"
          /\ \A q \in Provider : q # p => active'[q] = active[q]
          /\ \A v \in Worker : v # w => wpc'[v] = wpc[v] /\ wjob'[v] = wjob[v]
          /\ UNCHANGED wlane
          BY <1>16, <2>1, <2>2 DEF Requeue, TypeInv, TypeOK
    <2>4. \A v \in Worker : v # w /\ Working(v) => wlane[v] # p /\ wlane[v] \in Provider
          BY <1>16, <2>1, UniqueWorker DEF Requeue, Working, TypeInv, ThreadsOK
    <2>5. \A q \in Provider : q # p /\ active[q] # None =>
              \E v \in Worker : v # w /\ Working(v) /\ wlane[v] = q
          BY DEF ActiveMatchesWorker
    <2> QED BY <2>1, <2>3, <2>4, <2>5 DEF ActiveMatchesWorker, Working
  <1>17. ASSUME NEW w \in Worker, FinishRow(w) PROVE ActiveMatchesWorker'
    <2>1. /\ wpc[w] \in {"starting", "running", "settling", "closing"}
          /\ wpc'[w] \in {"starting", "running", "settling", "closing"}
          /\ \A v \in Worker : v # w => wpc'[v] = wpc[v]
          /\ UNCHANGED <<active, wlane, wjob>>
          BY <1>17 DEF FinishRow, TypeInv, TypeOK, memory
    <2> QED BY <2>1, WorkKept DEF WorkSame, Working
  <1>18. ASSUME NEW w \in Worker, Finish(w) PROVE ActiveMatchesWorker'
    <2> DEFINE p == wlane[w]
    <2>1. /\ p \in Provider /\ Lane(wjob[w].key) = p /\ active[p] = wjob[w] /\ wjob[w] # None
          BY <1>18, NoneAssumption DEF Finish, TypeInv, ThreadsOK, Working, ActiveMatchesWorker
    <2>2. active' = [active EXCEPT ![p] = None]
          BY <1>18, <2>1 DEF Finish, AlreadyActive
    <2>3. /\ active'[p] = None /\ wpc'[w] = "loop"
          /\ \A q \in Provider : q # p => active'[q] = active[q]
          /\ \A v \in Worker : v # w => wpc'[v] = wpc[v] /\ wjob'[v] = wjob[v]
          /\ UNCHANGED wlane
          BY <1>18, <2>1, <2>2 DEF Finish, TypeInv, TypeOK
    <2>4. \A v \in Worker : v # w /\ Working(v) => wlane[v] # p /\ wlane[v] \in Provider
          BY <1>18, <2>1, UniqueWorker DEF Finish, Working, TypeInv, ThreadsOK
    <2>5. \A q \in Provider : q # p /\ active[q] # None =>
              \E v \in Worker : v # w /\ Working(v) /\ wlane[v] = q
          BY DEF ActiveMatchesWorker
    <2> QED BY <2>1, <2>3, <2>4, <2>5 DEF ActiveMatchesWorker, Working
  <1>19. ASSUME LoadRows PROVE ActiveMatchesWorker'
    <2>1. WorkSame
          BY <1>19 DEF LoadRows, WorkSame, Working, threads
    <2> QED BY <1>19, <2>1, WorkKept DEF LoadRows, memory
  <1>20. ASSUME NEW r \in pendingRows, RestoreRow(r) PROVE ActiveMatchesWorker'
    <2>1. WorkSame
          BY <1>20 DEF RestoreRow, WorkSame, Working, threads
    <2> QED BY <1>20, <2>1, WorkKept DEF RestoreRow, memory
  <1>21. ASSUME NEW r \in pendingRows, DiscardRow(r) PROVE ActiveMatchesWorker'
    <2>1. WorkSame
          BY <1>21 DEF DiscardRow, WorkSame, Working, threads
    <2> QED BY <1>21, <2>1, WorkKept DEF DiscardRow, memory
  <1>22. ASSUME NEW p \in Provider, RestoreSpawn(p) PROVE ActiveMatchesWorker'
    <2>1. SpawnIf(TRUE, p) /\ UNCHANGED active
          BY <1>22 DEF RestoreSpawn, SpawnIf, memory
    <2> QED BY <2>1, SpawnIfWork, WorkKept
  <1>23. ASSUME RestoreDone PROVE ActiveMatchesWorker'
    <2>1. WorkSame
          BY <1>23 DEF RestoreDone, WorkSame, Working, threads
    <2> QED BY <1>23, <2>1, WorkKept DEF RestoreDone, memory
  <1>24. ASSUME Environment PROVE ActiveMatchesWorker'
    <2>1. UNCHANGED <<memory, threads>>
          BY <1>24 DEF Environment, HoldExpires, MigrationStarts, MigrationEnds, SourceDeleted
    <2>2. WorkSame
          BY <2>1 DEF WorkSame, Working, threads
    <2> QED BY <2>1, <2>2, WorkKept DEF memory
  <1>25. ASSUME Restart PROVE ActiveMatchesWorker'
        BY <1>25 DEF Restart, ActiveMatchesWorker, Working
  <1>26. CASE UNCHANGED vars
    <2>1. WorkSame
          BY <1>26 DEF vars, threads, WorkSame, Working
    <2> QED BY <1>26, <2>1, WorkKept DEF vars, memory
  <1> QED BY <1>1, <1>2, <1>3, <1>4, <1>5, <1>6, <1>7, <1>8, <1>9, <1>10, <1>11, <1>12, <1>13, <1>14, <1>15, <1>16, <1>17, <1>18, <1>19, <1>20, <1>21, <1>22, <1>23, <1>24, <1>25, <1>26 DEF Next, ClientCall, ClientStep, LaneCall, WorkerStep, BootStep

LEMMA ActiveInit == Init => ActiveMatchesWorker
  BY DEF Init, ActiveMatchesWorker, Working

LEMMA ActiveInvariant == Spec => []ActiveMatchesWorker
  BY TypeInvariant, OneWorkerInvariant, QueuesInvariant, ActiveInit, ActiveStep, PTL DEF Spec
-----------------------------------------------------------------------------
\* No waiting job is stranded.

LEMMA ListedEmpty ==
    ASSUME NEW q \in Seq(Job), NEW keep \in SUBSET DOMAIN q, NEW f \in Listings(q, keep), q = <<>>
    PROVE  ListedBy(q, f) = <<>>
  <1>1. DOMAIN q = {}
        OBVIOUS
  <1>2. /\ ListedBy(q, f) \in Seq(Job)
        /\ \A i \in DOMAIN ListedBy(q, f) : f[i] \in keep
        BY ListedBySpec
  <1> DEFINE r == ListedBy(q, f)
  <1> HIDE DEF r
  <1>3. r \in Seq(Job) /\ DOMAIN r = {}
        BY <1>1, <1>2 DEF r
  <1>4. r = <<>>
        BY <1>3
  <1> QED BY <1>4 DEF r

LEMMA EnqueueJobStrandsNone ==
    ASSUME TypeInv, NoStrandedLane, NEW job, EnqueueJob(job), UNCHANGED paused
    PROVE  NoStrandedLane'
  BY DEF EnqueueJob, NoStrandedLane, TypeInv, TypeOK

LEMMA WithdrawFromStrandsNone ==
    ASSUME TypeInv, NoStrandedLane, NEW c, NEW p \in Provider, NEW ks, NEW cancelled,
           WithdrawFrom(c, p, ks, cancelled)
    PROVE  NoStrandedLane'
  <1> DEFINE keep == {i \in DOMAIN queues[p] : queues[p][i].key \notin ks}
  <1>1. PICK f \in Listings(queues[p], keep) :
            queues' = [queues EXCEPT ![p] = ListedBy(queues[p], f)]
        BY DEF WithdrawFrom, Retained
  <1>2. queues[p] = <<>> => ListedBy(queues[p], f) = <<>>
        BY <1>1, ListedEmpty DEF TypeInv, TypeOK
  <1> QED BY <1>1, <1>2 DEF WithdrawFrom, NoStrandedLane, TypeInv, TypeOK

LEMMA StrandedStep ==
    TypeInv /\ OneWorkerPerLane /\ ActiveMatchesWorker /\ NoStrandedLane /\ [Next]_vars
        => NoStrandedLane'
  <1> SUFFICES ASSUME TypeInv, OneWorkerPerLane, ActiveMatchesWorker, NoStrandedLane, [Next]_vars
               PROVE  NoStrandedLane'
      OBVIOUS
  <1>1. ASSUME NEW c \in Client, NEW k \in Key, NEW mode \in Mode, Enqueue(c, k, mode) PROVE NoStrandedLane'
    <2>1. EnqueueJob([key |-> k, mode |-> mode]) /\ UNCHANGED paused
          BY <1>1 DEF Enqueue
    <2> QED BY <2>1, EnqueueJobStrandsNone
  <1>2. ASSUME NEW c \in Client, NEW k \in Key, NEW mode \in Mode, EnqueueDuplicate(c, k, mode) PROVE NoStrandedLane'
    <2>1. EnqueueJob([key |-> k, mode |-> mode]) /\ UNCHANGED paused
          BY <1>2 DEF EnqueueDuplicate
    <2> QED BY <2>1, EnqueueJobStrandsNone
  <1>3. ASSUME NEW c \in Client, NEW s \in Source, CancelProfile(c, s) PROVE NoStrandedLane'
    <2>1. ProviderOf[s] \in Provider
          BY DomainAssumption
    <2> QED BY <1>3, <2>1, WithdrawFromStrandsNone DEF CancelProfile
  <1>4. ASSUME NEW c \in Client, NEW p \in Provider, CancelProvider(c, p) PROVE NoStrandedLane'
        BY <1>4, WithdrawFromStrandsNone DEF CancelProvider
  <1>5. ASSUME NEW c \in Client, Persist(c) PROVE NoStrandedLane'
        BY <1>5 DEF Persist, NoStrandedLane, memory
  <1>6. ASSUME NEW c \in Client, NEW k \in Key, Unpersist(c, k) PROVE NoStrandedLane'
        BY <1>6 DEF Unpersist, NoStrandedLane, memory
  <1>7. ASSUME NEW c \in Client, RequestCancel(c) PROVE NoStrandedLane'
        BY <1>7 DEF RequestCancel, NoStrandedLane, memory
  <1>8. ASSUME NEW p \in Provider, Pause(p) PROVE NoStrandedLane'
        BY <1>8 DEF Pause, NoStrandedLane, memory
  <1>9. ASSUME NEW p \in Provider, Resume(p) PROVE NoStrandedLane'
        BY <1>9 DEF Resume, ResumeNeedsWorker, ShouldSpawn, NoStrandedLane
  <1>10. ASSUME NEW p \in Provider, Reorder(p) PROVE NoStrandedLane'
    <2>1. PICK f \in Listings(queues[p], DOMAIN queues[p]) :
              queues' = [queues EXCEPT ![p] = ListedBy(queues[p], f)]
          BY <1>10 DEF Reorder
    <2>2. queues[p] = <<>> => ListedBy(queues[p], f) = <<>>
          BY <2>1, ListedEmpty DEF TypeInv, TypeOK
    <2> QED BY <1>10, <2>1, <2>2 DEF Reorder, NoStrandedLane, TypeInv, TypeOK
  <1>11. ASSUME NEW w \in Worker, StartJob(w) PROVE NoStrandedLane'
    <2>1. wlane[w] \in workersRunning
          BY <1>11 DEF StartJob, TypeInv, ThreadsOK, OneWorkerPerLane, LaneOwned, WorkerOwns
    <2> QED BY <1>11, <2>1 DEF StartJob, NoStrandedLane, TypeInv, TypeOK
  <1>12. ASSUME NEW w \in Worker, StopWorker(w) PROVE NoStrandedLane'
        BY <1>12 DEF StopWorker, NoStrandedLane
  <1>13. ASSUME NEW w \in Worker, FailEarly(w) PROVE NoStrandedLane'
        BY <1>13 DEF FailEarly, NoStrandedLane, memory
  <1>14. ASSUME NEW w \in Worker, RegisterToken(w) PROVE NoStrandedLane'
        BY <1>14 DEF RegisterToken, NoStrandedLane, memory
  <1>15. ASSUME NEW w \in Worker, EndRun(w) PROVE NoStrandedLane'
        BY <1>15 DEF EndRun, NoStrandedLane, memory
  <1>16. ASSUME NEW w \in Worker, Requeue(w) PROVE NoStrandedLane'
    <2>1. wlane[w] \in Provider /\ Lane(wjob[w].key) = wlane[w]
          BY <1>16 DEF Requeue, TypeInv, ThreadsOK, Working, ActiveMatchesWorker
    <2>2. wlane[w] \in workersRunning
          BY <1>16, <2>1 DEF Requeue, OneWorkerPerLane, LaneOwned, WorkerOwns
    <2> QED BY <1>16, <2>1, <2>2 DEF Requeue, NoStrandedLane, TypeInv, TypeOK
  <1>17. ASSUME NEW w \in Worker, FinishRow(w) PROVE NoStrandedLane'
        BY <1>17 DEF FinishRow, NoStrandedLane, memory
  <1>18. ASSUME NEW w \in Worker, Finish(w) PROVE NoStrandedLane'
        BY <1>18 DEF Finish, NoStrandedLane, memory
  <1>19. ASSUME LoadRows PROVE NoStrandedLane'
        BY <1>19 DEF LoadRows, NoStrandedLane, memory
  <1>20. ASSUME NEW r \in pendingRows, RestoreRow(r) PROVE NoStrandedLane'
    <2>1. EnqueueJob(r) /\ UNCHANGED paused
          BY <1>20 DEF RestoreRow
    <2> QED BY <2>1, EnqueueJobStrandsNone
  <1>21. ASSUME NEW r \in pendingRows, DiscardRow(r) PROVE NoStrandedLane'
        BY <1>21 DEF DiscardRow, NoStrandedLane, memory
  <1>22. ASSUME NEW p \in Provider, RestoreSpawn(p) PROVE NoStrandedLane'
        BY <1>22 DEF RestoreSpawn, NoStrandedLane, memory
  <1>23. ASSUME RestoreDone PROVE NoStrandedLane'
        BY <1>23 DEF RestoreDone, NoStrandedLane, memory
  <1>24. ASSUME Environment PROVE NoStrandedLane'
        BY <1>24 DEF Environment, HoldExpires, MigrationStarts, MigrationEnds, SourceDeleted, NoStrandedLane, memory
  <1>25. ASSUME Restart PROVE NoStrandedLane'
        BY <1>25 DEF Restart, NoStrandedLane, memory
  <1>26. CASE UNCHANGED vars
        BY <1>26 DEF vars, memory, NoStrandedLane
  <1> QED BY <1>1, <1>2, <1>3, <1>4, <1>5, <1>6, <1>7, <1>8, <1>9, <1>10, <1>11, <1>12, <1>13, <1>14, <1>15, <1>16, <1>17, <1>18, <1>19, <1>20, <1>21, <1>22, <1>23, <1>24, <1>25, <1>26 DEF Next, ClientCall, ClientStep, LaneCall, WorkerStep, BootStep

LEMMA StrandedInit == Init => NoStrandedLane
  BY DEF Init, NoStrandedLane

-----------------------------------------------------------------------------
\* Runs of one profile do not overlap, so the registry entry of a profile is
\* the token of its one run.

RunHasToken ==
    \A s \in Source : token[s] # "none" <=>
        \E w \in Worker : wpc[w] = "running" /\ SourceOf[wjob[w].key] = s

LEMMA RunsDisjoint ==
    ASSUME TypeInv, OneWorkerPerLane, ActiveMatchesWorker,
           NEW v \in Worker, NEW w \in Worker, Working(v), Working(w),
           SourceOf[wjob[v].key] = SourceOf[wjob[w].key]
    PROVE  v = w
  <1>1. wlane[v] = wlane[w]
        BY DEF ActiveMatchesWorker, Lane
  <1>2. wlane[w] \in Provider /\ wpc[v] # "idle" /\ wpc[w] # "idle"
        BY DEF TypeInv, ThreadsOK, Working
  <1> QED BY <1>1, <1>2, UniqueWorker

RunsSame ==
    /\ \A v \in Worker : (wpc'[v] = "running") <=> (wpc[v] = "running")
    /\ \A v \in Worker : wpc[v] = "running" => wjob'[v] = wjob[v]

LEMMA RunsKept ==
    ASSUME RunHasToken, UNCHANGED token, RunsSame
    PROVE  RunHasToken'
  BY DEF RunHasToken, RunsSame

LEMMA SpawnIfRuns ==
    ASSUME TypeInv, NEW needed, NEW p, SpawnIf(needed, p)
    PROVE  RunsSame
  <1>1. CASE needed
        BY <1>1 DEF SpawnIf, SpawnWorker, RunsSame, TypeInv, TypeOK
  <1>2. CASE ~needed
        BY <1>2 DEF SpawnIf, RunsSame, threads
  <1> QED BY <1>1, <1>2

LEMMA TokenStep ==
    TypeInv /\ OneWorkerPerLane /\ ActiveMatchesWorker /\ RunHasToken /\ [Next]_vars => RunHasToken'
  <1> SUFFICES ASSUME TypeInv, OneWorkerPerLane, ActiveMatchesWorker, RunHasToken, [Next]_vars
               PROVE  RunHasToken'
      OBVIOUS
  <1>1. ASSUME NEW c \in Client, NEW k \in Key, NEW mode \in Mode, Enqueue(c, k, mode) PROVE RunHasToken'
    <2>1. UNCHANGED token /\ RunsSame
          BY <1>1 DEF Enqueue, RunsSame, threads
    <2> QED BY <2>1, RunsKept
  <1>2. ASSUME NEW c \in Client, NEW k \in Key, NEW mode \in Mode, EnqueueDuplicate(c, k, mode) PROVE RunHasToken'
        BY <1>2, SpawnIfRuns, RunsKept DEF EnqueueDuplicate
  <1>3. ASSUME NEW c \in Client, NEW s \in Source, CancelProfile(c, s) PROVE RunHasToken'
    <2>1. UNCHANGED token /\ RunsSame
          BY <1>3 DEF CancelProfile, WithdrawFrom, RunsSame, threads
    <2> QED BY <2>1, RunsKept
  <1>4. ASSUME NEW c \in Client, NEW p \in Provider, CancelProvider(c, p) PROVE RunHasToken'
    <2>1. UNCHANGED token /\ RunsSame
          BY <1>4 DEF CancelProvider, WithdrawFrom, RunsSame, threads
    <2> QED BY <2>1, RunsKept
  <1>5. ASSUME NEW c \in Client, Persist(c) PROVE RunHasToken'
        BY <1>5, SpawnIfRuns, RunsKept DEF Persist
  <1>6. ASSUME NEW c \in Client, NEW k \in Key, Unpersist(c, k) PROVE RunHasToken'
    <2>1. UNCHANGED token /\ RunsSame
          BY <1>6 DEF Unpersist, RunsSame, threads
    <2> QED BY <2>1, RunsKept
  <1>7. ASSUME NEW c \in Client, RequestCancel(c) PROVE RunHasToken'
    <2>1. \A s \in Source : token'[s] # "none" <=> token[s] # "none"
          BY <1>7 DEF RequestCancel
    <2> QED BY <1>7, <2>1 DEF RequestCancel, RunHasToken, threads
  <1>8. ASSUME NEW p \in Provider, Pause(p) PROVE RunHasToken'
    <2>1. UNCHANGED token /\ RunsSame
          BY <1>8 DEF Pause, RunsSame, threads
    <2> QED BY <2>1, RunsKept
  <1>9. ASSUME NEW p \in Provider, Resume(p) PROVE RunHasToken'
        BY <1>9, SpawnIfRuns, RunsKept DEF Resume
  <1>10. ASSUME NEW p \in Provider, Reorder(p) PROVE RunHasToken'
    <2>1. UNCHANGED token /\ RunsSame
          BY <1>10 DEF Reorder, RunsSame, threads
    <2> QED BY <2>1, RunsKept
  <1>11. ASSUME NEW w \in Worker, StartJob(w) PROVE RunHasToken'
    <2>1. UNCHANGED token /\ wpc[w] = "loop" /\ wpc'[w] = "starting"
          /\ \A v \in Worker : v # w => wpc'[v] = wpc[v] /\ wjob'[v] = wjob[v]
          BY <1>11 DEF StartJob, TypeInv, TypeOK
    <2> QED BY <2>1, RunsKept DEF RunsSame
  <1>12. ASSUME NEW w \in Worker, StopWorker(w) PROVE RunHasToken'
    <2>1. UNCHANGED token /\ wpc[w] # "running" /\ wpc'[w] # "running"
          /\ \A v \in Worker : v # w => wpc'[v] = wpc[v] /\ wjob'[v] = wjob[v]
          BY <1>12 DEF StopWorker, TypeInv, TypeOK
    <2> QED BY <2>1, RunsKept DEF RunsSame
  <1>13. ASSUME NEW w \in Worker, FailEarly(w) PROVE RunHasToken'
    <2>1. UNCHANGED token /\ wpc[w] # "running" /\ wpc'[w] # "running"
          /\ \A v \in Worker : v # w => wpc'[v] = wpc[v] /\ wjob'[v] = wjob[v]
          BY <1>13 DEF FailEarly, TypeInv, TypeOK
    <2> QED BY <2>1, RunsKept DEF RunsSame
  <1>14. ASSUME NEW w \in Worker, RegisterToken(w) PROVE RunHasToken'
    <2> DEFINE s == SourceOf[wjob[w].key]
    <2>1. s \in Source
          BY <1>14, JobType, LaneType DEF RegisterToken, TypeInv, ThreadsOK, Working
    <2>2. /\ token'[s] = "armed" /\ wpc'[w] = "running" /\ wpc[w] # "running" /\ UNCHANGED wjob
          /\ \A t \in Source : t # s => token'[t] = token[t]
          /\ \A v \in Worker : v # w => wpc'[v] = wpc[v]
          BY <1>14, <2>1 DEF RegisterToken, TypeInv, TypeOK
    <2> QED BY <2>1, <2>2 DEF RunHasToken
  <1>15. ASSUME NEW w \in Worker, EndRun(w) PROVE RunHasToken'
    <2> DEFINE s == SourceOf[wjob[w].key]
    <2>1. s \in Source
          BY <1>15, JobType, LaneType DEF EndRun, TypeInv, ThreadsOK, Working
    <2>2. /\ token'[s] = "none" /\ wpc'[w] # "running" /\ wpc[w] = "running" /\ UNCHANGED wjob
          /\ \A t \in Source : t # s => token'[t] = token[t]
          /\ \A v \in Worker : v # w => wpc'[v] = wpc[v]
          BY <1>15, <2>1 DEF EndRun, TypeInv, TypeOK
    <2>3. \A v \in Worker : v # w /\ wpc[v] = "running" => SourceOf[wjob[v].key] # s
          BY <2>2, RunsDisjoint DEF Working
    <2> QED BY <2>1, <2>2, <2>3 DEF RunHasToken
  <1>16. ASSUME NEW w \in Worker, Requeue(w) PROVE RunHasToken'
    <2>1. UNCHANGED token /\ wpc[w] # "running" /\ wpc'[w] # "running"
          /\ \A v \in Worker : v # w => wpc'[v] = wpc[v] /\ wjob'[v] = wjob[v]
          BY <1>16 DEF Requeue, TypeInv, TypeOK
    <2> QED BY <2>1, RunsKept DEF RunsSame
  <1>17. ASSUME NEW w \in Worker, FinishRow(w) PROVE RunHasToken'
    <2>1. UNCHANGED token /\ wpc[w] # "running" /\ wpc'[w] # "running"
          /\ \A v \in Worker : v # w => wpc'[v] = wpc[v] /\ wjob'[v] = wjob[v]
          BY <1>17 DEF FinishRow, TypeInv, TypeOK
    <2> QED BY <2>1, RunsKept DEF RunsSame
  <1>18. ASSUME NEW w \in Worker, Finish(w) PROVE RunHasToken'
    <2>1. UNCHANGED token /\ wpc[w] # "running" /\ wpc'[w] # "running"
          /\ \A v \in Worker : v # w => wpc'[v] = wpc[v] /\ wjob'[v] = wjob[v]
          BY <1>18 DEF Finish, TypeInv, TypeOK
    <2> QED BY <2>1, RunsKept DEF RunsSame
  <1>19. ASSUME LoadRows PROVE RunHasToken'
    <2>1. UNCHANGED token /\ RunsSame
          BY <1>19 DEF LoadRows, RunsSame, threads
    <2> QED BY <2>1, RunsKept
  <1>20. ASSUME NEW r \in pendingRows, RestoreRow(r) PROVE RunHasToken'
    <2>1. UNCHANGED token /\ RunsSame
          BY <1>20 DEF RestoreRow, RunsSame, threads
    <2> QED BY <2>1, RunsKept
  <1>21. ASSUME NEW r \in pendingRows, DiscardRow(r) PROVE RunHasToken'
    <2>1. UNCHANGED token /\ RunsSame
          BY <1>21 DEF DiscardRow, RunsSame, threads
    <2> QED BY <2>1, RunsKept
  <1>22. ASSUME NEW p \in Provider, RestoreSpawn(p) PROVE RunHasToken'
        BY <1>22, SpawnIfRuns, RunsKept DEF RestoreSpawn, SpawnIf
  <1>23. ASSUME RestoreDone PROVE RunHasToken'
    <2>1. UNCHANGED token /\ RunsSame
          BY <1>23 DEF RestoreDone, RunsSame, threads
    <2> QED BY <2>1, RunsKept
  <1>24. ASSUME Environment PROVE RunHasToken'
    <2>1. UNCHANGED <<token, threads>>
          BY <1>24 DEF Environment, HoldExpires, MigrationStarts, MigrationEnds, SourceDeleted
    <2> QED BY <2>1, RunsKept DEF RunsSame, threads
  <1>25. ASSUME Restart PROVE RunHasToken'
        BY <1>25 DEF Restart, RunHasToken
  <1>26. CASE UNCHANGED vars
        BY <1>26, RunsKept DEF vars, threads, RunsSame
  <1> QED BY <1>1, <1>2, <1>3, <1>4, <1>5, <1>6, <1>7, <1>8, <1>9, <1>10, <1>11, <1>12, <1>13, <1>14, <1>15, <1>16, <1>17, <1>18, <1>19, <1>20, <1>21, <1>22, <1>23, <1>24, <1>25, <1>26 DEF Next, ClientCall, ClientStep, LaneCall, WorkerStep, BootStep

LEMMA TokenInit == Init => RunHasToken
  BY DEF Init, RunHasToken

LEMMA TokenInvariant == TypeInv /\ OneWorkerPerLane /\ ActiveMatchesWorker /\ RunHasToken => TokenMatchesRun
  BY RunsDisjoint DEF TokenMatchesRun, RunHasToken
-----------------------------------------------------------------------------
\* The inductive invariant.  None of the parts is inductive alone: who serves
\* a lane decides what it may show as active, which decides whether runs of a
\* profile can overlap and whether a lane with work can be left alone.

IInv ==
    /\ TypeInv
    /\ OneWorkerPerLane
    /\ QueuesConsistent
    /\ ActiveMatchesWorker
    /\ NoStrandedLane
    /\ RunHasToken

LEMMA Inductive == Spec => []IInv
  <1>1. Init => IInv
        BY TypeInit, OneWorkerInit, QueuesInit, ActiveInit, StrandedInit, TokenInit DEF IInv
  <1>2. IInv /\ [Next]_vars => IInv'
        BY TypeStep, OneWorkerStep, QueuesStep, ActiveStep, StrandedStep, TokenStep DEF IInv
  <1> QED BY <1>1, <1>2, PTL DEF Spec

\* workers_running marks a lane exactly while one thread serves it or one step
\* is committed to spawning one, whatever calls, pauses and restarts interleave.
THEOREM LanesServedOnce == Spec => []OneWorkerPerLane
  BY Inductive, PTL DEF IInv

\* queued_keys and the queues never disagree, and no key waits twice.
THEOREM KeysMatchQueues == Spec => []QueuesConsistent
  BY Inductive, PTL DEF IInv

\* A lane's active job is the one its worker runs.
THEOREM ActiveIsRun == Spec => []ActiveMatchesWorker
  BY Inductive, PTL DEF IInv

\* A lane that is not paused and has a waiting job is served.
THEOREM NoJobForgotten == Spec => []NoStrandedLane
  BY Inductive, PTL DEF IInv

\* Runs of a profile do not overlap and its cancel token is its run's.
THEOREM CancelTokenOfRun == Spec => []TokenMatchesRun
  BY Inductive, TokenInvariant, PTL DEF IInv
-----------------------------------------------------------------------------
\* The table against the queue.  Nothing else than the three conditions breaks
\* AcceptedJobsPersisted while no call runs beside the boot thread: until it is
\* done no call is under way, while it has rows to enqueue no worker is at
\* work, and so these rows are still in the table and their keys not queued;
\* and a key that runs does not wait, so that the row a run deletes at its end
\* is its own.

PlainSyncs == ~DiskErrors /\ ~Cancels /\ "force" \notin Mode

AtWork(w) == wpc[w] \in {"starting", "running", "settling"}

RowsInv ==
    /\ \A c \in Client : call[c].step # "unpersist"
    /\ \A r, s \in rows : r.key = s.key => r = s
    /\ restore # "rows" => pendingRows = {}
    /\ \A w \in Worker : Working(w) => wjob[w].key \notin queuedKeys
    /\ ~early =>
        /\ restore # "done" => \A c \in Client : call[c].step = "idle"
        /\ restore = "boot" \/ pendingRows # {} => \A w \in Worker : wpc[w] = "idle"
        /\ restore = "boot" => queuedKeys = {}
        /\ \A r \in pendingRows : r \in rows /\ r.key \notin queuedKeys
        /\ AcceptedJobsPersisted

LEMMA MCImplementsQueue == [MCNext]_mcvars => [Next]_vars
  <1>1. BoundedCall => Next
        BY DEF BoundedCall, Next, ClientCall, LaneCall
  <1>2. BoundedWorld => Next
        BY DEF BoundedWorld, Next, Environment
  <1>3. BoundedRestart => Next
        BY DEF BoundedRestart, Next
  <1>4. Unbounded => Next
        BY DEF Unbounded, Next, Environment
  <1> QED BY <1>1, <1>2, <1>3, <1>4 DEF MCNext, mcvars

LEMMA MCIsQueue == MCSpec => Spec
  <1>1. MCInit => Init
        BY DEF MCInit
  <1> QED BY <1>1, MCImplementsQueue, PTL DEF MCSpec, Spec

LEMMA PlainWrite ==
    ASSUME PlainSyncs, NEW new
    PROVE  AfterWrite(new) = {new}
  BY DEF PlainSyncs, AfterWrite

\* A step that neither queues nor writes anything, and gives no worker a job.
LEMMA RowsKept ==
    ASSUME RowsInv, UNCHANGED <<queuedKeys, call, rows, restore, pendingRows>>,
           early => early',
           \A w \in Worker : Working(w)' => Working(w) /\ wjob'[w] = wjob[w],
           \A w \in Worker : AtWork(w)' => AtWork(w),
           ~early' => (restore = "boot" \/ pendingRows # {} =>
                          \A w \in Worker : wpc[w] = "idle" => wpc'[w] = "idle")
    PROVE  RowsInv'
  <1>1. \A w \in Worker : AtWork(w) => Working(w)
        BY DEF AtWork, Working
  <1>2. \A w \in Worker : AtWork(w)' => Working(w)'
        BY DEF AtWork, Working
  <1>3. \A k \in Key : Unfinished(k)' => Unfinished(k)
        BY <1>1, <1>2 DEF Unfinished, AtWork
  <1>4. \A k \in Key : (HasRow(k)' <=> HasRow(k)) /\ (Persisting(k)' <=> Persisting(k))
        BY DEF HasRow, Persisting
  <1>5. AcceptedJobsPersisted => AcceptedJobsPersisted'
        BY <1>3, <1>4 DEF AcceptedJobsPersisted
  <1> QED BY <1>5 DEF RowsInv

LEMMA RowsSpawn ==
    ASSUME IInv, RowsInv, UNCHANGED <<queuedKeys, call, rows, restore, pendingRows>>,
           early => early',
           NEW needed, NEW p, SpawnIf(needed, p),
           ~early' => ~(restore = "boot" \/ pendingRows # {})
    PROVE  RowsInv'
  <1>1. WorkSame
        BY SpawnIfWork DEF IInv
  <1>2. \A w \in Worker : AtWork(w)' => AtWork(w)
    <2>1. CASE needed
          BY <2>1 DEF SpawnIf, SpawnWorker, AtWork, IInv, TypeInv, TypeOK
    <2>2. CASE ~needed
          BY <2>2 DEF SpawnIf, threads, AtWork
    <2> QED BY <2>1, <2>2
  <1> QED BY <1>1, <1>2, RowsKept DEF WorkSame

\* A key that runs does not wait after a plain job is enqueued.
LEMMA RunningDoesNotWait ==
    ASSUME PlainSyncs, IInv, NEW job \in Job, QueuedNow(job), NEW w \in Worker, Working(w)
    PROVE  wjob[w].key # job.key
  <1>1. job.mode # "force"
        BY JobType DEF PlainSyncs
  <1>2. ~AlreadyActive(job.key)
        BY <1>1 DEF QueuedNow
  <1>3. wjob[w] \in Job /\ Lane(wjob[w].key) = wlane[w] /\ active[wlane[w]] = wjob[w]
        BY DEF IInv, ActiveMatchesWorker
  <1>4. wjob[w] # None
        BY <1>3, NoneAssumption
  <1> QED BY <1>2, <1>3, <1>4 DEF AlreadyActive

LEMMA RowsEnqueue ==
    ASSUME PlainSyncs, IInv, RowsInv, NEW c \in Client, NEW k \in Key, NEW mode \in Mode,
           Enqueue(c, k, mode), early' = (early \/ restore # "done")
    PROVE  RowsInv'
  <1> DEFINE job == [key |-> k, mode |-> mode]
  <1>1. job \in Job /\ job.key = k
        BY MakeJob
  <1>2. /\ queuedKeys' = (IF QueuedNow(job) THEN queuedKeys \cup {k} ELSE queuedKeys)
        /\ QueuedNow(job) \/ Promoted(job)
        /\ UNCHANGED <<wpc, wlane, wjob, rows, restore, pendingRows>>
        /\ call[c].step = "idle"
        BY <1>1 DEF Enqueue, EnqueueJob, threads, boot
  <1>3. call \in [Client -> Call]
        BY DEF IInv, TypeInv, TypeOK
  <1>4. /\ call'[c].step = "persist" /\ call'[c].job = job
        /\ \A d \in Client : d # c => call'[d] = call[d]
        BY <1>3 DEF Enqueue, IdleCall
  <1> HIDE DEF job
  <1>5. \A w \in Worker : Working(w)' => Working(w) /\ wjob'[w].key \notin queuedKeys'
        BY <1>1, <1>2, RunningDoesNotWait DEF RowsInv, Working
  <1>6. ASSUME ~early' PROVE AcceptedJobsPersisted'
    <2>1. AcceptedJobsPersisted
          BY <1>6 DEF RowsInv
    <2>2. Persisting(k)'
          BY <1>1, <1>4 DEF Persisting
    <2>3. ASSUME NEW l \in Key, l # k, Unfinished(l)' PROVE HasRow(l)' \/ Persisting(l)'
      <3>1. Unfinished(l)
            BY <1>2, <2>3 DEF Unfinished
      <3>2. HasRow(l) \/ Persisting(l)
            BY <2>1, <3>1 DEF AcceptedJobsPersisted
      <3>3. HasRow(l) => HasRow(l)'
            BY <1>2 DEF HasRow
      <3>4. Persisting(l) => Persisting(l)'
            BY <1>2, <1>4 DEF Persisting
      <3> QED BY <3>2, <3>3, <3>4
    <2> QED BY <2>2, <2>3 DEF AcceptedJobsPersisted
  <1>7. ~early' => ~early /\ restore = "done" /\ pendingRows = {}
        BY DEF RowsInv
  <1>8. \A d \in Client : call'[d].step # "unpersist"
        BY <1>4 DEF RowsInv
  <1> QED BY <1>2, <1>5, <1>6, <1>7, <1>8 DEF RowsInv

LEMMA RowsPersist ==
    ASSUME PlainSyncs, IInv, RowsInv, NEW c \in Client, Persist(c), UNCHANGED early
    PROVE  RowsInv'
  <1> DEFINE job == call[c].job
  <1>1. job \in Job /\ rows' = WithRow(job) /\ call[c].step = "persist"
        BY PlainWrite DEF Persist, IInv, TypeInv, ThreadsOK
  <1>2. UNCHANGED <<queuedKeys, restore, pendingRows>>
        BY DEF Persist, memory, boot
  <1>3. WorkSame
        BY SpawnIfWork DEF Persist, IInv
  <1>4. \A w \in Worker : AtWork(w)' => AtWork(w) /\ Working(w)
    <2>1. CASE call[c].spawn
          BY <2>1 DEF Persist, SpawnIf, SpawnWorker, AtWork, Working, IInv, TypeInv, TypeOK
    <2>2. CASE ~call[c].spawn
          BY <2>2 DEF Persist, SpawnIf, threads, AtWork, Working
    <2> QED BY <2>1, <2>2
  <1>5. /\ call'[c].step = "idle" /\ \A d \in Client : d # c => call'[d] = call[d]
        BY DEF Persist, IdleCall, IInv, TypeInv, TypeOK
  <1>6. \A r, s \in rows' : r.key = s.key => r = s
        BY <1>1 DEF RowsInv, WithRow
  <1>7. ASSUME ~early
        PROVE  restore' = "done" /\ pendingRows' = {} /\ AcceptedJobsPersisted'
    <2>1. restore = "done" /\ pendingRows = {} /\ AcceptedJobsPersisted
          BY <1>1, <1>7 DEF RowsInv
    <2>2. ASSUME NEW k \in Key, Unfinished(k)' PROVE HasRow(k)' \/ Persisting(k)'
      <3>1. Unfinished(k)
            BY <1>2, <1>3, <1>4, <2>2 DEF Unfinished, AtWork, WorkSame
      <3>2. HasRow(k) \/ Persisting(k)
            BY <2>1, <3>1 DEF AcceptedJobsPersisted
      <3>3. CASE k = job.key
            BY <1>1, <3>3 DEF HasRow, WithRow
      <3>4. CASE k # job.key
        <4>1. HasRow(k) => HasRow(k)'
              BY <1>1, <3>4 DEF HasRow, WithRow
        <4>2. Persisting(k) => Persisting(k)'
              BY <1>5, <3>4 DEF Persisting
        <4> QED BY <3>2, <4>1, <4>2
      <3> QED BY <3>3, <3>4
    <2> QED BY <1>2, <2>1, <2>2 DEF AcceptedJobsPersisted
  <1>8. \A w \in Worker : Working(w)' => wjob'[w].key \notin queuedKeys'
        BY <1>2, <1>3 DEF RowsInv, WorkSame
  <1> QED BY <1>2, <1>5, <1>6, <1>7, <1>8 DEF RowsInv

LEMMA RowsStart ==
    ASSUME PlainSyncs, IInv, RowsInv, NEW w \in Worker, StartJob(w), UNCHANGED early
    PROVE  RowsInv'
  <1> DEFINE p == wlane[w]
  <1>1. p \in Provider /\ wpc[w] = "loop"
        BY DEF StartJob, IInv, TypeInv, ThreadsOK
  <1>2. PICK i \in DOMAIN queues[p] :
            queuedKeys' = queuedKeys \ {queues[p][i].key} /\ wjob' = [wjob EXCEPT ![w] = queues[p][i]]
        BY DEF StartJob
  <1>3. queues[p] \in Seq(Job) /\ queues[p][i] \in Job
        BY <1>1, <1>2, DomainOfSeq DEF IInv, TypeInv, TypeOK
  <1>4. PICK k \in Key : k = queues[p][i].key /\ Lane(k) = p
        BY <1>1, <1>2, <1>3, JobType DEF IInv, QueuesConsistent
  <1>5. k \in queuedKeys
        BY <1>2, <1>4 DEF IInv, QueuesConsistent
  <1>6. /\ wjob'[w].key = k /\ wpc'[w] = "starting"
        /\ \A v \in Worker : v # w => wjob'[v] = wjob[v] /\ wpc'[v] = wpc[v]
        BY <1>2, <1>4 DEF StartJob, IInv, TypeInv, TypeOK
  <1>7. UNCHANGED <<call, rows, restore, pendingRows>>
        BY DEF StartJob, boot
  <1>8. \A v \in Worker : Working(v)' => wjob'[v].key \notin queuedKeys'
        BY <1>2, <1>4, <1>6 DEF RowsInv, Working
  <1>9. \A l \in Key : Unfinished(l)' => Unfinished(l)
        BY <1>2, <1>5, <1>6 DEF Unfinished
  <1>10. AcceptedJobsPersisted => AcceptedJobsPersisted'
        BY <1>7, <1>9 DEF AcceptedJobsPersisted, HasRow, Persisting
  <1>11. ~early => ~(restore = "boot" \/ pendingRows # {})
        BY <1>1 DEF RowsInv
  <1> QED BY <1>7, <1>8, <1>10, <1>11 DEF RowsInv

LEMMA RowsRequeue ==
    ASSUME PlainSyncs, IInv, RowsInv, NEW w \in Worker, Requeue(w), UNCHANGED early
    PROVE  RowsInv'
  <1> DEFINE k == wjob[w].key
  <1>1. k \in Key /\ wpc[w] = "settling" /\ Working(w)
        BY JobType DEF Requeue, Working, IInv, TypeInv, ThreadsOK
  <1>2. /\ queuedKeys' = queuedKeys \cup {k} /\ wpc'[w] = "loop"
        /\ \A v \in Worker : v # w => wjob'[v] = wjob[v] /\ wpc'[v] = wpc[v]
        BY DEF Requeue, IInv, TypeInv, TypeOK
  <1>3. UNCHANGED <<call, rows, restore, pendingRows>>
        BY DEF Requeue, boot
  <1>4. \A v \in Worker : v # w /\ Working(v) => wjob[v].key # k
        BY <1>1, RunsDisjoint DEF IInv
  <1> HIDE DEF k
  <1>5. \A v \in Worker : Working(v)' => wjob'[v].key \notin queuedKeys'
        BY <1>2, <1>4 DEF RowsInv, Working
  <1>6. Unfinished(k)
        BY <1>1 DEF Unfinished, k
  <1>7. \A l \in Key : Unfinished(l)' => Unfinished(l)
        BY <1>2, <1>6 DEF Unfinished
  <1>8. AcceptedJobsPersisted => AcceptedJobsPersisted'
        BY <1>3, <1>7 DEF AcceptedJobsPersisted, HasRow, Persisting
  <1>9. ~early => ~(restore = "boot" \/ pendingRows # {})
        BY <1>1 DEF RowsInv
  <1> QED BY <1>3, <1>5, <1>8, <1>9 DEF RowsInv

LEMMA RowsFinish ==
    ASSUME PlainSyncs, IInv, RowsInv, NEW w \in Worker, FinishRow(w), UNCHANGED early
    PROVE  RowsInv'
  <1>0. wjob[w] \in Job /\ wpc[w] = "settling" /\ Working(w)
        BY DEF FinishRow, Working, IInv, TypeInv, ThreadsOK
  <1>1. PICK k \in Key : k = wjob[w].key
        BY <1>0, JobType
  <1>2. /\ rows' = WithoutRow(k) /\ wpc'[w] = "closing"
        /\ \A v \in Worker : v # w => wpc'[v] = wpc[v]
        /\ UNCHANGED <<queuedKeys, wjob, call, restore, pendingRows>>
        BY <1>1, PlainWrite DEF FinishRow, memory, boot, IInv, TypeInv, TypeOK
  <1>3. \A v \in Worker : v # w /\ Working(v) => wjob[v].key # k
    <2>1. \A v \in Worker : v # w /\ Working(v) => SourceOf[wjob[v].key] # SourceOf[wjob[w].key]
          BY <1>0, RunsDisjoint DEF IInv
    <2> QED BY <1>1, <2>1
  <1>4. k \notin queuedKeys
        BY <1>0, <1>1 DEF RowsInv
  <1>5. \A v \in Worker : Working(v)' => wjob'[v].key \notin queuedKeys'
        BY <1>0, <1>1, <1>2 DEF RowsInv, Working
  <1>6. ~Unfinished(k)'
        BY <1>2, <1>3, <1>4 DEF Unfinished, Working
  <1>7. \A l \in Key : Unfinished(l)' => Unfinished(l) /\ l # k
        BY <1>2, <1>6 DEF Unfinished
  <1>8. \A l \in Key : l # k /\ HasRow(l) => HasRow(l)'
        BY <1>2 DEF HasRow, WithoutRow
  <1>9. AcceptedJobsPersisted => AcceptedJobsPersisted'
        BY <1>2, <1>7, <1>8 DEF AcceptedJobsPersisted, Persisting
  <1>10. \A r, s \in rows' : r.key = s.key => r = s
        BY <1>2 DEF RowsInv, WithoutRow
  <1>11. ~early => ~(restore = "boot" \/ pendingRows # {})
        BY <1>0, <1>1 DEF RowsInv
  <1> QED BY <1>2, <1>5, <1>9, <1>10, <1>11 DEF RowsInv

LEMMA RowsRestore ==
    ASSUME PlainSyncs, IInv, RowsInv, NEW r \in pendingRows, RestoreRow(r), UNCHANGED early
    PROVE  RowsInv'
  <1>1. r \in Job /\ r.key \in Key /\ restore = "rows"
        BY JobType DEF RestoreRow, IInv, TypeInv, TypeOK
  <1>2. /\ queuedKeys' = (IF QueuedNow(r) THEN queuedKeys \cup {r.key} ELSE queuedKeys)
        /\ pendingRows' = pendingRows \ {r}
        /\ UNCHANGED <<wpc, wlane, wjob, call, rows, restore>>
        BY DEF RestoreRow, EnqueueJob, threads
  <1>3. \A w \in Worker : Working(w)' => Working(w) /\ wjob'[w].key \notin queuedKeys'
        BY <1>1, <1>2, RunningDoesNotWait DEF RowsInv, Working
  <1>4. ASSUME ~early PROVE AcceptedJobsPersisted'
    <2>1. HasRow(r.key)'
          BY <1>2, <1>4 DEF RowsInv, HasRow
    <2>2. \A l \in Key : l # r.key /\ Unfinished(l)' => Unfinished(l)
          BY <1>2 DEF Unfinished
    <2> QED BY <1>2, <1>4, <2>1, <2>2 DEF RowsInv, AcceptedJobsPersisted, HasRow, Persisting
  <1> QED BY <1>1, <1>2, <1>3, <1>4 DEF RowsInv

LEMMA RowsDiscard ==
    ASSUME PlainSyncs, IInv, RowsInv, NEW r \in pendingRows, DiscardRow(r), UNCHANGED early
    PROVE  RowsInv'
  <1>1. r \in Job /\ r.key \in Key /\ restore = "rows"
        BY JobType DEF DiscardRow, IInv, TypeInv, TypeOK
  <1>2. /\ rows' = WithoutRow(r.key) /\ pendingRows' = pendingRows \ {r}
        /\ UNCHANGED <<queuedKeys, wpc, wlane, wjob, call, restore>>
        BY PlainWrite DEF DiscardRow, memory, threads
  <1>3. \A w \in Worker : Working(w)' => wjob'[w].key \notin queuedKeys'
        BY <1>2 DEF RowsInv, Working
  <1>4. \A s, t \in rows' : s.key = t.key => s = t
        BY <1>2 DEF RowsInv, WithoutRow
  <1>5. ASSUME ~early PROVE AcceptedJobsPersisted' /\ \A s \in pendingRows' : s \in rows' /\ s.key \notin queuedKeys'
    <2>1. /\ \A w \in Worker : wpc[w] = "idle"
          /\ \A s \in pendingRows : s \in rows /\ s.key \notin queuedKeys
          /\ AcceptedJobsPersisted
          BY <1>5 DEF RowsInv
    <2>2. ~Unfinished(r.key)'
          BY <1>2, <2>1 DEF Unfinished
    <2>3. \A l \in Key : Unfinished(l)' => Unfinished(l)
          BY <1>2 DEF Unfinished
    <2>4. \A l \in Key : l # r.key /\ HasRow(l) => HasRow(l)'
          BY <1>2 DEF HasRow, WithoutRow
    <2>5. AcceptedJobsPersisted'
          BY <1>2, <2>1, <2>2, <2>3, <2>4 DEF AcceptedJobsPersisted, Persisting
    <2>6. \A s \in pendingRows' : s \in rows' /\ s.key \notin queuedKeys'
          BY <1>2, <2>1 DEF RowsInv, WithoutRow
    <2> QED BY <2>5, <2>6
  <1> QED BY <1>1, <1>2, <1>3, <1>4, <1>5 DEF RowsInv

LEMMA RowsInit == MCInit => RowsInv
  BY DEF MCInit, Init, RowsInv, AcceptedJobsPersisted, Unfinished, IdleCall, Working

LEMMA RowsCall ==
    ASSUME PlainSyncs, IInv, RowsInv, BoundedCall
    PROVE  RowsInv'
  <1>1. early' = (early \/ restore # "done")
        BY DEF BoundedCall
  <1>5. (early => early') /\ (~early' => ~(restore = "boot" \/ pendingRows # {}))
        BY <1>1 DEF RowsInv
  <1>2. ASSUME NEW c \in Client, NEW k \in Key, NEW m \in Mode, Enqueue(c, k, m) PROVE RowsInv'
        BY <1>1, <1>2, RowsEnqueue
  <1>3. ASSUME NEW c \in Client, NEW k \in Key, NEW m \in Mode, EnqueueDuplicate(c, k, m) PROVE RowsInv'
    <2>1. UNCHANGED <<queuedKeys, call, rows, restore, pendingRows>>
          BY <1>3 DEF EnqueueDuplicate, EnqueueJob, boot
    <2>2. SpawnIf(ShouldSpawn(Lane(k)), Lane(k))
          BY <1>3 DEF EnqueueDuplicate
    <2> QED BY <1>5, <2>1, <2>2, RowsSpawn
  <1>4. ASSUME NEW p \in Provider, LaneCall(p) PROVE RowsInv'
    <2>1. UNCHANGED <<queuedKeys, call, rows, restore, pendingRows>>
          BY <1>4 DEF LaneCall, Pause, Resume, Reorder, boot
    <2>2. SpawnIf(ResumeNeedsWorker(p), p) \/ UNCHANGED threads
          BY <1>4 DEF LaneCall, Pause, Resume, Reorder
    <2>3. CASE SpawnIf(ResumeNeedsWorker(p), p)
          BY <1>5, <2>1, <2>3, RowsSpawn
    <2>4. CASE UNCHANGED threads
          BY <1>5, <2>1, <2>4, RowsKept DEF threads, Working, AtWork
    <2> QED BY <2>2, <2>3, <2>4
  <1> QED BY <1>2, <1>3, <1>4 DEF BoundedCall, PlainSyncs

LEMMA RowsStep == PlainSyncs /\ IInv /\ RowsInv /\ [MCNext]_mcvars => RowsInv'
  <1> SUFFICES ASSUME PlainSyncs, IInv, RowsInv, [MCNext]_mcvars PROVE RowsInv'
      OBVIOUS
  <1>1. CASE BoundedCall
        BY <1>1, RowsCall
  <1>2. CASE BoundedWorld
    <2>1. UNCHANGED <<queuedKeys, call, rows, restore, pendingRows, wpc, wlane, wjob, early>>
          BY <1>2 DEF BoundedWorld, MigrationStarts, SourceDeleted, memory, threads, boot
    <2> QED BY <2>1, RowsKept DEF Working, AtWork
  <1>3. CASE BoundedRestart
    <2>1. /\ queuedKeys' = {} /\ restore' = "boot" /\ pendingRows' = {} /\ rows' = rows
          /\ \A c \in Client : call'[c].step = "idle"
          /\ \A w \in Worker : wpc'[w] = "idle"
          BY <1>3 DEF BoundedRestart, Restart, IdleCall
    <2>2. AcceptedJobsPersisted'
          BY <2>1 DEF AcceptedJobsPersisted, Unfinished
    <2> QED BY <2>1, <2>2 DEF RowsInv, Working
  <1>4. CASE Unbounded
    <2>0. UNCHANGED early
          BY <1>4 DEF Unbounded, budget
    <2>1. ASSUME NEW c \in Client, ClientStep(c) PROVE RowsInv'
          BY <2>0, <2>1, RowsPersist DEF ClientStep, Unpersist, RequestCancel, RowsInv
    <2>2. ASSUME NEW w \in Worker, WorkerStep(w) PROVE RowsInv'
      <3>1. CASE StartJob(w)
            BY <2>0, <3>1, RowsStart
      <3>2. CASE Requeue(w)
            BY <2>0, <3>2, RowsRequeue
      <3>3. CASE FinishRow(w)
            BY <2>0, <3>3, RowsFinish
      <3>4. CASE StopWorker(w) \/ FailEarly(w) \/ RegisterToken(w) \/ EndRun(w) \/ Finish(w)
        <4>1. UNCHANGED <<queuedKeys, call, rows, restore, pendingRows>>
              BY <3>4 DEF StopWorker, FailEarly, RegisterToken, EndRun, Finish, memory, boot
        <4>2. \A v \in Worker : /\ Working(v)' => Working(v) /\ wjob'[v] = wjob[v]
                                /\ AtWork(v)' => AtWork(v)
                                /\ wpc[v] = "idle" => wpc'[v] = "idle"
              BY <3>4 DEF StopWorker, FailEarly, RegisterToken, EndRun, Finish, Working, AtWork, IInv, TypeInv, TypeOK
        <4> QED BY <2>0, <4>1, <4>2, RowsKept
      <3> QED BY <2>2, <3>1, <3>2, <3>3, <3>4 DEF WorkerStep
    <2>3. CASE LoadRows
      <3>1. /\ restore = "boot" /\ restore' \in {"rows", "done"} /\ pendingRows' = rows
            /\ restore' = "done" => rows = {}
            /\ UNCHANGED <<queuedKeys, call, rows, wpc, wlane, wjob>>
            BY <2>3 DEF LoadRows, memory, threads
      <3>2. AcceptedJobsPersisted => AcceptedJobsPersisted'
            BY <3>1 DEF AcceptedJobsPersisted, Unfinished, HasRow, Persisting
      <3> QED BY <2>0, <3>1, <3>2 DEF RowsInv, Working
    <2>4. ASSUME NEW r \in pendingRows, RestoreRow(r) \/ DiscardRow(r) PROVE RowsInv'
          BY <2>0, <2>4, RowsRestore, RowsDiscard
    <2>5. ASSUME NEW p \in Provider, RestoreSpawn(p) PROVE RowsInv'
      <3>1. UNCHANGED <<queuedKeys, call, rows, restore, pendingRows>> /\ restore = "rows" /\ pendingRows = {}
            BY <2>5 DEF RestoreSpawn, memory
      <3>2. SpawnIf(TRUE, p)
            BY <2>5 DEF RestoreSpawn, SpawnIf
      <3> QED BY <2>0, <3>1, <3>2, RowsSpawn
    <2>6. CASE RestoreDone
      <3>1. /\ restore' = "done" /\ pendingRows' = {}
            /\ UNCHANGED <<queuedKeys, call, rows, wpc, wlane, wjob>>
            BY <2>6 DEF RestoreDone, memory, threads
      <3>2. AcceptedJobsPersisted => AcceptedJobsPersisted'
            BY <3>1 DEF AcceptedJobsPersisted, Unfinished, HasRow, Persisting
      <3> QED BY <2>0, <3>1, <3>2 DEF RowsInv, Working
    <2>7. CASE (\E a \in Account : HoldExpires(a)) \/ (\E s \in Source : MigrationEnds(s))
      <3>1. UNCHANGED <<queuedKeys, call, rows, restore, pendingRows, wpc, wlane, wjob>>
            BY <2>7 DEF HoldExpires, MigrationEnds, memory, threads, boot
      <3> QED BY <2>0, <3>1, RowsKept DEF Working, AtWork
    <2> QED BY <1>4, <2>1, <2>2, <2>3, <2>4, <2>5, <2>6, <2>7 DEF Unbounded, BootStep
  <1>5. CASE UNCHANGED mcvars
    <2>1. UNCHANGED <<queuedKeys, call, rows, restore, pendingRows, wpc, wlane, wjob, early>>
          BY <1>5 DEF mcvars, vars, budget, memory, threads, boot
    <2> QED BY <2>1, RowsKept DEF Working, AtWork
  <1> QED BY <1>1, <1>2, <1>3, <1>4, <1>5 DEF MCNext

\* For every set of profiles, lanes, clients and workers, and any number of calls,
\* restarts, migrations and deletions: until a call runs beside the boot thread, an
\* accepted job is in the table or about to be, as source_sync_runtime.rs:305 has it.
\* What is excluded is what the code does not promise it for: a write to the table that
\* fails, a cancellation, and a forced run queued behind a run of its key.
THEOREM AcceptedStayPersisted ==
    ASSUME ~DiskErrors, ~Cancels, "force" \notin Mode
    PROVE  MCSpec => []PersistedUnlessEarly
  <1>1. PlainSyncs
        BY DEF PlainSyncs
  <1>2. IInv /\ RowsInv /\ [MCNext]_mcvars => RowsInv'
        BY <1>1, RowsStep
  <1>3. RowsInv => PersistedUnlessEarly
        BY DEF RowsInv, PersistedUnlessEarly
  <1> QED BY <1>2, <1>3, RowsInit, MCIsQueue, Inductive, PTL DEF MCSpec
-----------------------------------------------------------------------------
\* Refinement of SyncLanes.

LEMMA LanesKept ==
    ASSUME UNCHANGED <<active, queuedKeys>>
    PROVE  [Lanes!Next]_(Lanes!vars)
  BY DEF Lanes!vars, RunningKey

\* A worker that looks for a job has none, and neither has its lane.
LEMMA LoopIsIdle ==
    ASSUME TypeInv, OneWorkerPerLane, ActiveMatchesWorker, NEW w \in Worker, wpc[w] = "loop"
    PROVE  active[wlane[w]] = None
  <1>1. wlane[w] \in Provider
        BY DEF TypeInv, ThreadsOK
  <1>2. \A v \in Worker : Working(v) => wlane[v] # wlane[w]
        BY <1>1, UniqueWorker DEF Working
  <1> QED BY <1>1, <1>2 DEF ActiveMatchesWorker

LEMMA EnqueueJobSubmits ==
    ASSUME NEW job \in Job, EnqueueJob(job), UNCHANGED active
    PROVE  [Lanes!Next]_(Lanes!vars)
  <1>1. job.key \in Key /\ UNCHANGED RunningKey
        BY JobType DEF RunningKey
  <1>2. CASE QueuedNow(job)
    <2>1. Lanes!Submit(job.key)
          BY <1>1, <1>2 DEF EnqueueJob, Lanes!Submit
    <2> QED BY <1>1, <2>1 DEF Lanes!Next
  <1>3. CASE ~QueuedNow(job)
        BY <1>1, <1>3 DEF EnqueueJob, Lanes!vars
  <1> QED BY <1>2, <1>3

LEMMA WithdrawFromWithdraws ==
    ASSUME NEW c, NEW p, NEW ks \in SUBSET Key, NEW cancelled, WithdrawFrom(c, p, ks, cancelled)
    PROVE  [Lanes!Next]_(Lanes!vars)
  <1>1. QueuedIn(p, ks) \in SUBSET Key
        BY DEF QueuedIn
  <1>2. Lanes!Withdraw(QueuedIn(p, ks))
        BY DEF WithdrawFrom, Lanes!Withdraw, RunningKey
  <1> QED BY <1>1, <1>2 DEF Lanes!Next

LEMMA LanesStep ==
    TypeInv /\ OneWorkerPerLane /\ QueuesConsistent /\ ActiveMatchesWorker /\ [Next]_vars
        => [Lanes!Next]_(Lanes!vars)
  <1> SUFFICES ASSUME TypeInv, OneWorkerPerLane, QueuesConsistent, ActiveMatchesWorker, [Next]_vars
               PROVE  [Lanes!Next]_(Lanes!vars)
      OBVIOUS
  <1>1. ASSUME NEW c \in Client, NEW k \in Key, NEW mode \in Mode, Enqueue(c, k, mode) PROVE [Lanes!Next]_(Lanes!vars)
    <2>1. EnqueueJob([key |-> k, mode |-> mode]) /\ UNCHANGED active
          BY <1>1 DEF Enqueue
    <2> QED BY <2>1, MakeJob, EnqueueJobSubmits
  <1>2. ASSUME NEW c \in Client, NEW k \in Key, NEW mode \in Mode, EnqueueDuplicate(c, k, mode) PROVE [Lanes!Next]_(Lanes!vars)
    <2>1. EnqueueJob([key |-> k, mode |-> mode]) /\ UNCHANGED active
          BY <1>2 DEF EnqueueDuplicate
    <2> QED BY <2>1, MakeJob, EnqueueJobSubmits
  <1>3. ASSUME NEW c \in Client, NEW s \in Source, CancelProfile(c, s) PROVE [Lanes!Next]_(Lanes!vars)
        BY <1>3, WithdrawFromWithdraws DEF CancelProfile
  <1>4. ASSUME NEW c \in Client, NEW p \in Provider, CancelProvider(c, p) PROVE [Lanes!Next]_(Lanes!vars)
        BY <1>4, WithdrawFromWithdraws DEF CancelProvider
  <1>5. ASSUME NEW c \in Client, Persist(c) PROVE [Lanes!Next]_(Lanes!vars)
        BY <1>5, LanesKept DEF Persist, memory
  <1>6. ASSUME NEW c \in Client, NEW k \in Key, Unpersist(c, k) PROVE [Lanes!Next]_(Lanes!vars)
        BY <1>6, LanesKept DEF Unpersist, memory
  <1>7. ASSUME NEW c \in Client, RequestCancel(c) PROVE [Lanes!Next]_(Lanes!vars)
        BY <1>7, LanesKept DEF RequestCancel, memory
  <1>8. ASSUME NEW p \in Provider, Pause(p) PROVE [Lanes!Next]_(Lanes!vars)
        BY <1>8, LanesKept DEF Pause, memory
  <1>9. ASSUME NEW p \in Provider, Resume(p) PROVE [Lanes!Next]_(Lanes!vars)
        BY <1>9, LanesKept DEF Resume, memory
  <1>10. ASSUME NEW p \in Provider, Reorder(p) PROVE [Lanes!Next]_(Lanes!vars)
        BY <1>10, LanesKept DEF Reorder, memory
  <1>11. ASSUME NEW w \in Worker, StartJob(w) PROVE [Lanes!Next]_(Lanes!vars)
    <2> DEFINE p == wlane[w]
    <2>1. p \in Provider /\ active[p] = None
          BY <1>11, LoopIsIdle DEF StartJob, TypeInv, ThreadsOK
    <2>2. PICK i \in DOMAIN queues[p] :
              /\ queuedKeys' = queuedKeys \ {queues[p][i].key}
              /\ active' = [active EXCEPT ![p] = queues[p][i]]
          BY <1>11 DEF StartJob
    <2> DEFINE job == queues[p][i]
    <2>3. job \in Job /\ job.key \in Key /\ Lane(job.key) = p /\ job.key \in queuedKeys
          BY <2>1, <2>2, DomainOfSeq, JobType DEF TypeInv, TypeOK, QueuesConsistent
    <2>4. job # None
          BY <2>3, NoneAssumption
    <2>5. RunningKey[p] = None /\ RunningKey' = [RunningKey EXCEPT ![p] = job.key]
          BY <2>1, <2>2, <2>4 DEF RunningKey, TypeInv, TypeOK
    <2>6. Lanes!Start(p, job.key)
          BY <2>2, <2>3, <2>5 DEF Lanes!Start
    <2> QED BY <2>1, <2>3, <2>6 DEF Lanes!Next
  <1>12. ASSUME NEW w \in Worker, StopWorker(w) PROVE [Lanes!Next]_(Lanes!vars)
    <2>1. wlane[w] \in Provider /\ active[wlane[w]] = None
          BY <1>12, LoopIsIdle DEF StopWorker, TypeInv, ThreadsOK
    <2>2. UNCHANGED <<active, queuedKeys>>
          BY <1>12, <2>1 DEF StopWorker, TypeInv, TypeOK
    <2> QED BY <2>2, LanesKept
  <1>13. ASSUME NEW w \in Worker, FailEarly(w) PROVE [Lanes!Next]_(Lanes!vars)
        BY <1>13, LanesKept DEF FailEarly, memory
  <1>14. ASSUME NEW w \in Worker, RegisterToken(w) PROVE [Lanes!Next]_(Lanes!vars)
        BY <1>14, LanesKept DEF RegisterToken, memory
  <1>15. ASSUME NEW w \in Worker, EndRun(w) PROVE [Lanes!Next]_(Lanes!vars)
        BY <1>15, LanesKept DEF EndRun, memory
  <1>16. ASSUME NEW w \in Worker, Requeue(w) PROVE [Lanes!Next]_(Lanes!vars)
    <2> DEFINE p == wlane[w]
               job == wjob[w]
    <2>1. p \in Provider /\ job \in Job /\ job.key \in Key /\ Lane(job.key) = p /\ active[p] = job
          BY <1>16, JobType DEF Requeue, TypeInv, ThreadsOK, Working, ActiveMatchesWorker
    <2>2. job # None /\ job.key # None
          BY <2>1, NoneAssumption
    <2>3. active' = [active EXCEPT ![p] = None]
          BY <1>16, <2>1, <2>2 DEF Requeue, AlreadyActive
    <2>4. RunningKey[p] = job.key /\ RunningKey' = [RunningKey EXCEPT ![p] = None]
          BY <2>1, <2>2, <2>3 DEF RunningKey, TypeInv, TypeOK
    <2>5. Lanes!GiveBack(p)
          BY <1>16, <2>2, <2>4 DEF Requeue, Lanes!GiveBack
    <2> QED BY <2>1, <2>5 DEF Lanes!Next
  <1>17. ASSUME NEW w \in Worker, FinishRow(w) PROVE [Lanes!Next]_(Lanes!vars)
        BY <1>17, LanesKept DEF FinishRow, memory
  <1>18. ASSUME NEW w \in Worker, Finish(w) PROVE [Lanes!Next]_(Lanes!vars)
    <2> DEFINE p == wlane[w]
               job == wjob[w]
    <2>1. p \in Provider /\ job \in Job /\ job.key \in Key /\ Lane(job.key) = p /\ active[p] = job
          BY <1>18, JobType DEF Finish, TypeInv, ThreadsOK, Working, ActiveMatchesWorker
    <2>2. job # None /\ job.key # None
          BY <2>1, NoneAssumption
    <2>3. active' = [active EXCEPT ![p] = None]
          BY <1>18, <2>1, <2>2 DEF Finish, AlreadyActive
    <2>4. RunningKey[p] = job.key /\ RunningKey' = [RunningKey EXCEPT ![p] = None]
          BY <2>1, <2>2, <2>3 DEF RunningKey, TypeInv, TypeOK
    <2>5. Lanes!Finish(p)
          BY <1>18, <2>2, <2>4 DEF Finish, Lanes!Finish
    <2> QED BY <2>1, <2>5 DEF Lanes!Next
  <1>19. ASSUME LoadRows PROVE [Lanes!Next]_(Lanes!vars)
        BY <1>19, LanesKept DEF LoadRows, memory
  <1>20. ASSUME NEW r \in pendingRows, RestoreRow(r) PROVE [Lanes!Next]_(Lanes!vars)
    <2>1. EnqueueJob(r) /\ UNCHANGED active /\ r \in Job
          BY <1>20 DEF RestoreRow, TypeInv, TypeOK
    <2> QED BY <2>1, EnqueueJobSubmits
  <1>21. ASSUME NEW r \in pendingRows, DiscardRow(r) PROVE [Lanes!Next]_(Lanes!vars)
        BY <1>21, LanesKept DEF DiscardRow, memory
  <1>22. ASSUME NEW p \in Provider, RestoreSpawn(p) PROVE [Lanes!Next]_(Lanes!vars)
        BY <1>22, LanesKept DEF RestoreSpawn, memory
  <1>23. ASSUME RestoreDone PROVE [Lanes!Next]_(Lanes!vars)
        BY <1>23, LanesKept DEF RestoreDone, memory
  <1>24. ASSUME Environment PROVE [Lanes!Next]_(Lanes!vars)
    <2>1. UNCHANGED memory
          BY <1>24 DEF Environment, HoldExpires, MigrationStarts, MigrationEnds, SourceDeleted
    <2> QED BY <2>1, LanesKept DEF memory
  <1>25. ASSUME Restart PROVE [Lanes!Next]_(Lanes!vars)
    <2>1. Lanes!Restart
          BY <1>25 DEF Restart, Lanes!Restart, RunningKey
    <2> QED BY <2>1 DEF Lanes!Next
  <1>26. CASE UNCHANGED vars
        BY <1>26, LanesKept DEF vars, memory
  <1> QED BY <1>1, <1>2, <1>3, <1>4, <1>5, <1>6, <1>7, <1>8, <1>9, <1>10, <1>11, <1>12, <1>13, <1>14, <1>15, <1>16, <1>17, <1>18, <1>19, <1>20, <1>21, <1>22, <1>23, <1>24, <1>25, <1>26 DEF Next, ClientCall, ClientStep, LaneCall, WorkerStep, BootStep

LEMMA LanesInit == Init => Lanes!Init
  BY DEF Init, Lanes!Init, RunningKey

\* The queue with its threads, critical sections and table implements SyncLanes:
\* every start takes a waiting key to an idle lane of its own, once.
THEOREM LanesRefined == Spec => ImplementsLanes
  <1>1. IInv /\ [Next]_vars => [Lanes!Next]_(Lanes!vars)
        BY LanesStep DEF IInv
  <1> QED BY <1>1, LanesInit, Inductive, PTL DEF Spec, ImplementsLanes, Lanes!Spec
=============================================================================
