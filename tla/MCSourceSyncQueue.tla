-------------------------- MODULE MCSourceSyncQueue --------------------------
(***************************************************************************)
(* TLC instances of SourceSyncQueue.  Two profiles share a provider and an *)
(* account; a story target is a second key of the first profile.  Calls,   *)
(* restarts and moves of the world are bounded; the queue's own steps are  *)
(* not.                                                                    *)
(***************************************************************************)
EXTENDS SourceSyncQueue, TLC

CONSTANTS
    MaxCalls,       \* API calls accepted in a behaviour
    MaxRestarts,    \* ends of the process
    MaxWorld,       \* migrations started and profiles deleted
    Cancels         \* whether calls may cancel

VARIABLES
    calls,
    restarts,
    moves,
    early           \* whether a call came before the boot thread was done

budget == <<calls, restarts, moves, early>>
mcvars == <<vars, budget>>

MCInit == Init /\ calls = 0 /\ restarts = 0 /\ moves = 0 /\ early = FALSE

BoundedCall ==
    /\ calls < MaxCalls
    /\ \/ \E c \in Client, k \in Key, m \in Mode : Enqueue(c, k, m) \/ EnqueueDuplicate(c, k, m)
       \/ /\ Cancels
          /\ \E c \in Client :
                \/ \E s \in Source : CancelProfile(c, s)
                \/ \E p \in Provider : CancelProvider(c, p)
       \/ \E p \in Provider : LaneCall(p)
    /\ calls' = calls + 1
    /\ early' = (early \/ restore # "done")
    /\ UNCHANGED <<restarts, moves>>

BoundedWorld ==
    /\ moves < MaxWorld
    /\ \E s \in Source : MigrationStarts(s) \/ SourceDeleted(s)
    /\ moves' = moves + 1
    /\ UNCHANGED <<calls, restarts, early>>

BoundedRestart ==
    /\ restarts < MaxRestarts
    /\ Restart
    /\ restarts' = restarts + 1
    /\ UNCHANGED <<calls, moves, early>>

Unbounded ==
    /\ \/ \E c \in Client : ClientStep(c)
       \/ \E w \in Worker : WorkerStep(w)
       \/ BootStep
       \/ \E a \in Account : HoldExpires(a)
       \/ \E s \in Source : MigrationEnds(s)
    /\ UNCHANGED budget

MCNext == BoundedCall \/ BoundedWorld \/ BoundedRestart \/ Unbounded

MCSpec == MCInit /\ [][MCNext]_mcvars

\* Threads are scheduled, runs end (every connector call has a timeout), holds
\* are over after their deadline and a migration ends; nobody has to call.
Fairness ==
    /\ \A w \in Worker : WF_vars(WorkerStep(w))
    /\ \A c \in Client : WF_vars(ClientStep(c))
    /\ WF_vars(BootStep)
    /\ \A a \in Account : WF_vars(HoldExpires(a))
    /\ \A s \in Source : WF_vars(MigrationEnds(s))

FairSpec == MCSpec /\ Fairness
-----------------------------------------------------------------------------
CONSTANTS k1, k2, k3, s1, s2, p1, p2, a1, a2, w1, w2, w3, c1, c2

StorySourceOf == (k1 :> s1) @@ (k2 :> s1) @@ (k3 :> s2)
TwoKeySourceOf == (k1 :> s1) @@ (k3 :> s2)
OneLaneProviderOf == (s1 :> p1) @@ (s2 :> p1)
TwoLaneProviderOf == (s1 :> p1) @@ (s2 :> p2)
OneAccountOf == (s1 :> a1) @@ (s2 :> a1)
TwoAccountOf == (s1 :> a1) @@ (s2 :> a2)

Symmetry == Permutations(Worker) \cup Permutations(Client)
\* AcceptedJobsPersisted until a call runs beside the boot thread, which may
\* queue a job from a row that the call's run has deleted since.
PersistedUnlessEarly == ~early => AcceptedJobsPersisted
-----------------------------------------------------------------------------
\* Liveness

\* A waiting job is taken out of the queue (started, or cancelled) unless its
\* lane is paused: holds, migrations, a rotated queue, a worker that exits
\* while a job arrives and a worker promised by a call all give way in the end.
WaitingJobsLeave ==
    \A k \in Key : k \in queuedKeys ~> k \notin queuedKeys \/ Lane(k) \in paused

\* What the table holds at boot is run again: every row found by the boot
\* thread leads to a start of its job, unless the job is cancelled, its profile
\* gone, its lane paused or the process ends first.
RestoredJobsRun ==
    \A k \in Key :
        restore = "boot" /\ HasRow(k)
            ~> \/ \E p \in Provider : active[p] # None /\ active[p].key = k
               \/ ~HasRow(k)
               \/ SourceOf[k] \notin exists
               \/ Lane(k) \in paused
=============================================================================
