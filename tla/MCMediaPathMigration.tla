------------------------- MODULE MCMediaPathMigration -------------------------
(***************************************************************************)
(* TLC instances of MediaPathMigration: calls and restarts are bounded, the *)
(* steps of the worker, the calls and the boot thread are not.             *)
(***************************************************************************)
EXTENDS MediaPathMigration, TLC

CONSTANTS
    MaxRestarts,    \* ends of the process
    MaxCancels      \* cancellations; enqueues are bounded by JobId

VARIABLES
    restarts,
    cancels,
    early           \* whether a call came before the boot thread was done

budget == <<restarts, cancels, early>>
mcvars == <<vars, budget>>

MCInit == Init /\ restarts = 0 /\ cancels = 0 /\ early = FALSE

NoteCall == early' = (early \/ restore # "done")

BoundedEnqueue ==
    /\ \E s \in Source, t \in Place : Enqueue(s, t)
    /\ NoteCall
    /\ UNCHANGED <<restarts, cancels>>

BoundedCancel ==
    /\ cancels < MaxCancels
    /\ CancelAll
    /\ NoteCall
    /\ cancels' = cancels + 1
    /\ UNCHANGED restarts

BoundedRestart ==
    /\ restarts < MaxRestarts
    /\ Restart
    /\ restarts' = restarts + 1
    /\ UNCHANGED <<cancels, early>>

Unbounded ==
    /\ UnpersistStep \/ WorkerStep \/ BootStep
    /\ UNCHANGED budget

MCNext == BoundedEnqueue \/ BoundedCancel \/ BoundedRestart \/ Unbounded

MCSpec == MCInit /\ [][MCNext]_mcvars

\* The worker and boot threads are scheduled and file operations return.
FairSpec ==
    /\ MCSpec
    /\ WF_vars(WorkerStep)
    /\ WF_vars(UnpersistStep)
    /\ WF_vars(BootStep)
-----------------------------------------------------------------------------
\* SettledComplete until the process ends in the middle of a move: failures
\* aside, only that leaves a profile between two places.
SettledUntilCrash == restarts = 0 => SettledComplete

\* JobsDurable until a cancellation deletes rows, or a call runs beside the
\* boot thread, which then queues rows it read before.
DurableUntilCancelled == cancels = 0 /\ ~early => JobsDurable
-----------------------------------------------------------------------------
CONSTANTS s1, s2, a, b, c, j1, j2, j3, f1, f2

HomeIsA == [s \in Source |-> a]

Symmetry == Permutations(Source) \cup Permutations(JobId) \cup Permutations(File)

\* A profile that is migrating stops being so: the syncs held back for it run.
MigrationsEnd == \A s \in Source : IsMigrating(s) ~> ~IsMigrating(s)

\* A migration cut off by the end of the process is taken up again and closed,
\* unless a call beside the boot thread queues the profile under another id.
RestoredMigrationsEnd ==
    \A s \in Source : (restore = "boot" /\ \E r \in rows : r.source = s)
        ~> early \/ (~IsMigrating(s) /\ ~\E r \in rows : r.source = s)
=============================================================================
