------------------------ MODULE MCSyncDuringMigration -------------------------
(***************************************************************************)
(* TLC instances of SyncDuringMigration: enqueues are bounded by JobId,    *)
(* downloads by File and ends of the process by MaxRestarts; cancellations *)
(* and failures need no bound, so of the budget only `restarts` changes.   *)
(***************************************************************************)
EXTENDS SyncDuringMigration, MCMediaPathMigration

VARIABLE
    spoiled     \* whether a move was given up or cut off between its promotion
                \* and the update of the database

overlap_vars == <<allvars, budget, spoiled>>

OverlapInit == ComposedInit /\ MCInit /\ spoiled = FALSE

\* The ledger is in the database; what a sync downloaded is recorded when it
\* ends, so never if the process ends before.
RestartBesideSync ==
    /\ restarts < MaxRestarts
    /\ Restart
    /\ restarts' = restarts + 1
    /\ syncing' = {}
    /\ target' = [s \in Source |-> None]
    /\ fetched' = [s \in Source |-> {}]
    /\ UNCHANGED <<ledger, cancels, early>>

Halved == wpc \in {"remove", "update"}

OverlapNext ==
    /\ \/ (SyncStep \/ MigrationCall \/ MigrationStep) /\ UNCHANGED budget
       \/ RestartBesideSync
    /\ spoiled' = (spoiled \/ (Halved /\ (outcome' = "error" \/ restarts' # restarts)))

OverlapSpec == OverlapInit /\ [][OverlapNext]_overlap_vars
-----------------------------------------------------------------------------
CONSTANT f3

OverlapSymmetry == Permutations(JobId) \cup Permutations(Library)
-----------------------------------------------------------------------------
\* HistoryConsistent until a move fails, or the process ends, between the
\* promotion of the copy and the update of the database: every other failure,
\* cancellation or restart leaves downloads and their ledger together.
HistoryUntilSpoiled == ~spoiled => HistoryConsistent
=============================================================================
