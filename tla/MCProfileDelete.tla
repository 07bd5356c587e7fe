--------------------------- MODULE MCProfileDelete ----------------------------
(***************************************************************************)
(* TLC instances of ProfileDelete: calls and rate-limit holds are bounded, *)
(* what the threads do is not.  `slips` remembers what the properties are  *)
(* conditional on.                                                         *)
(***************************************************************************)
EXTENDS ProfileDelete, TLC

CONSTANTS
    MaxCalls,   \* calls made
    MaxHolds,   \* runs that end on an account hold
    MaxSlips    \* kinds of what a careful user would not meet

VARIABLES
    calls,
    held,
    slips       \* "request": a call about a profile being deleted, "batch": an
                \* enqueue that failed half way, "timeout": a wait given up,
                \* "database": a deletion the database stopped

budget == <<calls, held, slips>>
mcvars == <<dvars, budget>>

\* Every profile has one file and another is new upstream.
MCInit ==
    /\ DeleteInit
    /\ \E f \in File : media = [s \in Source |-> {f}]
    /\ calls = 0
    /\ held = 0
    /\ slips = {}

BeingDeleted(s) == DeleteKnown(s) \/ \E c \in Canceller : doing[c] # None /\ doing[c].source = s

Slip(kinds) ==
    /\ slips' = slips \cup kinds
    /\ Cardinality(slips') <= MaxSlips

Ask(s) == Slip(IF BeingDeleted(s) THEN {"request"} ELSE {})

BoundedCall ==
    /\ calls < MaxCalls
    /\ calls' = calls + 1
    /\ UNCHANGED held
    /\ \E s \in Source :
        \/ (RequestSync(s) \/ StartMove(s) \/ RequestThumbnails(s)) /\ Ask(s)
        \/ \E mode \in {"UserOnly", "WithMedia"} :
            /\ EnqueueDelete(s, mode) \/ \E c \in Canceller : DeleteNow(c, s, mode)
            /\ Ask(s)
        \/ \E t \in Source : RequestBadBatch(s, t) /\ Slip({"batch"})

BoundedHold ==
    /\ held < MaxHolds
    /\ \E p \in Provider : HoldSync(p)
    /\ held' = held + 1
    /\ UNCHANGED <<calls, slips>>

\* A canceller that did not find the job gone stops waiting.
Impatient(c) == c \notin clearing /\ waits[c] # None /\ waits'[c] = None

Unbounded ==
    /\ \/ \E p \in Provider : SyncStep(p)
       \/ \E s \in Source : EndMove(s)
       \/ RunThumbnails
       \/ DeleterStep
       \/ \E c \in Canceller \ {Deleter} : DeleteStep(c)
    /\ Slip(IF \E c \in Canceller : Impatient(c) THEN {"timeout"} ELSE {})
    /\ UNCHANGED <<calls, held>>

DatabaseFails ==
    /\ \E c \in Canceller : FailDelete(c)
    /\ Slip({"database"})
    /\ UNCHANGED <<calls, held>>

MCNext == BoundedCall \/ BoundedHold \/ Unbounded \/ DatabaseFails

MCSpec == MCInit /\ [][MCNext]_mcvars

\* Threads are scheduled, a waiting sync gets its lane, runs end, migrations
\* end, files are removed or found to resist.  Nobody has to call.
FairSpec ==
    /\ MCSpec
    /\ \A p \in Provider : WF_dvars(SyncStep(p))
    /\ \A s \in Source : WF_dvars(EndMove(s))
    /\ WF_dvars(RunThumbnails)
    /\ WF_dvars(DeleterStep)
    /\ \A c \in Canceller \ {Deleter} : WF_dvars(DeleteStep(c))
-----------------------------------------------------------------------------
CONSTANTS s1, s2, p1, d, u, g1, g2, f1, f2

OneLane == [s \in Source |-> p1]

Symmetry == Permutations(Source) \cup Permutations(File)
-----------------------------------------------------------------------------
\* While nobody asks for anything about a profile that is being deleted (such calls
\* are accepted) and no wait is given up, the waits of a deletion, in their order,
\* keep out all that was asked before it: nobody works on the folder while it is
\* wiped, and no run that outlives the profile saves another file.
UndisturbedIfCareful == slips = {} => WipeUndisturbed /\ GoneLeavesNothing

\* LedgerMatches under the same conditions and until the database stops a
\* deletion: a wipe that fails half way is followed by a purge of the ledger.
MatchesIfCareful == slips = {} => LedgerMatches

\* A deletion that waits or runs is over some time, whatever the sync it waits
\* for, the thumbnail job and the removal of files do.
DeletesEnd == \A s \in Source : BeingDeleted(s) ~> ~BeingDeleted(s)
=============================================================================
