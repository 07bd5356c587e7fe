------------------------------ MODULE SyncLanes ------------------------------
(***************************************************************************)
(* What the source-sync queue promises, with no threads, locks, rows or    *)
(* accounts: a set of submitted keys waits, every provider lane runs at    *)
(* most one key at a time, a lane runs only keys that were waiting for it, *)
(* and nothing waits or runs after a restart until it is submitted again.  *)
(***************************************************************************)
CONSTANTS
    Key,        \* job keys
    Provider,   \* lanes
    LaneOf,     \* the lane each key belongs to
    NoKey       \* what an idle lane runs

VARIABLES
    pending,    \* keys submitted and not started
    running     \* the key each lane runs

vars == <<pending, running>>

LanesTypeOK ==
    /\ pending \subseteq Key
    /\ running \in [Provider -> Key \cup {NoKey}]

Init ==
    /\ pending = {}
    /\ running = [p \in Provider |-> NoKey]

Submit(k) ==
    /\ pending' = pending \cup {k}
    /\ UNCHANGED running

\* Starting takes the key out of the waiting set: one submission, one run.
Start(p, k) ==
    /\ running[p] = NoKey
    /\ k \in pending
    /\ LaneOf[k] = p
    /\ pending' = pending \ {k}
    /\ running' = [running EXCEPT ![p] = k]

Finish(p) ==
    /\ running[p] # NoKey
    /\ running' = [running EXCEPT ![p] = NoKey]
    /\ UNCHANGED pending

\* A rate-limited run gives its key back to the waiting set.
GiveBack(p) ==
    /\ running[p] # NoKey
    /\ running' = [running EXCEPT ![p] = NoKey]
    /\ pending' = pending \cup {running[p]}

Withdraw(ks) ==
    /\ pending' = pending \ ks
    /\ UNCHANGED running

Restart ==
    /\ pending' = {}
    /\ running' = [p \in Provider |-> NoKey]

Next ==
    \/ \E k \in Key : Submit(k)
    \/ \E p \in Provider, k \in Key : Start(p, k)
    \/ \E p \in Provider : Finish(p) \/ GiveBack(p)
    \/ \E ks \in SUBSET Key : Withdraw(ks)
    \/ Restart

Spec == Init /\ [][Next]_vars
=============================================================================
