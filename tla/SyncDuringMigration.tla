------------------------- MODULE SyncDuringMigration --------------------------
(***************************************************************************)
(* The media-path migration composed with the source sync of the same      *)
(* profiles: a sync downloads into the folder it resolved after it was     *)
(* taken from its lane, and records what it downloaded when it ends; it is *)
(* held back while its profile migrates, but a migration does not look at  *)
(* running syncs.                                                          *)
(***************************************************************************)
EXTENDS MediaPathMigration

CONSTANTS
    Reconciling,    \* profiles whose ledger is compared with the disk when a
                    \* sync starts (TikTok)
    Careful         \* whether only profiles without a sync are moved, and
                    \* nothing is asked before the boot thread is done

ASSUME ReconcilingAssumption == Reconciling \subseteq Source /\ Careful \in BOOLEAN

VARIABLES
    syncing,    \* profiles whose sync was taken from its lane
    target,     \* the place each profile's sync downloads to, or None
    fetched,    \* the files it downloaded
    ledger      \* for each profile, the files recorded as downloaded

sync == <<syncing, target, fetched, ledger>>
allvars == <<vars, sync>>

ComposedInit ==
    /\ Init
    /\ syncing = {}
    /\ target = [s \in Source |-> None]
    /\ fetched = [s \in Source |-> {}]
    /\ ledger = [s \in Source |-> Library]

Accepting == Careful => restore = "done"

\* Fault: a profile is not held back.
SyncNeverHeld(s) == TRUE

\* dequeue_next passes over a profile that is migrating.
SyncMayStart(s) == ~IsMigrating(s)

TakeSync(s) ==
    /\ Accepting
    /\ s \notin syncing
    /\ SyncMayStart(s)
    /\ syncing' = syncing \cup {s}
    /\ UNCHANGED <<vars, target, fetched, ledger>>

Content(s, d) == IF Exists(s, d) THEN disk[s][d] ELSE {}

\* The folder is created if it is not there.
ResolveFolder(s) ==
    /\ s \in syncing
    /\ target[s] = None
    /\ target' = [target EXCEPT ![s] = root[s]]
    /\ disk' = Put(s, root[s], Content(s, root[s]))
    /\ ledger' = IF s \in Reconciling THEN [ledger EXCEPT ![s] = Content(s, root[s])] ELSE ledger
    /\ UNCHANGED <<waiting, running, thread, table, boot, root, syncing, fetched>>

\* A file the ledger does not have.  A copy of the same folder reads the
\* directory as it goes: it may or may not come across the new file.
SaveFile(s, f) ==
    /\ target[s] # None
    /\ f \notin ledger[s] \cup fetched[s]
    /\ disk' = Put(s, target[s], Content(s, target[s]) \cup {f})
    /\ fetched' = [fetched EXCEPT ![s] = @ \cup {f}]
    /\ todo' \in {todo} \cup (IF wpc = "copy" /\ active.source = s /\ Old = target[s]
                              THEN {todo \cup {f}} ELSE {})
    /\ UNCHANGED <<waiting, running, wpc, outcome, table, boot, root, syncing, target, ledger>>

EndSync(s) ==
    /\ target[s] # None
    /\ ledger' = [ledger EXCEPT ![s] = @ \cup fetched[s]]
    /\ syncing' = syncing \ {s}
    /\ target' = [target EXCEPT ![s] = None]
    /\ fetched' = [fetched EXCEPT ![s] = {}]
    /\ UNCHANGED vars

SyncStep ==
    \E s \in Source :
        TakeSync(s) \/ ResolveFolder(s) \/ EndSync(s) \/ \E f \in File : SaveFile(s, f)

MigrationCall ==
    /\ Accepting
    /\ \/ \E s \in Source, t \in Place :
            (Careful => s \notin syncing) /\ (Enqueue(s, t) \/ EnqueueBadBatch(s, t))
       \/ CancelAll
    /\ UNCHANGED sync

MigrationStep ==
    /\ UnpersistStep \/ WorkerStep \/ BootStep
    /\ UNCHANGED sync

ComposedNext == SyncStep \/ MigrationCall \/ MigrationStep

ComposedSpec == ComposedInit /\ [][ComposedNext]_allvars
-----------------------------------------------------------------------------
\* sources.rs:1296, "mover a pasta mantém o histórico de downloads
\* consistente": once a profile is not migrating, what its ledger records is in
\* the folder the database names, so no later sync skips a file that is gone.
HistoryConsistent ==
    \A s \in Source : ~IsMigrating(s) => ledger[s] \subseteq Content(s, root[s])
=============================================================================
