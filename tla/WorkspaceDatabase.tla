--------------------------- MODULE WorkspaceDatabase ---------------------------
(***************************************************************************)
(* The file of the workspace database: the migrations the first opening of *)
(* a process runs after a snapshot (database.rs), the restore of a backup  *)
(* that puts the old file aside (workspace_backup.rs), the commands that   *)
(* open it meanwhile (with_workspace), and the end of the process between  *)
(* any two of these steps.                                                 *)
(***************************************************************************)
EXTENDS Integers, Sequences

CONSTANTS
    LastVersion,  \* the last migration of this program
    FirstVersion, \* the one the workspace has at first
    Archives,     \* versions of the backups there are to restore
    Retention,    \* MIGRATION_BACKUP_RETENTION
    MaxCommits,   \* bound: changes of the workspace
    MaxStamp      \* bound: seconds that pass between restores

ASSUME DatabaseAssumption ==
    /\ LastVersion \in Nat /\ FirstVersion \in 1..LastVersion
    /\ Archives \subseteq 1..LastVersion
    /\ Retention \in Nat \ {0}
    /\ MaxCommits \in Nat /\ MaxStamp \in Nat

\* The contents of a file: the user's workspace, a restored backup or a new
\* database, what was committed to it and its migrations.
Db == [of : {"own", "archive", "blank"}, commits : 0..MaxCommits, version : 0..LastVersion]
NoFile == [of |-> "none", commits |-> 0, version |-> 0]
Torn == [of |-> "torn", commits |-> 0, version |-> 0]
Blank == [of |-> "blank", commits |-> 0, version |-> 0]

Migrator == {"open", "window"}

VARIABLES
    main,       \* the database file
    wal,        \* commits that are only in its write-ahead log
    snapshots,  \* the snapshots before migrations, oldest first
    copies,     \* the pre-restore copy of each second
    migrated,   \* the path is in the process's set of migrated databases
    migrating,  \* what each migrator is still to apply
    readers,    \* another connection stays open
    restore,    \* the next step of the restore under way
    archive,    \* the version of its backup
    stamp,      \* the second it is
    moved_open, \* history: a restore moved the file of an open connection, or onto
                \* the copy of another restore in the same second
    committed,  \* history: changes the user's workspace was given
    origin,     \* history: the file as it was before the last migrations began
    taken       \* history: snapshots taken since

db_vars == <<main, wal, snapshots, copies, migrated, migrating, readers, restore,
             archive, stamp, moved_open, committed, origin, taken>>

DatabaseTypeOK ==
    /\ main \in Db \cup {NoFile, Torn}
    /\ {wal, committed} \subseteq 0..MaxCommits
    /\ snapshots \in Seq(Db) /\ Len(snapshots) <= Retention
    /\ copies \in [0..MaxStamp -> Db \cup {NoFile, Torn}]
    /\ {migrated, readers, moved_open} \subseteq BOOLEAN
    /\ migrating \in [Migrator -> Seq(1..LastVersion)]
    /\ restore \in {"none", "checkpoint", "move", "sweep", "create", "write"}
    /\ archive \in Archives \cup {0}
    /\ stamp \in 0..MaxStamp
    /\ origin \in Db \cup {NoFile}
    /\ taken \in 0..Retention

DatabaseInit ==
    /\ main = [of |-> "own", commits |-> 0, version |-> FirstVersion]
    /\ wal = 0
    /\ snapshots = <<>>
    /\ copies = [t \in 0..MaxStamp |-> NoFile]
    /\ migrated = FALSE
    /\ migrating = [m \in Migrator |-> <<>>]
    /\ readers = FALSE
    /\ restore = "none"
    /\ archive = 0
    /\ stamp = 0
    /\ moved_open = FALSE
    /\ committed = 0
    /\ origin = NoFile
    /\ taken = 0

File == <<main, wal, committed>>
History == <<committed, origin, taken>>
Restoring == <<copies, restore, archive, stamp, moved_open>>
Usable == main \in Db
Whole == [main EXCEPT !.commits = @ + wal]

----------------------------------------------------------------------------
\* Migrations.

\* Fault: nothing is pruned.
SnapshotUnpruned == snapshots' = Append(snapshots, Whole)

\* Fault: the newest snapshots are pruned.
SnapshotPrunesNewest ==
    LET all == Append(snapshots, Whole)
    IN  snapshots' = SubSeq(all, 1, IF Len(all) > Retention THEN Retention ELSE Len(all))

\* VACUUM INTO, or the online backup, then prune_migration_backups.
Snapshot ==
    LET all == Append(snapshots, Whole)
    IN  snapshots' = SubSeq(all, 1 + (IF Len(all) > Retention THEN Len(all) - Retention ELSE 0), Len(all))

Pending == [i \in 1..(LastVersion - main.version) |-> main.version + i]

\* ensure_migrations of the first opening of a process, one at a time, and
\* run_pending_migrations_with_progress of the window, which takes no lock: the
\* snapshot, unless the database is new, comes before the first migration.
BeginMigrations(m) ==
    /\ Usable
    /\ migrating[m] = <<>>
    /\ main.version < LastVersion
    /\ m = "open" => ~migrated
    /\ migrating' = [migrating EXCEPT ![m] = Pending]
    /\ IF main.version = 0 THEN UNCHANGED <<snapshots, origin, taken>>
       ELSE /\ Snapshot
            /\ IF migrating = [o \in Migrator |-> <<>>] /\ (origin = NoFile \/ origin.of # main.of)
               THEN origin' = Whole /\ taken' = 1
               ELSE taken' = (IF taken < Retention THEN taken + 1 ELSE taken) /\ UNCHANGED origin
    /\ UNCHANGED <<File, migrated, readers, Restoring>>

\* Each migration is a transaction with its row of the ledger: the opening skips
\* one that is there by now, the window fails on it.
ApplyMigration(m) ==
    /\ migrating[m] # <<>>
    /\ Usable
    /\ IF Head(migrating[m]) = main.version + 1
       THEN /\ main' = [main EXCEPT !.version = @ + 1]
            /\ migrating' = [migrating EXCEPT ![m] = Tail(@)]
       ELSE /\ migrating' = [migrating EXCEPT ![m] = IF m = "open" THEN Tail(@) ELSE <<>>]
            /\ UNCHANGED main
    /\ migrated' = (migrated \/ (m = "open" /\ migrating'[m] = <<>>))
    /\ UNCHANGED <<wal, snapshots, readers, Restoring, History>>

\* A migration that fails ends the attempt; the next opening begins another.
MigrationFails(m) ==
    /\ migrating[m] # <<>>
    /\ migrating' = [migrating EXCEPT ![m] = <<>>]
    /\ UNCHANGED <<File, snapshots, migrated, readers, Restoring, origin, taken>>

\* An opening with nothing to migrate; without a file it creates one.
OpenDatabase ==
    /\ migrating["open"] = <<>>
    /\ \/ main = NoFile /\ main' = Blank /\ wal' = 0 /\ UNCHANGED migrated
       \/ Usable /\ main.version = LastVersion /\ ~migrated /\ migrated' = TRUE /\ UNCHANGED <<main, wal>>
    /\ UNCHANGED <<snapshots, migrating, readers, Restoring, History>>

----------------------------------------------------------------------------
\* The commands of a running program.

\* A change is in the log until the last connection closes; a file without its
\* tables takes none.
CommitChange ==
    /\ Usable /\ migrated /\ main.version > 0
    /\ main.commits + wal < MaxCommits
    /\ committed' = IF main.of = "own" THEN committed + 1 ELSE committed
    /\ IF readers THEN wal' = wal + 1 /\ UNCHANGED main
       ELSE main' = [Whole EXCEPT !.commits = @ + 1] /\ wal' = 0
    /\ UNCHANGED <<snapshots, migrated, migrating, readers, Restoring, origin, taken>>

OpenReader ==
    /\ Usable /\ migrated /\ ~readers
    /\ readers' = TRUE
    /\ UNCHANGED <<File, snapshots, migrated, migrating, Restoring, origin, taken>>

CloseReader ==
    /\ readers
    /\ readers' = FALSE
    /\ IF Usable THEN main' = Whole /\ wal' = 0 ELSE UNCHANGED <<main, wal>>
    /\ UNCHANGED <<snapshots, migrated, migrating, Restoring, History>>

----------------------------------------------------------------------------
\* import_workspace_backup of a backup that was validated: swap_in_database.

BeginRestore(version) ==
    /\ restore = "none" /\ migrated
    /\ restore' = "checkpoint"
    /\ archive' = version
    /\ UNCHANGED <<File, snapshots, copies, migrated, migrating, readers, stamp,
                   moved_open, origin, taken>>

\* Fault: the log is removed first.
CheckpointAfterSweep ==
    /\ restore = "checkpoint"
    /\ wal' = 0
    /\ restore' = "move"
    /\ UNCHANGED <<main, snapshots, copies, migrated, migrating, readers, archive,
                   stamp, moved_open, History>>

\* The log is folded into the file; another connection at work may prevent it.
Checkpoint ==
    /\ restore = "checkpoint"
    /\ \/ Usable /\ main' = Whole /\ wal' = 0
       \/ (readers \/ ~Usable) /\ UNCHANGED <<main, wal>>
    /\ restore' = "move"
    /\ UNCHANGED <<snapshots, copies, migrated, migrating, readers, archive, stamp,
                   moved_open, History>>

\* The file is renamed to its pre-restore copy; the system may refuse it, above
\* all while a connection holds the file.
MoveAside ==
    /\ restore = "move"
    /\ \/ /\ main # NoFile
          /\ copies' = [copies EXCEPT ![stamp] = main]
          /\ main' = NoFile
          /\ moved_open' = (moved_open \/ readers \/ copies[stamp] # NoFile)
          /\ restore' = "sweep"
          /\ UNCHANGED archive
       \/ main = NoFile /\ restore' = "sweep" /\ UNCHANGED <<copies, main, moved_open, archive>>
       \/ restore' = "none" /\ archive' = 0 /\ UNCHANGED <<copies, main, moved_open>>
    /\ UNCHANGED <<wal, snapshots, migrated, migrating, readers, stamp, History>>

\* The log that is beside the path is removed.
SweepLog ==
    /\ restore = "sweep"
    /\ wal' = 0
    /\ restore' = "create"
    /\ UNCHANGED <<main, snapshots, copies, migrated, migrating, readers, archive,
                   stamp, moved_open, History>>

\* fs::write truncates the file, over a new one a command made meanwhile ...
CreateRestored ==
    /\ restore = "create"
    /\ main' = Torn
    /\ restore' = "write"
    /\ UNCHANGED <<wal, snapshots, copies, migrated, migrating, readers, archive, stamp,
                   moved_open, History>>

\* ... and writes the backup into it, which may fail on the way.
WriteRestored ==
    /\ restore = "write"
    /\ \/ main' = [of |-> "archive", commits |-> 0, version |-> archive]
       \/ UNCHANGED main
    /\ restore' = "none"
    /\ archive' = 0
    /\ UNCHANGED <<wal, snapshots, copies, migrated, migrating, readers, stamp,
                   moved_open, History>>

\* Time matters once the second's copy is there.
SecondPasses ==
    /\ stamp < MaxStamp
    /\ restore = "none"
    /\ copies[stamp] # NoFile
    /\ stamp' = stamp + 1
    /\ UNCHANGED <<File, snapshots, copies, migrated, migrating, readers, restore,
                   archive, moved_open, History>>

----------------------------------------------------------------------------
\* The process ends and starts again; the log stays and is folded in.
Restart ==
    /\ migrated' = FALSE
    /\ migrating' = [m \in Migrator |-> <<>>]
    /\ readers' = FALSE
    /\ restore' = "none"
    /\ archive' = 0
    /\ IF Usable THEN main' = Whole ELSE UNCHANGED main
    /\ wal' = 0
    /\ UNCHANGED <<snapshots, copies, stamp, moved_open, History>>

DatabaseNext ==
    \/ \E m \in Migrator : BeginMigrations(m) \/ ApplyMigration(m) \/ MigrationFails(m)
    \/ OpenDatabase \/ CommitChange \/ OpenReader \/ CloseReader
    \/ \E v \in Archives : BeginRestore(v)
    \/ Checkpoint \/ MoveAside \/ SweepLog \/ CreateRestored \/ WriteRestored
    \/ SecondPasses \/ Restart

DatabaseSpec == DatabaseInit /\ [][DatabaseNext]_db_vars

----------------------------------------------------------------------------
\* The user's workspace with all that was committed to it is in the database or
\* in a pre-restore copy, wherever a restore, its failure or the end of the
\* process leaves off; unless a connection was open, or another restore ran in
\* the same second, when the file was moved (swap_in_database).
WorkspaceKept ==
    ~moved_open =>
        \E d \in {Whole} \cup {copies[t] : t \in 0..MaxStamp} :
            d.of = "own" /\ d.commits = committed

\* The database as it was before the first of a series of migrations is in a
\* snapshot, through attempts that fail half way, an opening beside the
\* window's and restarts, until as many attempts as snapshots are kept have
\* followed (ensure_migrations, prune_migration_backups).
OriginKept ==
    origin # NoFile => taken >= Retention \/ \E i \in DOMAIN snapshots : snapshots[i] = origin
=============================================================================
