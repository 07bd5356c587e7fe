----------------------------- MODULE UpgradeProofs -----------------------------
(***************************************************************************)
(* Theorems about what an upgrade replaces: the workspace's database, for  *)
(* every number of migrations, of snapshots kept, of changes and of        *)
(* restores; a connector's program, for every set of threads and releases. *)
(***************************************************************************)
EXTENDS WorkspaceDatabase, ConnectorRuntime, SequenceTheorems, TLAPS

-----------------------------------------------------------------------------
(***************************************************************************)
(* The database.                                                           *)
(***************************************************************************)

\* The invariant, in parts.

Fits == main.commits + wal <= MaxCommits

\* A file that was moved away is not at the path any more.
MovedAway == restore \in {"sweep", "create", "write"} => main.of # "own"

\* The workspace's log is empty unless a connection holds it open.
LogHeld == main.of = "own" /\ wal # 0 => readers

\* Where the user's workspace is: at the path or, once moved, in a copy.
AtPath == main.of = "own" => main.commits + wal = committed
InCopy ==
    ~moved_open /\ main.of # "own" =>
        \E t \in 0..MaxStamp : copies[t].of = "own" /\ copies[t].commits = committed

\* The snapshot of the origin is as many places from the end as were taken.
OriginPlaced ==
    /\ origin # NoFile => taken > 0
    /\ taken <= Len(snapshots)
    /\ origin # NoFile /\ taken < Retention => snapshots[Len(snapshots) - taken + 1] = origin

DatabaseInv ==
    /\ DatabaseTypeOK /\ Fits
    /\ MovedAway /\ LogHeld /\ AtPath /\ InCopy
    /\ OriginPlaced

-----------------------------------------------------------------------------
LEMMA DatabaseInitial == DatabaseInit => DatabaseInv
  <1> SUFFICES ASSUME DatabaseInit PROVE DatabaseInv
      OBVIOUS
  <1> USE DatabaseAssumption DEF DatabaseInit
  <1>1. main \in Db /\ 0 \in 0..MaxCommits /\ 0 \in 0..MaxStamp /\ 0 \in 0..Retention
        BY DEF Db
  <1>2. copies \in [0..MaxStamp -> Db \cup {NoFile, Torn}]
        OBVIOUS
  <1>3. snapshots \in Seq(Db) /\ Len(snapshots) = 0
        OBVIOUS
  <1>4. migrating \in [Migrator -> Seq(1..LastVersion)]
        OBVIOUS
  <1>5. DatabaseTypeOK
        BY <1>1, <1>2, <1>3, <1>4 DEF DatabaseTypeOK
  <1>6. Fits /\ MovedAway /\ LogHeld /\ AtPath /\ InCopy
        BY <1>1 DEF Fits, MovedAway, LogHeld, AtPath, InCopy
  <1>7. OriginPlaced
        BY <1>3 DEF OriginPlaced
  <1> QED BY <1>5, <1>6, <1>7 DEF DatabaseInv

LEMMA WholeIsDb ==
    ASSUME DatabaseTypeOK, Fits, Usable
    PROVE  /\ Whole \in Db
           /\ Whole.of = main.of /\ Whole.commits = main.commits + wal
           /\ Whole.version = main.version
           /\ main.commits \in 0..MaxCommits /\ wal \in 0..MaxCommits
           /\ main.version \in 0..LastVersion
  <1>1. /\ main \in Db /\ wal \in 0..MaxCommits
        /\ main.of \in {"own", "archive", "blank"}
        /\ main.commits \in 0..MaxCommits
        /\ main.version \in 0..LastVersion
        BY DEF DatabaseTypeOK, Usable, Db
  <1>2. Whole = [of |-> main.of, commits |-> main.commits + wal, version |-> main.version]
        BY <1>1 DEF Whole, Db
  <1>3. main.commits + wal \in 0..MaxCommits
        BY <1>1, DatabaseAssumption DEF Fits
  <1> QED BY <1>1, <1>2, <1>3 DEF Db

\* Nothing usable is another kind of file, and such files have no changes.
LEMMA FileKinds ==
    ASSUME DatabaseTypeOK
    PROVE  /\ main.commits \in Nat /\ wal \in Nat
           /\ main.of = "own" => Usable
           /\ ~Usable => main.commits = 0
           /\ NoFile \notin Db /\ Torn \notin Db
  BY DatabaseAssumption DEF DatabaseTypeOK, Usable, Db, NoFile, Torn

\* What a snapshot does to the list: the new one last, the oldest out.
LEMMA SnapshotTaken ==
    ASSUME DatabaseTypeOK, Fits, Usable, Snapshot
    PROVE  /\ snapshots' \in Seq(Db)
           /\ Len(snapshots') = (IF Len(snapshots) < Retention THEN Len(snapshots) + 1 ELSE Retention)
           /\ snapshots'[Len(snapshots')] = Whole
           /\ \A i \in 1..(Len(snapshots') - 1) :
                 snapshots'[i] = snapshots[i + (Len(snapshots) + 1 - Len(snapshots'))]
  <1> DEFINE all == Append(snapshots, Whole)
  <1>1. /\ snapshots \in Seq(Db)
        /\ Len(snapshots) \in Nat
        /\ Len(snapshots) <= Retention
        /\ Retention \in Nat \ {0}
        BY DatabaseAssumption DEF DatabaseTypeOK
  <1>2. Whole \in Db
        BY WholeIsDb
  <1>3. /\ all \in Seq(Db)
        /\ Len(all) = Len(snapshots) + 1
        /\ \A i \in 1..Len(snapshots) : all[i] = snapshots[i]
        /\ all[Len(snapshots) + 1] = Whole
        BY <1>1, <1>2
  <1>0. snapshots' = SubSeq(all, 1 + (IF Len(all) > Retention THEN Len(all) - Retention ELSE 0), Len(all))
        BY DEF Snapshot
  <1> HIDE DEF all
  <1>4. CASE Len(snapshots) < Retention
    <2>1. snapshots' = SubSeq(all, 1, Len(all))
      <3>1. ~(Len(all) > Retention)
            BY <1>1, <1>3, <1>4
      <3>2. 1 + (IF Len(all) > Retention THEN Len(all) - Retention ELSE 0) = 1
            BY <3>1
      <3> QED BY <1>0, <3>2
    <2>2. snapshots' = all
          BY <1>1, <1>3, <2>1
    <2> QED BY <1>1, <1>3, <1>4, <2>2
  <1>5. CASE Len(snapshots) = Retention
    <2>1. snapshots' = SubSeq(all, 2, Len(all))
          BY <1>0, <1>1, <1>3, <1>5
    <2>2. /\ snapshots' \in Seq(Db)
          /\ Len(snapshots') = Retention
          /\ \A i \in 1..Retention : snapshots'[i] = all[i + 1]
          BY <1>1, <1>3, <1>5, <2>1
    <2> QED BY <1>1, <1>3, <1>5, <2>2
  <1> QED BY <1>1, <1>4, <1>5

-----------------------------------------------------------------------------
\* The actions that do not touch the snapshots leave the origin where it is.
LEMMA OriginStays ==
    ASSUME OriginPlaced, UNCHANGED <<snapshots, origin, taken>>
    PROVE  OriginPlaced'
  BY DEF OriginPlaced

LEMMA BeginMigrationsStep ==
    ASSUME DatabaseInv, NEW m \in Migrator, BeginMigrations(m)
    PROVE  DatabaseInv'
  <1>1. Whole \in Db /\ Usable /\ main.version \in 0..LastVersion
        BY WholeIsDb DEF DatabaseInv, BeginMigrations
  <1>2. UNCHANGED <<main, wal, committed, migrated, readers, copies, restore, archive, stamp, moved_open>>
        BY DEF BeginMigrations, File, Restoring
  <1>3. migrating' \in [Migrator -> Seq(1..LastVersion)]
    <2>1. Pending \in Seq(1..LastVersion)
          BY <1>1, DatabaseAssumption DEF Pending
    <2> QED BY <2>1 DEF BeginMigrations, DatabaseInv, DatabaseTypeOK
  <1>4. /\ snapshots \in Seq(Db) /\ Len(snapshots) \in Nat /\ Len(snapshots) <= Retention
        /\ Retention \in Nat \ {0} /\ taken \in 0..Retention
        /\ origin \in Db \cup {NoFile} /\ taken <= Len(snapshots)
        BY DatabaseAssumption DEF DatabaseInv, DatabaseTypeOK, OriginPlaced
  <1>5. CASE main.version = 0
    <2>1. UNCHANGED <<snapshots, origin, taken>>
          BY <1>5 DEF BeginMigrations
    <2>2. OriginPlaced'
          BY <2>1, OriginStays DEF DatabaseInv
    <2> QED BY <1>2, <1>3, <2>1, <2>2
            DEF DatabaseInv, DatabaseTypeOK, Fits, MovedAway, LogHeld, AtPath, InCopy
  <1>6. CASE main.version # 0
    <2>1. Snapshot
          BY <1>6 DEF BeginMigrations
    <2>2. /\ snapshots' \in Seq(Db)
          /\ Len(snapshots') = (IF Len(snapshots) < Retention THEN Len(snapshots) + 1 ELSE Retention)
          /\ snapshots'[Len(snapshots')] = Whole
          /\ \A i \in 1..(Len(snapshots') - 1) :
                snapshots'[i] = snapshots[i + (Len(snapshots) + 1 - Len(snapshots'))]
          BY <1>1, <2>1, SnapshotTaken DEF DatabaseInv
    <2>3. CASE origin' = Whole /\ taken' = 1
          BY <1>1, <1>2, <1>3, <1>4, <2>2, <2>3
             DEF DatabaseInv, DatabaseTypeOK, Fits, MovedAway, LogHeld, AtPath, InCopy, OriginPlaced
    <2>4. CASE taken' = (IF taken < Retention THEN taken + 1 ELSE taken) /\ UNCHANGED origin
      <3>1. OriginPlaced'
        <4>1. /\ origin # NoFile => taken > 0
              /\ origin # NoFile /\ taken < Retention => snapshots[Len(snapshots) - taken + 1] = origin
              BY DEF DatabaseInv, OriginPlaced
        <4>2. taken' > 0 /\ taken' <= Len(snapshots')
              BY <1>4, <2>2, <2>4
        <4>3. ASSUME origin # NoFile, taken' < Retention
              PROVE  snapshots'[Len(snapshots') - taken' + 1] = origin
          <5>1. taken > 0 /\ taken < Retention /\ taken' = taken + 1
                BY <1>4, <2>4, <4>1, <4>3
          <5>2. Len(snapshots') - taken \in 1..(Len(snapshots') - 1)
                BY <1>4, <2>2, <4>2, <5>1
          <5>3. /\ snapshots'[Len(snapshots') - taken] = snapshots[Len(snapshots) - taken + 1]
                /\ Len(snapshots') - taken' + 1 = Len(snapshots') - taken
            <6>1. Len(snapshots') \in Nat /\ taken \in Nat /\ Len(snapshots) \in Nat
                  BY <1>4, <2>2
            <6>2. snapshots'[Len(snapshots') - taken] =
                     snapshots[(Len(snapshots') - taken) + (Len(snapshots) + 1 - Len(snapshots'))]
                  BY <2>2, <5>2
            <6>3. (Len(snapshots') - taken) + (Len(snapshots) + 1 - Len(snapshots')) = Len(snapshots) - taken + 1
                  BY <6>1
            <6> QED BY <5>1, <6>1, <6>2, <6>3
          <5> QED BY <4>1, <4>3, <5>1, <5>3
        <4> QED BY <2>4, <4>2, <4>3 DEF OriginPlaced
      <3> QED BY <1>2, <1>3, <1>4, <2>2, <2>4, <3>1
              DEF DatabaseInv, DatabaseTypeOK, Fits, MovedAway, LogHeld, AtPath, InCopy
    <2> QED BY <1>6, <2>3, <2>4 DEF BeginMigrations
  <1> QED BY <1>5, <1>6

LEMMA HeadTail ==
    ASSUME NEW S, NEW s \in Seq(S), s # <<>>
    PROVE  Head(s) \in S /\ Tail(s) \in Seq(S)
  OBVIOUS

LEMMA ApplyMigrationStep ==
    ASSUME DatabaseInv, NEW m \in Migrator, ApplyMigration(m)
    PROVE  DatabaseInv'
  <1>1. /\ main \in Db /\ migrating[m] \in Seq(1..LastVersion) /\ migrating[m] # <<>>
        /\ migrating \in [Migrator -> Seq(1..LastVersion)]
        BY DEF DatabaseInv, DatabaseTypeOK, ApplyMigration, Usable
  <1>2. Head(migrating[m]) \in 1..LastVersion /\ Tail(migrating[m]) \in Seq(1..LastVersion)
        BY <1>1, HeadTail
  <1>3. main' \in Db /\ main'.of = main.of /\ main'.commits = main.commits
        BY <1>1, <1>2 DEF ApplyMigration, Db
  <1>4. migrating' \in [Migrator -> Seq(1..LastVersion)]
    <2>1. \A q \in Seq(1..LastVersion) : [migrating EXCEPT ![m] = q] \in [Migrator -> Seq(1..LastVersion)]
          BY <1>1
    <2>2. <<>> \in Seq(1..LastVersion)
          OBVIOUS
    <2>3. \E q \in {Tail(migrating[m]), <<>>} : migrating' = [migrating EXCEPT ![m] = q]
          BY DEF ApplyMigration
    <2> QED BY <1>2, <2>1, <2>2, <2>3
  <1>5. migrated' \in BOOLEAN
        BY DEF ApplyMigration, DatabaseInv, DatabaseTypeOK
  <1>6. UNCHANGED <<wal, snapshots, readers, copies, restore, archive, stamp, moved_open,
                    committed, origin, taken>>
        BY DEF ApplyMigration, Restoring, History
  <1>7. OriginPlaced'
        BY <1>6, OriginStays DEF DatabaseInv
  <1> QED BY <1>3, <1>4, <1>5, <1>6, <1>7
          DEF DatabaseInv, DatabaseTypeOK, Fits, MovedAway, LogHeld, AtPath, InCopy

LEMMA CommandSteps ==
    ASSUME DatabaseInv, CommitChange \/ OpenReader \/ CloseReader \/ OpenDatabase
    PROVE  DatabaseInv'
  <1>1. /\ main.commits \in Nat /\ wal \in Nat /\ (main.of = "own" => Usable)
        /\ (~Usable => main.commits = 0) /\ MaxCommits \in Nat /\ 0 \in 0..LastVersion
        BY FileKinds, DatabaseAssumption DEF DatabaseInv
  <1>2. Usable => /\ Whole \in Db
                  /\ Whole.of = main.of /\ Whole.commits = main.commits + wal
        BY WholeIsDb DEF DatabaseInv
  <1>3. CASE CommitChange
    <2> DEFINE new == [Whole EXCEPT !.commits = @ + 1]
    <2>1. Usable /\ main.commits + wal < MaxCommits
          BY <1>3 DEF CommitChange
    <2>2. new \in Db /\ new.of = main.of /\ new.commits = main.commits + wal + 1
          BY <1>1, <1>2, <2>1 DEF Db
    <2>3. committed \in 0..MaxCommits /\ (main.of = "own" => committed = main.commits + wal)
          BY DEF DatabaseInv, DatabaseTypeOK, AtPath
    <2>4. committed' = (IF main.of = "own" THEN committed + 1 ELSE committed)
          BY <1>3 DEF CommitChange
    <2>5. committed' \in 0..MaxCommits
          BY <1>1, <2>1, <2>3, <2>4
    <2>6. \/ readers /\ wal' = wal + 1 /\ main' = main
          \/ ~readers /\ main' = new /\ wal' = 0
          BY <1>3 DEF CommitChange
    <2>7. /\ main' \in Db /\ main'.of = main.of
          /\ main'.commits + wal' = main.commits + wal + 1
          /\ wal' \in 0..MaxCommits /\ (wal' # 0 => readers)
      <3> HIDE DEF new
      <3>1. main \in Db
            BY <2>1 DEF Usable
      <3>2. CASE readers /\ wal' = wal + 1 /\ main' = main
            BY <1>1, <2>1, <3>1, <3>2
      <3>3. CASE ~readers /\ main' = new /\ wal' = 0
            BY <1>1, <2>1, <2>2, <3>3
      <3> QED BY <2>6, <3>2, <3>3
    <2> HIDE DEF new
    <2>8. UNCHANGED <<snapshots, migrated, migrating, readers, copies, restore, archive, stamp,
                      moved_open, origin, taken>>
          BY <1>3 DEF CommitChange, Restoring
    <2>9. OriginPlaced'
          BY <2>8, OriginStays DEF DatabaseInv
    <2>10. DatabaseTypeOK'
          BY <2>5, <2>7, <2>8 DEF DatabaseInv, DatabaseTypeOK
    <2>11. Fits' /\ MovedAway' /\ LogHeld'
          BY <1>1, <2>1, <2>7, <2>8 DEF DatabaseInv, Fits, MovedAway, LogHeld
    <2>12. AtPath' /\ InCopy'
          BY <1>1, <2>3, <2>4, <2>7, <2>8 DEF DatabaseInv, AtPath, InCopy
    <2> QED BY <2>9, <2>10, <2>11, <2>12 DEF DatabaseInv
  <1>4. CASE OpenReader
    <2>1. UNCHANGED <<main, wal, committed, snapshots, migrated, migrating, copies, restore, archive,
                      stamp, moved_open, origin, taken>> /\ readers' = TRUE
          BY <1>4 DEF OpenReader, File, Restoring
    <2>2. OriginPlaced'
          BY <2>1, OriginStays DEF DatabaseInv
    <2> QED BY <2>1, <2>2
            DEF DatabaseInv, DatabaseTypeOK, Fits, MovedAway, LogHeld, AtPath, InCopy
  <1>5. CASE CloseReader
    <2>1. UNCHANGED <<snapshots, migrated, migrating, copies, restore, archive, stamp, moved_open,
                      committed, origin, taken>> /\ readers' = FALSE
          BY <1>5 DEF CloseReader, Restoring, History
    <2>2. OriginPlaced'
          BY <2>1, OriginStays DEF DatabaseInv
    <2>3. \/ Usable /\ main' = Whole /\ wal' = 0
          \/ ~Usable /\ UNCHANGED <<main, wal>>
          BY <1>5 DEF CloseReader
    <2>4. CASE Usable /\ main' = Whole /\ wal' = 0
      <3>1. main' \in Db /\ main'.of = main.of /\ main'.commits = main.commits + wal
            BY <1>2, <2>4
      <3>2. DatabaseTypeOK'
        <4>1. DatabaseTypeOK /\ {wal', committed'} \subseteq 0..MaxCommits
              BY <1>1, <2>1, <2>4 DEF DatabaseInv, DatabaseTypeOK
        <4>2. {migrated', readers', moved_open'} \subseteq BOOLEAN
              BY <4>1, <2>1 DEF DatabaseTypeOK
        <4> QED BY <2>1, <3>1, <4>1, <4>2 DEF DatabaseTypeOK
      <3>3. Fits' /\ MovedAway' /\ LogHeld'
            BY <1>1, <2>1, <2>4, <3>1 DEF DatabaseInv, Fits, MovedAway, LogHeld
      <3>4. AtPath' /\ InCopy'
            BY <1>1, <2>1, <2>4, <3>1 DEF DatabaseInv, AtPath, InCopy
      <3> QED BY <2>2, <3>2, <3>3, <3>4 DEF DatabaseInv
    <2>5. CASE ~Usable /\ UNCHANGED <<main, wal>>
          BY <1>1, <2>1, <2>2, <2>5
             DEF DatabaseInv, DatabaseTypeOK, Fits, MovedAway, LogHeld, AtPath, InCopy
    <2> QED BY <2>3, <2>4, <2>5
  <1>6. CASE OpenDatabase
    <2>1. UNCHANGED <<snapshots, migrating, readers, copies, restore, archive, stamp, moved_open,
                      committed, origin, taken>>
          BY <1>6 DEF OpenDatabase, Restoring, History
    <2>2. OriginPlaced'
          BY <2>1, OriginStays DEF DatabaseInv
    <2>3. Blank \in Db /\ Blank.of = "blank" /\ Blank.commits = 0 /\ NoFile.of = "none"
          BY <1>1 DEF Blank, Db, NoFile
    <2>4. CASE main = NoFile /\ main' = Blank /\ wal' = 0 /\ UNCHANGED migrated
          BY <1>1, <2>1, <2>2, <2>3, <2>4
             DEF DatabaseInv, DatabaseTypeOK, Fits, MovedAway, LogHeld, AtPath, InCopy
    <2>5. CASE migrated' = TRUE /\ UNCHANGED <<main, wal>>
          BY <2>1, <2>2, <2>5
             DEF DatabaseInv, DatabaseTypeOK, Fits, MovedAway, LogHeld, AtPath, InCopy
    <2> QED BY <1>6, <2>4, <2>5 DEF OpenDatabase
  <1> QED BY <1>3, <1>4, <1>5, <1>6

-----------------------------------------------------------------------------
\* A step of a restore leaves these alone.
LEMMA RestoreFrame ==
    ASSUME DatabaseInv, UNCHANGED <<snapshots, migrated, migrating, readers, stamp, committed, origin, taken>>,
           main' \in Db \cup {NoFile, Torn}, wal' \in 0..MaxCommits,
           copies' \in [0..MaxStamp -> Db \cup {NoFile, Torn}], moved_open' \in BOOLEAN,
           restore' \in {"none", "checkpoint", "move", "sweep", "create", "write"},
           archive' \in Archives \cup {0},
           Fits', MovedAway', LogHeld', AtPath', InCopy'
    PROVE  DatabaseInv'
  <1>1. OriginPlaced'
        BY OriginStays DEF DatabaseInv
  <1> QED BY <1>1 DEF DatabaseInv, DatabaseTypeOK

LEMMA RestoreSteps ==
    ASSUME DatabaseInv,
           \/ \E v \in Archives : BeginRestore(v)
           \/ Checkpoint \/ MoveAside \/ SweepLog \/ CreateRestored \/ WriteRestored
    PROVE  DatabaseInv'
  <1> USE DEF History
  <1>1. /\ main.commits \in Nat /\ wal \in Nat /\ wal \in 0..MaxCommits
        /\ (main.of = "own" => Usable)
        /\ (~Usable => main.commits = 0) /\ MaxCommits \in Nat
        /\ main \in Db \cup {NoFile, Torn} /\ 0 \in 0..MaxCommits
        BY FileKinds, DatabaseAssumption DEF DatabaseInv, DatabaseTypeOK
  <1>2. Usable => /\ Whole \in Db
                  /\ Whole.of = main.of /\ Whole.commits = main.commits + wal
        BY WholeIsDb DEF DatabaseInv
  <1>3. /\ copies \in [0..MaxStamp -> Db \cup {NoFile, Torn}]
        /\ archive \in Archives \cup {0} /\ stamp \in 0..MaxStamp /\ moved_open \in BOOLEAN
        BY DEF DatabaseInv, DatabaseTypeOK
  <1>4. /\ NoFile.of = "none" /\ Torn.of = "torn" /\ NoFile.commits = 0 /\ Torn.commits = 0
        BY DEF NoFile, Torn
  <1>5. Fits /\ MovedAway /\ LogHeld /\ AtPath /\ InCopy
        BY DEF DatabaseInv
  <1>6. CASE \E v \in Archives : BeginRestore(v)
    <2>1. PICK v \in Archives : BeginRestore(v)
          BY <1>6
    <2>2. UNCHANGED <<main, wal, committed, snapshots, copies, migrated, migrating, readers, stamp,
                      moved_open, origin, taken>> /\ restore' = "checkpoint" /\ archive' = v
          BY <2>1 DEF BeginRestore, File
    <2>3. Fits' /\ MovedAway' /\ LogHeld' /\ AtPath' /\ InCopy'
          BY <1>5, <2>2 DEF Fits, MovedAway, LogHeld, AtPath, InCopy
    <2> QED BY <1>1, <1>3, <2>2, <2>3, RestoreFrame
  <1>7. CASE Checkpoint
    <2>1. UNCHANGED <<snapshots, copies, migrated, migrating, readers, archive, stamp, moved_open,
                      committed, origin, taken>> /\ restore' = "move"
          BY <1>7 DEF Checkpoint
    <2>2. CASE Usable /\ main' = Whole /\ wal' = 0
      <3>1. main' \in Db /\ main'.of = main.of /\ main'.commits = main.commits + wal
            BY <1>2, <2>2
      <3>2. Fits' /\ MovedAway' /\ LogHeld' /\ AtPath' /\ InCopy'
            BY <1>1, <1>5, <2>1, <2>2, <3>1 DEF Fits, MovedAway, LogHeld, AtPath, InCopy
      <3> QED BY <1>1, <1>3, <2>1, <2>2, <3>1, <3>2, RestoreFrame
    <2>3. CASE UNCHANGED <<main, wal>>
      <3>1. Fits' /\ MovedAway' /\ LogHeld' /\ AtPath' /\ InCopy'
            BY <1>5, <2>1, <2>3 DEF Fits, MovedAway, LogHeld, AtPath, InCopy
      <3> QED BY <1>1, <1>3, <2>1, <2>3, <3>1, RestoreFrame
    <2> QED BY <1>7, <2>2, <2>3 DEF Checkpoint
  <1>8. CASE MoveAside
    <2>1. UNCHANGED <<wal, snapshots, migrated, migrating, readers, stamp, committed, origin, taken>>
          BY <1>8 DEF MoveAside
    <2>2. CASE /\ main # NoFile
               /\ copies' = [copies EXCEPT ![stamp] = main]
               /\ main' = NoFile
               /\ moved_open' = (moved_open \/ readers \/ copies[stamp] # NoFile)
               /\ restore' = "sweep"
               /\ UNCHANGED archive
      <3>1. /\ copies' \in [0..MaxStamp -> Db \cup {NoFile, Torn}]
            /\ copies'[stamp] = main
            /\ \A t \in (0..MaxStamp) \ {stamp} : copies'[t] = copies[t]
            BY <1>1, <1>3, <2>2
      <3>2. Fits' /\ MovedAway' /\ LogHeld' /\ AtPath'
            BY <1>1, <1>4, <1>5, <2>1, <2>2 DEF Fits, MovedAway, LogHeld, AtPath
      <3>3. InCopy'
        <4> SUFFICES ASSUME ~moved_open'
                     PROVE  \E t \in 0..MaxStamp : copies'[t].of = "own" /\ copies'[t].commits = committed
            BY <2>1 DEF InCopy
        <4>1. ~moved_open /\ ~readers /\ copies[stamp] = NoFile
              BY <2>2
        <4>2. CASE main.of = "own"
          <5>1. wal = 0
                BY <1>5, <4>1, <4>2 DEF LogHeld
          <5>2. main.commits = committed
                BY <1>1, <1>5, <4>2, <5>1 DEF AtPath
          <5> QED BY <1>3, <3>1, <4>2, <5>2
        <4>3. CASE main.of # "own"
              BY <1>3, <1>4, <1>5, <3>1, <4>1, <4>3 DEF InCopy
        <4> QED BY <4>2, <4>3
      <3>4. moved_open' \in BOOLEAN /\ archive' \in Archives \cup {0} /\ main' \in Db \cup {NoFile, Torn}
            BY <1>3, <2>2 DEF DatabaseInv, DatabaseTypeOK
      <3> QED BY <1>1, <2>1, <2>2, <3>1, <3>2, <3>3, <3>4, RestoreFrame
    <2>3. CASE main = NoFile /\ restore' = "sweep" /\ UNCHANGED <<copies, main, moved_open, archive>>
      <3>1. Fits' /\ MovedAway' /\ LogHeld' /\ AtPath' /\ InCopy'
            BY <1>4, <1>5, <2>1, <2>3 DEF Fits, MovedAway, LogHeld, AtPath, InCopy
      <3> QED BY <1>1, <1>3, <2>1, <2>3, <3>1, RestoreFrame
    <2>4. CASE restore' = "none" /\ archive' = 0 /\ UNCHANGED <<copies, main, moved_open>>
      <3>1. Fits' /\ MovedAway' /\ LogHeld' /\ AtPath' /\ InCopy'
            BY <1>5, <2>1, <2>4 DEF Fits, MovedAway, LogHeld, AtPath, InCopy
      <3> QED BY <1>1, <1>3, <2>1, <2>4, <3>1, RestoreFrame
    <2> QED BY <1>8, <2>2, <2>3, <2>4 DEF MoveAside
  <1>9. CASE SweepLog
    <2>1. /\ UNCHANGED <<main, snapshots, copies, migrated, migrating, readers, archive, stamp, moved_open,
                         committed, origin, taken>>
          /\ wal' = 0 /\ restore = "sweep" /\ restore' = "create"
          BY <1>9 DEF SweepLog
    <2>2. Fits' /\ MovedAway' /\ LogHeld' /\ AtPath' /\ InCopy'
          BY <1>1, <1>5, <2>1 DEF Fits, MovedAway, LogHeld, AtPath, InCopy
    <2> QED BY <1>1, <1>3, <2>1, <2>2, RestoreFrame
  <1>10. CASE CreateRestored
    <2>1. /\ UNCHANGED <<wal, snapshots, copies, migrated, migrating, readers, archive, stamp, moved_open,
                         committed, origin, taken>>
          /\ main' = Torn /\ restore = "create" /\ restore' = "write"
          BY <1>10 DEF CreateRestored
    <2>2. Fits' /\ MovedAway' /\ LogHeld' /\ AtPath' /\ InCopy'
          BY <1>1, <1>4, <1>5, <2>1 DEF Fits, MovedAway, LogHeld, AtPath, InCopy
    <2> QED BY <1>1, <1>3, <2>1, <2>2, RestoreFrame
  <1>11. CASE WriteRestored
    <2>1. /\ UNCHANGED <<wal, snapshots, copies, migrated, migrating, readers, stamp, moved_open,
                         committed, origin, taken>>
          /\ restore = "write" /\ restore' = "none" /\ archive' = 0
          /\ main' \in {[of |-> "archive", commits |-> 0, version |-> archive], main}
          BY <1>11 DEF WriteRestored
    <2>2. archive \in 0..LastVersion
          BY <1>3, DatabaseAssumption
    <2>3. [of |-> "archive", commits |-> 0, version |-> archive] \in Db
          BY <1>1, <2>2 DEF Db
    <2>4. main'.of # "own" /\ (main'.commits = 0 \/ main' = main) /\ main' \in Db \cup {NoFile, Torn}
          BY <1>1, <1>5, <2>1, <2>3 DEF MovedAway
    <2>5. Fits' /\ MovedAway' /\ LogHeld' /\ AtPath' /\ InCopy'
          BY <1>1, <1>5, <2>1, <2>4 DEF Fits, MovedAway, LogHeld, AtPath, InCopy
    <2> QED BY <1>1, <1>3, <2>1, <2>4, <2>5, RestoreFrame
  <1> QED BY <1>6, <1>7, <1>8, <1>9, <1>10, <1>11

-----------------------------------------------------------------------------
LEMMA OtherSteps ==
    ASSUME DatabaseInv, \/ \E m \in Migrator : MigrationFails(m)
                        \/ SecondPasses \/ Restart
    PROVE  DatabaseInv'
  <1> USE DEF History
  <1>1. <<>> \in Seq(1..LastVersion)
        OBVIOUS
  <1>2. CASE \E m \in Migrator : MigrationFails(m)
    <2>1. PICK m \in Migrator : MigrationFails(m)
          BY <1>2
    <2>2. /\ UNCHANGED <<main, wal, committed, snapshots, migrated, readers, copies, restore, archive,
                         stamp, moved_open, origin, taken>>
          /\ migrating' = [migrating EXCEPT ![m] = <<>>]
          BY <2>1 DEF MigrationFails, File, Restoring
    <2>3. migrating' \in [Migrator -> Seq(1..LastVersion)]
          BY <1>1, <2>2 DEF DatabaseInv, DatabaseTypeOK
    <2>4. OriginPlaced'
          BY <2>2, OriginStays DEF DatabaseInv
    <2> QED BY <2>2, <2>3, <2>4
            DEF DatabaseInv, DatabaseTypeOK, Fits, MovedAway, LogHeld, AtPath, InCopy
  <1>3. CASE SecondPasses
    <2>1. /\ UNCHANGED <<main, wal, committed, snapshots, copies, migrated, migrating, readers, restore,
                         archive, moved_open, origin, taken>>
          /\ stamp < MaxStamp /\ stamp' = stamp + 1
          BY <1>3 DEF SecondPasses, File
    <2>2. stamp' \in 0..MaxStamp
          BY <2>1, DatabaseAssumption DEF DatabaseInv, DatabaseTypeOK
    <2>3. OriginPlaced'
          BY <2>1, OriginStays DEF DatabaseInv
    <2> QED BY <2>1, <2>2, <2>3
            DEF DatabaseInv, DatabaseTypeOK, Fits, MovedAway, LogHeld, AtPath, InCopy
  <1>4. CASE Restart
    <2>1. /\ UNCHANGED <<snapshots, copies, stamp, moved_open, committed, origin, taken>>
          /\ migrated' = FALSE /\ readers' = FALSE /\ restore' = "none" /\ archive' = 0 /\ wal' = 0
          /\ migrating' = [m \in Migrator |-> <<>>]
          BY <1>4 DEF Restart
    <2>2. /\ main.commits \in Nat /\ wal \in Nat /\ (main.of = "own" => Usable) /\ MaxCommits \in Nat
          BY FileKinds, DatabaseAssumption DEF DatabaseInv
    <2>3. \/ /\ main' \in Db /\ main'.of = main.of /\ main'.commits = main.commits + wal
          \/ ~Usable /\ main' = main
          BY <1>4, WholeIsDb DEF Restart, DatabaseInv
    <2>4. migrating' \in [Migrator -> Seq(1..LastVersion)]
          BY <1>1, <2>1
    <2>5. OriginPlaced'
          BY <2>1, OriginStays DEF DatabaseInv
    <2>6. DatabaseTypeOK'
      <3>1. DatabaseTypeOK /\ {wal', committed'} \subseteq 0..MaxCommits
            BY <2>1, <2>2 DEF DatabaseInv, DatabaseTypeOK
      <3>2. {migrated', readers', moved_open'} \subseteq BOOLEAN
            BY <3>1, <2>1 DEF DatabaseTypeOK
      <3> QED BY <2>1, <2>3, <2>4, <3>1, <3>2 DEF DatabaseTypeOK
    <2>7. Fits' /\ MovedAway' /\ LogHeld'
          BY <2>1, <2>2, <2>3 DEF DatabaseInv, Fits, MovedAway, LogHeld
    <2>8. AtPath' /\ InCopy'
          BY <2>1, <2>2, <2>3 DEF DatabaseInv, AtPath, InCopy
    <2> QED BY <2>5, <2>6, <2>7, <2>8 DEF DatabaseInv
  <1> QED BY <1>2, <1>3, <1>4

LEMMA DatabaseStep == DatabaseInv /\ [DatabaseNext]_db_vars => DatabaseInv'
  <1> SUFFICES ASSUME DatabaseInv, [DatabaseNext]_db_vars PROVE DatabaseInv'
      OBVIOUS
  <1>1. CASE DatabaseNext
        BY <1>1, BeginMigrationsStep, ApplyMigrationStep, CommandSteps, RestoreSteps, OtherSteps
           DEF DatabaseNext
  <1>2. CASE UNCHANGED db_vars
    <2>1. OriginPlaced'
          BY <1>2, OriginStays DEF DatabaseInv, db_vars
    <2> QED BY <1>2, <2>1
            DEF db_vars, DatabaseInv, DatabaseTypeOK, Fits, MovedAway, LogHeld, AtPath, InCopy
  <1> QED BY <1>1, <1>2

LEMMA DatabaseInvariant == DatabaseSpec => []DatabaseInv
  <1>1. DatabaseInit => DatabaseInv
        BY DatabaseInitial
  <1>2. DatabaseInv /\ [DatabaseNext]_db_vars => DatabaseInv'
        BY DatabaseStep
  <1> QED BY <1>1, <1>2, PTL DEF DatabaseSpec

-----------------------------------------------------------------------------
\* Every variable of the database keeps its type; above all, never more than
\* Retention snapshots are kept (prune_migration_backups).
THEOREM DatabaseTypeCorrect == DatabaseSpec => []DatabaseTypeOK
  <1>1. DatabaseInv => DatabaseTypeOK
        BY DEF DatabaseInv
  <1> QED BY <1>1, DatabaseInvariant, PTL

\* The user's workspace, with every change it was given, is at the path or in a
\* pre-restore copy after any number of restores, failures and restarts, unless
\* its file was moved under an open connection or onto the copy of the same
\* second (swap_in_database).
THEOREM WorkspaceAlwaysKept == DatabaseSpec => []WorkspaceKept
  <1>1. DatabaseInv => WorkspaceKept
    <2> SUFFICES ASSUME DatabaseInv, ~moved_open
                 PROVE  \E d \in {Whole} \cup {copies[t] : t \in 0..MaxStamp} :
                           d.of = "own" /\ d.commits = committed
        BY DEF WorkspaceKept
    <2>1. CASE main.of = "own"
      <3>1. Whole.of = "own" /\ Whole.commits = committed
            BY <2>1, WholeIsDb, FileKinds DEF DatabaseInv, AtPath
      <3> QED BY <3>1
    <2>2. CASE main.of # "own"
          BY <2>2 DEF DatabaseInv, InCopy
    <2> QED BY <2>1, <2>2
  <1> QED BY <1>1, DatabaseInvariant, PTL

\* The database as it was before a series of migrations stays among the
\* snapshots until as many attempts as snapshots are kept have followed, however
\* many migrations there are and wherever attempts fail (ensure_migrations,
\* prune_migration_backups).
THEOREM OriginAlwaysKept == DatabaseSpec => []OriginKept
  <1>1. DatabaseInv => OriginKept
    <2> SUFFICES ASSUME DatabaseInv, origin # NoFile, taken < Retention
                 PROVE  \E i \in DOMAIN snapshots : snapshots[i] = origin
        BY DatabaseAssumption DEF OriginKept, DatabaseInv, DatabaseTypeOK
    <2>1. /\ snapshots \in Seq(Db) /\ Len(snapshots) \in Nat
          /\ DOMAIN snapshots = 1..Len(snapshots)
          /\ taken \in Nat /\ taken > 0 /\ taken <= Len(snapshots)
          BY DatabaseAssumption DEF DatabaseInv, DatabaseTypeOK, OriginPlaced
    <2>2. Len(snapshots) - taken + 1 \in DOMAIN snapshots
          BY <2>1
    <2> QED BY <2>2 DEF DatabaseInv, OriginPlaced
  <1> QED BY <1>1, DatabaseInvariant, PTL

-----------------------------------------------------------------------------
(***************************************************************************)
(* The downloader programs.                                                *)
(***************************************************************************)

\* The steps that act on what a decision read of the row.
Late == {"look", "settle", "defer", "prepare"}

\* A command ends with such a step and comes to it by reports and the download alone; a
\* lookup is followed by the save of its answer, and a look whether the connector is idle
\* by what it may leave out.
WellFormed(s) ==
    \A i \in 1..Len(s) :
        /\ s[i] \in Late => i = Len(s) /\ \A j \in 1..(i - 1) : s[j] \in {"touch", "install"}
        /\ s[i] = "lookup" => i < Len(s)
        /\ s[i] = "idle?" => i + 2 <= Len(s)

StillTo(s, steps) == \E i \in 1..Len(s) : s[i] \in steps

\* A row is loaded for the edit that comes next.
Editing == \A t \in Thread : seen[t] # Unread => todo[t] # <<>> /\ Head(todo[t]) \in Edit

\* The row says what the user chose, and the threads that loaded it hold it as it is.
RowAgreed ==
    /\ record.mode = chosen
    /\ \A t \in Thread : seen[t] \in {Unread, record}
    /\ record.mode = "custom" => /\ record.active \in {Custom, Absent}
                                 /\ record.pending = Absent
                                 /\ settled_on = Absent
    /\ record.mode = "managed" => record.active # Custom

\* What the last update downloaded is there and active or waits.
UpdateHeld ==
    settled_on # Absent =>
        /\ settled_on \in installed
        /\ settled_on = record.pending \/ (settled_on = record.active /\ record.pending = Absent)

\* What a thread decided to do fits the row still.
FitsRow(s, v) ==
    /\ StillTo(s, Late) => record.mode = "managed"
    /\ StillTo(s, {"look", "settle", "defer"}) => v \notin {record.active, record.pending}
    /\ StillTo(s, {"prepare"}) => settled_on \in {Absent, record.pending}
DecisionsHold == \A t \in Thread : FitsRow(todo[t], target[t])

ConnectorInv ==
    /\ ConnectorTypeOK
    /\ \A t \in Thread : WellFormed(todo[t])
    /\ Editing
    /\ ~crossed => RowAgreed /\ UpdateHeld /\ DecisionsHold

----------------------------------------------------------------------------
\* What is left of a command is as well-formed as the command and brings nothing new.
LEMMA RestOfCommand ==
    ASSUME NEW s \in Seq(Step), WellFormed(s), NEW r \in Seq(Step), NEW k \in Nat,
           Len(s) = Len(r) + k, \A i \in 1..Len(r) : r[i] = s[i + k]
    PROVE  /\ WellFormed(r)
           /\ \A steps : StillTo(r, steps) => StillTo(s, steps)
<1>1. Len(r) \in Nat /\ Len(s) \in Nat
  OBVIOUS
<1>2. \A i \in 1..Len(r) : i + k \in 1..Len(s)
  BY <1>1
<1>3. \A steps : StillTo(r, steps) => StillTo(s, steps)
  BY <1>2 DEF StillTo
<1>4. ASSUME NEW i \in 1..Len(r)
      PROVE  /\ r[i] \in Late => i = Len(r) /\ \A j \in 1..(i - 1) : r[j] \in {"touch", "install"}
             /\ r[i] = "lookup" => i < Len(r)
             /\ r[i] = "idle?" => i + 2 <= Len(r)
  <2>1. i + k \in 1..Len(s) /\ r[i] = s[i + k]
    BY <1>2
  <2>2. ASSUME r[i] \in Late, NEW j \in 1..(i - 1)
        PROVE  r[j] \in {"touch", "install"}
    <3>1. j \in 1..Len(r) /\ j + k \in 1..(i + k - 1)
      BY <1>1
    <3>2. s[j + k] \in {"touch", "install"}
      BY <2>1, <2>2, <3>1 DEF WellFormed
    <3>3. QED  BY <3>1, <3>2
  <2>3. r[i] \in Late => i = Len(r)
    BY <2>1, <1>1 DEF WellFormed
  <2>4. (r[i] = "lookup" => i < Len(r)) /\ (r[i] = "idle?" => i + 2 <= Len(r))
    BY <2>1, <1>1 DEF WellFormed
  <2>5. QED  BY <2>2, <2>3, <2>4
<1>5. QED  BY <1>3, <1>4 DEF WellFormed

LEMMA TailOfCommand ==
    ASSUME NEW s \in Seq(Step), s # <<>>, WellFormed(s)
    PROVE  /\ Tail(s) \in Seq(Step) /\ WellFormed(Tail(s))
           /\ \A steps : StillTo(Tail(s), steps) => StillTo(s, steps)
<1>1. /\ Tail(s) \in Seq(Step) /\ Len(s) = Len(Tail(s)) + 1
      /\ \A i \in 1..Len(Tail(s)) : Tail(s)[i] = s[i + 1]
  OBVIOUS
<1>2. QED  BY <1>1, RestOfCommand

\* A command that is at another step has no such step ahead; one that is at it ends there.
LEMMA WhatIsAhead ==
    ASSUME NEW s \in Seq(Step), s # <<>>, WellFormed(s)
    PROVE  /\ Head(s) \notin Late \cup {"touch", "install"} => ~StillTo(s, Late)
           /\ Head(s) \in Late => Tail(s) = <<>>
<1>1. Head(s) = s[1] /\ Len(s) \in Nat /\ Len(s) >= 1
  OBVIOUS
<1>2. ASSUME NEW i \in 1..Len(s), s[i] \in Late
      PROVE  Head(s) \in Late \cup {"touch", "install"}
  <2>1. CASE i = 1
    BY <1>1, <1>2, <2>1
  <2>2. CASE i > 1
    <3>1. 1 \in 1..(i - 1)
      BY <2>2
    <3>2. QED  BY <1>1, <1>2, <3>1 DEF WellFormed
  <2>3. QED  BY <2>1, <2>2
<1>3. ASSUME Head(s) \in Late
      PROVE  Tail(s) = <<>>
  <2>1. 1 \in 1..Len(s) /\ s[1] \in Late
    BY <1>1, <1>3
  <2>2. Len(s) = 1
    BY <2>1 DEF WellFormed
  <2>3. Tail(s) \in Seq(Step) /\ Len(Tail(s)) = 0
    BY <2>2
  <2>4. QED  BY <2>3, EmptySeq
<1>4. QED  BY <1>2, <1>3 DEF StillTo

\* A step that leaves the row alone keeps the invariant when what its thread is now to do
\* fits the row.
LEMMA StaysKeeps ==
    ASSUME ConnectorInv, Stays, NEW t \in Thread, seen[t] = Unread,
           NEW s \in Seq(Step), WellFormed(s), todo' = [todo EXCEPT ![t] = s],
           target' \in [Thread -> Release],
           \A o \in Thread \ {t} : target'[o] = target[o],
           installed \subseteq installed', installed' \subseteq Executable,
           in_use' \in 0..MaxUse,
           ~crossed => FitsRow(s, target'[t])
    PROVE  ConnectorInv'
<1>1. todo' \in [Thread -> Seq(Step)] /\ todo'[t] = s /\ \A o \in Thread \ {t} : todo'[o] = todo[o]
  BY DEF ConnectorInv, ConnectorTypeOK
<1>2. ConnectorTypeOK'
  BY <1>1 DEF ConnectorInv, ConnectorTypeOK, Stays
<1>3. (\A o \in Thread : WellFormed(todo[o]))'
  BY <1>1 DEF ConnectorInv
<1>4. Editing'
  BY <1>1 DEF ConnectorInv, Editing, Stays
<1>5. ASSUME ~crossed
      PROVE  RowAgreed' /\ UpdateHeld' /\ DecisionsHold'
  <2>1. RowAgreed /\ UpdateHeld /\ DecisionsHold
    BY <1>5 DEF ConnectorInv
  <2>2. RowAgreed'
    BY <2>1 DEF RowAgreed, Stays
  <2>3. UpdateHeld'
    BY <2>1 DEF UpdateHeld, Stays
  <2>4. ASSUME NEW o \in Thread
        PROVE  FitsRow(todo[o], target[o])'
    <3>1. CASE o = t
      BY <1>1, <1>5, <3>1 DEF FitsRow, Stays
    <3>2. CASE o # t
      BY <1>1, <2>1, <3>2 DEF FitsRow, DecisionsHold, Stays
    <3>3. QED  BY <3>1, <3>2
  <2>5. QED  BY <2>2, <2>3, <2>4 DEF DecisionsHold
<1>6. QED  BY <1>2, <1>3, <1>4, <1>5 DEF ConnectorInv, Stays

\* A command that comes to a look, a decision or a lookup holds no row.
LEMMA NotEditing ==
    ASSUME ConnectorInv, NEW t \in Thread, todo[t] = <<>> \/ Head(todo[t]) \notin Edit
    PROVE  seen[t] = Unread
BY DEF ConnectorInv, Editing

\* A command with no such step ahead fits any row.
LEMMA FitsAnyRow ==
    ASSUME NEW s, NEW v, ~StillTo(s, Late)
    PROVE  FitsRow(s, v)
BY DEF FitsRow, StillTo, Late

----------------------------------------------------------------------------
\* The steps that leave the row alone.

\* The commands that threads begin or turn to.
LEMMA PlainCommands ==
    ASSUME NEW s,
           \/ s = <<>>
           \/ s = <<"touch">>
           \/ s = <<"normalize", "touch", "lookup", "latest">>
           \/ s = <<"normalize", "touch", "lookup", "latest", "decide">>
           \/ s = <<"normalize", "decide">>
           \/ s = <<"normalize", "override">>
           \/ s = <<"normalize", "clear">>
           \/ s = <<"normalize", "prepare?">>
           \/ s = <<"normalize", "idle?", "normalize", "activate", "take">>
           \/ s = <<"idle?", "normalize", "activate">>
    PROVE  s \in Seq(Step) /\ WellFormed(s) /\ ~StillTo(s, Late)
<1>1. CASE s = <<>>
  BY <1>1 DEF WellFormed, StillTo
<1>2. CASE s = <<"touch">>
  BY <1>2 DEF WellFormed, StillTo, Late, Step, Edit
<1>3. CASE s = <<"normalize", "touch", "lookup", "latest">>
  BY <1>3 DEF WellFormed, StillTo, Late, Step, Edit
<1>4. CASE s = <<"normalize", "touch", "lookup", "latest", "decide">>
  BY <1>4 DEF WellFormed, StillTo, Late, Step, Edit
<1>5. CASE s = <<"normalize", "decide">>
  BY <1>5 DEF WellFormed, StillTo, Late, Step, Edit
<1>6. CASE s = <<"normalize", "override">>
  BY <1>6 DEF WellFormed, StillTo, Late, Step, Edit
<1>7. CASE s = <<"normalize", "clear">>
  BY <1>7 DEF WellFormed, StillTo, Late, Step, Edit
<1>8. CASE s = <<"normalize", "prepare?">>
  BY <1>8 DEF WellFormed, StillTo, Late, Step, Edit
<1>9. CASE s = <<"normalize", "idle?", "normalize", "activate", "take">>
  BY <1>9 DEF WellFormed, StillTo, Late, Step, Edit
<1>10. CASE s = <<"idle?", "normalize", "activate">>
  BY <1>10 DEF WellFormed, StillTo, Late, Step, Edit
<1>11. QED  BY <1>1, <1>2, <1>3, <1>4, <1>5, <1>6, <1>7, <1>8, <1>9, <1>10

LEMMA BeginCommandKeepsConnector ==
    ASSUME ConnectorInv, NEW t \in Thread, NEW command \in Commands, BeginCommand(t, command)
    PROVE  ConnectorInv'
<1>1. /\ command \in Seq(Step)
      /\ WellFormed(command)
      /\ ~StillTo(command, Late)
  BY PlainCommands DEF Commands
<1>2. seen[t] = Unread
  BY NotEditing DEF BeginCommand
<1>3. FitsRow(command, target'[t])
  BY <1>1, FitsAnyRow
<1>4. QED
  BY <1>1, <1>2, <1>3, StaysKeeps DEF BeginCommand, Turn, ConnectorInv, ConnectorTypeOK

LEMMA LoadRowKeepsConnector ==
    ASSUME ConnectorInv, NEW t \in Thread, LoadRow(t)
    PROVE  ConnectorInv'
<1>1. ConnectorTypeOK'
  BY DEF ConnectorInv, ConnectorTypeOK, LoadRow
<1>2. (\A o \in Thread : WellFormed(todo[o]))' /\ Editing'
  BY DEF ConnectorInv, LoadRow, Editing
<1>3. ASSUME ~crossed
      PROVE  RowAgreed' /\ UpdateHeld' /\ DecisionsHold'
  BY <1>3 DEF ConnectorInv, LoadRow, RowAgreed, UpdateHeld, DecisionsHold, FitsRow
<1>4. QED  BY <1>1, <1>2, <1>3 DEF ConnectorInv, LoadRow

LEMMA LookupKeepsConnector ==
    ASSUME ConnectorAssumption, ConnectorInv, NEW t \in Thread, Lookup(t)
    PROVE  ConnectorInv'
<1>1. todo[t] \in Seq(Step) /\ todo[t] # <<>> /\ Head(todo[t]) = "lookup" /\ WellFormed(todo[t])
  BY DEF ConnectorInv, ConnectorTypeOK, Lookup, At
<1>2. seen[t] = Unread
  BY <1>1, NotEditing DEF Edit
<1>3. ~StillTo(todo[t], Late)
  BY <1>1, WhatIsAhead DEF Late
<1>4. /\ Tail(todo[t]) \in Seq(Step) /\ WellFormed(Tail(todo[t])) /\ ~StillTo(Tail(todo[t]), Late)
  BY <1>1, <1>3, TailOfCommand
<1>5. CASE Answered(t)
  <2>1. PICK v \in Published : target' = [target EXCEPT ![t] = v]
    BY <1>5 DEF Answered
  <2>2. /\ target' \in [Thread -> Release]
        /\ \A o \in Thread \ {t} : target'[o] = target[o]
    BY <2>1 DEF ConnectorInv, ConnectorTypeOK, ConnectorAssumption
  <2>3. FitsRow(Tail(todo[t]), target'[t])
    BY <1>4, FitsAnyRow
  <2>4. todo' = [todo EXCEPT ![t] = Tail(todo[t])]
    BY <1>5 DEF Answered
  <2>5. QED
    BY <1>2, <1>4, <2>2, <2>3, <2>4, StaysKeeps DEF Lookup, ConnectorInv, ConnectorTypeOK
<1>6. CASE /\ todo' = [todo EXCEPT ![t] = <<"touch">> \o Tail(Tail(@))]
           /\ UNCHANGED target
  <2>1. Len(todo[t]) >= 2
    <3>1. 1 \in 1..Len(todo[t]) /\ todo[t][1] = "lookup" /\ Len(todo[t]) \in Nat
      BY <1>1
    <3>2. QED  BY <1>1, <3>1 DEF WellFormed
  <2>2. Tail(todo[t]) # <<>>
    <3>1. Len(Tail(todo[t])) = Len(todo[t]) - 1
      BY <1>1
    <3>2. Tail(todo[t]) = <<>> => Len(Tail(todo[t])) = 0
      BY EmptySeq
    <3>3. Len(todo[t]) \in Nat
      BY <1>1
    <3>4. QED  BY <2>1, <3>1, <3>2, <3>3
  <2>3. DEFINE r == Tail(Tail(todo[t]))
               s == <<"touch">> \o r
  <2>4. r \in Seq(Step) /\ WellFormed(r) /\ ~StillTo(r, Late)
    BY <1>4, <2>2, TailOfCommand
  <2>5. /\ s \in Seq(Step) /\ Len(s) = Len(r) + 1 /\ Len(r) \in Nat
        /\ s[1] = "touch" /\ \A i \in 1..Len(r) : s[i + 1] = r[i]
    BY <2>4, SMTT(30) DEF Step, Edit
  <2>6. \A i \in 1..Len(s) : s[i] \notin Late
    <3>1. SUFFICES ASSUME NEW i \in 1..Len(s)
                   PROVE  s[i] \notin Late
      OBVIOUS
    <3>2. CASE i = 1
      BY <2>5, <3>2 DEF Late
    <3>3. CASE i > 1
      <4>1. i - 1 \in 1..Len(r) /\ s[i] = r[i - 1]
        <5>1. i - 1 \in 1..Len(r) /\ i = (i - 1) + 1
          BY <2>5, <3>3
        <5>2. QED  BY <2>5, <5>1
      <4>2. QED  BY <2>4, <4>1 DEF StillTo
    <3>4. QED  BY <3>2, <3>3, <2>5
  <2>7. WellFormed(s)
    <3> HIDE DEF s, r
    <3>1. SUFFICES ASSUME NEW i \in 1..Len(s)
                   PROVE  /\ s[i] = "lookup" => i < Len(s)
                          /\ s[i] = "idle?" => i + 2 <= Len(s)
      BY <2>6 DEF WellFormed
    <3>2. CASE i = 1
      <4>1. s[i] = "touch"
        BY <2>5, <3>2
      <4>2. QED  BY <4>1
    <3>3. CASE i > 1
      <4>1. i - 1 \in 1..Len(r) /\ s[i] = r[i - 1]
        <5>1. i - 1 \in 1..Len(r) /\ i = (i - 1) + 1
          BY <2>5, <3>3
        <5>2. QED  BY <2>5, <5>1
      <4>2. (r[i - 1] = "lookup" => i - 1 < Len(r)) /\ (r[i - 1] = "idle?" => (i - 1) + 2 <= Len(r))
        BY <2>4, <4>1 DEF WellFormed
      <4>3. Len(s) = Len(r) + 1 /\ Len(r) \in Nat
        BY <2>5
      <4>4. QED  BY <4>1, <4>2, <4>3
    <3>4. Len(s) \in Nat
      BY <2>5
    <3>5. QED  BY <3>2, <3>3, <3>4
  <2>8. FitsRow(s, target'[t])
    BY <2>6, FitsAnyRow DEF StillTo
  <2>9. todo' = [todo EXCEPT ![t] = s]
    BY <1>6
  <2>10. QED
    BY <1>2, <1>6, <2>5, <2>7, <2>8, <2>9, StaysKeeps DEF Lookup, ConnectorInv, ConnectorTypeOK
<1>7. QED  BY <1>5, <1>6 DEF Lookup

LEMMA DecideKeepsConnector ==
    ASSUME ConnectorAssumption, ConnectorInv, NEW t \in Thread, Decide(t)
    PROVE  ConnectorInv'
<1>1. seen[t] = Unread
  BY NotEditing DEF Decide, At, Edit
<1>2. /\ record.latest \in Release \cup {Absent}
      /\ target \in [Thread -> Release] /\ installed \subseteq Executable /\ in_use \in 0..MaxUse
  BY DEF ConnectorInv, ConnectorTypeOK, Record
<1>3. ASSUME NEW s \in {<<>>, <<"touch">>, <<"normalize", "touch", "lookup", "latest", "decide">>},
             Turn(t, s), UNCHANGED target
      PROVE  ConnectorInv'
  <2>1. s \in Seq(Step) /\ WellFormed(s) /\ ~StillTo(s, Late)
    BY PlainCommands
  <2>2. FitsRow(s, target'[t])
    BY <2>1, FitsAnyRow
  <2>3. QED  BY <1>1, <1>2, <1>3, <2>1, <2>2, StaysKeeps DEF Decide, Turn
<1>4. CASE /\ record.mode = "managed" /\ record.latest # Absent
           /\ record.latest \notin {record.active, record.pending}
           /\ Turn(t, UpdateSteps)
           /\ target' = [target EXCEPT ![t] = record.latest]
  <2>1. UpdateSteps \in Seq(Step) /\ WellFormed(UpdateSteps) /\ ~StillTo(UpdateSteps, {"prepare"})
    BY DEF WellFormed, StillTo, Late, Step, Edit, UpdateSteps
  <2>2. /\ target' \in [Thread -> Release] /\ target'[t] = record.latest
        /\ \A o \in Thread \ {t} : target'[o] = target[o]
    BY <1>2, <1>4
  <2>3. FitsRow(UpdateSteps, target'[t])
    BY <1>4, <2>1, <2>2 DEF FitsRow
  <2>4. QED  BY <1>1, <1>2, <1>4, <2>1, <2>2, <2>3, StaysKeeps DEF Decide, Turn
<1>5. QED  BY <1>3, <1>4 DEF Decide

LEMMA DecidePrepareKeepsConnector ==
    ASSUME ConnectorAssumption, ConnectorInv, NEW t \in Thread, DecidePrepare(t)
    PROVE  ConnectorInv'
<1>1. seen[t] = Unread
  BY NotEditing DEF DecidePrepare, At, Edit
<1>2. /\ target \in [Thread -> Release] /\ installed \subseteq Executable /\ in_use \in 0..MaxUse
  BY DEF ConnectorInv, ConnectorTypeOK
<1>3. /\ target' \in [Thread -> Release]
      /\ \A o \in Thread \ {t} : target'[o] = target[o]
  BY <1>2 DEF DecidePrepare, ConnectorAssumption
<1>4. CASE record.active \notin installed /\ record.mode = "managed"
  <2>1. DEFINE s == <<"touch", "install", "prepare">>
  <2>2. s \in Seq(Step) /\ WellFormed(s) /\ ~StillTo(s, {"look", "settle", "defer"})
    BY DEF WellFormed, StillTo, Late, Step, Edit
  <2>3. ~crossed => settled_on \in {Absent, record.pending}
    BY <1>4 DEF ConnectorInv, UpdateHeld
  <2>4. ~crossed => FitsRow(s, target'[t])
    BY <1>4, <2>2, <2>3 DEF FitsRow
  <2>5. todo' = [todo EXCEPT ![t] = s]
    BY <1>4 DEF DecidePrepare, Turn
  <2>6. QED  BY <1>1, <1>2, <1>3, <2>2, <2>4, <2>5, StaysKeeps DEF DecidePrepare
<1>5. CASE ~(record.active \notin installed /\ record.mode = "managed")
  <2>1. <<>> \in Seq(Step) /\ WellFormed(<<>>) /\ ~StillTo(<<>>, Late)
    BY PlainCommands
  <2>2. FitsRow(<<>>, target'[t])
    BY <2>1, FitsAnyRow
  <2>3. todo' = [todo EXCEPT ![t] = <<>>]
    BY <1>5 DEF DecidePrepare, Turn
  <2>4. QED  BY <1>1, <1>2, <1>3, <2>1, <2>2, <2>3, StaysKeeps DEF DecidePrepare
<1>6. QED  BY <1>4, <1>5

\* What an onward step leaves of a command fits the row as the command did.
LEMMA OnwardFits ==
    ASSUME ConnectorAssumption, ConnectorInv, NEW t \in Thread, todo[t] # <<>>, Onward(t)
    PROVE  /\ Tail(todo[t]) \in Seq(Step) /\ WellFormed(Tail(todo[t]))
           /\ todo' = [todo EXCEPT ![t] = Tail(todo[t])]
           /\ target' \in [Thread -> Release]
           /\ \A o \in Thread \ {t} : target'[o] = target[o]
           /\ StillTo(Tail(todo[t]), Late) => target'[t] = target[t]
           /\ \A steps : StillTo(Tail(todo[t]), steps) => StillTo(todo[t], steps)
<1>1. todo[t] \in Seq(Step) /\ WellFormed(todo[t]) /\ target \in [Thread -> Release]
  BY DEF ConnectorInv, ConnectorTypeOK
<1>2. /\ Tail(todo[t]) \in Seq(Step) /\ WellFormed(Tail(todo[t]))
      /\ \A steps : StillTo(Tail(todo[t]), steps) => StillTo(todo[t], steps)
  BY <1>1, TailOfCommand
<1>3. Tail(todo[t]) = <<>> => ~StillTo(Tail(todo[t]), Late)
  BY PlainCommands
<1>4. /\ target' \in [Thread -> Release]
      /\ \A o \in Thread \ {t} : target'[o] = target[o]
      /\ Tail(todo[t]) # <<>> => target' = target
  BY <1>1 DEF Onward, ConnectorAssumption
<1>5. QED  BY <1>2, <1>3, <1>4 DEF Onward, Turn

LEMMA OnwardFitsRow ==
    ASSUME ConnectorAssumption, ConnectorInv, NEW t \in Thread, todo[t] # <<>>, Onward(t), ~crossed
    PROVE  FitsRow(Tail(todo[t]), target'[t])
<1>1. /\ StillTo(Tail(todo[t]), Late) => target'[t] = target[t]
      /\ \A steps : StillTo(Tail(todo[t]), steps) => StillTo(todo[t], steps)
  BY OnwardFits
<1>2. FitsRow(todo[t], target[t])
  BY DEF ConnectorInv, DecisionsHold
<1>3. StillTo(Tail(todo[t]), {"look", "settle", "defer"}) => StillTo(Tail(todo[t]), Late)
  BY DEF StillTo, Late
<1>4. QED  BY <1>1, <1>2, <1>3 DEF FitsRow

LEMMA InstallKeepsConnector ==
    ASSUME ConnectorAssumption, ConnectorInv, NEW t \in Thread, Install(t)
    PROVE  ConnectorInv'
<1>1. seen[t] = Unread
  BY NotEditing DEF Install, At, Edit
<1>2. /\ target \in [Thread -> Release] /\ installed \subseteq Executable /\ in_use \in 0..MaxUse
  BY DEF ConnectorInv, ConnectorTypeOK
<1>3. CASE installed' = installed \cup {target[t]} /\ Onward(t)
  <2>1. todo[t] # <<>>
    BY DEF Install, At
  <2>2. installed \subseteq installed' /\ installed' \subseteq Executable
    BY <1>2, <1>3 DEF Executable
  <2>3. ~crossed => FitsRow(Tail(todo[t]), target'[t])
    BY <1>3, <2>1, OnwardFitsRow
  <2>4. QED
    BY <1>1, <1>2, <1>3, <2>1, <2>2, <2>3, OnwardFits, StaysKeeps DEF Install
<1>4. CASE Turn(t, <<"touch">>) /\ UNCHANGED <<installed, target>>
  <2>1. <<"touch">> \in Seq(Step) /\ WellFormed(<<"touch">>) /\ ~StillTo(<<"touch">>, Late)
    BY PlainCommands
  <2>2. FitsRow(<<"touch">>, target'[t])
    BY <2>1, FitsAnyRow
  <2>3. QED  BY <1>1, <1>2, <1>4, <2>1, <2>2, StaysKeeps DEF Install, Turn
<1>5. QED  BY <1>3, <1>4 DEF Install

LEMMA LookBusyKeepsConnector ==
    ASSUME ConnectorInv, NEW t \in Thread, LookBusy(t)
    PROVE  ConnectorInv'
<1>1. seen[t] = Unread
  BY NotEditing DEF LookBusy, At, Edit
<1>2. /\ target \in [Thread -> Release] /\ installed \subseteq Executable /\ in_use \in 0..MaxUse
      /\ todo[t] \in Seq(Step) /\ todo[t] # <<>> /\ Head(todo[t]) = "look"
  BY DEF ConnectorInv, ConnectorTypeOK, LookBusy, At
<1>3. PICK s \in {<<"defer">>, <<"settle">>} : todo' = [todo EXCEPT ![t] = s]
  BY DEF LookBusy, Turn
<1>4. s \in Seq(Step) /\ WellFormed(s) /\ ~StillTo(s, {"prepare"})
  <2>1. CASE s = <<"defer">>
    BY <2>1 DEF WellFormed, StillTo, Late, Step, Edit
  <2>2. CASE s = <<"settle">>
    BY <2>2 DEF WellFormed, StillTo, Late, Step, Edit
  <2>3. QED  BY <1>3, <2>1, <2>2
<1>5. StillTo(todo[t], Late) /\ StillTo(todo[t], {"look", "settle", "defer"})
  <2>1. 1 \in 1..Len(todo[t]) /\ todo[t][1] = "look"
    BY <1>2
  <2>2. QED  BY <2>1 DEF StillTo, Late
<1>6. ~crossed => FitsRow(s, target'[t])
  BY <1>4, <1>5 DEF FitsRow, ConnectorInv, DecisionsHold, LookBusy
<1>7. QED  BY <1>1, <1>2, <1>3, <1>4, <1>6, StaysKeeps DEF LookBusy

LEMMA LookIdleKeepsConnector ==
    ASSUME ConnectorInv, NEW t \in Thread, LookIdle(t)
    PROVE  ConnectorInv'
<1>1. seen[t] = Unread
  BY NotEditing DEF LookIdle, At, Edit
<1>2. /\ target \in [Thread -> Release] /\ installed \subseteq Executable /\ in_use \in 0..MaxUse
      /\ todo[t] \in Seq(Step) /\ todo[t] # <<>> /\ Head(todo[t]) = "idle?" /\ WellFormed(todo[t])
  BY DEF ConnectorInv, ConnectorTypeOK, LookIdle, At
<1>3. ~StillTo(todo[t], Late)
  BY <1>2, WhatIsAhead DEF Late
<1>4. DEFINE s == IF in_use > 0 THEN SubSeq(todo[t], 4, Len(todo[t])) ELSE Tail(todo[t])
<1>5. s \in Seq(Step) /\ WellFormed(s) /\ ~StillTo(s, Late)
  <2>1. CASE in_use > 0
    <3>1. Len(todo[t]) >= 3
      <4>1. 1 \in 1..Len(todo[t]) /\ todo[t][1] = "idle?" /\ Len(todo[t]) \in Nat
        BY <1>2
      <4>2. QED  BY <1>2, <4>1 DEF WellFormed
    <3>2. /\ s \in Seq(Step) /\ Len(todo[t]) = Len(s) + 3
          /\ \A i \in 1..Len(s) : s[i] = todo[t][i + 3]
      BY <1>2, <2>1, <3>1
    <3>3. WellFormed(s) /\ \A steps : StillTo(s, steps) => StillTo(todo[t], steps)
      <4>1. 3 \in Nat
        OBVIOUS
      <4> HIDE DEF s
      <4>2. QED  BY <1>2, <3>2, <4>1, RestOfCommand
    <3>4. QED  BY <1>3, <3>2, <3>3
  <2>2. CASE ~(in_use > 0)
    BY <1>2, <1>3, <2>2, TailOfCommand
  <2>3. QED  BY <2>1, <2>2
<1>6. FitsRow(s, target'[t])
  BY <1>5, FitsAnyRow
<1>7. todo' = [todo EXCEPT ![t] = s]
  BY DEF LookIdle, Turn
<1>8. QED  BY <1>1, <1>2, <1>5, <1>6, <1>7, StaysKeeps DEF LookIdle

LEMMA TakeKeepsConnector ==
    ASSUME ConnectorAssumption, ConnectorInv, NEW t \in Thread, Take(t)
    PROVE  ConnectorInv'
<1>1. seen[t] = Unread /\ todo[t] # <<>>
  BY NotEditing DEF Take, At, Edit
<1>2. installed \subseteq Executable /\ in_use \in 0..MaxUse
  BY DEF ConnectorInv, ConnectorTypeOK
<1>3. ~crossed => FitsRow(Tail(todo[t]), target'[t])
  BY <1>1, OnwardFitsRow DEF Take
<1>4. QED  BY <1>1, <1>2, <1>3, OnwardFits, StaysKeeps DEF Take

LEMMA ClaimUseKeepsConnector ==
    ASSUME ConnectorAssumption, ConnectorInv, ClaimUse
    PROVE  ConnectorInv'
<1>1. ConnectorTypeOK'
  BY DEF ConnectorInv, ConnectorTypeOK, ClaimUse, Stays, ConnectorAssumption
<1>2. (\A o \in Thread : WellFormed(todo[o]))' /\ Editing'
  BY DEF ConnectorInv, ClaimUse, Stays, Editing
<1>3. ASSUME ~crossed
      PROVE  RowAgreed' /\ UpdateHeld' /\ DecisionsHold'
  BY <1>3 DEF ConnectorInv, ClaimUse, Stays, RowAgreed, UpdateHeld, DecisionsHold, FitsRow
<1>4. QED  BY <1>1, <1>2, <1>3 DEF ConnectorInv, ClaimUse, Stays

LEMMA DropUseKeepsConnector ==
    ASSUME ConnectorAssumption, ConnectorInv, NEW t \in Thread, DropUse(t)
    PROVE  ConnectorInv'
<1>1. seen[t] = Unread
  BY NotEditing DEF DropUse
<1>2. /\ target' \in [Thread -> Release] /\ target' = target
      /\ installed \subseteq installed' /\ installed' \subseteq Executable
      /\ in_use' \in 0..MaxUse
  BY DEF ConnectorInv, ConnectorTypeOK, DropUse, ConnectorAssumption
<1>3. PICK s \in {<<"idle?", "normalize", "activate">>, <<>>} : todo' = [todo EXCEPT ![t] = s]
  BY DEF DropUse, Turn
<1>4. s \in Seq(Step) /\ WellFormed(s) /\ ~StillTo(s, Late)
  BY <1>3, PlainCommands
<1>5. FitsRow(s, target'[t])
  BY <1>4, FitsAnyRow
<1>6. QED  BY <1>1, <1>2, <1>3, <1>4, <1>5, StaysKeeps DEF DropUse

LEMMA ExecutableGoesKeepsConnector ==
    ASSUME ConnectorAssumption, ConnectorInv, NEW x \in Executable, ExecutableGoes(x)
    PROVE  ConnectorInv'
<1>1. ConnectorTypeOK'
  BY DEF ConnectorInv, ConnectorTypeOK, ExecutableGoes, ConnectorAssumption
<1>2. (\A o \in Thread : WellFormed(todo[o]))' /\ Editing'
  BY DEF ConnectorInv, ExecutableGoes, Editing
<1>3. ASSUME ~crossed
      PROVE  RowAgreed' /\ UpdateHeld' /\ DecisionsHold'
  <2>1. RowAgreed /\ UpdateHeld /\ DecisionsHold
    BY <1>3 DEF ConnectorInv
  <2>2. RowAgreed'
    BY <2>1 DEF RowAgreed, ExecutableGoes
  <2>3. UpdateHeld'
    BY <2>1 DEF UpdateHeld, ExecutableGoes
  <2>4. DecisionsHold'
    BY <2>1 DEF DecisionsHold, FitsRow, ExecutableGoes
  <2>5. QED  BY <2>2, <2>3, <2>4
<1>4. QED  BY <1>1, <1>2, <1>3 DEF ConnectorInv, ExecutableGoes

----------------------------------------------------------------------------
\* The save of an edited row.

\* An edit makes a row of a row.
LEMMA EditedIsRecord ==
    ASSUME ConnectorAssumption, NEW r \in Record, NEW t \in Thread, target[t] \in Release,
           NEW edit \in Edit
    PROVE  Edited(edit, t, r) \in Record
<1>1. Normalized(r) \in Record
  BY DEF Normalized, Record, Executable, ConnectorAssumption
<1>2. CASE edit \in {"normalize", "touch"}
  BY <1>1, <1>2 DEF Edited
<1>3. CASE edit \in {"latest", "settle", "defer"}
  BY <1>3 DEF Edited, Record, Executable
<1>4. CASE edit \in {"prepare", "override"}
  BY <1>4 DEF Edited, Record, Executable
<1>5. CASE edit \in {"clear", "activate"}
  BY <1>5 DEF Edited, Record, Executable, ConnectorAssumption
<1>6. QED  BY <1>2, <1>3, <1>4, <1>5 DEF Edit

\* Before a save that crosses nothing the thread holds the row as it is, and its command
\* is one that fits it.
LEMMA SavingThread ==
    ASSUME ConnectorAssumption, ConnectorInv, NEW t \in Thread, SaveRow(t)
    PROVE  /\ todo[t] \in Seq(Step) /\ todo[t] # <<>> /\ WellFormed(todo[t])
           /\ Head(todo[t]) \in Edit
           /\ seen[t] \in Record
           /\ target[t] \in Release
           /\ ~crossed => seen[t] = record
BY DEF ConnectorInv, ConnectorTypeOK, Editing, SaveRow, RowAgreed

LEMMA HeadIsAhead ==
    ASSUME NEW s \in Seq(Step), s # <<>>, NEW steps, Head(s) \in steps
    PROVE  StillTo(s, steps)
<1>1. 1 \in 1..Len(s) /\ s[1] = Head(s)
  OBVIOUS
<1>2. QED  BY <1>1 DEF StillTo

\* What the row says of the user's choice and of the last update, after a save.
RowSaved ==
    /\ record.mode = chosen
    /\ record.mode = "custom" => /\ record.active \in {Custom, Absent}
                                 /\ record.pending = Absent
                                 /\ settled_on = Absent
    /\ record.mode = "managed" => record.active # Custom
    /\ UpdateHeld

LEMMA NormalizeSaved ==
    ASSUME ConnectorAssumption, ConnectorInv, ~crossed, NEW t \in Thread, SaveRow(t),
           Head(todo[t]) = "normalize"
    PROVE  RowSaved'
<1>1. seen[t] = record /\ RowAgreed /\ UpdateHeld
  BY SavingThread DEF ConnectorInv
<1>2. /\ record' = Normalized(record) /\ chosen' = chosen /\ settled_on' = settled_on
      /\ installed' = installed
  BY <1>1 DEF SaveRow, Edited
<1>3. record \in Record /\ settled_on \in Release \cup {Absent}
  BY DEF ConnectorInv, ConnectorTypeOK
<1>4. /\ record'.mode = record.mode
      /\ record'.active = IF record.mode = "custom" THEN (IF Custom \in installed THEN Custom ELSE Absent)
                          ELSE IF record.active \in installed THEN record.active
                          ELSE IF Pinned \in installed THEN Pinned ELSE Absent
      /\ record'.pending = IF record.pending \in installed THEN record.pending ELSE Absent
  BY <1>2, <1>3 DEF Normalized, Record, Runnable
<1>5. record'.mode \in {"custom", "managed"}
  BY <1>3, <1>4 DEF Record
<1>6. CASE record.mode = "custom"
  BY <1>1, <1>2, <1>4, <1>6 DEF RowSaved, RowAgreed, UpdateHeld
<1>7. CASE record.mode = "managed"
  <2>1. record'.active # Custom
    BY <1>1, <1>4, <1>7 DEF RowAgreed, ConnectorAssumption
  <2>2. UpdateHeld'
    BY <1>1, <1>2, <1>3, <1>4, <1>7 DEF UpdateHeld
  <2>3. QED  BY <1>1, <1>2, <1>4, <1>7, <2>1, <2>2 DEF RowSaved, RowAgreed
<1>8. QED  BY <1>5, <1>6, <1>7, <1>4

LEMMA UpdateSaved ==
    ASSUME ConnectorAssumption, ConnectorInv, ~crossed, NEW t \in Thread, SaveRow(t),
           Head(todo[t]) \in {"settle", "defer", "prepare"}
    PROVE  /\ RowSaved'
           /\ Head(todo[t]) \in {"settle", "defer"} => record' # record
<1>1. seen[t] = record /\ RowAgreed /\ UpdateHeld /\ DecisionsHold /\ target[t] \in Release
  BY SavingThread DEF ConnectorInv
<1>2. record \in Record /\ settled_on \in Release \cup {Absent}
  BY DEF ConnectorInv, ConnectorTypeOK
<1>3. todo[t] \in Seq(Step) /\ todo[t] # <<>>
  BY SavingThread
<1>4. StillTo(todo[t], Late)
  BY <1>3, HeadIsAhead DEF Late
<1>5. record.mode = "managed" /\ record.mode = chosen
  BY <1>1, <1>4 DEF DecisionsHold, FitsRow, RowAgreed
<1>6. target[t] # Custom /\ target[t] # Absent
  BY <1>1 DEF ConnectorAssumption
<1>7. CASE Head(todo[t]) = "settle"
  <2>1. target[t] \notin {record.active, record.pending}
    <3>1. StillTo(todo[t], {"look", "settle", "defer"})
      BY <1>3, <1>7, HeadIsAhead
    <3>2. QED  BY <1>1, <3>1 DEF DecisionsHold, FitsRow
  <2>2. /\ record' = [record EXCEPT !.active = target[t], !.pending = Absent]
        /\ chosen' = chosen /\ installed' = installed
        /\ settled_on' = IF target[t] \in installed THEN target[t] ELSE Absent
    BY <1>1, <1>7 DEF SaveRow, Edited
  <2>3. record'.mode = record.mode /\ record'.active = target[t] /\ record'.pending = Absent
    BY <1>2, <2>2 DEF Record
  <2>4. QED  BY <1>5, <1>6, <1>7, <2>1, <2>2, <2>3 DEF RowSaved, UpdateHeld
<1>8. CASE Head(todo[t]) = "defer"
  <2>1. target[t] \notin {record.active, record.pending}
    <3>1. StillTo(todo[t], {"look", "settle", "defer"})
      BY <1>3, <1>8, HeadIsAhead
    <3>2. QED  BY <1>1, <3>1 DEF DecisionsHold, FitsRow
  <2>2. /\ record' = [record EXCEPT !.pending = target[t]]
        /\ chosen' = chosen /\ installed' = installed
        /\ settled_on' = IF target[t] \in installed THEN target[t] ELSE Absent
    BY <1>1, <1>8 DEF SaveRow, Edited
  <2>3. record'.mode = record.mode /\ record'.active = record.active /\ record'.pending = target[t]
    BY <1>2, <2>2 DEF Record
  <2>4. QED  BY <1>1, <1>5, <1>6, <1>8, <2>1, <2>2, <2>3 DEF RowSaved, UpdateHeld, RowAgreed
<1>9. CASE Head(todo[t]) = "prepare"
  <2>1. settled_on \in {Absent, record.pending}
    <3>1. StillTo(todo[t], {"prepare"})
      BY <1>3, <1>9, HeadIsAhead
    <3>2. QED  BY <1>1, <3>1 DEF DecisionsHold, FitsRow
  <2>2. /\ record' = [record EXCEPT !.active = target[t], !.latest = target[t]]
        /\ chosen' = chosen /\ installed' = installed /\ settled_on' = settled_on
    BY <1>1, <1>9 DEF SaveRow, Edited
  <2>3. record'.mode = record.mode /\ record'.active = target[t] /\ record'.pending = record.pending
    BY <1>2, <2>2 DEF Record
  <2>4. QED  BY <1>1, <1>5, <1>6, <1>9, <2>1, <2>2, <2>3 DEF RowSaved, UpdateHeld, RowAgreed
<1>10. QED  BY <1>7, <1>8, <1>9

LEMMA OtherEditsSaved ==
    ASSUME ConnectorAssumption, ConnectorInv, ~crossed, NEW t \in Thread, SaveRow(t),
           Head(todo[t]) \in {"touch", "latest", "override", "clear", "activate"}
    PROVE  RowSaved'
<1>1. seen[t] = record /\ RowAgreed /\ UpdateHeld
  BY SavingThread DEF ConnectorInv
<1>2. record \in Record /\ settled_on \in Release \cup {Absent} /\ installed' = installed
  BY DEF ConnectorInv, ConnectorTypeOK, SaveRow
<1>3. CASE Head(todo[t]) = "touch"
  <2>1. record' = record /\ chosen' = chosen /\ settled_on' = settled_on
    BY <1>1, <1>3 DEF SaveRow, Edited
  <2>2. QED  BY <1>1, <1>2, <2>1 DEF RowSaved, RowAgreed, UpdateHeld
<1>4. CASE Head(todo[t]) = "latest"
  <2>1. /\ record' = [record EXCEPT !.latest = target[t]]
        /\ chosen' = chosen /\ settled_on' = settled_on
    BY <1>1, <1>4 DEF SaveRow, Edited
  <2>2. /\ record'.mode = record.mode /\ record'.active = record.active
        /\ record'.pending = record.pending
    BY <1>2, <2>1 DEF Record
  <2>3. QED  BY <1>1, <1>2, <2>1, <2>2 DEF RowSaved, RowAgreed, UpdateHeld
<1>5. CASE Head(todo[t]) = "override"
  <2>1. /\ record' = [record EXCEPT !.mode = "custom", !.active = Custom, !.pending = Absent]
        /\ chosen' = "custom" /\ settled_on' = Absent
    BY <1>1, <1>5 DEF SaveRow, Edited
  <2>2. record'.mode = "custom" /\ record'.active = Custom /\ record'.pending = Absent
    BY <1>2, <2>1 DEF Record
  <2>3. QED  BY <1>2, <2>1, <2>2 DEF RowSaved, UpdateHeld
<1>6. CASE Head(todo[t]) = "clear"
  <2>1. /\ record' = [record EXCEPT !.mode = "managed", !.pending = Absent,
                                    !.active = IF Runnable(Pinned) THEN Pinned ELSE Absent]
        /\ chosen' = "managed" /\ settled_on' = Absent
    BY <1>1, <1>6 DEF SaveRow, Edited
  <2>2. record'.mode = "managed" /\ record'.active \in {Pinned, Absent}
    BY <1>2, <2>1 DEF Record
  <2>3. record'.active # Custom
    BY <2>2 DEF ConnectorAssumption
  <2>4. QED  BY <1>2, <2>1, <2>2, <2>3 DEF RowSaved, UpdateHeld
<1>7. CASE Head(todo[t]) = "activate"
  <2>1. /\ record' = IF record.pending = Absent THEN record
                     ELSE [record EXCEPT !.active = record.pending, !.pending = Absent]
        /\ chosen' = chosen /\ settled_on' = settled_on
    BY <1>1, <1>7 DEF SaveRow, Edited
  <2>2. CASE record.pending = Absent
    BY <1>1, <1>2, <2>1, <2>2 DEF RowSaved, RowAgreed, UpdateHeld
  <2>3. CASE record.pending # Absent
    <3>1. /\ record'.mode = record.mode /\ record'.active = record.pending
          /\ record'.pending = Absent
      BY <1>2, <2>1, <2>3 DEF Record
    <3>2. record.mode # "custom" /\ record.pending # Custom
      BY <1>1, <1>2, <2>3 DEF RowAgreed, Record, ConnectorAssumption
    <3>3. UpdateHeld'
      BY <1>1, <1>2, <2>1, <2>3, <3>1 DEF UpdateHeld
    <3>4. QED  BY <1>1, <2>1, <3>1, <3>2, <3>3 DEF RowSaved, RowAgreed
  <2>4. QED  BY <2>2, <2>3
<1>8. QED  BY <1>3, <1>4, <1>5, <1>6, <1>7

LEMMA SaveRowKeepsConnector ==
    ASSUME ConnectorAssumption, ConnectorInv, NEW t \in Thread, SaveRow(t)
    PROVE  ConnectorInv'
<1>1. /\ todo[t] \in Seq(Step) /\ todo[t] # <<>> /\ WellFormed(todo[t])
      /\ Head(todo[t]) \in Edit /\ seen[t] \in Record /\ target[t] \in Release
  BY SavingThread
<1>2. /\ Tail(todo[t]) \in Seq(Step) /\ WellFormed(Tail(todo[t]))
      /\ todo' = [todo EXCEPT ![t] = Tail(todo[t])]
      /\ target' \in [Thread -> Release]
      /\ \A o \in Thread \ {t} : target'[o] = target[o]
  BY <1>1, OnwardFits DEF SaveRow
<1>3. record' \in Record
  BY <1>1, EditedIsRecord DEF SaveRow
<1>4. settled_on' \in Release \cup {Absent} /\ chosen' \in {"managed", "custom"}
  BY <1>1 DEF SaveRow, ConnectorInv, ConnectorTypeOK
<1>5. /\ todo \in [Thread -> Seq(Step)]
      /\ todo' \in [Thread -> Seq(Step)] /\ todo'[t] = Tail(todo[t])
      /\ \A o \in Thread \ {t} : todo'[o] = todo[o]
  BY <1>2 DEF ConnectorInv, ConnectorTypeOK
<1>6. /\ \A o \in Thread : seen'[o] = IF o = t THEN Unread ELSE seen[o]
  BY DEF SaveRow, ConnectorInv, ConnectorTypeOK
<1>7. ConnectorTypeOK'
  <2>1. seen' \in [Thread -> Record \cup {Unread}]
    BY DEF SaveRow, ConnectorInv, ConnectorTypeOK
  <2>2. crossed' \in BOOLEAN
    BY DEF SaveRow, ConnectorInv, ConnectorTypeOK
  <2>3. QED
    BY <1>2, <1>3, <1>4, <1>5, <2>1, <2>2 DEF SaveRow, ConnectorInv, ConnectorTypeOK
<1>8. (\A o \in Thread : WellFormed(todo[o]))'
  BY <1>2, <1>5 DEF ConnectorInv
<1>9. Editing'
  BY <1>5, <1>6 DEF ConnectorInv, Editing
<1>10. ASSUME ~crossed'
       PROVE  RowAgreed' /\ UpdateHeld' /\ DecisionsHold'
  <2>1. ~crossed /\ (record' # record => \A o \in Thread \ {t} : ~Relies(o))
    BY <1>10 DEF SaveRow, ConnectorInv, ConnectorTypeOK
  <2>2. RowAgreed /\ UpdateHeld /\ DecisionsHold
    BY <2>1 DEF ConnectorInv
  <2>3. RowSaved'
    <3>1. CASE Head(todo[t]) = "normalize"
      BY <2>1, <3>1, NormalizeSaved
    <3>2. CASE Head(todo[t]) \in {"settle", "defer", "prepare"}
      BY <2>1, <3>2, UpdateSaved
    <3>3. CASE Head(todo[t]) \in {"touch", "latest", "override", "clear", "activate"}
      BY <2>1, <3>3, OtherEditsSaved
    <3>4. QED  BY <1>1, <3>1, <3>2, <3>3 DEF Edit
  <2>4. ASSUME NEW o \in Thread \ {t}, record' # record
        PROVE  seen[o] = Unread /\ ~StillTo(todo[o], Late)
    <3>1. DOMAIN todo[o] = 1..Len(todo[o])
      BY <1>5
    <3>2. QED  BY <2>1, <2>4, <3>1 DEF Relies, StillTo, Late
  <2>5. RowAgreed'
    <3>1. ASSUME NEW o \in Thread
          PROVE  seen'[o] \in {Unread, record'}
      BY <1>6, <2>2, <2>4 DEF RowAgreed
    <3>2. QED  BY <2>3, <3>1 DEF RowAgreed, RowSaved
  <2>6. FitsRow(todo[t], target[t])'
    <3>1. CASE Head(todo[t]) = "touch"
      <4>1. record' = record /\ settled_on' = settled_on
        BY <2>1, <3>1, SavingThread DEF SaveRow, Edited
      <4>2. FitsRow(Tail(todo[t]), target'[t])
        BY <1>1, <2>1, OnwardFitsRow DEF SaveRow
      <4>3. QED  BY <1>5, <4>1, <4>2 DEF FitsRow
    <3>2. CASE Head(todo[t]) # "touch"
      <4>1. ~StillTo(Tail(todo[t]), Late)
        <5>1. CASE Head(todo[t]) \in Late
          <6>1. Tail(todo[t]) = <<>>
            BY <1>1, <5>1, WhatIsAhead
          <6>2. QED  BY <6>1, PlainCommands
        <5>2. CASE Head(todo[t]) \notin Late
          <6>1. Head(todo[t]) \notin Late \cup {"touch", "install"}
            BY <1>1, <3>2, <5>2 DEF Edit
          <6>2. ~StillTo(todo[t], Late)
            BY <1>1, <6>1, WhatIsAhead
          <6>3. QED  BY <1>1, <6>2, TailOfCommand
        <5>3. QED  BY <5>1, <5>2
      <4>2. ~StillTo(todo'[t], Late)
        BY <1>5, <4>1
      <4>3. QED  BY <4>2 DEF FitsRow, StillTo, Late
    <3>3. QED  BY <3>1, <3>2
  <2>7. ASSUME NEW o \in Thread \ {t}
        PROVE  FitsRow(todo[o], target[o])'
    <3>1. CASE record' # record
      <4>1. ~StillTo(todo'[o], Late)
        BY <1>5, <2>4, <3>1
      <4>2. QED  BY <4>1 DEF FitsRow, StillTo, Late
    <3>2. CASE record' = record
      <4>1. settled_on' \in {settled_on, Absent}
        <5>1. Head(todo[t]) \notin {"settle", "defer"}
          BY <2>1, <3>2, UpdateSaved
        <5>2. QED  BY <5>1 DEF SaveRow
      <4>2. FitsRow(todo[o], target[o])
        BY <2>2 DEF DecisionsHold
      <4>3. QED  BY <1>2, <1>5, <3>2, <4>1, <4>2 DEF FitsRow
    <3>3. QED  BY <3>1, <3>2
  <2>8. DecisionsHold'
    BY <2>6, <2>7 DEF DecisionsHold
  <2>9. QED  BY <2>3, <2>5, <2>8 DEF RowSaved
<1>11. QED  BY <1>7, <1>8, <1>9, <1>10 DEF ConnectorInv

----------------------------------------------------------------------------
LEMMA ConnectorInvInit == ConnectorAssumption /\ ConnectorInit => ConnectorInv
<1> SUFFICES ASSUME ConnectorAssumption, ConnectorInit
             PROVE  ConnectorInv
  OBVIOUS
<1>1. ConnectorTypeOK
  <2>1. todo \in [Thread -> Seq(Step)]
    BY EmptySeq DEF ConnectorInit
  <2>2. record \in Record
    BY DEF ConnectorInit, ConnectorAssumption, Record, Executable
  <2>3. seen \in [Thread -> Record \cup {Unread}] /\ target \in [Thread -> Release]
    BY DEF ConnectorInit, ConnectorAssumption
  <2>4. installed \subseteq Executable /\ in_use \in 0..MaxUse /\ losses \in 0..MaxLosses
    BY DEF ConnectorInit, ConnectorAssumption, Executable
  <2>5. QED  BY <2>1, <2>2, <2>3, <2>4 DEF ConnectorInit, ConnectorTypeOK
<1>2. \A t \in Thread : WellFormed(todo[t]) /\ ~StillTo(todo[t], Late)
  BY PlainCommands DEF ConnectorInit
<1>3. Editing
  BY DEF ConnectorInit, Editing
<1>4. RowAgreed /\ UpdateHeld
  BY DEF ConnectorInit, RowAgreed, UpdateHeld, ConnectorAssumption
<1>5. DecisionsHold
  BY <1>2, FitsAnyRow DEF DecisionsHold
<1>6. QED  BY <1>1, <1>2, <1>3, <1>4, <1>5 DEF ConnectorInv

LEMMA ConnectorInvStep == ConnectorAssumption /\ ConnectorInv /\ [ConnectorNext]_connector_vars => ConnectorInv'
<1> SUFFICES ASSUME ConnectorAssumption, ConnectorInv, [ConnectorNext]_connector_vars
             PROVE  ConnectorInv'
  OBVIOUS
<1>1. CASE UNCHANGED connector_vars
  <2>1. ConnectorTypeOK'
    BY <1>1 DEF ConnectorInv, ConnectorTypeOK, connector_vars
  <2>2. (\A o \in Thread : WellFormed(todo[o]))' /\ Editing'
    BY <1>1 DEF ConnectorInv, connector_vars, Editing
  <2>3. ASSUME ~crossed
        PROVE  RowAgreed' /\ UpdateHeld' /\ DecisionsHold'
    BY <1>1, <2>3 DEF ConnectorInv, connector_vars, RowAgreed, UpdateHeld, DecisionsHold, FitsRow
  <2>4. QED  BY <1>1, <2>1, <2>2, <2>3 DEF ConnectorInv, connector_vars
<1>2. ASSUME NEW t \in Thread, LoadRow(t)
      PROVE  ConnectorInv'
  BY <1>2, LoadRowKeepsConnector
<1>3. ASSUME NEW t \in Thread, SaveRow(t)
      PROVE  ConnectorInv'
  BY <1>3, SaveRowKeepsConnector
<1>4. ASSUME NEW t \in Thread, Decide(t)
      PROVE  ConnectorInv'
  BY <1>4, DecideKeepsConnector
<1>5. ASSUME NEW t \in Thread, DecidePrepare(t)
      PROVE  ConnectorInv'
  BY <1>5, DecidePrepareKeepsConnector
<1>6. ASSUME NEW t \in Thread, Install(t)
      PROVE  ConnectorInv'
  BY <1>6, InstallKeepsConnector
<1>7. ASSUME NEW t \in Thread, LookBusy(t)
      PROVE  ConnectorInv'
  BY <1>7, LookBusyKeepsConnector
<1>8. ASSUME NEW t \in Thread, LookIdle(t)
      PROVE  ConnectorInv'
  BY <1>8, LookIdleKeepsConnector
<1>9. ASSUME NEW t \in Thread, Take(t)
      PROVE  ConnectorInv'
  BY <1>9, TakeKeepsConnector
<1>10. ASSUME NEW t \in Thread, DropUse(t)
       PROVE  ConnectorInv'
  BY <1>10, DropUseKeepsConnector
<1>11. ASSUME NEW t \in Thread, Lookup(t)
       PROVE  ConnectorInv'
  BY <1>11, LookupKeepsConnector
<1>12. ASSUME NEW t \in Thread, NEW c \in Commands, BeginCommand(t, c)
       PROVE  ConnectorInv'
  BY <1>12, BeginCommandKeepsConnector
<1>13. CASE ClaimUse
  BY <1>13, ClaimUseKeepsConnector
<1>14. ASSUME NEW x \in Executable, ExecutableGoes(x)
       PROVE  ConnectorInv'
  BY <1>14, ExecutableGoesKeepsConnector
<1>15. QED
  BY <1>1, <1>2, <1>3, <1>4, <1>5, <1>6, <1>7, <1>8, <1>9, <1>10, <1>11, <1>12, <1>13, <1>14
     DEF ConnectorNext

\* The row, the executables on disk, what each command is still to do and the histories
\* keep their types, whichever edits cross.
THEOREM ConnectorTypeCorrect == ConnectorSpec => []ConnectorTypeOK
<1>1. ConnectorInit => ConnectorInv
  BY ConnectorInvInit, ConnectorAssumption
<1>2. ConnectorInv /\ [ConnectorNext]_connector_vars => ConnectorInv'
  BY ConnectorInvStep, ConnectorAssumption
<1>3. ConnectorInv => ConnectorTypeOK
  BY DEF ConnectorInv
<1>4. QED  BY <1>1, <1>2, <1>3, PTL DEF ConnectorSpec

\* Unless commands crossed, a job is given the user's executable exactly as long as he
\* wants it, and what an update downloaded is active or waits until he overrides it or
\* its file goes.
THEOREM ChosenIsAlwaysTaken == ConnectorSpec => []ChosenIsTaken
<1>1. ConnectorInit => ConnectorInv
  BY ConnectorInvInit, ConnectorAssumption
<1>2. ConnectorInv /\ [ConnectorNext]_connector_vars => ConnectorInv'
  BY ConnectorInvStep, ConnectorAssumption
<1>3. ConnectorInv => ChosenIsTaken
  <2> SUFFICES ASSUME ConnectorInv, ~crossed
               PROVE  /\ record.active = Absent \/ (record.active = Custom <=> chosen = "custom")
                      /\ settled_on \in {Absent, record.active, record.pending}
    BY DEF ChosenIsTaken
  <2>1. record.mode \in {"managed", "custom"} /\ RowAgreed /\ UpdateHeld
    BY DEF ConnectorInv, ConnectorTypeOK, Record
  <2>2. QED  BY <2>1 DEF RowAgreed, UpdateHeld
<1>4. QED  BY <1>1, <1>2, <1>3, PTL DEF ConnectorSpec
=============================================================================
