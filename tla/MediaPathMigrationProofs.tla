----------------------- MODULE MediaPathMigrationProofs -----------------------
(***************************************************************************)
(* Theorems about MediaPathMigration, for every set of profiles, places,   *)
(* job ids and files, with and without failures.                           *)
(***************************************************************************)
EXTENDS MCSyncDuringMigration, TLAPS
-----------------------------------------------------------------------------
\* The invariant.  A copy may only go ahead while the origin is whole and what
\* is in staging or still to be copied makes up the library, or while another
\* place has it all; the origin is removed only in the last case.

WorkerFlag == worker <=> wpc # "idle"

Spare == \E d \in Place \ {Old} : Full(active.source, d)

CopyUnderWay ==
    wpc = "copy" =>
        /\ New # Old
        /\ ~NewExists
        /\ \/ Spare
           \/ /\ Full(active.source, Old)
              /\ Library \subseteq disk[active.source][Staging] \cup todo

OriginSpare == wpc = "remove" => Spare

StagingMade == wpc = "copy" => StagingExists

TypeInv == TypeOK /\ WorkerFlag /\ StagingMade

MoveInv == TypeInv /\ CompleteCopy /\ CopyUnderWay /\ OriginSpare
-----------------------------------------------------------------------------
\* What the operators on the disk return.

Disk == [Source -> [Folder -> (SUBSET File) \cup {Missing}]]

LEMMA PutSpec ==
    ASSUME disk \in Disk, NEW s \in Source, NEW d \in Folder,
           NEW content \in (SUBSET File) \cup {Missing}
    PROVE  /\ Put(s, d, content) \in Disk
           /\ Put(s, d, content)[s][d] = content
           /\ \A t \in Source, e \in Folder :
                t # s \/ e # d => Put(s, d, content)[t][e] = disk[t][e]
  BY DEF Put, Disk

LEMMA FolderContent ==
    ASSUME disk \in Disk, NEW s \in Source, NEW d \in Folder, disk[s][d] # Missing
    PROVE  disk[s][d] \in SUBSET File
  <1>1. disk[s] \in [Folder -> (SUBSET File) \cup {Missing}]
        BY DEF Disk
  <1>2. disk[s][d] \in (SUBSET File) \cup {Missing}
        BY <1>1
  <1> QED BY <1>2

LEMMA MissingContent == Missing \in (SUBSET File) \cup {Missing}
  OBVIOUS

LEMMA RenamedSpec ==
    ASSUME disk \in Disk, NEW s \in Source, NEW d \in Folder, NEW e \in Folder, d # e
    PROVE  /\ Renamed(s, d, e) \in Disk
           /\ Renamed(s, d, e)[s][e] = disk[s][d]
           /\ Renamed(s, d, e)[s][d] = Missing
           /\ \A t \in Source, x \in Folder :
                t # s \/ (x # d /\ x # e) => Renamed(s, d, e)[t][x] = disk[t][x]
  <1> DEFINE moved == [disk[s] EXCEPT ![e] = disk[s][d]]
             here == [moved EXCEPT ![d] = Missing]
  <1>0. disk[s] \in [Folder -> (SUBSET File) \cup {Missing}]
        BY DEF Disk
  <1>1. /\ moved \in [Folder -> (SUBSET File) \cup {Missing}]
        /\ moved[e] = disk[s][d]
        /\ \A x \in Folder : x # e => moved[x] = disk[s][x]
        BY <1>0
  <1>2. /\ here \in [Folder -> (SUBSET File) \cup {Missing}]
        /\ here[e] = disk[s][d]
        /\ here[d] = Missing
        /\ \A x \in Folder : x # d /\ x # e => here[x] = disk[s][x]
    <2> HIDE DEF moved
    <2>1. Missing \in (SUBSET File) \cup {Missing}
          OBVIOUS
    <2>2. here \in [Folder -> (SUBSET File) \cup {Missing}]
          BY <1>1, <2>1
    <2>3. here[d] = Missing
          BY <1>1
    <2>4. \A x \in Folder : x # d => here[x] = moved[x]
          BY <1>1
    <2> QED BY <1>1, <2>2, <2>3, <2>4
  <1>3. Renamed(s, d, e) = [disk EXCEPT ![s] = here]
        BY DEF Renamed
  <1> HIDE DEF here
  <1>4. disk \in [Source -> [Folder -> (SUBSET File) \cup {Missing}]]
        BY DEF Disk
  <1>5. Renamed(s, d, e) \in Disk
        BY <1>2, <1>3, <1>4 DEF Disk
  <1>6. Renamed(s, d, e)[s] = here
        BY <1>3, <1>4
  <1>7. \A t \in Source : t # s => Renamed(s, d, e)[t] = disk[t]
        BY <1>3, <1>4
  <1> QED BY <1>2, <1>5, <1>6, <1>7

\* The worker's job names a profile, a place and a staging folder of its own.
LEMMA ActiveSpec ==
    ASSUME TypeOK, wpc \notin {"idle", "loop"}
    PROVE  /\ active \in Job
           /\ active.source \in Source
           /\ Old \in Place /\ New \in Place /\ Staging \in JobId
           /\ Old \in Folder /\ New \in Folder /\ Staging \in Folder
           /\ Staging # Old /\ Staging # New
  <1>1. active \in Job
        BY DEF TypeOK
  <1>2. active.source \in Source /\ active.target \in Place /\ active.id \in JobId
        BY <1>1 DEF Job
  <1>3. root[active.source] \in Place
        BY <1>2 DEF TypeOK
  <1>4. active.id \notin Place
        BY <1>2, MoveAssumption
  <1> QED BY <1>1, <1>2, <1>3, <1>4 DEF Old, New, Staging, Folder
-----------------------------------------------------------------------------
\* Type correctness.

LEMMA TypeInit == Init => TypeInv
  <1>1. SUFFICES ASSUME Init PROVE TypeInv
        OBVIOUS
  <1>2. disk \in [Source -> [Folder -> (SUBSET File) \cup {Missing}]]
    <2>1. \A s \in Source, d \in Folder :
              (IF d = Home[s] THEN Library ELSE Missing) \in (SUBSET File) \cup {Missing}
      <3>1. Library \in SUBSET File
            BY MoveAssumption
      <3> QED BY <3>1
    <2>2. disk = [s \in Source |-> [d \in Folder |-> IF d = Home[s] THEN Library ELSE Missing]]
          BY <1>1 DEF Init
    <2> QED BY <2>1, <2>2
  <1>3. active \in Job \cup {None} /\ wpc \in {"idle", "loop"} /\ active = None
        BY <1>1 DEF Init
  <1>4. root \in [Source -> Place]
        BY <1>1, MoveAssumption DEF Init
  <1>5. queue \in Seq(Job)
        BY <1>1 DEF Init
  <1> QED BY <1>1, <1>2, <1>3, <1>4, <1>5 DEF Init, TypeInv, TypeOK, WorkerFlag, StagingMade

LEMMA AddType ==
    ASSUME TypeInv, NEW s \in Source, NEW t \in Place, Add(s, t)
    PROVE  queue' \in Seq(Job) /\ ids' \subseteq Source /\ rows' \subseteq Job /\ used' \subseteq JobId
  <1>1. PICK i \in JobId \ used :
            LET job == [id |-> i, source |-> s, target |-> t] IN
            /\ rows' = WithRow(job)
            /\ used' = used \cup {i}
            /\ ids' = ids \cup {s}
            /\ queue' = Append(queue, job)
        BY DEF Add
  <1>2. [id |-> i, source |-> s, target |-> t] \in Job
        BY <1>1 DEF Job
  <1>3. queue \in Seq(Job) /\ ids \subseteq Source /\ rows \subseteq Job /\ used \subseteq JobId
        BY DEF TypeInv, TypeOK
  <1>4. queue' \in Seq(Job)
        BY <1>1, <1>2, <1>3
  <1> QED BY <1>1, <1>2, <1>3, <1>4 DEF WithRow

LEMMA StartWorkerType ==
    ASSUME TypeInv, StartWorker, active' = active
    PROVE  /\ worker' \in BOOLEAN
           /\ wpc' = "copy" => wpc = "copy"
           /\ wpc' \in {"idle", "loop", "start", "copy", "remove", "update", "settle", "unrow", "close"}
           /\ active' # None <=> wpc' \notin {"idle", "loop"}
           /\ WorkerFlag'
  BY DEF TypeInv, TypeOK, WorkerFlag, StartWorker

LEMMA DequeueType == ASSUME TypeInv, Dequeue PROVE TypeInv'
  <1>1. queue \in Seq(Job) /\ queue # <<>>
        BY DEF TypeInv, TypeOK, Dequeue
  <1>2. Head(queue) \in Job /\ Tail(queue) \in Seq(Job)
        BY <1>1
  <1>3. active' \in Job /\ active' # None /\ wpc' = "start" /\ wpc = "loop"
        BY <1>2, NoJobAssumption DEF Dequeue
  <1> QED BY <1>2, <1>3 DEF Dequeue, TypeInv, TypeOK, WorkerFlag, StagingMade, table, boot, media

\* A step of the move that changes neither the queue nor the job keeps the type
\* if what it writes on the disk has it.
LEMMA MoveType ==
    ASSUME TypeInv, wpc \notin {"idle", "loop"},
           UNCHANGED <<waiting, running, table, boot>>,
           root' \in [Source -> Place], disk' \in Disk, todo' \subseteq File,
           outcome' \in {"none", "ok", "error", "cancelled"},
           wpc' \in {"start", "copy", "remove", "update", "settle", "unrow", "close"},
           wpc' = "copy" => StagingExists'
    PROVE  TypeInv'
  BY DEF TypeInv, TypeOK, WorkerFlag, StagingMade, waiting, running, table, boot, Disk

LEMMA MoveStepType == ASSUME TypeInv, MoveStep PROVE TypeInv'
  <1> DEFINE s == active.source
  <1>t. TypeOK /\ disk \in Disk /\ root \in [Source -> Place] /\ todo \subseteq File
        /\ outcome \in {"none", "ok", "error", "cancelled"}
        BY DEF TypeInv, TypeOK, Disk
  <1>w. wpc \in {"start", "copy", "remove", "update"}
        BY DEF MoveStep, AlreadyThere, Refuse, NothingToMove, PromoteLeftover, MayMove,
               MoveByRename, StartCopy, CopyFile, GiveUp, Promote, RemoveFile, RemoveFolder,
               UpdateProfile
  <1>a. /\ s \in Source
        /\ Old \in Folder /\ New \in Folder /\ Staging \in Folder
        /\ Staging # Old /\ Staging # New
        BY <1>t, <1>w, ActiveSpec
  <1>d. /\ disk[s][Old] # Missing => disk[s][Old] \in SUBSET File
        /\ disk[s][Staging] # Missing => disk[s][Staging] \in SUBSET File
        BY <1>t, <1>a, FolderContent
  <1>1. CASE AlreadyThere
        BY <1>1, <1>t, <1>w, MoveType DEF AlreadyThere, Return, Unmoved
  <1>2. CASE Refuse
        BY <1>2, <1>t, <1>w, MoveType DEF Refuse, Return, Unmoved
  <1>3. CASE NothingToMove
        BY <1>3, <1>t, <1>w, MoveType DEF NothingToMove, Unmoved
  <1>4. CASE PromoteLeftover
    <2>1. disk' \in Disk
          BY <1>4, <1>t, <1>a, RenamedSpec DEF PromoteLeftover
    <2> QED BY <1>4, <2>1, <1>t, <1>w, MoveType DEF PromoteLeftover, Unmoved
  <1>5. CASE MoveByRename
    <2>1. disk' \in Disk
          BY <1>5, <1>t, <1>a, RenamedSpec DEF MoveByRename, MayMove
    <2> QED BY <1>5, <2>1, <1>t, <1>w, MoveType DEF MoveByRename, Unmoved
  <1>6. CASE StartCopy
    <2>1. {} \in (SUBSET File) \cup {Missing} /\ {} # Missing
          BY MoveAssumption
    <2>2. disk' \in Disk /\ disk'[s][Staging] = {}
          BY <1>6, <1>t, <1>a, <2>1, PutSpec DEF StartCopy
    <2>3. disk[s][Old] # Missing
          BY <1>6 DEF StartCopy, MayMove, OldExists, Exists
    <2>4. todo' \subseteq File
          BY <1>6, <1>d, <2>3 DEF StartCopy
    <2>5. StagingExists'
          BY <1>6, <2>1, <2>2 DEF StartCopy, StagingExists, Exists, Staging, Unmoved, running
    <2> QED BY <1>6, <2>2, <2>4, <2>5, <1>t, <1>w, MoveType DEF StartCopy, Unmoved
  <1>7. ASSUME NEW f \in File, CopyFile(f) PROVE TypeInv'
    <2>1. disk[s][Staging] # Missing
          BY <1>7 DEF CopyFile, TypeInv, StagingMade, StagingExists, Exists
    <2>2. disk[s][Staging] \cup {f} \in SUBSET File
          BY <1>7, <1>d, <2>1
    <2>3. disk' \in Disk /\ disk'[s][Staging] = disk[s][Staging] \cup {f}
      <3> DEFINE content == disk[s][Staging] \cup {f}
      <3>1. content \in (SUBSET File) \cup {Missing}
            BY <2>2
      <3>2. disk' = Put(s, Staging, content)
            BY <1>7 DEF CopyFile
      <3> HIDE DEF content
      <3>3. Put(s, Staging, content) \in Disk /\ Put(s, Staging, content)[s][Staging] = content
            BY <3>1, <1>t, <1>a, PutSpec
      <3> QED BY <3>2, <3>3 DEF content
    <2>4. StagingExists'
          BY <1>7, <2>2, <2>3, MoveAssumption
          DEF CopyFile, StagingExists, Exists, Staging, Unmoved, running
    <2> QED BY <1>7, <2>3, <2>4, <1>t, <1>w, MoveType DEF CopyFile, Return, Unmoved
  <1>8. CASE GiveUp
        BY <1>8, <1>t, <1>w, MoveType DEF GiveUp, Return, Unmoved
  <1>9. CASE Promote
    <2>1. disk' \in Disk
          BY <1>9, <1>t, <1>a, RenamedSpec DEF Promote
    <2> QED BY <1>9, <2>1, <1>t, <1>w, MoveType DEF Promote, Unmoved
  <1>10. ASSUME NEW f \in File, RemoveFile(f) PROVE TypeInv'
    <2>1. disk[s][Old] # Missing
          BY <1>10 DEF RemoveFile, OldExists, Exists
    <2>2. disk[s][Old] \ {f} \in (SUBSET File) \cup {Missing}
          BY <1>d, <2>1
    <2>3. disk' \in Disk
          BY <1>10, <2>2, <1>t, <1>a, PutSpec DEF RemoveFile
    <2> QED BY <1>10, <2>3, <1>t, <1>w, MoveType DEF RemoveFile, Unmoved, thread
  <1>11. CASE RemoveFolder
    <2>1. disk' \in Disk
          BY <1>11, <1>t, <1>a, PutSpec, MissingContent DEF RemoveFolder
    <2> QED BY <1>11, <2>1, <1>t, <1>w, MoveType DEF RemoveFolder, Unmoved
  <1>12. CASE UpdateProfile
    <2>1. root' \in [Source -> Place]
          BY <1>12, <1>t, <1>a, <1>w, ActiveSpec DEF UpdateProfile, New
    <2> QED BY <1>12, <2>1, <1>t, <1>w, MoveType DEF UpdateProfile, Return
  <1> QED BY <1>1, <1>2, <1>3, <1>4, <1>5, <1>6, <1>7, <1>8, <1>9, <1>10, <1>11, <1>12
          DEF MoveStep

LEMMA SettleType == ASSUME TypeInv, Settle PROVE TypeInv'
  <1> DEFINE s == active.source
  <1>1. TypeOK /\ disk \in Disk /\ root \in [Source -> Place] /\ wpc = "settle"
        BY DEF TypeInv, TypeOK, Disk, Settle
  <1>2. s \in Source /\ Staging \in Folder
        BY <1>1, ActiveSpec
  <1>3. Put(s, Staging, Missing) \in Disk
        BY <1>1, <1>2, PutSpec, MissingContent
  <1>4. ASSUME StagingExists, NEW part \in SUBSET disk[s][Staging]
        PROVE  Put(s, Staging, part) \in Disk
    <2>1. disk[s][Staging] \in SUBSET File
          BY <1>1, <1>2, <1>4, FolderContent DEF StagingExists, Exists
    <2>2. part \in (SUBSET File) \cup {Missing}
          BY <2>1
    <2> QED BY <1>1, <1>2, <2>2, PutSpec
  <1>5. disk' \in Disk
        BY <1>1, <1>3, <1>4 DEF Settle
  <1> QED BY <1>1, <1>5, MoveType DEF Settle, Unmoved, TypeInv, TypeOK

LEMMA RestoreType == ASSUME TypeInv, RestoreJobs PROVE TypeInv'
  <1>1. loaded \subseteq Job /\ queue \in Seq(Job) /\ ids \subseteq Source
        BY DEF TypeInv, TypeOK
  <1>2. Restored \subseteq Job
        BY <1>1 DEF Restored
  <1>3. PICK q \in Orders(Restored) : queue' = queue \o q
        BY DEF RestoreJobs
  <1>4. q \in Seq(Job)
    <2>1. PICK n \in 0..Cardinality(Restored) : q \in [1..n -> Restored]
          BY <1>3 DEF Orders
    <2>2. n \in Nat
          BY <2>1
    <2> QED BY <1>2, <2>1, <2>2
  <1>5. queue' \in Seq(Job)
        BY <1>1, <1>3, <1>4
  <1>6. ids' \subseteq Source
        BY <1>1, <1>2 DEF RestoreJobs, Job
  <1>7. CASE StartWorker
        BY <1>5, <1>6, <1>7, StartWorkerType
        DEF RestoreJobs, TypeInv, TypeOK, StagingMade, StagingExists, Exists, Staging, table, media
  <1>8. CASE UNCHANGED <<worker, wpc>>
        BY <1>5, <1>6, <1>8
        DEF RestoreJobs, TypeInv, TypeOK, WorkerFlag, StagingMade, StagingExists, Exists, Staging,
            table, media
  <1> QED BY <1>7, <1>8 DEF RestoreJobs

LEMMA CallType == ASSUME TypeInv, Call PROVE TypeInv'
  <1>1. ASSUME NEW s \in Source, NEW t \in Place, Enqueue(s, t) PROVE TypeInv'
        BY <1>1, AddType, StartWorkerType
        DEF Enqueue, TypeInv, TypeOK, StagingMade, StagingExists, Exists, Staging, boot, media
  <1>2. ASSUME NEW s \in Source, NEW t \in Place, EnqueueBadBatch(s, t) PROVE TypeInv'
        BY <1>2, AddType
        DEF EnqueueBadBatch, TypeInv, TypeOK, WorkerFlag, StagingMade, StagingExists, Exists,
            Staging, running, thread, boot, media
  <1>3. CASE CancelAll
    <2>1. queue \in Seq(Job) /\ queue' = <<>>
          BY <1>3 DEF CancelAll, TypeInv, TypeOK
    <2>2. {queue[i].id : i \in DOMAIN queue} \subseteq JobId
      <3>1. \A i \in DOMAIN queue : queue[i] \in Job
            BY <2>1
      <3> QED BY <3>1 DEF Job
    <2>3. queue' \in Seq(Job)
          BY <2>1
    <2> QED BY <1>3, <2>2, <2>3
            DEF CancelAll, TypeInv, TypeOK, WorkerFlag, StagingMade, StagingExists, Exists,
                Staging, thread, boot, media
  <1> QED BY <1>1, <1>2, <1>3 DEF Call

LEMMA OtherStepType ==
    ASSUME TypeInv, UnpersistStep \/ StopWorker \/ RemoveRow \/ Close \/ LoadRows \/ Restart
    PROVE  TypeInv'
  <1> USE DEF TypeInv, TypeOK, WorkerFlag, StagingMade, StagingExists, Exists, Staging
  <1>1. ASSUME NEW i \in JobId, Unpersist(i) PROVE TypeInv'
        BY <1>1 DEF Unpersist, AfterWrite, WithoutRow, waiting, running, thread, boot, media
  <1>2. CASE StopWorker
        BY <1>2 DEF StopWorker, waiting, table, boot, media
  <1>3. CASE RemoveRow
        BY <1>3 DEF RemoveRow, AfterWrite, WithoutRow, waiting, running, boot, media
  <1>4. CASE Close
        BY <1>4 DEF Close, waiting, table, boot, media
  <1>5. CASE LoadRows
        BY <1>5 DEF LoadRows, waiting, running, thread, table, media
  <1>6. CASE Restart
    <2>1. queue' \in Seq(Job) /\ ids' \subseteq Source /\ loaded' \subseteq Job
          BY <1>6 DEF Restart
    <2> QED BY <1>6, <2>1 DEF Restart, media
  <1> QED BY <1>1, <1>2, <1>3, <1>4, <1>5, <1>6 DEF UnpersistStep

LEMMA TypeStep == TypeInv /\ [Next]_vars => TypeInv'
  <1> SUFFICES ASSUME TypeInv, [Next]_vars PROVE TypeInv'
      OBVIOUS
  <1>1. CASE UNCHANGED vars
        BY <1>1 DEF vars, waiting, running, thread, table, boot, media, TypeInv, TypeOK,
                    WorkerFlag, StagingMade, StagingExists, Exists, Staging
  <1>2. CASE Call
        BY <1>2, CallType
  <1>3. CASE WorkerStep
        BY <1>3, DequeueType, MoveStepType, SettleType, OtherStepType DEF WorkerStep
  <1>4. CASE BootStep
        BY <1>4, RestoreType, OtherStepType DEF BootStep
  <1>5. CASE UnpersistStep \/ Restart
        BY <1>5, OtherStepType
  <1> QED BY <1>1, <1>2, <1>3, <1>4, <1>5 DEF Next

\* Every variable keeps the type the code gives it, and the worker thread has a
\* job exactly while it runs one.
THEOREM TypeCorrect == Spec => []TypeOK
  <1>1. TypeInv => TypeOK
        BY DEF TypeInv
  <1> QED BY TypeInit, TypeStep, <1>1, PTL DEF Spec
-----------------------------------------------------------------------------
\* A complete copy.

LEMMA CompleteInit == Init => MoveInv
  <1> SUFFICES ASSUME Init PROVE MoveInv
      OBVIOUS
  <1>1. ASSUME NEW s \in Source PROVE Full(s, Home[s])
    <2>1. Home[s] \in Place /\ Home[s] \in Folder
          BY MoveAssumption DEF Folder
    <2>2. disk[s][Home[s]] = Library
          BY <2>1 DEF Init
    <2> QED BY <2>2, MoveAssumption DEF Full, Exists
  <1>2. CompleteCopy
        BY <1>1, MoveAssumption DEF CompleteCopy
  <1> QED BY <1>2, TypeInit DEF Init, MoveInv, CopyUnderWay, OriginSpare

\* A step of the worker's job may only disturb the folders of its profile.
LEMMA OneFullIsEnough ==
    ASSUME CompleteCopy, NEW s \in Source,
           \A t \in Source, d \in Place : t # s => disk'[t][d] = disk[t][d],
           \E d \in Place : Full(s, d)'
    PROVE  CompleteCopy'
  <1>1. ASSUME NEW t \in Source, t # s PROVE \E d \in Place : Full(t, d)'
        BY <1>1 DEF CompleteCopy, Full, Exists
  <1> QED BY <1>1 DEF CompleteCopy

LEMMA PlacesKept ==
    ASSUME CompleteCopy, \A t \in Source, d \in Place : disk'[t][d] = disk[t][d]
    PROVE  CompleteCopy'
  BY DEF CompleteCopy, Full, Exists

\* The steps outside the move leave the disk alone, and start no copy.
LEMMA Undisturbed ==
    ASSUME MoveInv, UNCHANGED media,
           wpc' \in {"copy", "remove"} => wpc' = wpc /\ active' = active /\ todo' = todo
    PROVE  CompleteCopy' /\ CopyUnderWay' /\ OriginSpare'
  BY DEF MoveInv, media, CompleteCopy, CopyUnderWay, OriginSpare, Spare, Full, Exists,
         NewExists, Old, New, Staging

\* So do the steps that end the move.
LEMMA Untouched ==
    ASSUME MoveInv, disk' = disk, wpc' \notin {"copy", "remove"}
    PROVE  CompleteCopy' /\ CopyUnderWay' /\ OriginSpare'
  BY DEF MoveInv, CompleteCopy, CopyUnderWay, OriginSpare, Full, Exists

LEMMA MoveStepComplete ==
    ASSUME MoveInv, MoveStep
    PROVE  CompleteCopy' /\ CopyUnderWay' /\ OriginSpare'
  <1> DEFINE s == active.source
             Goal == CompleteCopy' /\ CopyUnderWay' /\ OriginSpare'
  <1>t. TypeOK /\ disk \in Disk /\ StagingMade /\ CompleteCopy
        BY DEF MoveInv, TypeInv, TypeOK, Disk
  <1>w. wpc \in {"start", "copy", "remove", "update"}
        BY DEF MoveStep, AlreadyThere, Refuse, NothingToMove, PromoteLeftover, MayMove,
               MoveByRename, StartCopy, CopyFile, GiveUp, Promote, RemoveFile, RemoveFolder,
               UpdateProfile
  <1>a. /\ s \in Source
        /\ Old \in Place /\ New \in Place /\ Staging \in JobId
        /\ Old \in Folder /\ New \in Folder /\ Staging \in Folder
        /\ Staging # Old /\ Staging # New
        BY <1>t, <1>w, ActiveSpec
  <1>p. \A d \in Place : d \in Folder /\ d # Staging
        BY <1>a, MoveAssumption DEF Folder
  <1>f. PICK d \in Place : Full(s, d)
        BY <1>t, <1>a DEF CompleteCopy
  <1>1. CASE AlreadyThere \/ Refuse \/ NothingToMove \/ GiveUp \/ UpdateProfile
        BY <1>1, Untouched
        DEF AlreadyThere, Refuse, NothingToMove, GiveUp, UpdateProfile, Return
  <1>2. CASE PromoteLeftover
    <2>1. disk' = Renamed(s, Staging, New) /\ disk[s][New] = Missing /\ wpc' = "update"
          BY <1>2 DEF PromoteLeftover, NewExists, Exists
    <2>2. d # New /\ disk'[s][d] = disk[s][d]
          BY <2>1, <1>f, <1>t, <1>a, <1>p, RenamedSpec DEF Full, Exists
    <2>3. CompleteCopy'
      <3>1. \A t \in Source, e \in Place : t # s => disk'[t][e] = disk[t][e]
            BY <2>1, <1>t, <1>a, <1>p, RenamedSpec
      <3> QED BY <3>1, <2>2, <1>f, <1>t, <1>a, OneFullIsEnough DEF Full, Exists
    <2> QED BY <2>1, <2>3 DEF CopyUnderWay, OriginSpare
  <1>3. CASE MoveByRename
    <2>1. /\ disk' = Renamed(s, Old, New) /\ disk[s][New] = Missing /\ Old # New
          /\ wpc' = "update"
          BY <1>3 DEF MoveByRename, MayMove, NewExists, Exists
    <2>2. disk'[s][New] = disk[s][Old] /\ (d # Old => disk'[s][d] = disk[s][d])
          BY <2>1, <1>f, <1>t, <1>a, <1>p, RenamedSpec DEF Full, Exists
    <2>3. CompleteCopy'
      <3>1. \A t \in Source, e \in Place : t # s => disk'[t][e] = disk[t][e]
            BY <2>1, <1>t, <1>a, <1>p, RenamedSpec
      <3> QED BY <3>1, <2>2, <1>f, <1>t, <1>a, OneFullIsEnough DEF Full, Exists
    <2> QED BY <2>1, <2>3 DEF CopyUnderWay, OriginSpare
  <1>4. CASE StartCopy
    <2>1. /\ disk' = Put(s, Staging, {}) /\ todo' = disk[s][Old] /\ wpc' = "copy"
          /\ active' = active /\ root' = root /\ New # Old /\ disk[s][New] = Missing
          BY <1>4 DEF StartCopy, MayMove, Unmoved, running, NewExists, Exists
    <2>2. \A t \in Source, e \in Place : disk'[t][e] = disk[t][e]
          BY <2>1, <1>t, <1>a, <1>p, PutSpec
    <2>3. CompleteCopy'
          BY <2>2, <1>t, PlacesKept
    <2>4. New' = New /\ Old' = Old /\ Staging' = Staging
          BY <2>1 DEF New, Old, Staging
    <2>5. ~NewExists'
          BY <2>1, <2>2, <2>4, <1>a DEF NewExists, Exists
    <2>6. d # Old => Spare'
          BY <2>1, <2>2, <2>4, <1>a, <1>f DEF Spare, Full, Exists
    <2>7. d = Old => Full(s, Old)' /\ Library \subseteq todo'
          BY <2>1, <2>2, <2>4, <1>a, <1>f DEF Full, Exists
    <2> QED BY <2>1, <2>3, <2>4, <2>5, <2>6, <2>7 DEF CopyUnderWay, OriginSpare
  <1>5. ASSUME NEW f \in File, CopyFile(f) PROVE Goal
    <2> DEFINE content == disk[s][Staging] \cup {f}
    <2>1. /\ disk' = Put(s, Staging, content) /\ wpc = "copy"
          /\ active' = active /\ root' = root
          BY <1>5 DEF CopyFile, Unmoved, running
    <2>2. content \in SUBSET File
          BY <1>5, <2>1, <1>t, <1>a, FolderContent DEF StagingMade, StagingExists, Exists
    <2>3. /\ \A t \in Source, e \in Place : disk'[t][e] = disk[t][e]
          /\ disk'[s][Staging] = content
      <3>1. content \in (SUBSET File) \cup {Missing}
            BY <2>2
      <3> HIDE DEF content
      <3> QED BY <3>1, <2>1, <1>t, <1>a, <1>p, PutSpec
    <2>4. CompleteCopy'
          BY <2>3, <1>t, PlacesKept
    <2>5. New' = New /\ Old' = Old /\ Staging' = Staging
          BY <2>1 DEF New, Old, Staging
    <2>6. CASE cancel
          BY <1>5, <2>4, <2>6 DEF CopyFile, Return, CopyUnderWay, OriginSpare
    <2>7. CASE ~cancel
      <3>1. wpc' = "copy" /\ todo' = todo \ {f}
            BY <1>5, <2>1, <2>7 DEF CopyFile
      <3>2. /\ New # Old /\ ~NewExists
            /\ Spare \/ (Full(s, Old) /\ Library \subseteq disk[s][Staging] \cup todo)
            BY <2>1 DEF MoveInv, CopyUnderWay
      <3>3. ~NewExists'
            BY <3>2, <2>1, <2>3, <2>5, <1>a DEF NewExists, Exists
      <3>4. Spare => Spare'
            BY <2>1, <2>3, <2>5, <1>a DEF Spare, Full, Exists
      <3>5. Full(s, Old) => Full(s, Old)'
            BY <2>1, <2>3, <2>5, <1>a DEF Full, Exists
      <3>6. Library \subseteq disk[s][Staging] \cup todo =>
                Library \subseteq disk'[s][Staging] \cup todo'
            BY <2>3, <3>1
      <3> QED BY <2>1, <2>4, <2>5, <3>1, <3>2, <3>3, <3>4, <3>5, <3>6
              DEF CopyUnderWay, OriginSpare
    <2> QED BY <2>6, <2>7
  <1>s. ASSUME wpc = "remove", active' = active,
               \A e \in Place : e # Old => disk'[s][e] = disk[s][e]
        PROVE  \E e \in Place \ {Old} : Full(s, e)'
    <2>1. PICK e \in Place \ {Old} : Full(s, e)
          BY <1>s DEF MoveInv, OriginSpare, Spare
    <2>2. Full(s, e)'
          BY <2>1, <1>s DEF Full, Exists
    <2> QED BY <2>1, <2>2
  <1>6. CASE Promote
    <2>1. /\ disk' = Renamed(s, Staging, New) /\ wpc' = "remove" /\ wpc = "copy" /\ todo = {}
          /\ active' = active /\ root' = root
          BY <1>6 DEF Promote, Copied, Unmoved, running
    <2>2. /\ New # Old /\ disk[s][New] = Missing /\ disk[s][Staging] # Missing
          /\ Spare \/ Library \subseteq disk[s][Staging]
          BY <2>1, <1>t DEF MoveInv, CopyUnderWay, NewExists, StagingMade, StagingExists, Exists
    <2>3. /\ disk'[s][New] = disk[s][Staging]
          /\ \A e \in Place : e # New => disk'[s][e] = disk[s][e]
          /\ \A t \in Source, e \in Place : t # s => disk'[t][e] = disk[t][e]
          BY <2>1, <1>t, <1>a, <1>p, RenamedSpec
    <2>4. New' = New /\ Old' = Old
          BY <2>1 DEF New, Old
    <2>5. \E e \in Place \ {Old} : Full(s, e)'
      <3>1. CASE Spare
        <4>1. PICK e \in Place \ {Old} : Full(s, e)
              BY <3>1 DEF Spare
        <4>2. e # New /\ disk'[s][e] = disk[s][e]
              BY <4>1, <2>2, <2>3 DEF Full, Exists
        <4>3. Full(s, e)'
              BY <4>1, <4>2, <2>1 DEF Full, Exists
        <4> QED BY <4>1, <4>3
      <3>2. CASE Library \subseteq disk[s][Staging]
        <4>1. Full(s, New)' /\ New' = New
              BY <3>2, <2>1, <2>2, <2>3, <2>4 DEF Full, Exists
        <4> QED BY <4>1, <2>1, <2>2, <1>a DEF Full, Exists
      <3> QED BY <3>1, <3>2, <2>2
    <2>6. CompleteCopy'
      <3>1. \E e \in Place : Full(s, e)'
            BY <2>5
      <3> QED BY <3>1, <2>1, <2>3, <1>t, <1>a, OneFullIsEnough DEF Full, Exists
    <2> QED BY <2>1, <2>4, <2>5, <2>6 DEF CopyUnderWay, OriginSpare, Spare, Full, Exists
  <1>7. ASSUME NEW f \in File, RemoveFile(f) PROVE Goal
    <2>1. disk[s][Old] # Missing /\ wpc = "remove"
          /\ disk' = Put(s, Old, disk[s][Old] \ {f})
          /\ wpc' = wpc /\ active' = active /\ root' = root
          BY <1>7 DEF RemoveFile, OldExists, Exists, thread, Unmoved, running
    <2>2. disk[s][Old] \ {f} \in (SUBSET File) \cup {Missing}
          BY <2>1, <1>t, <1>a, FolderContent
    <2>3. \A t \in Source, e \in Place : t # s \/ e # Old => disk'[t][e] = disk[t][e]
      <3> DEFINE content == disk[s][Old] \ {f}
      <3> HIDE DEF content
      <3>1. Old \in Folder /\ content \in (SUBSET File) \cup {Missing} /\ disk' = Put(s, Old, content)
            BY <2>1, <2>2, <1>a DEF content
      <3> QED BY <3>1, <1>t, <1>a, <1>p, PutSpec
    <2>4. \E e \in Place \ {Old} : Full(s, e)'
          BY <2>1, <2>3, <1>a, <1>s
    <2>5. CompleteCopy'
      <3>1. \E e \in Place : Full(s, e)'
            BY <2>4
      <3> QED BY <3>1, <2>1, <2>3, <1>t, <1>a, OneFullIsEnough, ZenonT(60) DEF Full, Exists
    <2>6. Old' = Old
          BY <2>1 DEF Old
    <2> QED BY <2>1, <2>4, <2>5, <2>6 DEF CopyUnderWay, OriginSpare, Spare, Full, Exists
  <1>8. CASE RemoveFolder
    <2>1. wpc = "remove" /\ disk' = Put(s, Old, Missing) /\ wpc' = "update" /\ active' = active
          BY <1>8 DEF RemoveFolder, Unmoved, running
    <2>2. \A t \in Source, e \in Place : t # s \/ e # Old => disk'[t][e] = disk[t][e]
          BY <2>1, <1>t, <1>a, <1>p, PutSpec, MissingContent
    <2>3. \E e \in Place : Full(s, e)'
          BY <2>1, <2>2, <1>a, <1>s
    <2>4. CompleteCopy'
          BY <2>1, <2>2, <2>3, <1>t, <1>a, OneFullIsEnough DEF Full, Exists
    <2> QED BY <2>1, <2>4 DEF CopyUnderWay, OriginSpare
  <1> QED BY <1>1, <1>2, <1>3, <1>4, <1>5, <1>6, <1>7, <1>8 DEF MoveStep

LEMMA SettleComplete ==
    ASSUME MoveInv, Settle
    PROVE  CompleteCopy' /\ CopyUnderWay' /\ OriginSpare'
  <1> DEFINE s == active.source
  <1>1. TypeOK /\ disk \in Disk /\ CompleteCopy /\ wpc = "settle" /\ wpc' = "unrow"
        BY DEF MoveInv, TypeInv, TypeOK, Disk, Settle
  <1>2. s \in Source /\ Staging \in Folder /\ Staging \in JobId
        BY <1>1, ActiveSpec
  <1>3. \A d \in Place : d \in Folder /\ d # Staging
        BY <1>2, MoveAssumption DEF Folder
  <1>4. ASSUME NEW content \in (SUBSET File) \cup {Missing}, disk' = Put(s, Staging, content)
        PROVE  \A t \in Source, d \in Place : disk'[t][d] = disk[t][d]
        BY <1>1, <1>2, <1>3, <1>4, PutSpec
  <1>5. ASSUME StagingExists, NEW part \in SUBSET disk[s][Staging]
        PROVE  part \in (SUBSET File) \cup {Missing}
        BY <1>1, <1>2, <1>5, FolderContent DEF StagingExists, Exists
  <1>6. \A t \in Source, d \in Place : disk'[t][d] = disk[t][d]
        BY <1>4, <1>5, MissingContent DEF Settle
  <1> QED BY <1>1, <1>6, PlacesKept DEF CopyUnderWay, OriginSpare

LEMMA MoveInvStep == MoveInv /\ [Next]_vars => MoveInv'
  <1> SUFFICES ASSUME MoveInv, [Next]_vars PROVE CompleteCopy' /\ CopyUnderWay' /\ OriginSpare'
      BY TypeStep DEF MoveInv
  <1>t. TypeInv
        BY DEF MoveInv
  <1>1. CASE UNCHANGED vars
        BY <1>1, Undisturbed DEF vars, running, thread
  <1>2. CASE Call
    <2>1. UNCHANGED media /\ active' = active /\ todo' = todo
          BY <1>2 DEF Call, Enqueue, EnqueueBadBatch, CancelAll, running, thread
    <2>2. wpc' \in {"copy", "remove"} => wpc' = wpc
          BY <1>2 DEF Call, Enqueue, EnqueueBadBatch, CancelAll, StartWorker, thread
    <2> QED BY <2>1, <2>2, Undisturbed
  <1>3. CASE Dequeue \/ StopWorker \/ RemoveRow \/ Close
        BY <1>3, Undisturbed DEF Dequeue, StopWorker, RemoveRow, Close
  <1>4. CASE MoveStep \/ Settle
        BY <1>4, MoveStepComplete, SettleComplete
  <1>5. CASE BootStep
    <2>1. UNCHANGED media /\ active' = active /\ todo' = todo
          BY <1>5 DEF BootStep, LoadRows, RestoreJobs, running, thread
    <2>2. wpc' \in {"copy", "remove"} => wpc' = wpc
          BY <1>5 DEF BootStep, LoadRows, RestoreJobs, StartWorker, thread
    <2> QED BY <2>1, <2>2, Undisturbed
  <1>6. CASE UnpersistStep
        BY <1>6, Undisturbed DEF UnpersistStep, Unpersist, running, thread
  <1>7. CASE Restart
        BY <1>7, Undisturbed DEF Restart
  <1> QED BY <1>1, <1>2, <1>3, <1>4, <1>5, <1>6, <1>7 DEF Next, WorkerStep

\* Whatever fails, is cancelled or is cut off by a crash, some place always
\* holds every file a profile had before it was first moved.
THEOREM CopyAlwaysComplete == Spec => []CompleteCopy
  <1>1. MoveInv => CompleteCopy
        BY DEF MoveInv
  <1> QED BY CompleteInit, MoveInvStep, <1>1, PTL DEF Spec
-----------------------------------------------------------------------------
\* The queue.  `ids` can only mirror it, and the boot thread can only add a
\* profile once, because the table has one row for a profile.

OneRowEach(jobs) == \A p, q \in jobs : p.source = q.source => p = q

Mirrored ==
    /\ \A i, j \in DOMAIN queue : queue[i].source = queue[j].source => i = j
    /\ ids = {queue[i].source : i \in DOMAIN queue}
    /\ OneRowEach(rows)
    /\ OneRowEach(loaded)

WorkerServes == (worker <=> wpc # "idle") /\ (queue # <<>> => worker)

LEMMA AddQueue ==
    ASSUME TypeInv, Mirrored, NEW s \in Source, NEW t \in Place, Add(s, t)
    PROVE  /\ \A i, j \in DOMAIN queue' : queue'[i].source = queue'[j].source => i = j
           /\ ids' = {queue'[i].source : i \in DOMAIN queue'}
           /\ OneRowEach(rows')
  <1>1. PICK x \in JobId \ used :
            LET job == [id |-> x, source |-> s, target |-> t] IN
            /\ rows' = WithRow(job)
            /\ ids' = ids \cup {s}
            /\ queue' = Append(queue, job)
        BY DEF Add
  <1> DEFINE job == [id |-> x, source |-> s, target |-> t]
  <1>2. job \in Job /\ job.source = s /\ s \notin ids
        BY <1>1 DEF Job, Add, IsMigrating
  <1>3. queue \in Seq(Job)
        BY DEF TypeInv, TypeOK
  <1>4. rows' = WithRow(job) /\ ids' = ids \cup {s} /\ queue' = Append(queue, job)
        BY <1>1
  <1> HIDE DEF job
  <1>5. /\ DOMAIN queue' = DOMAIN queue \cup {Len(queue) + 1}
        /\ queue'[Len(queue) + 1] = job
        /\ \A i \in DOMAIN queue : queue'[i] = queue[i] /\ i # Len(queue) + 1
        BY <1>2, <1>3, <1>4
  <1>6. \A i \in DOMAIN queue : queue[i].source \in ids
        BY DEF Mirrored
  <1>7. \A i, j \in DOMAIN queue' : queue'[i].source = queue'[j].source => i = j
        BY <1>2, <1>5, <1>6 DEF Mirrored
  <1>8. ids' = {queue'[i].source : i \in DOMAIN queue'}
        BY <1>2, <1>4, <1>5 DEF Mirrored
  <1>9. OneRowEach(rows')
        BY <1>4 DEF WithRow, OneRowEach, Mirrored
  <1> QED BY <1>7, <1>8, <1>9

LEMMA DequeueQueue == ASSUME TypeInv, Mirrored, Dequeue PROVE Mirrored'
  <1>1. queue \in Seq(Job) /\ queue # <<>> /\ queue' = Tail(queue)
        /\ ids' = ids \ {queue[1].source}
        BY DEF TypeInv, TypeOK, Dequeue
  <1>2. Len(queue) \in Nat /\ Len(queue) > 0 /\ DOMAIN queue = 1..Len(queue)
        BY <1>1
  <1>3. DOMAIN queue' = 1..(Len(queue) - 1) /\ \A i \in DOMAIN queue' : queue'[i] = queue[i + 1]
        BY <1>1, <1>2
  <1>4. \A i \in DOMAIN queue' : i + 1 \in DOMAIN queue /\ i + 1 # 1
        BY <1>2, <1>3
  <1>5. \A i \in DOMAIN queue : i = 1 \/ (i - 1 \in DOMAIN queue' /\ i = (i - 1) + 1)
        BY <1>2, <1>3
  <1>6. \A i, j \in DOMAIN queue : queue[i].source = queue[j].source => i = j
        BY DEF Mirrored
  <1>7. \A i, j \in DOMAIN queue' : queue'[i].source = queue'[j].source => i = j
    <2>1. SUFFICES ASSUME NEW i \in DOMAIN queue', NEW j \in DOMAIN queue',
                          queue[i + 1].source = queue[j + 1].source
                   PROVE  i = j
          BY <1>3
    <2>2. i + 1 = j + 1
          BY <2>1, <1>4, <1>6
    <2>3. i \in Nat /\ j \in Nat
          BY <1>2, <1>3
    <2> QED BY <2>2, <2>3
  <1>8. ids' = {queue'[i].source : i \in DOMAIN queue'}
    <2>1. ids = {queue[i].source : i \in DOMAIN queue}
          BY DEF Mirrored
    <2>2. \A i \in DOMAIN queue' : queue'[i].source \in ids'
      <3>1. SUFFICES ASSUME NEW i \in DOMAIN queue' PROVE queue[i + 1].source \in ids'
            BY <1>3
      <3>2. 1 \in DOMAIN queue
            BY <1>2
      <3>3. queue[i + 1].source # queue[1].source
            BY <1>4, <1>6, <3>2
      <3> QED BY <1>1, <1>4, <2>1, <3>3
    <2>3. \A s \in ids' : \E i \in DOMAIN queue' : queue'[i].source = s
      <3>1. SUFFICES ASSUME NEW s \in ids' PROVE \E i \in DOMAIN queue' : queue'[i].source = s
            OBVIOUS
      <3>2. PICK i \in DOMAIN queue : queue[i].source = s
            BY <1>1, <2>1
      <3>3. i # 1
            BY <1>1, <3>2
      <3> QED BY <1>3, <1>5, <3>2, <3>3
    <2> QED BY <2>2, <2>3
  <1>9. OneRowEach(rows') /\ OneRowEach(loaded')
        BY DEF Dequeue, Mirrored, table, boot
  <1> QED BY <1>7, <1>8, <1>9 DEF Mirrored

LEMMA RestoreQueue == ASSUME TypeInv, Mirrored, RestoreJobs PROVE Mirrored'
  <1>1. loaded \subseteq Job /\ queue \in Seq(Job)
        BY DEF TypeInv, TypeOK
  <1>2. Restored \subseteq Job /\ OneRowEach(Restored) /\ \A p \in Restored : p.source \notin ids
        BY <1>1 DEF Restored, OneRowEach, Mirrored
  <1>3. PICK q \in Orders(Restored) : queue' = queue \o q
        BY DEF RestoreJobs
  <1>4. PICK n \in 0..Cardinality(Restored) : q \in [1..n -> Restored]
        BY <1>3 DEF Orders
  <1>5. /\ n \in Nat /\ q \in Seq(Restored) /\ q \in Seq(Job) /\ Len(q) = n /\ DOMAIN q = 1..n
        /\ \A i \in 1..n : q[i] \in Restored
        BY <1>2, <1>4
  <1>6. /\ \A i, j \in 1..n : q[i] = q[j] => i = j
        /\ \A job \in Restored : \E i \in 1..n : q[i] = job
        BY <1>3, <1>5 DEF Orders
  <1> DEFINE m == Len(queue)
  <1>7. m \in Nat /\ DOMAIN queue = 1..m
        BY <1>1
  <1>8. /\ DOMAIN queue' = 1..(m + n)
        /\ \A i \in 1..m : queue'[i] = queue[i]
        /\ \A i \in 1..n : queue'[m + i] = q[i]
    <2>1. /\ DOMAIN (queue \o q) = 1..(Len(queue) + Len(q))
          /\ \A i \in 1..(Len(queue) + Len(q)) :
                (queue \o q)[i] = IF i <= Len(queue) THEN queue[i] ELSE q[i - Len(queue)]
          BY <1>1, <1>5
    <2>2. \A i \in 1..n : m + i \in 1..(m + n) /\ ~(m + i <= m) /\ (m + i) - m = i
          BY <1>5, <1>7
    <2>3. \A i \in 1..m : i \in 1..(m + n) /\ i <= m
          BY <1>5, <1>7
    <2> QED BY <1>3, <1>5, <2>1, <2>2, <2>3
  <1> HIDE DEF m
  <1>9. \A i \in DOMAIN queue' : i \in 1..m \/ (i - m \in 1..n /\ i = m + (i - m))
        BY <1>5, <1>7, <1>8
  <1>10. ids = {queue[i].source : i \in 1..m}
        BY <1>7 DEF Mirrored
  <1>11. \A i, j \in DOMAIN queue' : queue'[i].source = queue'[j].source => i = j
    <2>1. ASSUME NEW i \in 1..m, NEW j \in 1..m, queue'[i].source = queue'[j].source PROVE i = j
          BY <2>1, <1>7, <1>8 DEF Mirrored
    <2>2. ASSUME NEW i \in 1..n, NEW j \in 1..n, queue'[m + i].source = queue'[m + j].source
          PROVE  i = j
          BY <2>2, <1>2, <1>5, <1>6, <1>8 DEF OneRowEach
    <2>3. ASSUME NEW i \in 1..m, NEW j \in 1..n PROVE queue'[i].source # queue'[m + j].source
          BY <1>2, <1>5, <1>8, <1>10
    <2>4. SUFFICES ASSUME NEW i \in DOMAIN queue', NEW j \in DOMAIN queue',
                          queue'[i].source = queue'[j].source
                   PROVE  i = j
          OBVIOUS
    <2>5. CASE i \in 1..m /\ j \in 1..m
          BY <2>1, <2>4, <2>5
    <2>6. CASE i \in 1..m /\ j - m \in 1..n /\ j = m + (j - m)
          BY <2>3, <2>4, <2>6
    <2>7. CASE j \in 1..m /\ i - m \in 1..n /\ i = m + (i - m)
          BY <2>3, <2>4, <2>7
    <2>8. CASE i - m \in 1..n /\ i = m + (i - m) /\ j - m \in 1..n /\ j = m + (j - m)
      <3>1. i - m = j - m
            BY <2>2, <2>4, <2>8
      <3> QED BY <2>8, <3>1
    <2> QED BY <1>9, <2>5, <2>6, <2>7, <2>8
  <1>12. ids' = {queue'[i].source : i \in DOMAIN queue'}
    <2>1. ids' = ids \cup {p.source : p \in Restored}
          BY DEF RestoreJobs
    <2>2. \A i \in DOMAIN queue' : queue'[i].source \in ids'
      <3>1. \A i \in 1..m : queue'[i].source \in ids'
            BY <1>8, <1>10, <2>1
      <3>2. \A i \in 1..n : queue'[m + i].source \in ids'
            BY <1>5, <1>8, <2>1
      <3> QED BY <1>9, <3>1, <3>2
    <2>3. \A s \in ids' : \E i \in DOMAIN queue' : queue'[i].source = s
      <3>1. SUFFICES ASSUME NEW s \in ids' PROVE \E i \in DOMAIN queue' : queue'[i].source = s
            OBVIOUS
      <3>2. CASE s \in ids
        <4>1. PICK i \in 1..m : queue[i].source = s
              BY <1>10, <3>2
        <4>2. i \in DOMAIN queue'
              BY <1>5, <1>7, <1>8
        <4> QED BY <1>8, <4>1, <4>2
      <3>3. CASE s \in {p.source : p \in Restored}
        <4>1. PICK i \in 1..n : q[i].source = s
              BY <1>6, <3>3
        <4>2. m + i \in DOMAIN queue'
              BY <1>5, <1>7, <1>8
        <4> QED BY <1>8, <4>1, <4>2
      <3> QED BY <2>1, <3>2, <3>3
    <2> QED BY <2>2, <2>3
  <1>13. OneRowEach(rows') /\ OneRowEach(loaded')
        BY DEF RestoreJobs, Mirrored, table, OneRowEach
  <1> QED BY <1>11, <1>12, <1>13 DEF Mirrored

\* The steps that add no job to the queue and no row to the table.
LEMMA NothingAdded ==
    ASSUME Mirrored, rows' \subseteq rows, loaded' \subseteq loaded \/ loaded' = rows,
           (queue' = <<>> /\ ids' = {}) \/ (queue' = queue /\ ids' = ids)
    PROVE  Mirrored'
  <1>1. OneRowEach(rows') /\ OneRowEach(loaded')
        BY DEF Mirrored, OneRowEach
  <1> QED BY <1>1 DEF Mirrored

LEMMA MirroredInit == Init => Mirrored
  BY DEF Init, Mirrored, OneRowEach

LEMMA MirroredStep == TypeInv /\ Mirrored /\ [Next]_vars => Mirrored'
  <1> SUFFICES ASSUME TypeInv, Mirrored, [Next]_vars PROVE Mirrored'
      OBVIOUS
  <1>1. CASE UNCHANGED vars
        BY <1>1, NothingAdded DEF vars, waiting, table, boot
  <1>2. ASSUME NEW s \in Source, NEW t \in Place, Enqueue(s, t) \/ EnqueueBadBatch(s, t)
        PROVE  Mirrored'
    <2>1. Add(s, t) /\ loaded' = loaded
          BY <1>2 DEF Enqueue, EnqueueBadBatch, boot
    <2> QED BY <2>1, AddQueue DEF Mirrored
  <1>3. CASE CancelAll
    <2>1. queue' = <<>> /\ ids' = {} /\ rows' \subseteq rows /\ loaded' \subseteq loaded
          BY <1>3 DEF CancelAll, boot
    <2> QED BY <2>1 DEF Mirrored, OneRowEach
  <1>4. CASE UnpersistStep
        BY <1>4, NothingAdded DEF UnpersistStep, Unpersist, AfterWrite, WithoutRow, waiting, boot
  <1>5. CASE Dequeue
        BY <1>5, DequeueQueue
  <1>6. CASE MoveStep
    <2>1. UNCHANGED <<waiting, table, boot>>
          BY <1>6
          DEF MoveStep, AlreadyThere, Refuse, NothingToMove, PromoteLeftover, MayMove,
              MoveByRename, StartCopy, CopyFile, GiveUp, Promote, RemoveFile, RemoveFolder,
              UpdateProfile, Return, Unmoved, thread
    <2> QED BY <2>1, NothingAdded DEF waiting, table, boot
  <1>7. CASE StopWorker \/ Settle \/ RemoveRow \/ Close
        BY <1>7, NothingAdded DEF StopWorker, Settle, RemoveRow, Close, AfterWrite, WithoutRow,
                                  Unmoved, waiting, table, boot
  <1>8. CASE LoadRows
        BY <1>8, NothingAdded DEF LoadRows, waiting, table
  <1>9. CASE RestoreJobs
        BY <1>9, RestoreQueue
  <1>10. CASE Restart
    <2>1. queue' = <<>> /\ ids' = {} /\ rows' \subseteq rows /\ loaded' = {}
          BY <1>10 DEF Restart
    <2> QED BY <2>1 DEF Mirrored, OneRowEach
  <1> QED BY <1>1, <1>2, <1>3, <1>4, <1>5, <1>6, <1>7, <1>8, <1>9, <1>10
          DEF Next, Call, WorkerStep, BootStep

LEMMA ServesStep ==
    ASSUME ~BadBatches, TypeInv, WorkerServes, [Next]_vars
    PROVE  WorkerServes'
  <1> USE DEF WorkerServes
  <1>1. CASE Call
        BY <1>1 DEF Call, Enqueue, EnqueueBadBatch, CancelAll, StartWorker, thread
  <1>2. CASE UnpersistStep \/ LoadRows \/ UNCHANGED vars
        BY <1>2 DEF UnpersistStep, Unpersist, LoadRows, vars, waiting, running, thread
  <1>3. CASE MoveStep \/ Settle
    <2>1. /\ queue' = queue /\ worker' = worker
          /\ wpc # "idle" /\ wpc' # "idle"
          BY <1>3
          DEF MoveStep, AlreadyThere, Refuse, NothingToMove, PromoteLeftover, MayMove,
              MoveByRename, StartCopy, CopyFile, GiveUp, Promote, RemoveFile, RemoveFolder,
              UpdateProfile, Settle, Return, Unmoved, waiting, running, thread
    <2> QED BY <2>1
  <1>4. CASE Dequeue
        BY <1>4 DEF Dequeue
  <1>5. CASE StopWorker \/ RemoveRow \/ Close
        BY <1>5 DEF StopWorker, RemoveRow, Close, waiting, running
  <1>6. CASE RestoreJobs
    <2>1. CASE queue' # <<>>
          BY <1>6, <2>1 DEF RestoreJobs, StartWorker
    <2>2. CASE queue' = <<>>
          BY <1>6, <2>2 DEF RestoreJobs
    <2> QED BY <2>1, <2>2
  <1>7. CASE Restart
        BY <1>7 DEF Restart
  <1> QED BY <1>1, <1>2, <1>3, <1>4, <1>5, <1>6, <1>7 DEF Next, WorkerStep, BootStep

\* As long as no call to enqueue fails half way, a profile waits once at most,
\* `ids` mirrors the queue and a waiting job has a worker.
THEOREM QueueAlwaysConsistent ==
    ASSUME ~BadBatches
    PROVE  Spec => []QueueConsistent
  <1>1. Init => TypeInv /\ Mirrored /\ WorkerServes
        BY TypeInit, MirroredInit DEF Init, WorkerServes
  <1>2. TypeInv /\ Mirrored /\ WorkerServes /\ [Next]_vars => (TypeInv /\ Mirrored /\ WorkerServes)'
        BY TypeStep, MirroredStep, ServesStep
  <1>3. Mirrored /\ WorkerServes => QueueConsistent
        BY DEF Mirrored, WorkerServes, QueueConsistent
  <1> QED BY <1>1, <1>2, <1>3, PTL DEF Spec
-----------------------------------------------------------------------------
\* What a profile keeps through a move.  `want` is what must not be lost of
\* profile s; `firm` says that its folder itself must be there, too.  Until the
\* promotion the origin holds it, then the destination; while the copy grows,
\* what is in staging or still to be copied makes it up.

Holds(want, firm, s, d) == (firm => Exists(s, d)) /\ want \subseteq Content(s, d)

Moving(s) == active # None /\ active.source = s

Halfway(s) == Moving(s) /\ Halved

Kept(want, firm, s) ==
    /\ Halfway(s) => Holds(want, firm, s, New)
    /\ ~Halfway(s) => Holds(want, firm, s, root[s])
    /\ Moving(s) /\ wpc = "copy" => want \subseteq disk[s][Staging] \cup todo

NewApart == wpc \in {"copy", "remove"} => New # Old

LEMMA NewApartInit == Init => NewApart
  BY DEF Init, NewApart

LEMMA NewApartStep == TypeInv /\ NewApart /\ [Next]_vars => NewApart'
  <1> SUFFICES ASSUME TypeInv, NewApart, [Next]_vars, wpc' \in {"copy", "remove"}
               PROVE  (New # Old)'
      BY DEF NewApart
  <1>1. CASE MoveStep
    <2>1. active' = active /\ root' = root /\ New # Old
          BY <1>1
          DEF NewApart, MoveStep, AlreadyThere, Refuse, NothingToMove, PromoteLeftover, MayMove,
              MoveByRename, StartCopy, CopyFile, GiveUp, Promote, RemoveFile, RemoveFolder,
              UpdateProfile, Return, Unmoved, thread, running
    <2> QED BY <2>1 DEF New, Old
  <1>2. CASE ~MoveStep
    <2>1. wpc' = wpc /\ active' = active /\ root' = root
          BY <1>2 DEF Next, Call, Enqueue, EnqueueBadBatch, CancelAll, StartWorker, UnpersistStep,
                      Unpersist, WorkerStep, Dequeue, StopWorker, Settle, RemoveRow, Close,
                      BootStep, LoadRows, RestoreJobs, Restart, Unmoved,
                      vars, waiting, running, thread, media
    <2> QED BY <2>1 DEF NewApart, New, Old
  <1> QED BY <1>1, <1>2

\* The steps outside the move leave the disk alone, and neither start a copy nor
\* take a move that is half way from its profile.
LEMMA KeptElsewhere ==
    ASSUME NEW s \in Source, NEW want \in SUBSET File, NEW firm \in BOOLEAN,
           Kept(want, firm, s), UNCHANGED media,
           Moving(s) /\ wpc \in {"copy", "remove", "update"}
                => wpc' = wpc /\ active' = active /\ todo' = todo,
           Moving(s)' /\ wpc' \in {"copy", "remove", "update"}
                => wpc' = wpc /\ active' = active /\ todo' = todo
    PROVE  Kept(want, firm, s)'
  <1>1. /\ disk' = disk /\ root' = root
        /\ Halfway(s)' <=> Halfway(s)
        /\ Halfway(s) => New' = New
        /\ Moving(s)' /\ wpc' = "copy" =>
                Moving(s) /\ wpc = "copy" /\ Staging' = Staging /\ todo' = todo
        BY DEF media, Halfway, Halved, Moving, New, Staging
  <1> QED BY <1>1 DEF Kept, Holds, Exists, Content

\* Neither do the steps that end a job, which may clear its staging folder.
LEMMA KeptPlaces ==
    ASSUME NEW s \in Source, NEW want \in SUBSET File, NEW firm \in BOOLEAN,
           Kept(want, firm, s), ~Halfway(s), ~Halfway(s)',
           Moving(s)' => wpc' # "copy",
           root'[s] = root[s], disk'[s][root[s]] = disk[s][root[s]]
    PROVE  Kept(want, firm, s)'
  BY DEF Kept, Holds, Exists, Content

LEMMA KeptOther ==
    ASSUME NEW s \in Source, NEW want \in SUBSET File, NEW firm \in BOOLEAN,
           Kept(want, firm, s), ~Moving(s), active' = active,
           root'[s] = root[s], disk'[s] = disk[s]
    PROVE  Kept(want, firm, s)'
  BY DEF Kept, Holds, Exists, Content, Halfway, Moving

\* The move keeps it until it is given up half way.
LEMMA KeptMove ==
    ASSUME TypeInv, NewApart, MoveStep,
           NEW s \in Source, NEW want \in SUBSET File, NEW firm \in BOOLEAN,
           Kept(want, firm, s), ~(Halfway(s) /\ GiveUp)
    PROVE  Kept(want, firm, s)'
  <1>t. TypeOK /\ disk \in Disk /\ root \in [Source -> Place]
        BY DEF TypeInv, TypeOK, Disk
  <1>w. /\ wpc \in {"start", "copy", "remove", "update"}
        /\ active' = active /\ active # None
        /\ \/ root' = root
           \/ root' = [root EXCEPT ![active.source] = active.target] /\ UpdateProfile
    <2>1. wpc \in {"start", "copy", "remove", "update"}
          BY DEF MoveStep, AlreadyThere, Refuse, NothingToMove, PromoteLeftover, MayMove,
                 MoveByRename, StartCopy, CopyFile, GiveUp, Promote, RemoveFile, RemoveFolder,
                 UpdateProfile
    <2>2. active' = active /\ (root' = root \/ UpdateProfile)
          BY DEF MoveStep, AlreadyThere, Refuse, NothingToMove, PromoteLeftover, MayMove,
                 MoveByRename, StartCopy, CopyFile, GiveUp, Promote, RemoveFile, RemoveFolder,
                 UpdateProfile, Unmoved, running
    <2> QED BY <2>1, <2>2, <1>t DEF UpdateProfile, TypeOK
  <1>a. /\ active.source \in Source
        /\ Old \in Place /\ New \in Place
        /\ Old \in Folder /\ New \in Folder /\ Staging \in Folder
        /\ Staging # Old /\ Staging # New
        BY <1>t, <1>w, ActiveSpec
  <1>1. CASE ~Moving(s)
    <2>1. s # active.source
          BY <1>1, <1>w DEF Moving
    <2>2. root'[s] = root[s]
          BY <2>1, <1>w, <1>t
    <2>4. disk'[s] = disk[s]
          BY <2>1, <1>t DEF MoveStep, AlreadyThere, Refuse, NothingToMove, PromoteLeftover, MayMove,
                 MoveByRename, StartCopy, CopyFile, GiveUp, Promote, RemoveFile, RemoveFolder,
                 UpdateProfile, Put, Renamed, Disk
    <2> QED BY <1>1, <1>w, <2>2, <2>4, KeptOther
  <1>2. CASE Moving(s)
    <2>s. s = active.source /\ Moving(s)'
          BY <1>2, <1>w DEF Moving
    <2>n. New' = New /\ Staging' = Staging
          BY <1>w DEF New, Staging
    <2>h. Halfway(s) <=> wpc \in {"remove", "update"}
          BY <1>2 DEF Halfway, Halved
    <2>g. Halfway(s)' <=> wpc' \in {"remove", "update"}
          BY <2>s DEF Halfway, Halved
    <2>o. root[s] = Old
          BY <2>s DEF Old
    \* What the steps leave of a folder, and so of what it holds.
    <2>k. ASSUME NEW d \in Folder, disk'[s][d] = disk[s][d], Holds(want, firm, s, d)
          PROVE  Holds(want, firm, s, d)'
          BY <2>k DEF Holds, Exists, Content
    <2>1. CASE AlreadyThere \/ Refuse
      <3>1. disk' = disk /\ root' = root /\ wpc' = "settle" /\ wpc = "start"
            BY <2>1 DEF AlreadyThere, Refuse, Return, Unmoved
      <3> QED BY <3>1, <2>h, <2>g, <1>t, KeptPlaces
    <2>2. CASE GiveUp
      <3>1. disk' = disk /\ root' = root /\ wpc' = "settle" /\ ~Halfway(s)
            BY <2>2 DEF GiveUp, Return, Unmoved
      <3> QED BY <3>1, <2>g, <1>t, KeptPlaces
    <2>3. CASE NothingToMove
      <3>1. disk' = disk /\ wpc = "start" /\ wpc' = "update" /\ disk[s][Old] = Missing
            BY <2>3, <2>s DEF NothingToMove, OldExists, Exists
      <3>2. ~firm /\ want = {}
            BY <3>1, <2>h, <2>o DEF Kept, Holds, Exists, Content
      <3> QED BY <3>1, <3>2, <2>g DEF Kept, Holds
    <2>4. CASE PromoteLeftover
      <3>1. wpc = "start" /\ wpc' = "update" /\ disk[s][Old] = Missing
            BY <2>4, <2>s DEF PromoteLeftover, OldExists, Exists
      <3>2. ~firm /\ want = {}
            BY <3>1, <2>h, <2>o DEF Kept, Holds, Exists, Content
      <3> QED BY <3>1, <3>2, <2>g DEF Kept, Holds
    <2>5. CASE MoveByRename
      <3>1. wpc = "start" /\ wpc' = "update" /\ Old # New /\ disk' = Renamed(s, Old, New)
            BY <2>5, <2>s DEF MoveByRename, MayMove
      <3>2. disk'[s][New] = disk[s][Old]
            BY <3>1, <1>t, <1>a, RenamedSpec
      <3>3. Holds(want, firm, s, Old)
            BY <3>1, <2>h, <2>o DEF Kept
      <3>4. Holds(want, firm, s, New)'
            BY <3>2, <3>3, <2>n DEF Holds, Exists, Content
      <3> QED BY <3>1, <3>4, <2>g DEF Kept
    <2>6. CASE StartCopy
      <3>1. /\ wpc = "start" /\ wpc' = "copy" /\ disk' = Put(s, Staging, {})
            /\ todo' = disk[s][Old] /\ root' = root
            BY <2>6, <2>s DEF StartCopy, MayMove, Unmoved
      <3>2. disk'[s][Old] = disk[s][Old]
            BY <3>1, <1>t, <1>a, PutSpec
      <3>3. Holds(want, firm, s, Old)
            BY <3>1, <2>h, <2>o DEF Kept
      <3>4. want \subseteq todo'
            BY <2>6, <3>1, <3>3, <2>s DEF Holds, Content, StartCopy, MayMove, OldExists
      <3>5. Holds(want, firm, s, root[s])'
            BY <3>1, <3>2, <3>3, <2>o DEF Holds, Exists, Content
      <3> QED BY <3>1, <3>4, <3>5, <2>g DEF Kept
    <2>7. ASSUME NEW f \in File, CopyFile(f) PROVE Kept(want, firm, s)'
      <3> DEFINE content == disk[s][Staging] \cup {f}
      <3>1. wpc = "copy" /\ disk' = Put(s, Staging, content) /\ root' = root
            BY <2>7, <2>s DEF CopyFile, Unmoved
      <3>2. content \in (SUBSET File) \cup {Missing}
        <4>1. disk[s][Staging] \in SUBSET File
              BY <3>1, <2>s, <1>t, <1>a, FolderContent DEF TypeInv, StagingMade, StagingExists, Exists
        <4> QED BY <4>1
      <3> HIDE DEF content
      <3>3. disk'[s][Old] = disk[s][Old] /\ disk'[s][Staging] = content
            BY <3>1, <3>2, <1>t, <1>a, PutSpec
      <3>4. CASE wpc' = "copy"
        <4>1. todo' = todo \ {f}
              BY <2>7, <3>4 DEF CopyFile, Return
        <4>2. want \subseteq disk[s][Staging] \cup todo /\ Holds(want, firm, s, Old)
              BY <3>1, <2>h, <2>o, <1>2 DEF Kept
        <4>3. (want \subseteq disk[s][Staging] \cup todo)'
          <5>1. want \subseteq disk'[s][Staging] \cup todo'
                BY <4>1, <4>2, <3>3 DEF content
          <5> QED BY <5>1, <2>n
        <4>4. Holds(want, firm, s, root[s])'
              BY <3>1, <3>3, <4>2, <2>o DEF Holds, Exists, Content
        <4> QED BY <3>4, <4>3, <4>4, <2>n, <2>g DEF Kept
      <3>5. CASE wpc' # "copy"
        <4>1. wpc' = "settle"
              BY <2>7, <3>1, <3>5 DEF CopyFile, Return
        <4> QED BY <4>1, <3>1, <3>3, <2>h, <2>g, <2>o, <1>t, KeptPlaces
      <3> QED BY <3>4, <3>5
    <2>8. CASE Promote
      <3>1. /\ wpc = "copy" /\ wpc' = "remove" /\ todo = {} /\ disk' = Renamed(s, Staging, New)
            /\ disk[s][Staging] # Missing
            BY <2>8, <2>s DEF Promote, Copied, TypeInv, StagingMade, StagingExists, Exists
      <3>2. disk'[s][New] = disk[s][Staging]
            BY <3>1, <1>t, <1>a, RenamedSpec
      <3>3. want \subseteq disk[s][Staging]
            BY <3>1, <1>2 DEF Kept
      <3>4. Holds(want, firm, s, New)'
            BY <3>1, <3>2, <3>3, <2>n DEF Holds, Exists, Content
      <3> QED BY <3>1, <3>4, <2>g DEF Kept
    <2>9. ASSUME wpc = "remove", wpc' \in {"remove", "update"},
                 NEW x \in (SUBSET File) \cup {Missing}, disk' = Put(s, Old, x)
          PROVE  Kept(want, firm, s)'
      <3>1. disk'[s][New] = disk[s][New]
            BY <2>9, <1>t, <1>a, PutSpec DEF NewApart
      <3>2. Holds(want, firm, s, New)'
            BY <2>9, <3>1, <1>a, <2>h, <2>n DEF Kept, Holds, Exists, Content
      <3> QED BY <2>9, <3>2, <2>g DEF Kept
    <2>10. ASSUME NEW f \in File, RemoveFile(f) PROVE Kept(want, firm, s)'
      <3> DEFINE x == disk[s][Old] \ {f}
      <3>1. wpc = "remove" /\ wpc' = "remove" /\ disk' = Put(s, Old, x) /\ disk[s][Old] # Missing
            BY <2>10, <2>s DEF RemoveFile, thread, OldExists, Exists
      <3>2. x \in (SUBSET File) \cup {Missing}
        <4>1. disk[s][Old] \in SUBSET File
              BY <3>1, <1>t, <1>a, FolderContent
        <4> QED BY <4>1
      <3> HIDE DEF x
      <3> QED BY <3>1, <3>2, <2>9
    <2>11. CASE RemoveFolder
      <3>1. wpc = "remove" /\ wpc' = "update" /\ disk' = Put(s, Old, Missing)
            BY <2>11, <2>s DEF RemoveFolder
      <3> QED BY <3>1, <2>9, MissingContent
    <2>12. CASE UpdateProfile
      <3>1. wpc = "update" /\ wpc' = "settle" /\ disk' = disk /\ root'[s] = New
            BY <2>12, <2>s, <1>t DEF UpdateProfile, Return, New
      <3>2. Holds(want, firm, s, New)
            BY <3>1, <2>h DEF Kept
      <3>3. Holds(want, firm, s, root[s])'
            BY <3>1, <3>2, <2>n DEF Holds, Exists, Content
      <3> QED BY <3>1, <3>3, <2>g DEF Kept
    <2> QED BY <2>1, <2>2, <2>3, <2>4, <2>5, <2>6, <2>7, <2>8, <2>10, <2>11, <2>12 DEF MoveStep
  <1> QED BY <1>1, <1>2

LEMMA KeptSettle ==
    ASSUME TypeInv, Settle,
           NEW s \in Source, NEW want \in SUBSET File, NEW firm \in BOOLEAN,
           Kept(want, firm, s)
    PROVE  Kept(want, firm, s)'
  <1>1. TypeOK /\ disk \in Disk /\ wpc = "settle" /\ wpc' = "unrow" /\ root' = root
        /\ root[s] \in Place /\ root[s] \in Folder
        BY DEF TypeInv, TypeOK, Disk, Settle, Unmoved, Folder
  <1>2. active.source \in Source /\ Staging \in Folder /\ Staging # root[s]
        BY <1>1, ActiveSpec, MoveAssumption
  <1>3. ASSUME NEW content \in (SUBSET File) \cup {Missing},
               disk' = Put(active.source, Staging, content)
        PROVE  disk'[s][root[s]] = disk[s][root[s]]
        BY <1>1, <1>2, <1>3, PutSpec
  <1>4. ASSUME StagingExists, NEW part \in SUBSET disk[active.source][Staging]
        PROVE  part \in (SUBSET File) \cup {Missing}
        BY <1>1, <1>2, <1>4, FolderContent DEF StagingExists, Exists
  <1>5. disk'[s][root[s]] = disk[s][root[s]]
        BY <1>3, <1>4, MissingContent DEF Settle
  <1> QED BY <1>1, <1>5, KeptPlaces DEF Halfway, Halved

\* Every step but the end of the process, and but a failure half way.
LEMMA KeptStep ==
    ASSUME TypeInv, NewApart, Call \/ UnpersistStep \/ WorkerStep \/ BootStep,
           NEW s \in Source, NEW want \in SUBSET File, NEW firm \in BOOLEAN,
           Kept(want, firm, s), ~(Halfway(s) /\ GiveUp)
    PROVE  Kept(want, firm, s)'
  <1>1. CASE MoveStep
        BY <1>1, KeptMove
  <1>2. CASE Settle
        BY <1>2, KeptSettle
  <1>3. CASE Call \/ UnpersistStep \/ BootStep
    <2>1. UNCHANGED media /\ active' = active /\ todo' = todo
          BY <1>3 DEF Call, Enqueue, EnqueueBadBatch, CancelAll, UnpersistStep, Unpersist, BootStep,
                      LoadRows, RestoreJobs, running, thread
    <2>2. /\ wpc' \in {"copy", "remove", "update"} => wpc' = wpc
          /\ wpc \in {"copy", "remove", "update"} => wpc' = wpc
      <3>1. CASE StartWorker
            BY <3>1 DEF StartWorker, TypeInv, WorkerFlag
      <3>2. CASE ~StartWorker
            BY <1>3, <3>2 DEF Call, Enqueue, EnqueueBadBatch, CancelAll, UnpersistStep, Unpersist,
                BootStep, LoadRows, RestoreJobs, thread
      <3> QED BY <3>1, <3>2
    <2> QED BY <2>1, <2>2, KeptElsewhere
  <1>4. CASE Dequeue \/ StopWorker \/ RemoveRow \/ Close
        BY <1>4, KeptElsewhere DEF Dequeue, StopWorker, RemoveRow, Close
  <1> QED BY <1>1, <1>2, <1>3, <1>4 DEF WorkerStep

\* So does the end of the process, unless it comes half way.
LEMMA KeptRestart ==
    ASSUME Restart, NEW s \in Source, NEW want \in SUBSET File, NEW firm \in BOOLEAN,
           Kept(want, firm, s), ~Halfway(s)
    PROVE  Kept(want, firm, s)'
  BY DEF Restart, media, Kept, Holds, Exists, Content, Halfway, Halved, Moving

LEMMA KeptInit ==
    ASSUME Init, NEW s \in Source, NEW firm \in BOOLEAN
    PROVE  Kept(Library, firm, s)
  <1>1. Home[s] \in Place /\ Home[s] \in Folder
        BY MoveAssumption DEF Folder
  <1>2. disk[s][Home[s]] = Library
        BY <1>1 DEF Init
  <1>3. Holds(Library, firm, s, root[s])
        BY <1>2, MoveAssumption DEF Init, Holds, Exists, Content
  <1> QED BY <1>3 DEF Init, Kept, Halfway, Moving
-----------------------------------------------------------------------------
\* Failures aside, a profile is between two places only while it is moved, or
\* once the process has ended.

\* What the instances do is what the module does, with its budget.
LEMMA InstanceStep ==
    ASSUME [MCNext]_mcvars
    PROVE  /\ [Next]_vars
           /\ \/ Call \/ UnpersistStep \/ WorkerStep \/ BootStep
              \/ UNCHANGED vars
              \/ Restart /\ restarts' = restarts + 1
  BY DEF MCNext, BoundedEnqueue, BoundedCancel, BoundedRestart, Unbounded, NoteCall, Next, Call,
         mcvars, budget

KeptUntilCrash ==
    /\ restarts \in Nat
    /\ restarts = 0 => \A s \in Source : Kept(Library, TRUE, s)

\* While nothing fails and until the process ends in the middle of a move, a
\* profile with no migration under way has its media where the database says.
THEOREM SettledBeforeCrash ==
    ASSUME ~IoErrors
    PROVE  MCSpec => []SettledUntilCrash
  <1> DEFINE I == TypeInv /\ NewApart /\ KeptUntilCrash
  <1>1. MCInit => I
    <2>1. SUFFICES ASSUME MCInit PROVE I
          OBVIOUS
    <2>2. Init /\ restarts = 0
          BY <2>1 DEF MCInit
    <2>3. \A s \in Source : Kept(Library, TRUE, s)
          BY <2>2, KeptInit
    <2> QED BY <2>2, <2>3, TypeInit, NewApartInit DEF KeptUntilCrash
  <1>2. I /\ [MCNext]_mcvars => I'
    <2>1. SUFFICES ASSUME I, [MCNext]_mcvars PROVE I'
          OBVIOUS
    <2>2. [Next]_vars
          BY <2>1, InstanceStep
    <2>3. TypeInv' /\ NewApart'
          BY <2>1, <2>2, TypeStep, NewApartStep
    <2>4. restarts' \in Nat /\ (restarts' = 0 => restarts = 0 /\ ~(restarts' = restarts + 1))
          BY <2>1 DEF KeptUntilCrash, MCNext, BoundedEnqueue, BoundedCancel, BoundedRestart,
                      Unbounded, mcvars, budget
    <2>5. ASSUME NEW s \in Source, Kept(Library, TRUE, s), restarts' = 0
          PROVE  Kept(Library, TRUE, s)'
      <3>1. CASE UNCHANGED vars
        <4>1. UNCHANGED media /\ wpc' = wpc /\ active' = active /\ todo' = todo
              BY <3>1 DEF vars, running, thread
        <4> QED BY <4>1, <2>5, MoveAssumption, KeptElsewhere
      <3>2. CASE Call \/ UnpersistStep \/ WorkerStep \/ BootStep
        <4>1. ~(Halfway(s) /\ GiveUp)
              BY DEF Halfway, Halved, GiveUp
        <4> QED BY <4>1, <3>2, <2>1, <2>5, MoveAssumption, KeptStep
      <3> QED BY <3>1, <3>2, <2>1, <2>4, <2>5, InstanceStep
    <2> QED BY <2>1, <2>3, <2>4, <2>5 DEF KeptUntilCrash
  <1>3. I => SettledUntilCrash
    <2>1. ASSUME NEW s \in Source, Kept(Library, TRUE, s), ~IsMigrating(s)
          PROVE  Full(s, root[s])
          BY <2>1 DEF Kept, Holds, Content, Halfway, Moving, IsMigrating, Full
    <2> QED BY <2>1 DEF KeptUntilCrash, SettledUntilCrash, SettledComplete
  <1> QED BY <1>1, <1>2, <1>3, PTL DEF MCSpec
-----------------------------------------------------------------------------
\* What waits or runs is in the table.  The rows and the jobs made from them
\* share ids, so the row a worker removes at the end is of its own profile; and
\* until somebody calls while the boot thread is at work, that thread queues
\* what the table still holds.

SameProfile(jobs, job) == \A r \in jobs : r.id = job.id => r.source = job.source

Durable ==
    /\ JobsDurable
    /\ removing = {}
    /\ restore # "done" => queue = <<>> /\ ids = {} /\ active = None
    /\ loaded \subseteq rows
    /\ restore # "loaded" => loaded = {}
    /\ active # None => active.source \notin ids
    /\ \A r \in rows : r.id \in used /\ SameProfile(rows, r)
    /\ \A i \in DOMAIN queue : queue[i].id \in used /\ SameProfile(rows, queue[i])
    /\ active # None => active.id \in used /\ SameProfile(rows, active)

DurableHistory == cancels \in Nat /\ (cancels = 0 /\ ~early => Durable)

\* Steps that leave the queue, the job and the tables, and end no job.
LEMMA DurableKept ==
    ASSUME Durable, UNCHANGED <<waiting, active, table, boot>>,
           active # None => (wpc' = "close" <=> wpc = "close")
    PROVE  Durable'
  BY DEF Durable, JobsDurable, SameProfile, waiting, table, boot

LEMMA DurableEnqueue ==
    ASSUME TypeInv, Mirrored, Durable, NEW s \in Source, NEW t \in Place, Enqueue(s, t),
           restore = "done"
    PROVE  Durable'
  <1>1. PICK i \in JobId \ used :
            LET job == [id |-> i, source |-> s, target |-> t] IN
            /\ rows' = WithRow(job)
            /\ used' = used \cup {i}
            /\ ids' = ids \cup {s}
            /\ queue' = Append(queue, job)
        BY DEF Enqueue, Add
  <1> DEFINE job == [id |-> i, source |-> s, target |-> t]
  <1>2. /\ job.id = i /\ job.source = s /\ job \in Job
        /\ rows' = WithRow(job) /\ queue' = Append(queue, job)
        BY <1>1 DEF Job
  <1> HIDE DEF job
  <1>3. /\ active' = active /\ removing' = removing /\ loaded' = loaded /\ restore' = restore
        /\ ~IsMigrating(s)
        /\ active # None => wpc' = wpc
        BY DEF Enqueue, Add, StartWorker, boot, TypeInv, TypeOK, WorkerFlag
  <1>4. rows' \in {rows, rows \cup {job}} /\ \E r \in rows' : r.source = s
        BY <1>2 DEF WithRow
  <1>5. \A r \in rows : r.id # i /\ r.id \in used'
        BY <1>1 DEF Durable
  <1>6. queue \in Seq(Job)
        BY DEF TypeInv, TypeOK
  <1>7. \A j \in DOMAIN queue' : queue'[j] = job \/ (j \in DOMAIN queue /\ queue'[j] = queue[j])
        BY <1>2, <1>6
  <1>8. ASSUME NEW other, other.id \in used, SameProfile(rows, other) PROVE SameProfile(rows', other)
        BY <1>1, <1>2, <1>4, <1>8 DEF SameProfile
  <1>9. SameProfile(rows', job) /\ job.id \in used'
        BY <1>1, <1>2, <1>4, <1>5 DEF SameProfile
  <1>10. JobsDurable'
    <2>1. SUFFICES ASSUME NEW x \in Source,
                          x \in ids' \/ (active # None /\ active.source = x /\ wpc' # "close")
                   PROVE  \E r \in rows' : r.source = x
          BY <1>3 DEF JobsDurable
    <2>2. CASE x = s
          BY <1>4, <2>2
    <2>3. CASE x # s
      <3>1. \E r \in rows : r.source = x
            BY <1>1, <1>3, <2>1, <2>3 DEF Durable, JobsDurable
      <3> QED BY <1>4, <3>1
    <2> QED BY <2>2, <2>3
  <1>11. \A r \in rows' : r.id \in used' /\ SameProfile(rows', r)
        BY <1>4, <1>5, <1>8, <1>9 DEF Durable
  <1>12. \A j \in DOMAIN queue' : queue'[j].id \in used' /\ SameProfile(rows', queue'[j])
    <2>1. ASSUME NEW j \in DOMAIN queue
          PROVE  queue[j].id \in used' /\ SameProfile(rows', queue[j])
      <3>1. queue[j].id \in used /\ SameProfile(rows, queue[j])
            BY DEF Durable
      <3> QED BY <3>1, <1>1, <1>8
    <2> QED BY <2>1, <1>7, <1>9
  <1>13. active # None => active.id \in used' /\ SameProfile(rows', active)
    <2>1. SUFFICES ASSUME active # None PROVE active.id \in used' /\ SameProfile(rows', active)
          OBVIOUS
    <2>2. active.id \in used /\ SameProfile(rows, active)
          BY <2>1 DEF Durable
    <2> QED BY <2>2, <1>1, <1>8
  <1>14. removing' = {} /\ restore' = "done" /\ loaded' = {}
        BY <1>3 DEF Durable
  <1> QED BY <1>1, <1>3, <1>10, <1>11, <1>12, <1>13, <1>14 DEF Durable, IsMigrating

\* The job leaves the queue for the worker.
LEMMA DurableDequeue == ASSUME TypeInv, Mirrored, Durable, Dequeue PROVE Durable'
  <1>1. /\ queue \in Seq(Job) /\ queue # <<>> /\ queue' = Tail(queue) /\ active' = queue[1]
        /\ ids' = ids \ {queue[1].source} /\ wpc = "loop" /\ wpc' = "start"
        /\ UNCHANGED <<rows, used, removing, restore, loaded>>
        BY DEF TypeInv, TypeOK, Dequeue, table, boot
  <1>2. 1 \in DOMAIN queue /\ \A i \in DOMAIN queue' : i + 1 \in DOMAIN queue /\ queue'[i] = queue[i + 1]
    <2>1. Len(queue) \in Nat /\ Len(queue) > 0 /\ DOMAIN queue = 1..Len(queue)
          BY <1>1
    <2>2. DOMAIN queue' = 1..(Len(queue) - 1) /\ \A i \in DOMAIN queue' : queue'[i] = queue[i + 1]
          BY <1>1, <2>1
    <2> QED BY <2>1, <2>2
  <1>3. queue[1].source \in ids
        BY <1>2 DEF Mirrored
  <1>4. JobsDurable'
    <2>1. SUFFICES ASSUME NEW x \in Source, x \in ids
                   PROVE  \E r \in rows : r.source = x
          BY <1>1, <1>3 DEF JobsDurable
    <2> QED BY <2>1 DEF Durable, JobsDurable
  <1>5. restore = "done"
        BY <1>1 DEF Durable
  <1>6. \A i \in DOMAIN queue : queue[i].id \in used /\ SameProfile(rows, queue[i])
        BY DEF Durable
  <1> QED BY <1>1, <1>2, <1>4, <1>5, <1>6 DEF Durable

\* The worker takes the row of its own job away, and with it no other profile's.
LEMMA DurableRemoveRow == ASSUME TypeInv, Durable, RemoveRow PROVE Durable'
  <1>1. /\ UNCHANGED <<waiting, running, used, removing, boot>> /\ wpc = "unrow" /\ wpc' = "close"
        /\ rows' \in {rows, WithoutRow(active.id)} /\ active # None
        BY DEF RemoveRow, AfterWrite, TypeInv, TypeOK
  <1>2. restore = "done" /\ loaded = {} /\ rows' \subseteq rows
        BY <1>1 DEF Durable, WithoutRow
  <1>3. JobsDurable'
    <2>1. SUFFICES ASSUME NEW x \in Source, x \in ids PROVE \E r \in rows' : r.source = x
          BY <1>1 DEF JobsDurable, waiting, running
    <2>2. PICK r \in rows : r.source = x
          BY <2>1 DEF Durable, JobsDurable
    <2>3. r.id # active.id
          BY <1>1, <2>1, <2>2 DEF Durable, SameProfile
    <2> QED BY <1>1, <2>2, <2>3 DEF WithoutRow
  <1> QED BY <1>1, <1>2, <1>3 DEF Durable, SameProfile, waiting, running, boot

LEMMA DurableRestore == ASSUME TypeInv, Durable, RestoreJobs PROVE Durable'
  <1>1. /\ queue = <<>> /\ ids = {} /\ active = None /\ active' = None /\ restore' = "done"
        /\ loaded' = {} /\ UNCHANGED <<rows, used, removing>> /\ loaded \subseteq rows
        BY DEF RestoreJobs, Durable, table
  <1>2. Restored = loaded /\ ids' = {r.source : r \in loaded}
        BY <1>1 DEF Restored, RestoreJobs
  <1>3. PICK q \in Orders(loaded) : queue' = queue \o q
        BY <1>2 DEF RestoreJobs
  <1>4. \A i \in DOMAIN queue' : queue'[i] \in loaded
    <2>1. PICK n \in 0..Cardinality(loaded) : q \in [1..n -> loaded]
          BY <1>3, SMTT(30) DEF Orders
    <2>2. n \in Nat /\ q \in Seq(loaded)
          BY <2>1
    <2>3. queue' \in Seq(loaded)
          BY <1>1, <1>3, <2>2
    <2> QED BY <2>3
  <1>5. JobsDurable'
        BY <1>1, <1>2 DEF JobsDurable
  <1>6. \A i \in DOMAIN queue' : queue'[i].id \in used' /\ SameProfile(rows', queue'[i])
        BY <1>1, <1>4 DEF Durable
  <1> QED BY <1>1, <1>5, <1>6 DEF Durable

LEMMA DurableStep ==
    ASSUME TypeInv, Mirrored, Durable, UnpersistStep \/ WorkerStep \/ BootStep \/ Restart
    PROVE  Durable'
  <1>1. CASE UnpersistStep
        BY <1>1 DEF UnpersistStep, Unpersist, Durable
  <1>2. CASE MoveStep \/ Settle
    <2>1. /\ UNCHANGED <<waiting, active, table, boot>>
          /\ wpc # "close" /\ wpc' # "close"
          BY <1>2 DEF MoveStep, AlreadyThere, Refuse, NothingToMove, PromoteLeftover, MayMove,
              MoveByRename, StartCopy, CopyFile, GiveUp, Promote, RemoveFile, RemoveFolder,
              UpdateProfile, Settle, Return, Unmoved, running, thread
    <2> QED BY <2>1, DurableKept
  <1>3. CASE StopWorker
    <2>1. active = None
          BY <1>3 DEF StopWorker, TypeInv, TypeOK
    <2> QED BY <1>3, <2>1, DurableKept DEF StopWorker
  <1>4. CASE Close
        BY <1>4 DEF Close, Durable, JobsDurable, waiting, table, boot
  <1>5. CASE LoadRows
        BY <1>5 DEF LoadRows, Durable, JobsDurable, waiting, running, thread, table
  <1>6. CASE Restart
    <2>1. queue' = <<>> /\ ids' = {} /\ active' = None /\ removing' = {} /\ loaded' = {}
          /\ restore' = "boot" /\ rows' = rows /\ used' = used
          BY <1>6 DEF Restart
    <2> QED BY <2>1 DEF Durable, JobsDurable
  <1> QED BY <1>1, <1>2, <1>3, <1>4, <1>5, <1>6, DurableDequeue, DurableRemoveRow, DurableRestore
          DEF WorkerStep, BootStep

\* Until a cancellation deletes rows, and unless a call comes before the boot
\* thread is done, a job that waits or runs is in the table, so that the next
\* start takes it up again.
THEOREM JobsStayDurable == MCSpec => []DurableUntilCancelled
  <1> DEFINE I == TypeInv /\ Mirrored /\ DurableHistory
  <1>1. MCInit => I
    <2>1. Init => Durable
          BY DEF Init, Durable, JobsDurable
    <2> QED BY <2>1, TypeInit, MirroredInit DEF MCInit, DurableHistory
  <1>2. I /\ [MCNext]_mcvars => I'
    <2>1. SUFFICES ASSUME I, [MCNext]_mcvars PROVE I'
          OBVIOUS
    <2>2. TypeInv' /\ Mirrored'
          BY <2>1, InstanceStep, TypeStep, MirroredStep
    <2>3. CASE BoundedEnqueue
      <3>1. cancels' = cancels /\ (~early' => ~early /\ restore = "done")
            BY <2>3 DEF BoundedEnqueue, NoteCall
      <3> QED BY <2>1, <2>2, <2>3, <3>1, DurableEnqueue DEF DurableHistory, BoundedEnqueue
    <2>4. CASE BoundedCancel
          BY <2>1, <2>2, <2>4 DEF BoundedCancel, DurableHistory
    <2>5. CASE BoundedRestart \/ Unbounded
          BY <2>1, <2>2, <2>5, DurableStep DEF BoundedRestart, Unbounded, budget, DurableHistory
    <2>6. CASE UNCHANGED mcvars
      <3>1. UNCHANGED <<waiting, active, table, boot, wpc, cancels, early>>
            BY <2>6 DEF mcvars, vars, running, thread, budget
      <3> QED BY <2>1, <2>2, <3>1, DurableKept DEF DurableHistory
    <2> QED BY <2>1, <2>2, <2>3, <2>4, <2>5, <2>6 DEF MCNext
  <1>3. I => DurableUntilCancelled
        BY DEF DurableHistory, Durable, DurableUntilCancelled
  <1> QED BY <1>1, <1>2, <1>3, PTL DEF MCSpec
-----------------------------------------------------------------------------
\* Downloads and their ledger, when only profiles without a sync are moved and
\* nothing is asked before the boot thread is done (`Careful`).  A profile then
\* never syncs and migrates at once, so that a sync saves where the database
\* says, and a move keeps each file the ledger records.

SyncTypes ==
    /\ syncing \subseteq Source
    /\ target \in [Source -> Place \cup {None}]
    /\ fetched \in [Source -> SUBSET File]
    /\ ledger \in [Source -> SUBSET File]

SyncApart ==
    /\ \A s \in syncing : ~IsMigrating(s)
    /\ restore # "done" => syncing = {}
    /\ \A s \in Source : target[s] # None => s \in syncing /\ target[s] = root[s]

HistoryKept ==
    ~spoiled => \A s \in Source : \A f \in ledger[s] \cup fetched[s] : Kept({f}, FALSE, s)

OverlapInv == TypeInv /\ NewApart /\ Mirrored /\ SyncTypes /\ SyncApart

\* A profile starts to migrate only by a call or by the boot thread.
LEMMA StartsToMigrate ==
    ASSUME TypeInv, Mirrored, Call \/ UnpersistStep \/ WorkerStep \/ BootStep,
           NEW s \in Source, IsMigrating(s)', ~IsMigrating(s)
    PROVE  restore = "loaded" \/ \E t \in Place : Enqueue(s, t) \/ EnqueueBadBatch(s, t)
  <1>1. ASSUME NEW x \in Source, NEW t \in Place, Add(x, t) PROVE ids' = ids \cup {x}
        BY <1>1 DEF Add
  <1>2. CASE Call
        BY <1>1, <1>2 DEF Call, Enqueue, EnqueueBadBatch, CancelAll, IsMigrating, running
  <1>3. CASE UnpersistStep \/ LoadRows
        BY <1>3 DEF UnpersistStep, Unpersist, LoadRows, IsMigrating, waiting, running
  <1>4. CASE Dequeue
    <2>1. queue \in Seq(Job) /\ queue # <<>> /\ active' = queue[1] /\ ids' \subseteq ids
          BY <1>4 DEF Dequeue, TypeInv, TypeOK
    <2>2. 1 \in DOMAIN queue
          BY <2>1
    <2>3. queue[1].source \in ids
          BY <2>2 DEF Mirrored
    <2> QED BY <2>1, <2>3 DEF IsMigrating
  <1>5. CASE StopWorker \/ Settle \/ RemoveRow \/ Close
        BY <1>5 DEF StopWorker, Settle, RemoveRow, Close, Unmoved, IsMigrating, waiting, running
  <1>6. CASE MoveStep
    <2>1. ids' = ids /\ active' = active
          BY <1>6 DEF MoveStep, AlreadyThere, Refuse, NothingToMove, PromoteLeftover, MayMove,
              MoveByRename, StartCopy, CopyFile, GiveUp, Promote, RemoveFile, RemoveFolder,
              UpdateProfile, Unmoved, waiting, running
    <2> QED BY <2>1 DEF IsMigrating
  <1> QED BY <1>2, <1>3, <1>4, <1>5, <1>6 DEF WorkerStep, BootStep, RestoreJobs

\* The database names another place only for the profile that is moved.
LEMMA RootOfOthers ==
    ASSUME TypeInv, [Next]_vars, NEW s \in Source, root'[s] # root[s]
    PROVE  Moving(s)
  <1>1. CASE UpdateProfile
    <2>1. wpc = "update" /\ root' = [root EXCEPT ![active.source] = active.target]
          BY <1>1 DEF UpdateProfile
    <2>2. active # None /\ root \in [Source -> Place]
          BY <2>1 DEF TypeInv, TypeOK
    <2> QED BY <2>1, <2>2 DEF Moving
  <1>2. CASE ~UpdateProfile
        BY <1>2 DEF Next, Call, Enqueue, EnqueueBadBatch, CancelAll, UnpersistStep, Unpersist,
                    WorkerStep, Dequeue, StopWorker, MoveStep, AlreadyThere, Refuse, NothingToMove,
                    PromoteLeftover, MayMove, MoveByRename, StartCopy, CopyFile, GiveUp, Promote,
                    RemoveFile, RemoveFolder, Settle, RemoveRow, Close, BootStep, LoadRows,
                    RestoreJobs, Restart, Unmoved, vars, media
  <1> QED BY <1>1, <1>2

LEMMA OverlapInvInit == OverlapInit => OverlapInv /\ HistoryKept
  <1> SUFFICES ASSUME OverlapInit PROVE OverlapInv /\ HistoryKept
      OBVIOUS
  <1>1. Init /\ ComposedInit
        BY DEF OverlapInit, ComposedInit
  <1>2. SyncTypes
        BY <1>1, MoveAssumption DEF ComposedInit, SyncTypes
  <1>3. SyncApart
        BY <1>1 DEF ComposedInit, SyncApart
  <1>4. ASSUME NEW s \in Source, NEW f \in ledger[s] \cup fetched[s] PROVE Kept({f}, FALSE, s)
    <2>1. f \in Library
          BY <1>1, <1>4 DEF ComposedInit
    <2>2. Kept(Library, FALSE, s)
          BY <1>1, <1>4, KeptInit
    <2> QED BY <2>1, <2>2 DEF Kept, Holds
  <1> QED BY <1>1, <1>2, <1>3, <1>4, TypeInit, NewApartInit, MirroredInit DEF OverlapInv, HistoryKept

LEMMA MoveBesideSync ==
    ASSUME Careful, OverlapInv, MigrationCall \/ MigrationStep
    PROVE  OverlapInv'
  <1> USE DEF OverlapInv
  <1>1. Call \/ UnpersistStep \/ WorkerStep \/ BootStep
        BY DEF MigrationCall, MigrationStep, Call
  <1>2. [Next]_vars /\ UNCHANGED sync
        BY <1>1 DEF MigrationCall, MigrationStep, Next
  <1>3. TypeInv' /\ NewApart' /\ Mirrored' /\ SyncTypes'
        BY <1>2, TypeStep, NewApartStep, MirroredStep DEF SyncTypes, sync
  <1>4. ASSUME NEW s \in syncing PROVE ~IsMigrating(s)'
    <2>1. restore = "done" /\ ~IsMigrating(s) /\ s \in Source
          BY <1>4 DEF SyncApart, SyncTypes
    <2>2. \A t \in Place : ~(Enqueue(s, t) \/ EnqueueBadBatch(s, t))
      <3>1. SUFFICES ASSUME NEW t \in Place, Enqueue(s, t) \/ EnqueueBadBatch(s, t) PROVE FALSE
            OBVIOUS
      <3>2. s \in ids'
            BY <3>1 DEF Enqueue, EnqueueBadBatch, Add
      <3>3. CASE MigrationCall
        <4>1. ids' = {} \/ \E x \in Source, y \in Place : x \notin syncing /\ Add(x, y)
              BY <3>3 DEF MigrationCall, Enqueue, EnqueueBadBatch, CancelAll
        <4> QED BY <4>1, <3>2, <2>1, <1>4 DEF Add, IsMigrating
      <3>4. CASE MigrationStep
        <4>1. ids' \subseteq ids
              BY <3>4, <2>1
              DEF MigrationStep, UnpersistStep, Unpersist, WorkerStep, Dequeue, StopWorker,
                  MoveStep, AlreadyThere, Refuse, NothingToMove, PromoteLeftover, MayMove,
                  MoveByRename, StartCopy, CopyFile, GiveUp, Promote, RemoveFile, RemoveFolder,
                  UpdateProfile, Settle, RemoveRow, Close, BootStep, LoadRows, RestoreJobs,
                  Unmoved, waiting
        <4> QED BY <4>1, <3>2, <2>1 DEF IsMigrating
      <3> QED BY <3>3, <3>4
    <2> QED BY <1>1, <2>1, <2>2, StartsToMigrate
  <1>5. restore' # "done" => syncing' = {}
    <2>1. restore' # "done" => restore # "done"
          BY <1>1
          DEF Call, Enqueue, EnqueueBadBatch, CancelAll, UnpersistStep, Unpersist, WorkerStep,
              Dequeue, StopWorker, MoveStep, AlreadyThere, Refuse, NothingToMove,
              PromoteLeftover, MayMove, MoveByRename, StartCopy, CopyFile, GiveUp, Promote,
              RemoveFile, RemoveFolder, UpdateProfile, Settle, RemoveRow, Close, BootStep,
              LoadRows, RestoreJobs, Unmoved, boot
    <2> QED BY <2>1, <1>2 DEF SyncApart, sync
  <1>6. ASSUME NEW s \in Source, target[s] # None
        PROVE  s \in syncing /\ target[s] = root'[s]
    <2>1. s \in syncing /\ target[s] = root[s] /\ ~IsMigrating(s)
          BY <1>6 DEF SyncApart
    <2> QED BY <2>1, <1>2, RootOfOthers DEF Moving, IsMigrating
  <1>7. syncing' = syncing /\ target' = target
        BY <1>2 DEF sync
  <1>8. \A s \in syncing' : ~IsMigrating(s)'
        BY <1>4, <1>7
  <1> QED BY <1>3, <1>5, <1>6, <1>7, <1>8 DEF SyncApart

\* A sync only adds to the folder of its own profile, which is not moved.
LEMMA KeptGrow ==
    ASSUME OverlapInv, UNCHANGED <<running, wpc, todo, root>>,
           NEW x \in Source, ~Moving(x), NEW content \in SUBSET File,
           Content(x, root[x]) \subseteq content, disk' = Put(x, root[x], content),
           NEW s \in Source, NEW want \in SUBSET File, NEW firm \in BOOLEAN,
           Kept(want, firm, s)
    PROVE  Kept(want, firm, s)'
  <1>1. disk \in Disk /\ root \in [Source -> Place] /\ root[x] \in Folder
        BY DEF OverlapInv, TypeInv, TypeOK, Disk, Folder
  <1>2. disk'[x][root[x]] = content /\ (s # x => disk'[s] = disk[s])
    <2>1. content \in (SUBSET File) \cup {Missing}
          OBVIOUS
    <2>2. disk'[x][root[x]] = content
          BY <1>1, <2>1, PutSpec
    <2> QED BY <1>1, <2>2 DEF Put, Disk
  <1>3. Exists(x, root[x])'
        BY <1>2, MoveAssumption DEF Exists
  <1>4. CASE s = x
    <2>1. ~Halfway(s) /\ ~Moving(s)' /\ ~Halfway(s)'
          BY <1>4 DEF Halfway, Moving, running
    <2>2. want \subseteq Content(x, root[x])
          BY <1>4, <2>1 DEF Kept, Holds
    <2>3. Holds(want, firm, s, root[s])'
          BY <1>2, <1>3, <1>4, <2>2 DEF Holds, Content
    <2> QED BY <2>1, <2>3 DEF Kept
  <1>5. CASE s # x
    <2>1. /\ Moving(s)' <=> Moving(s)
          /\ Halfway(s)' <=> Halfway(s)
          /\ New' = New /\ Staging' = Staging /\ disk'[s] = disk[s] /\ root' = root
          /\ todo' = todo /\ wpc' = wpc
          BY <1>2, <1>5 DEF Halfway, Halved, Moving, New, Staging, running
    <2> QED BY <2>1 DEF Kept, Holds, Exists, Content
  <1> QED BY <1>4, <1>5

LEMMA TypesGrow ==
    ASSUME OverlapInv, UNCHANGED <<waiting, running, wpc, todo, outcome, table, boot, root>>,
           NEW x \in Source, ~Moving(x), NEW content \in SUBSET File,
           disk' = Put(x, root[x], content)
    PROVE  TypeInv' /\ NewApart' /\ Mirrored'
  <1>1. TypeInv /\ TypeOK /\ disk \in Disk /\ root \in [Source -> Place] /\ root[x] \in Folder
        BY DEF OverlapInv, TypeInv, TypeOK, Disk, Folder
  <1>2. disk' \in Disk
    <2>1. content \in (SUBSET File) \cup {Missing}
          OBVIOUS
    <2> QED BY <1>1, <2>1, PutSpec
  <1>3. StagingMade'
    <2>1. SUFFICES ASSUME wpc = "copy" PROVE disk'[active.source][active.id] # Missing
          BY DEF StagingMade, StagingExists, Exists, Staging, running
    <2>2. active # None /\ active.source \in Source /\ active.source # x
          BY <1>1, <2>1, ActiveSpec DEF TypeOK, Moving
    <2>3. disk'[active.source] = disk[active.source]
          BY <1>1, <2>2 DEF Put, Disk
    <2> QED BY <1>1, <2>1, <2>3 DEF TypeInv, StagingMade, StagingExists, Exists, Staging
  <1>4. TypeOK' /\ WorkerFlag'
        BY <1>1, <1>2 DEF TypeInv, TypeOK, WorkerFlag, waiting, running, table, boot, Disk
  <1> QED BY <1>1, <1>3, <1>4
          DEF OverlapInv, TypeInv, NewApart, New, Old, Mirrored, waiting, running, table, boot

LEMMA SyncKeeps ==
    ASSUME Careful, OverlapInv, HistoryKept, SyncStep, ~spoiled' => ~spoiled
    PROVE  OverlapInv' /\ HistoryKept'
  <1> DEFINE All(s) == ledger[s] \cup fetched[s]
  <1>1. SyncTypes /\ SyncApart /\ TypeOK /\ root \in [Source -> Place]
        BY DEF OverlapInv, TypeInv, TypeOK
  <1>2. ASSUME NEW s \in Source, TakeSync(s) PROVE OverlapInv' /\ HistoryKept'
    <2>1. /\ UNCHANGED vars /\ target' = target /\ fetched' = fetched /\ ledger' = ledger
          /\ syncing' = syncing \cup {s} /\ ~IsMigrating(s) /\ restore = "done"
          BY <1>2 DEF TakeSync, SyncMayStart, Accepting
    <2>2. TypeInv' /\ NewApart' /\ Mirrored'
          BY <2>1, TypeStep, NewApartStep, MirroredStep DEF OverlapInv
    <2>3. ids' = ids /\ active' = active /\ restore' = restore /\ root' = root
          BY <2>1 DEF vars, waiting, running, boot, media
    <2>4. SyncTypes' /\ SyncApart'
          BY <2>1, <2>3, <1>1 DEF SyncTypes, SyncApart, IsMigrating
    <2>5. ASSUME NEW x \in Source, NEW f \in File, Kept({f}, FALSE, x)
          PROVE  Kept({f}, FALSE, x)'
      <3>1. UNCHANGED media /\ wpc' = wpc /\ active' = active /\ todo' = todo
            BY <2>1 DEF vars, running, thread
      <3> QED BY <3>1, <2>5, KeptElsewhere
    <2>6. HistoryKept'
      <3>1. \A x \in Source : All(x) \subseteq File
            BY <1>1 DEF SyncTypes
      <3> QED BY <2>1, <2>5, <3>1 DEF HistoryKept
    <2> QED BY <2>2, <2>4, <2>6 DEF OverlapInv
  <1>c. ASSUME NEW s \in syncing
        PROVE  /\ s \in Source /\ ~Moving(s) /\ ~Halfway(s)
               /\ wpc = "copy" => active.source # s
               /\ Content(s, root[s]) \in SUBSET File
    <2>1. s \in Source /\ ~IsMigrating(s)
          BY <1>1, <1>c DEF SyncTypes, SyncApart
    <2>2. wpc = "copy" => active # None
          BY <1>1 DEF TypeOK
    <2>3. disk \in Disk /\ root[s] \in Folder
          BY <1>1, <2>1 DEF TypeOK, Disk, Folder
    <2>4. Content(s, root[s]) \in SUBSET File
          BY <2>1, <2>3, FolderContent DEF Content, Exists
    <2> QED BY <2>1, <2>2, <2>4 DEF IsMigrating, Moving, Halfway
  \* What is in its folder is kept, while the profile is not moved.
  <1>d. ASSUME NEW s \in Source, ~Halfway(s), ~Moving(s), NEW f \in Content(s, root[s])
        PROVE  Kept({f}, FALSE, s)
        BY <1>d DEF Kept, Holds
  <1>3. ASSUME NEW s \in Source, ResolveFolder(s) PROVE OverlapInv' /\ HistoryKept'
    <2> DEFINE content == Content(s, root[s])
    <2>1. /\ s \in syncing /\ disk' = Put(s, root[s], content)
          /\ UNCHANGED <<waiting, running, wpc, todo, outcome, table, boot, root, syncing, fetched>>
          /\ target' = [target EXCEPT ![s] = root[s]]
          /\ ledger' = ledger \/ ledger' = [ledger EXCEPT ![s] = content]
          BY <1>3 DEF ResolveFolder, thread
    <2>2. content \in SUBSET File /\ ~Moving(s) /\ ~Halfway(s)
          BY <2>1, <1>c
    <2>3. Content(s, root[s]) \subseteq content
          OBVIOUS
    <2> HIDE DEF content
    <2>4. TypeInv' /\ NewApart' /\ Mirrored'
          BY <2>1, <2>2, TypesGrow
    <2>5. SyncTypes'
          BY <1>1, <2>1, <2>2 DEF SyncTypes
    <2>6. SyncApart'
          BY <1>1, <2>1 DEF SyncTypes, SyncApart, IsMigrating, waiting, running, boot
    <2>7. ASSUME NEW x \in Source, NEW f \in File, Kept({f}, FALSE, x)
          PROVE  Kept({f}, FALSE, x)'
          BY <2>1, <2>2, <2>3, <2>7, KeptGrow
    <2>8. HistoryKept'
      <3>1. SUFFICES ASSUME ~spoiled', NEW x \in Source, NEW f \in (ledger'[x] \cup fetched'[x])
                     PROVE  Kept({f}, FALSE, x)'
            BY DEF HistoryKept
      <3>2. f \in All(x) \/ (x = s /\ f \in content)
            BY <1>1, <2>1, <3>1 DEF SyncTypes
      <3>3. Kept({f}, FALSE, x)
        <4>1. CASE f \in All(x)
              BY <3>1, <4>1 DEF HistoryKept
        <4>2. CASE x = s /\ f \in content
              BY <4>2, <2>2, <1>d DEF content
        <4> QED BY <3>2, <4>1, <4>2
      <3>4. f \in File
            BY <3>2, <2>2, <1>1 DEF SyncTypes
      <3> QED BY <3>3, <3>4, <2>7
    <2> QED BY <2>4, <2>5, <2>6, <2>8 DEF OverlapInv
  <1>4. ASSUME NEW s \in Source, NEW g \in File, SaveFile(s, g) PROVE OverlapInv' /\ HistoryKept'
    <2> DEFINE content == Content(s, root[s]) \cup {g}
    <2>1. s \in syncing /\ target[s] = root[s] /\ target[s] # None
          BY <1>1, <1>4 DEF SaveFile, SyncApart
    <2>2. ~Moving(s) /\ ~Halfway(s) /\ content \in SUBSET File
          BY <2>1, <1>c
    <2>3. /\ disk' = Put(s, root[s], content) /\ todo' = todo
          /\ UNCHANGED <<waiting, running, wpc, todo, outcome, table, boot, root, syncing, ledger>>
          /\ fetched' = [fetched EXCEPT ![s] = @ \cup {g}] /\ target' = target
          BY <1>4, <1>c, <2>1 DEF SaveFile
    <2>4. Content(s, root[s]) \subseteq content /\ g \in content
          OBVIOUS
    <2>5. content # Missing
          BY <2>2, MoveAssumption
    <2> HIDE DEF content
    <2>6. TypeInv' /\ NewApart' /\ Mirrored'
          BY <2>3, <2>2, TypesGrow
    <2>7. SyncTypes' /\ SyncApart'
          BY <1>1, <2>3 DEF SyncTypes, SyncApart, IsMigrating, waiting, running, boot
    <2>8. ASSUME NEW x \in Source, NEW f \in File, Kept({f}, FALSE, x)
          PROVE  Kept({f}, FALSE, x)'
          BY <2>2, <2>3, <2>4, <2>8, KeptGrow
    <2>9. Kept({g}, FALSE, s)'
      <3>1. disk'[s][root[s]] = content
        <4>1. disk \in Disk /\ root[s] \in Folder
              BY <1>1 DEF TypeOK, Disk, Folder
        <4>2. content \in (SUBSET File) \cup {Missing}
              BY <2>2
        <4> QED BY <2>3, <4>1, <4>2, PutSpec
      <3>2. ~Moving(s)' /\ ~Halfway(s)' /\ root' = root
            BY <2>2, <2>3 DEF Moving, Halfway, running
      <3>3. g \in Content(s, root[s])'
            BY <2>4, <2>5, <3>1, <3>2 DEF Content, Exists
      <3> QED BY <3>2, <3>3 DEF Kept, Holds
    <2>10. HistoryKept'
      <3>1. SUFFICES ASSUME ~spoiled', NEW x \in Source, NEW f \in (ledger'[x] \cup fetched'[x])
                     PROVE  Kept({f}, FALSE, x)'
            BY DEF HistoryKept
      <3>2. f \in All(x) \/ (x = s /\ f = g)
            BY <1>1, <2>3, <3>1 DEF SyncTypes
      <3>3. CASE f \in All(x)
        <4>1. Kept({f}, FALSE, x) /\ f \in File
              BY <3>1, <3>3, <1>1 DEF HistoryKept, SyncTypes
        <4> QED BY <4>1, <2>8
      <3> QED BY <3>2, <3>3, <2>9
    <2> QED BY <2>6, <2>7, <2>10 DEF OverlapInv
  <1>5. ASSUME NEW s \in Source, EndSync(s) PROVE OverlapInv' /\ HistoryKept'
    <2>1. /\ UNCHANGED vars /\ syncing' = syncing \ {s}
          /\ target' = [target EXCEPT ![s] = None]
          /\ ledger' = [ledger EXCEPT ![s] = @ \cup fetched[s]]
          /\ fetched' = [fetched EXCEPT ![s] = {}]
          BY <1>5 DEF EndSync
    <2>2. TypeInv' /\ NewApart' /\ Mirrored'
          BY <2>1, TypeStep, NewApartStep, MirroredStep DEF OverlapInv
    <2>3. ids' = ids /\ active' = active /\ restore' = restore /\ root' = root
          BY <2>1 DEF vars, waiting, running, boot, media
    <2>4. SyncTypes' /\ SyncApart'
          BY <2>1, <2>3, <1>1 DEF SyncTypes, SyncApart, IsMigrating
    <2>5. \A x \in Source : ledger'[x] \cup fetched'[x] \subseteq All(x)
          BY <2>1, <1>1 DEF SyncTypes
    <2>6. ASSUME NEW x \in Source, NEW f \in File, Kept({f}, FALSE, x)
          PROVE  Kept({f}, FALSE, x)'
      <3>1. UNCHANGED media /\ wpc' = wpc /\ active' = active /\ todo' = todo
            BY <2>1 DEF vars, running, thread
      <3> QED BY <3>1, <2>6, KeptElsewhere
    <2>7. HistoryKept'
      <3>1. \A x \in Source : All(x) \subseteq File
            BY <1>1 DEF SyncTypes
      <3> QED BY <2>5, <2>6, <3>1 DEF HistoryKept
    <2> QED BY <2>2, <2>4, <2>7 DEF OverlapInv
  <1> QED BY <1>2, <1>3, <1>4, <1>5 DEF SyncStep

LEMMA MoveKeepsHistory ==
    ASSUME OverlapInv, HistoryKept, MigrationCall \/ MigrationStep,
           spoiled' = (spoiled \/ (Halved /\ (outcome' = "error" \/ restarts' # restarts)))
    PROVE  HistoryKept'
  <1>1. Call \/ UnpersistStep \/ WorkerStep \/ BootStep
        BY DEF MigrationCall, MigrationStep, Call
  <1>2. ledger' = ledger /\ fetched' = fetched
        BY DEF MigrationCall, MigrationStep, sync
  <1>3. SUFFICES ASSUME ~spoiled', NEW s \in Source, NEW f \in ledger[s] \cup fetched[s]
                 PROVE  Kept({f}, FALSE, s)'
        BY <1>2 DEF HistoryKept
  <1>4. Kept({f}, FALSE, s) /\ f \in File
        BY <1>3 DEF HistoryKept, OverlapInv, SyncTypes
  <1>5. ~(Halfway(s) /\ GiveUp)
        BY <1>3 DEF GiveUp, Return, Halfway
  <1> QED BY <1>1, <1>4, <1>5, KeptStep DEF OverlapInv

LEMMA RestartKeepsHistory ==
    ASSUME OverlapInv, HistoryKept, RestartBesideSync, restarts \in Nat,
           spoiled' = (spoiled \/ (Halved /\ (outcome' = "error" \/ restarts' # restarts)))
    PROVE  OverlapInv' /\ HistoryKept'
  <1>1. /\ [Next]_vars /\ Restart /\ ledger' = ledger /\ syncing' = {}
        /\ target' = [s \in Source |-> None] /\ fetched' = [s \in Source |-> {}]
        BY DEF RestartBesideSync, Next
  <1>2. TypeInv' /\ NewApart' /\ Mirrored'
        BY <1>1, TypeStep, NewApartStep, MirroredStep DEF OverlapInv
  <1>3. SyncTypes' /\ SyncApart'
        BY <1>1 DEF OverlapInv, SyncTypes, SyncApart
  <1>4. ASSUME ~spoiled', NEW s \in Source, NEW f \in ledger'[s] \cup fetched'[s]
        PROVE  Kept({f}, FALSE, s)'
    <2>1. f \in ledger[s]
          BY <1>1, <1>4
    <2>2. Kept({f}, FALSE, s) /\ f \in File
          BY <1>4, <2>1 DEF HistoryKept, OverlapInv, SyncTypes
    <2>3. ~Halved
      <3>1. restarts' # restarts
            BY DEF RestartBesideSync
      <3>2. Halved => spoiled'
            BY <3>1
      <3> QED BY <3>2, <1>4
    <2> QED BY <1>1, <2>2, <2>3, KeptRestart DEF Halfway
  <1> QED BY <1>2, <1>3, <1>4 DEF OverlapInv, HistoryKept

LEMMA OverlapStutter == OverlapInv /\ HistoryKept /\ UNCHANGED overlap_vars => OverlapInv' /\ HistoryKept'
  <1> SUFFICES ASSUME OverlapInv, HistoryKept, UNCHANGED overlap_vars
               PROVE  OverlapInv' /\ HistoryKept'
      OBVIOUS
  <1>1. UNCHANGED vars /\ UNCHANGED sync /\ spoiled' = spoiled
        BY DEF overlap_vars, allvars
  <1>2. TypeInv' /\ NewApart' /\ Mirrored'
        BY <1>1, TypeStep, NewApartStep, MirroredStep DEF OverlapInv
  <1>3. SyncTypes' /\ SyncApart'
        BY <1>1 DEF OverlapInv, SyncTypes, SyncApart, IsMigrating, vars, sync, waiting, running,
                    boot, media
  <1>4. ASSUME NEW s \in Source, NEW f \in File, Kept({f}, FALSE, s)
        PROVE  Kept({f}, FALSE, s)'
    <2>1. UNCHANGED media /\ wpc' = wpc /\ active' = active /\ todo' = todo
          BY <1>1 DEF vars, running, thread
    <2> QED BY <2>1, <1>4, KeptElsewhere
  <1>5. \A s \in Source : ledger[s] \cup fetched[s] \subseteq File
        BY DEF OverlapInv, SyncTypes
  <1> QED BY <1>1, <1>2, <1>3, <1>4, <1>5 DEF OverlapInv, HistoryKept, sync

LEMMA OverlapStep ==
    ASSUME Careful
    PROVE  OverlapInv /\ HistoryKept /\ restarts \in Nat /\ [OverlapNext]_overlap_vars
            => (OverlapInv /\ HistoryKept /\ restarts \in Nat)'
  <1> SUFFICES ASSUME OverlapInv, HistoryKept, restarts \in Nat, [OverlapNext]_overlap_vars
               PROVE  (OverlapInv /\ HistoryKept /\ restarts \in Nat)'
      OBVIOUS
  <1>1. CASE UNCHANGED overlap_vars
        BY <1>1, OverlapStutter DEF overlap_vars, budget
  <1>2. CASE OverlapNext
    <2>1. spoiled' = (spoiled \/ (Halved /\ (outcome' = "error" \/ restarts' # restarts)))
          BY <1>2 DEF OverlapNext
    <2>2. CASE SyncStep /\ UNCHANGED budget
          BY <2>1, <2>2, SyncKeeps DEF budget
    <2>3. CASE (MigrationCall \/ MigrationStep) /\ UNCHANGED budget
          BY <2>1, <2>3, MoveBesideSync, MoveKeepsHistory DEF budget
    <2>4. CASE RestartBesideSync
      <3>1. restarts' \in Nat
            BY <2>4 DEF RestartBesideSync
      <3> QED BY <2>1, <2>4, <3>1, RestartKeepsHistory
    <2> QED BY <1>2, <2>2, <2>3, <2>4 DEF OverlapNext
  <1> QED BY <1>1, <1>2

\* While only profiles without a sync are moved, every download stays where
\* the database says, beside its record in the ledger, whatever fails, is
\* cancelled or cut off, but for a move given up or cut off after its promotion.
THEOREM DownloadsStayWithLedger ==
    ASSUME Careful
    PROVE  OverlapSpec => []HistoryUntilSpoiled
  <1>1. OverlapInit => OverlapInv /\ HistoryKept /\ restarts \in Nat
        BY OverlapInvInit DEF OverlapInit, MCInit
  <1>2. HistoryKept => HistoryUntilSpoiled
    <2>1. ASSUME NEW s \in Source, ~IsMigrating(s), NEW f \in ledger[s], Kept({f}, FALSE, s)
          PROVE  f \in Content(s, root[s])
          BY <2>1 DEF Kept, Holds, Halfway, Moving, IsMigrating
    <2> QED BY <2>1 DEF HistoryKept, HistoryUntilSpoiled, HistoryConsistent
  <1> QED BY <1>1, <1>2, OverlapStep, PTL DEF OverlapSpec
-----------------------------------------------------------------------------
\* A sync beside the moves takes nothing from the copies.

LEMMA CopyBesideSync ==
    ASSUME Careful, OverlapInv, MoveInv, SyncStep
    PROVE  CompleteCopy' /\ CopyUnderWay' /\ OriginSpare'
  <1>1. CASE UNCHANGED vars
        BY <1>1, Undisturbed DEF vars, running, thread
  <1>2. ASSUME NEW x \in Source, ResolveFolder(x) \/ \E f \in File : SaveFile(x, f)
        PROVE  CompleteCopy' /\ CopyUnderWay' /\ OriginSpare'
    <2>1. x \in syncing /\ ~IsMigrating(x)
          BY <1>2 DEF ResolveFolder, SaveFile, OverlapInv, SyncApart
    <2>2. disk \in Disk /\ root \in [Source -> Place] /\ root[x] \in Folder
          BY DEF OverlapInv, TypeInv, TypeOK, Disk, Folder
    <2>3. Content(x, root[x]) \in SUBSET File
          BY <2>2, FolderContent DEF Content, Exists
    <2>4. PICK content \in SUBSET File :
              Content(x, root[x]) \subseteq content /\ disk' = Put(x, root[x], content)
          BY <1>2, <2>3 DEF ResolveFolder, SaveFile, OverlapInv, SyncApart
    <2>5. /\ disk'[x][root[x]] = content
          /\ \A t \in Source, e \in Folder : t # x \/ e # root[x] => disk'[t][e] = disk[t][e]
      <3>1. content \in (SUBSET File) \cup {Missing}
            OBVIOUS
      <3> QED BY <3>1, <2>2, <2>4, PutSpec
    <2>6. ASSUME NEW t \in Source, NEW d \in Place, Full(t, d) PROVE Full(t, d)'
      <3>1. CASE t = x /\ d = root[x]
            BY <2>4, <2>5, <2>6, <3>1, MoveAssumption DEF Full, Exists, Content
      <3>2. CASE ~(t = x /\ d = root[x])
        <4>1. d \in Folder
              BY DEF Folder
        <4> QED BY <4>1, <2>5, <2>6, <3>2 DEF Full, Exists
      <3> QED BY <3>1, <3>2
    <2>7. CompleteCopy'
          BY <2>6 DEF MoveInv, CompleteCopy
    <2>8. UNCHANGED <<active, root, wpc>> /\ (wpc = "copy" /\ active.source # x => todo' = todo)
          BY <1>2, <2>1 DEF ResolveFolder, SaveFile, running, thread
    <2>9. ASSUME wpc \in {"copy", "remove"}
          PROVE  /\ active.source \in Source /\ active.source # x
                 /\ Old' = Old /\ New' = New /\ Staging' = Staging
                 /\ Old \in Place /\ New \in Place /\ New \in Folder /\ Staging \in Folder
      <3>1. TypeOK /\ active # None
            BY <2>9 DEF OverlapInv, TypeInv, TypeOK
      <3> QED BY <3>1, <2>1, <2>8, <2>9, ActiveSpec DEF IsMigrating, Old, New, Staging
    <2>10. wpc \in {"copy", "remove"} /\ Spare => Spare'
          BY <2>6, <2>8, <2>9 DEF Spare
    <2>11. CopyUnderWay'
          BY <2>5, <2>6, <2>8, <2>9, <2>10 DEF MoveInv, CopyUnderWay, NewExists, Exists
    <2> QED BY <2>7, <2>8, <2>10, <2>11 DEF MoveInv, OriginSpare
  <1> QED BY <1>1, <1>2 DEF SyncStep, TakeSync, EndSync

\* With syncs beside the moves, too, some place always holds the whole library.
THEOREM CopyCompleteBesideSyncs ==
    ASSUME Careful
    PROVE  OverlapSpec => []CompleteCopy
  <1> DEFINE I == OverlapInv /\ HistoryKept /\ restarts \in Nat
  <1>1. OverlapInit => I /\ MoveInv
        BY OverlapInvInit, CompleteInit DEF OverlapInit, MCInit
  <1>2. I /\ MoveInv /\ [OverlapNext]_overlap_vars => I' /\ MoveInv'
    <2>1. SUFFICES ASSUME I, MoveInv, [OverlapNext]_overlap_vars PROVE I' /\ MoveInv'
          OBVIOUS
    <2>2. I'
          BY <2>1, OverlapStep
    <2>3. CASE SyncStep
          BY <2>1, <2>2, <2>3, CopyBesideSync DEF MoveInv, OverlapInv
    <2>4. CASE ~SyncStep
      <3>1. [Next]_vars
            BY <2>1, <2>2, <2>4 DEF OverlapNext, MigrationCall, MigrationStep, RestartBesideSync, Next,
                              Call, overlap_vars, allvars
      <3> QED BY <2>1, <2>2, <3>1, MoveInvStep
    <2> QED BY <2>3, <2>4
  <1>3. MoveInv => CompleteCopy
        BY DEF MoveInv
  <1> QED BY <1>1, <1>2, <1>3, PTL DEF OverlapSpec
=============================================================================
