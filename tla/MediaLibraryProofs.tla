-------------------------- MODULE MediaLibraryProofs ---------------------------
(***************************************************************************)
(* Theorems about the jobs that work on the media library: the index, for  *)
(* every set of files, number of workers, revisions and ways comparison    *)
(* may call for fingerprints; the cleanup, for every library, every bytes  *)
(* its files may have and all that a user may select; what a scan of the   *)
(* cleanup finds, for every library, every resemblance, and all that may   *)
(* change while scans go on.                                               *)
(***************************************************************************)
EXTENDS MediaIndex, MediaDedupe, DuplicateScan,
        FiniteSetTheorems, SequenceTheorems, WellFoundedInduction, TLAPS

-----------------------------------------------------------------------------
(***************************************************************************)
(* The index.                                                              *)
(***************************************************************************)

\* The invariant, in parts.

\* A thread works on an active run, and a run that ended found room to.
RunHasThread ==
    /\ at # "rest" => Active /\ ending < MaxEnding
    /\ Active => at # "rest" \/ refused

\* Revisions only grow: a hash is of a file at least as new as its row, and a
\* worker read one at least as new as the row its item was leased from.
FilesGrow == \A f \in IndexFile : on_disk[f] \in {None, newest[f]}

Bounded(row, n) ==
    /\ row.rev <= n
    /\ row.look # None => row.rev <= row.look /\ row.look <= n
    /\ row.exact # None => row.rev <= row.exact /\ row.exact <= n

RowBounds == \A f \in IndexFile : Bounded(rows_of[f], newest[f])

ItemBounds ==
    /\ \A i \in batch : i.rev <= newest[i.file]
    /\ \A r \in reading : r.bytes # None => r.item.rev <= r.bytes /\ r.bytes <= newest[r.item.file]

\* Items are of the phase at work.
PhaseItems ==
    /\ \A i \in batch : i.kind = at
    /\ \A r \in reading : r.item.kind = at

\* Which jobs may be leased or wait, by where the run is.
Leaseless(k) == \A f \in IndexFile : fjobs[<<f, k>>].status # "running"
Waitless(k) == retried \/ \A f \in IndexFile : fjobs[<<f, k>>].status # "queued"
Settled(k) == Leaseless(k) /\ Waitless(k)

LeasesEnd ==
    ~refused =>
        /\ at \in {"rest", "scan", "walk", "plan"} /\ recovered => \A k \in Kind : Leaseless(k)
        /\ at = "look" => Leaseless("exact")
        /\ at = "exact" /\ ~cancelled => Settled("look")
        /\ at = "wind up" /\ ~cancelled => \A k \in Kind : Settled(k)
        /\ at = "group" => \A k \in Kind : Leaseless(k)
        /\ at = "group" /\ ~cancelled => \A k \in Kind : Waitless(k)
        /\ run = "completed" => \A k \in Kind : Settled(k)

-----------------------------------------------------------------------------
\* Types and threads.

Typed == IndexTypeOK /\ RunHasThread

LEMMA TypedInitial == IndexInit => Typed
  <1> SUFFICES ASSUME IndexInit PROVE Typed
      OBVIOUS
  <1>1. /\ newest \in [IndexFile -> Rev] /\ on_disk \in [IndexFile -> Hash]
        BY IndexAssumption DEF IndexInit, Rev, Hash
  <1>2. rows_of \in [IndexFile -> IndexRow]
        BY DEF IndexInit, IndexRow, Hash
  <1>3. fjobs \in [IndexFile \X Kind -> FJob]
        BY DEF IndexInit, NoFJob, FJob, Hash
  <1>4. {token, cancelled, recovered, refused, retried} \subseteq BOOLEAN
        BY DEF IndexInit
  <1>5. ending \in 0..MaxEnding
        BY IndexAssumption DEF IndexInit
  <1> QED BY <1>1, <1>2, <1>3, <1>4, <1>5 DEF IndexInit, Typed, IndexTypeOK, RunHasThread, Active

LEMMA RunEnds ==
    ASSUME Typed, at # "rest", NEW s \in {"paused", "completed", "failed"}, EndRun(s)
    PROVE  /\ run' \in {"none", "running", "pausing", "paused", "completed", "failed"}
           /\ ending' \in 0..MaxEnding
           /\ at' = "rest"
           /\ UNCHANGED <<token, cancelled>>
           /\ RunHasThread'
  <1>1. ending \in 0..MaxEnding /\ ending < MaxEnding /\ MaxEnding \in Nat
        BY IndexAssumption DEF Typed, IndexTypeOK, RunHasThread
  <1>2. ending' \in 0..MaxEnding
        BY <1>1 DEF EndRun
  <1> QED BY <1>2 DEF EndRun, RunHasThread, Active

LEMMA RunGoesOn ==
    ASSUME Typed, at # "rest", NEW next \in {"walk", "plan", "look", "exact", "wind up", "group"},
           GoOn(next)
    PROVE  at' = next /\ UNCHANGED <<run, token, cancelled, ending>> /\ RunHasThread'
  BY DEF Typed, GoOn, runtime, RunHasThread, Active

\* A run changes its status, its place and its tokens only.
LEMMA RuntimeSteps ==
    ASSUME Typed,
           \/ StartScan \/ ResumeFingerprints \/ PauseRun \/ DropToken
           \/ SkipWalk \/ PlanFails
    PROVE  Typed'
  <1> USE DEF Typed, files, catalog, runtime, work
  <1>1. CASE StartScan \/ ResumeFingerprints
        BY <1>1 DEF IndexTypeOK, RunHasThread, Active, StartScan, ResumeFingerprints, StartRun
  <1>2. CASE PauseRun
        BY <1>2 DEF IndexTypeOK, RunHasThread, Active, PauseRun
  <1>3. CASE DropToken
    <2>1. ending \in 0..MaxEnding /\ MaxEnding \in Nat
          BY IndexAssumption DEF IndexTypeOK
    <2>2. ending' \in 0..MaxEnding /\ ending' < ending
          BY <1>3, <2>1 DEF DropToken
    <2>3. ending < MaxEnding => ending' < MaxEnding
          BY <2>1, <2>2
    <2> QED BY <1>3, <2>2, <2>3 DEF DropToken, IndexTypeOK, RunHasThread, Active
  <1>4. CASE SkipWalk
    <2>1. CASE EndRun("paused")
          BY <1>4, <2>1, RunEnds DEF SkipWalk, IndexTypeOK
    <2>2. CASE GoOn("plan")
          BY <1>4, <2>2, RunGoesOn DEF SkipWalk, IndexTypeOK
    <2> QED BY <1>4, <2>1, <2>2 DEF SkipWalk
  <1>5. CASE PlanFails
    <2>1. EndRun("failed") /\ at # "rest"
          BY <1>5 DEF PlanFails
    <2> QED BY <1>5, <2>1, RunEnds DEF PlanFails, IndexTypeOK
  <1> QED BY <1>1, <1>2, <1>3, <1>4, <1>5

LEMMA WalkSteps ==
    ASSUME Typed,
           \/ WalkFolder \/ WalkFails
           \/ \E f \in IndexFile : IndexOne(f)
           \/ \E inherit \in SUBSET IndexFile : WalkEnds(inherit)
    PROVE  Typed'
  <1> USE DEF Typed, files, catalog, runtime, work
  <1>1. CASE WalkFolder
    <2>1. GoOn("walk") /\ at # "rest"
          BY <1>1 DEF WalkFolder
    <2> QED BY <1>1, <2>1, RunGoesOn DEF WalkFolder, IndexTypeOK
  <1>2. CASE WalkFails
    <2>1. CASE EndRun("paused")
          BY <1>2, <2>1, RunEnds DEF WalkFails, IndexTypeOK
    <2>2. CASE GoOn("plan")
          BY <1>2, <2>2, RunGoesOn DEF WalkFails, IndexTypeOK
    <2> QED BY <1>2, <2>1, <2>2 DEF WalkFails
  <1>3. CASE \E f \in IndexFile : IndexOne(f)
    <2>1. PICK f \in IndexFile : IndexOne(f)
          BY <1>3
    <2>2. rows_of' \in [IndexFile -> IndexRow]
          BY <2>1, ZenonT(60) DEF IndexTypeOK, IndexOne, IndexRow, Hash
    <2> QED BY <2>1, <2>2 DEF IndexOne, IndexTypeOK, RunHasThread, Active
  <1>4. CASE \E inherit \in SUBSET IndexFile : WalkEnds(inherit)
    <2>1. PICK inherit \in SUBSET IndexFile : WalkEnds(inherit)
          BY <1>4
    <2>2. rows_of' \in [IndexFile -> IndexRow]
      <3>1. \A f \in IndexFile : AfterWalk(f) \in IndexRow
            BY DEF IndexTypeOK, AfterWalk, IndexRow
      <3>2. \A f \in IndexFile, row \in IndexRow, looks \in BOOLEAN : Inherits(f, row, looks) \in IndexRow
            BY DEF Inherits, IndexRow, Hash
      <3> QED BY <2>1, <3>1, <3>2 DEF WalkEnds
    <2>3. CASE EndRun("paused")
          BY <2>1, <2>2, <2>3, RunEnds DEF WalkEnds, IndexTypeOK
    <2>4. CASE GoOn("plan")
          BY <2>1, <2>2, <2>4, RunGoesOn DEF WalkEnds, IndexTypeOK
    <2> QED BY <2>1, <2>3, <2>4 DEF WalkEnds
  <1> QED BY <1>1, <1>2, <1>3, <1>4

LEMMA JobKey ==
    ASSUME NEW j \in IndexFile \X Kind
    PROVE  j[1] \in IndexFile /\ j[2] \in Kind /\ j = <<j[1], j[2]>>
  OBVIOUS

LEMMA PlanSteps ==
    ASSUME Typed, NEW eligible \in Eligibles, PlanJobs(eligible)
    PROVE  Typed'
  <1> USE DEF Typed, files, catalog, runtime, work
  <1>1. \A row \in IndexRow : row.rev \in Hash /\ row.look \in Hash /\ row.exact \in Hash
        BY DEF IndexRow
  <1>2. \A j \in FJob : /\ j.status \in {"none", "queued", "running", "complete", "failed"}
                          /\ j.attempts \in 0..2 /\ j.expected \in Hash
        BY DEF FJob
  <1>3. \A j \in DOMAIN fjobs : j \in IndexFile \X Kind /\ j[1] \in IndexFile /\ fjobs[j] \in FJob
    <2>1. DOMAIN fjobs = IndexFile \X Kind /\ fjobs \in [IndexFile \X Kind -> FJob]
          BY DEF IndexTypeOK
    <2> QED BY <2>1, JobKey
  <1>4. \A j \in FJob, row \in IndexRow, k \in Kind : Planned(j, row, k) \in FJob
        BY <1>1, <1>2 DEF Planned, FJob
  <1>5. NoFJob \in FJob
        BY DEF NoFJob, FJob, Hash
  <1>6. fjobs' \in [IndexFile \X Kind -> FJob]
        BY <1>3, <1>4, <1>5 DEF PlanJobs, IndexTypeOK
  <1>7. rows_of' \in [IndexFile -> IndexRow]
    <2>1. \A f \in IndexFile, s \in {"pending", "failed", "complete"} :
              [rows_of[f] EXCEPT !.state = s] \in IndexRow
          BY DEF IndexTypeOK, IndexRow
    <2> QED BY <2>1 DEF PlanJobs, Refreshed, IndexTypeOK
  <1>8. GoOn("look") /\ at # "rest"
        BY DEF PlanJobs
  <1> QED BY <1>6, <1>7, <1>8, RunGoesOn DEF PlanJobs, IndexTypeOK

LEMMA PhaseSteps ==
    ASSUME Typed,
           \/ LeaseBatch \/ PhaseStops
           \/ \E i \in batch : ReadItem(i)
           \/ \E r \in reading : StoreHash(r) \/ FailHash(r) \/ LeaveItem(r)
    PROVE  Typed'
  <1> USE DEF Typed, files, catalog, runtime, work
  <1>1. at \in Kind => AfterPhase(at) \in {"exact", "wind up"} /\ at # "rest"
        BY DEF Kind, AfterPhase
  <1>2. DOMAIN fjobs = IndexFile \X Kind /\ fjobs \in [IndexFile \X Kind -> FJob]
        BY DEF IndexTypeOK
  <1>3. \A j \in FJob :
            /\ TakenUp(j) \in FJob
            /\ \A s \in {"queued", "running", "complete", "failed"} : [j EXCEPT !.status = s] \in FJob
    <2>1. \A n \in 0..2 : (IF n < 2 THEN n + 1 ELSE 2) \in 0..2
          OBVIOUS
    <2> QED BY <2>1 DEF FJob, TakenUp
  <1>4. CASE LeaseBatch
    <2>1. fjobs' \in [IndexFile \X Kind -> FJob]
          BY <1>2, <1>3, <1>4 DEF LeaseBatch
    <2>2. batch' \subseteq Item
      <3>1. \A j \in IndexFile \X Kind : rows_of[j[1]].rev \in Hash
            BY JobKey DEF IndexTypeOK, IndexRow
      <3>2. batch' = Leased(fjobs')
            BY <1>4 DEF LeaseBatch
      <3>3. SUFFICES ASSUME NEW x \in Leased(fjobs') PROVE x \in Item
            BY <3>2
      <3>4. PICK j \in IndexFile \X Kind :
               x = [file |-> j[1], kind |-> j[2], rev |-> rows_of[j[1]].rev,
                    also |-> fjobs'[<<j[1], "exact">>].status \in {"queued", "running"}]
            BY <2>1, <3>3 DEF Leased
      <3> QED BY <3>1, <3>4, JobKey DEF Item
    <2>3. CASE GoOn(AfterPhase(at))
          BY <1>1, <1>4, <2>1, <2>2, <2>3, RunGoesOn DEF LeaseBatch, IndexTypeOK
    <2>4. CASE UNCHANGED <<at, runtime>>
          BY <1>4, <2>1, <2>2, <2>4 DEF LeaseBatch, IndexTypeOK, RunHasThread, Active
    <2> QED BY <1>4, <2>3, <2>4 DEF LeaseBatch
  <1>5. CASE PhaseStops
    <2>1. GoOn(AfterPhase(at)) /\ at \in Kind
          BY <1>5 DEF PhaseStops
    <2> QED BY <1>1, <1>5, <2>1, RunGoesOn DEF PhaseStops, IndexTypeOK
  <1>6. CASE \E i \in batch : ReadItem(i)
    <2>1. PICK i \in batch : ReadItem(i)
          BY <1>6
    <2>2. i \in Item /\ i.file \in IndexFile /\ on_disk[i.file] \in Hash
          BY DEF IndexTypeOK, Item
    <2>3. reading' \subseteq Result /\ batch' \subseteq Item
      <3>1. [item |-> i, bytes |-> on_disk[i.file]] \in Result
            BY <2>2 DEF Result
      <3> QED BY <2>1, <3>1 DEF ReadItem, IndexTypeOK
    <2> QED BY <2>1, <2>3 DEF ReadItem, IndexTypeOK, RunHasThread, Active
  <1>7. CASE \E r \in reading : StoreHash(r) \/ FailHash(r) \/ LeaveItem(r)
    <2>1. PICK r \in reading : StoreHash(r) \/ FailHash(r) \/ LeaveItem(r)
          BY <1>7
    <2>2. /\ r \in Result /\ r.item \in Item /\ r.item.file \in IndexFile /\ r.item.kind \in Kind
          /\ r.bytes \in Hash /\ on_disk[r.item.file] \in Hash /\ rows_of[r.item.file] \in IndexRow
          /\ <<r.item.file, r.item.kind>> \in IndexFile \X Kind
          BY DEF IndexTypeOK, Item, Result
    <2>3. fjobs' \in [IndexFile \X Kind -> FJob]
      <3>1. CASE StoreHash(r)
        <4>1. CASE rows_of[r.item.file].rev = r.item.rev
          <5> DEFINE done == {<<r.item.file, r.item.kind>>}
                                \cup (IF r.item.also THEN {<<r.item.file, "exact">>} ELSE {})
          <5>1. fjobs' = [j \in DOMAIN fjobs |->
                   IF j \in done THEN [fjobs[j] EXCEPT !.status = "complete"] ELSE fjobs[j]]
                BY <3>1, <4>1 DEF StoreHash
          <5> HIDE DEF done
          <5> QED BY <1>2, <1>3, <5>1
        <4>2. CASE rows_of[r.item.file].rev # r.item.rev
          <5>1. fjobs' = [fjobs EXCEPT ![<<r.item.file, r.item.kind>>].status = "queued"]
                BY <3>1, <4>2 DEF StoreHash
          <5> QED BY <1>2, <1>3, <2>2, <5>1
        <4> QED BY <4>1, <4>2
      <3>2. CASE FailHash(r)
            BY <1>2, <1>3, <2>2, <3>2 DEF FailHash
      <3>3. CASE LeaveItem(r)
            BY <1>2, <3>3 DEF LeaveItem
      <3> QED BY <2>1, <3>1, <3>2, <3>3
    <2>4. rows_of' \in [IndexFile -> IndexRow]
      <3>1. CASE StoreHash(r)
        <4>1. AlsoBytes(r) \in Hash
              BY <2>2 DEF AlsoBytes
        <4>2. Stored(rows_of[r.item.file], r) \in IndexRow
              BY <2>2, <4>1 DEF Stored, IndexRow
        <4> QED BY <2>2, <3>1, <4>2 DEF StoreHash, IndexTypeOK
      <3>2. CASE FailHash(r) \/ LeaveItem(r)
            BY <3>2 DEF FailHash, LeaveItem, IndexTypeOK
      <3> QED BY <2>1, <3>1, <3>2
    <2>5. SettleItem(r) /\ refused' \in BOOLEAN
          BY <2>1 DEF StoreHash, FailHash, LeaveItem, IndexTypeOK
    <2>6. reading' \subseteq Result
          BY <2>5 DEF SettleItem, IndexTypeOK
    <2>7. {token', cancelled', recovered', refused', retried'} \subseteq BOOLEAN
          BY <2>5 DEF SettleItem, IndexTypeOK
    <2>8. refused => refused'
          BY <2>1 DEF StoreHash, FailHash, LeaveItem
    <2> QED BY <2>3, <2>4, <2>5, <2>6, <2>7, <2>8 DEF SettleItem, IndexTypeOK, RunHasThread, Active
  <1> QED BY <1>4, <1>5, <1>6, <1>7

LEMMA OtherSteps ==
    ASSUME Typed,
           \/ WindUp \/ GroupAndEnd \/ RetryFailed \/ IndexDies \/ RecoverRuns
           \/ \E f \in IndexFile : WriteIndexed(f) \/ RemoveIndexed(f)
    PROVE  Typed'
  <1> USE DEF Typed, files, catalog, runtime, work
  <1>1. \A j \in FJob : /\ [j EXCEPT !.status = "queued"] \in FJob
                          /\ [j EXCEPT !.status = "queued", !.attempts = 0] \in FJob
    <2>1. 0 \in 0..2
          OBVIOUS
    <2> QED BY <2>1 DEF FJob
  <1>2. /\ DOMAIN fjobs = IndexFile \X Kind /\ fjobs \in [IndexFile \X Kind -> FJob]
        /\ \A f \in IndexFile, s \in {"pending", "failed", "complete"} :
              [rows_of[f] EXCEPT !.state = s] \in IndexRow
        BY DEF IndexTypeOK, IndexRow
  <1>3. CASE WindUp
    <2>1. fjobs' \in [IndexFile \X Kind -> FJob]
          BY <1>1, <1>2, <1>3 DEF WindUp
    <2>2. refused' \in BOOLEAN /\ at # "rest"
          BY <1>3 DEF WindUp, IndexTypeOK
    <2>3. CASE EndRun("paused")
          BY <1>3, <2>1, <2>2, <2>3, RunEnds DEF WindUp, IndexTypeOK
    <2>4. CASE GoOn("group")
          BY <1>3, <2>1, <2>2, <2>4, RunGoesOn DEF WindUp, IndexTypeOK
    <2> QED BY <1>3, <2>3, <2>4 DEF WindUp
  <1>4. CASE GroupAndEnd
    <2>1. rows_of' \in [IndexFile -> IndexRow]
      <3>1. Refreshed(rows_of, fjobs) \in [IndexFile -> IndexRow]
            BY <1>2 DEF Refreshed, IndexTypeOK
      <3> QED BY <1>4, <3>1 DEF GroupAndEnd, IndexTypeOK
    <2>2. refused' \in BOOLEAN /\ at # "rest"
          BY <1>4 DEF GroupAndEnd, IndexTypeOK
    <2>3. PICK s \in {"paused", "completed", "failed"} : EndRun(s)
          BY <1>4 DEF GroupAndEnd
    <2> QED BY <1>4, <2>1, <2>2, <2>3, RunEnds DEF GroupAndEnd, IndexTypeOK
  <1>5. CASE RetryFailed
    <2>1. fjobs' \in [IndexFile \X Kind -> FJob]
          BY <1>1, <1>2, <1>5 DEF RetryFailed
    <2> QED BY <1>5, <2>1 DEF RetryFailed, IndexTypeOK, RunHasThread, Active
  <1>6. CASE IndexDies
    <2>1. 0 \in 0..MaxEnding
          BY IndexAssumption
    <2> QED BY <1>6, <2>1 DEF IndexDies, IndexTypeOK, RunHasThread, Active
  <1>7. CASE RecoverRuns
    <2>1. fjobs' \in [IndexFile \X Kind -> FJob]
          BY <1>1, <1>2, <1>7 DEF RecoverRuns
    <2>2. CASE UNCHANGED refused
          BY <1>7, <2>1, <2>2 DEF RecoverRuns, IndexTypeOK, RunHasThread, Active
    <2>3. CASE refused' = TRUE
          BY <1>7, <2>1, <2>3 DEF RecoverRuns, IndexTypeOK, RunHasThread, Active
    <2> QED BY <1>7, <2>2, <2>3 DEF RecoverRuns
  <1>8. CASE \E f \in IndexFile : WriteIndexed(f) \/ RemoveIndexed(f)
    <2>1. PICK f \in IndexFile : WriteIndexed(f) \/ RemoveIndexed(f)
          BY <1>8
    <2>2. newest' \in [IndexFile -> Rev] /\ on_disk' \in [IndexFile -> Hash]
      <3>1. newest[f] \in Rev /\ newest \in [IndexFile -> Rev] /\ on_disk \in [IndexFile -> Hash]
            BY DEF IndexTypeOK
      <3>2. newest[f] < MaxRev => newest[f] + 1 \in Rev
            BY <3>1, IndexAssumption DEF Rev
      <3>3. None \in Hash /\ Rev \subseteq Hash
            BY DEF Hash
      <3> HIDE DEF Rev, Hash
      <3> QED BY <2>1, <3>1, <3>2, <3>3 DEF WriteIndexed, RemoveIndexed
    <2> QED BY <2>1, <2>2 DEF WriteIndexed, RemoveIndexed, IndexTypeOK, RunHasThread, Active
  <1> QED BY <1>3, <1>4, <1>5, <1>6, <1>7, <1>8

LEMMA TypedStep == Typed /\ [IndexNext]_index_vars => Typed'
  <1> SUFFICES ASSUME Typed, [IndexNext]_index_vars PROVE Typed'
      OBVIOUS
  <1>1. CASE UNCHANGED index_vars
        BY <1>1 DEF Typed, IndexTypeOK, RunHasThread, Active, index_vars, files, catalog, runtime, work
  <1>2. CASE IndexNext
        BY <1>2, RuntimeSteps, WalkSteps, PlanSteps, PhaseSteps, OtherSteps DEF IndexNext, RunStep
  <1> QED BY <1>1, <1>2

\* Every variable of the index keeps its type; in particular no job counts more
\* than two attempts, and runs that ended never outnumber the bound.
THEOREM IndexTypeCorrect == IndexSpec => []IndexTypeOK
  <1>1. Typed => IndexTypeOK
        BY DEF Typed
  <1> QED BY <1>1, TypedInitial, TypedStep, PTL DEF IndexSpec

\* However starts, pauses, failures, ends and deaths interleave, a run counts as
\* active exactly while a thread works on it, or the database refused its row
\* (install_run, complete_run).
THEOREM ActiveRunAlwaysHasThread == IndexSpec => []ActiveRunHasThread
  <1>1. Typed => ActiveRunHasThread
        BY DEF Typed, RunHasThread, ActiveRunHasThread
  <1> QED BY <1>1, TypedInitial, TypedStep, PTL DEF IndexSpec

-----------------------------------------------------------------------------
\* Hashes.

Bounds == FilesGrow /\ RowBounds /\ ItemBounds

LEMMA BoundsInitial == IndexInit => Bounds
  BY IndexAssumption DEF IndexInit, Bounds, FilesGrow, RowBounds, Bounded, ItemBounds, Hash, Rev, None

\* The files and rows the bounds speak of, by their types.
LEMMA Revisions ==
    ASSUME IndexTypeOK
    PROVE  /\ \A f \in IndexFile : newest[f] \in Nat /\ on_disk[f] \in Nat /\ rows_of[f] \in IndexRow
           /\ \A row \in IndexRow : row.rev \in Nat /\ row.look \in Nat /\ row.exact \in Nat
           /\ \A i \in batch : i.file \in IndexFile /\ i.rev \in Nat
           /\ \A r \in reading : r.item.file \in IndexFile /\ r.item.rev \in Nat /\ r.bytes \in Nat
  <1>1. Hash \subseteq Nat /\ Rev \subseteq Nat
        BY IndexAssumption DEF Hash, Rev, None
  <1> QED BY <1>1 DEF IndexTypeOK, IndexRow, Item, Result

\* A file that is written gets a revision above all that were read of it.
LEMMA FileBounds ==
    ASSUME Typed, Bounds, NEW f \in IndexFile, WriteIndexed(f) \/ RemoveIndexed(f)
    PROVE  Bounds'
  <1>1. IndexTypeOK
        BY DEF Typed
  <1>2. /\ newest' \in [IndexFile -> Nat] /\ UNCHANGED <<rows_of, batch, reading>>
        /\ \A g \in IndexFile : newest[g] <= newest'[g]
    <2>1. newest \in [IndexFile -> Nat]
          BY <1>1, Revisions DEF IndexTypeOK
    <2> QED BY <2>1 DEF WriteIndexed, RemoveIndexed, catalog, work
  <1>3. FilesGrow'
        BY <1>1 DEF WriteIndexed, RemoveIndexed, Bounds, FilesGrow, IndexTypeOK
  <1>4. RowBounds'
    <2>1. SUFFICES ASSUME NEW g \in IndexFile PROVE Bounded(rows_of[g], newest'[g])
          BY <1>2 DEF RowBounds
    <2>2. rows_of[g] \in IndexRow /\ newest[g] \in Nat /\ newest'[g] \in Nat /\ newest[g] <= newest'[g]
          BY <1>1, <1>2, Revisions
    <2>3. Bounded(rows_of[g], newest[g])
          BY DEF Bounds, RowBounds
    <2> QED BY <1>1, <2>2, <2>3, Revisions DEF Bounded
  <1>5. ItemBounds'
    <2>1. \A i \in batch : i.rev <= newest'[i.file]
      <3>1. TAKE i \in batch
      <3>2. i.file \in IndexFile /\ i.rev \in Nat /\ i.rev <= newest[i.file]
            BY <1>1, Revisions DEF Bounds, ItemBounds
      <3> QED BY <1>1, <1>2, <3>2, Revisions
    <2>2. \A r \in reading : r.bytes # None => r.item.rev <= r.bytes /\ r.bytes <= newest'[r.item.file]
      <3>1. TAKE r \in reading
      <3>2. /\ r.item.file \in IndexFile /\ r.bytes \in Nat
            /\ r.bytes # None => r.item.rev <= r.bytes /\ r.bytes <= newest[r.item.file]
            BY <1>1, Revisions DEF Bounds, ItemBounds
      <3> QED BY <1>1, <1>2, <3>2, Revisions
    <2> QED BY <1>2, <2>1, <2>2 DEF ItemBounds
  <1> QED BY <1>3, <1>4, <1>5 DEF Bounds

\* The steps that write rows keep a row's hashes or replace them by newer ones.
LEMMA RowsStep ==
    ASSUME Typed, Bounds, UNCHANGED files,
           \/ UNCHANGED rows_of
           \/ \E f \in IndexFile : IndexOne(f)
           \/ \E inherit \in SUBSET IndexFile : WalkEnds(inherit)
           \/ rows_of' = Refreshed(rows_of, fjobs) \/ rows_of' = Refreshed(rows_of, fjobs')
           \/ \E r \in reading : StoreHash(r)
    PROVE  RowBounds'
  <1>1. IndexTypeOK /\ UNCHANGED newest /\ UNCHANGED on_disk
        BY DEF Typed, files
  <1>2. \A f \in IndexFile : /\ rows_of[f] \in IndexRow /\ Bounded(rows_of[f], newest[f])
                             /\ newest[f] \in Nat /\ on_disk[f] \in {None, newest[f]}
        BY <1>1, Revisions DEF Bounds, RowBounds, FilesGrow
  <1>3. SUFFICES ASSUME NEW f \in IndexFile, rows_of'[f] # rows_of[f]
                 PROVE  Bounded(rows_of'[f], newest[f])
        BY <1>1, <1>2 DEF RowBounds
  <1>4. /\ rows_of[f].rev \in Nat /\ rows_of[f].look \in Nat /\ rows_of[f].exact \in Nat
        /\ rows_of[f].rev <= newest[f] /\ newest[f] \in Nat
        BY <1>1, <1>2, Revisions DEF Bounded
  <1>5. CASE \E g \in IndexFile : IndexOne(g)
    <2>1. PICK g \in IndexFile : IndexOne(g)
          BY <1>5
    <2>2. \/ rows_of'[f] = [rows_of[f] EXCEPT !.here = "present"]
          \/ rows_of'[f] = [here |-> "present", rev |-> on_disk[f], look |-> None, exact |-> None,
                           state |-> "pending"]
          BY <1>1, <1>3, <2>1 DEF IndexOne, IndexTypeOK
    <2>3. Bounded([rows_of[f] EXCEPT !.here = "present"], newest[f])
          BY <1>2 DEF Bounded, IndexRow
    <2>4. Bounded([here |-> "present", rev |-> on_disk[f], look |-> None, exact |-> None,
                   state |-> "pending"], newest[f])
          BY <1>2 DEF Bounded, None
    <2> QED BY <2>2, <2>3, <2>4
  <1>6. CASE \E inherit \in SUBSET IndexFile : WalkEnds(inherit)
    <2>1. PICK inherit \in SUBSET IndexFile, looks \in BOOLEAN :
             rows_of'[f] = IF f \in inherit THEN Inherits(f, AfterWalk(f), looks) ELSE AfterWalk(f)
          BY <1>6 DEF WalkEnds
    <2>2. AfterWalk(f) \in IndexRow /\ Bounded(AfterWalk(f), newest[f])
          BY <1>2 DEF AfterWalk, Bounded, IndexRow
    <2>3. Bounded(Inherits(f, AfterWalk(f), looks), newest[f])
      <3>1. /\ AfterWalk(f).rev \in Nat /\ AfterWalk(f).look \in Nat
            BY <1>1, <2>2, Revisions
      <3>2. Inherits(f, AfterWalk(f), looks).look \in {AfterWalk(f).look, AfterWalk(f).rev, None}
            BY DEF Inherits
      <3>3. /\ Inherits(f, AfterWalk(f), looks).rev = AfterWalk(f).rev
            /\ Inherits(f, AfterWalk(f), looks).exact = AfterWalk(f).rev
            BY DEF Inherits
      <3> QED BY <2>2, <3>1, <3>2, <3>3 DEF Bounded
    <2> QED BY <2>1, <2>2, <2>3
  <1>7. CASE rows_of' = Refreshed(rows_of, fjobs) \/ rows_of' = Refreshed(rows_of, fjobs')
    <2>1. \A s \in {"pending", "failed", "complete"} : Bounded([rows_of[f] EXCEPT !.state = s], newest[f])
          BY <1>2 DEF Bounded, IndexRow
    <2> QED BY <1>3, <1>7, <2>1 DEF Refreshed
  <1>8. CASE \E r \in reading : StoreHash(r)
    <2>1. PICK r \in reading : StoreHash(r)
          BY <1>8
    <2>2. /\ r.item.file = f /\ rows_of[f].rev = r.item.rev
          /\ rows_of'[f] = Stored(rows_of[f], r)
      <3>1. rows_of[r.item.file].rev = r.item.rev
            BY <1>3, <2>1 DEF StoreHash
      <3>2. rows_of' = [rows_of EXCEPT ![r.item.file] = Stored(rows_of[r.item.file], r)]
            BY <2>1, <3>1 DEF StoreHash
      <3> QED BY <1>1, <1>3, <3>1, <3>2 DEF IndexTypeOK
    <2>3. /\ r.bytes \in Nat /\ r.bytes # None
          /\ r.item.rev <= r.bytes /\ r.bytes <= newest[f]
          BY <1>1, <2>1, <2>2, Revisions DEF Bounds, ItemBounds, StoreHash
    <2>4. r.item.also /\ r.item.kind = "look" =>
             /\ AlsoBytes(r) \in Nat
             /\ r.item.rev <= AlsoBytes(r) /\ AlsoBytes(r) <= newest[f]
          BY <1>2, <1>4, <2>1, <2>2, <2>3 DEF AlsoBytes, StoreHash
    <2>5. r.item.kind \in {"look", "exact"}
          BY <1>1, <2>1 DEF IndexTypeOK, Result, Item, Kind
    <2>6. Bounded(rows_of[f], newest[f])
          BY <1>2
    <2>7. Stored(rows_of[f], r).rev = rows_of[f].rev
          BY DEF Stored
    <2>8. Stored(rows_of[f], r).look \in {r.bytes, rows_of[f].look}
          BY DEF Stored
    <2>9. \/ Stored(rows_of[f], r).exact \in {r.bytes, rows_of[f].exact}
          \/ r.item.also /\ r.item.kind = "look" /\ Stored(rows_of[f], r).exact = AlsoBytes(r)
          BY <2>5 DEF Stored
    <2> QED BY <1>4, <2>2, <2>3, <2>4, <2>6, <2>7, <2>8, <2>9 DEF Bounded
  <1> QED BY <1>3, <1>5, <1>6, <1>7, <1>8

\* An item is leased with the revision of its row, and read with its file's.
LEMMA ItemsStep ==
    ASSUME Typed, Bounds, UNCHANGED files,
           \/ UNCHANGED <<batch, reading>>
           \/ batch' = {} /\ UNCHANGED reading
           \/ batch' = {} /\ reading' = {}
           \/ LeaseBatch
           \/ \E i \in batch : ReadItem(i)
           \/ \E r \in reading : SettleItem(r)
    PROVE  ItemBounds'
  <1>1. IndexTypeOK /\ UNCHANGED newest /\ UNCHANGED on_disk
        BY DEF Typed, files
  <1>2. CASE LeaseBatch
    <2>1. batch' = Leased(fjobs') /\ UNCHANGED reading
          BY <1>2 DEF LeaseBatch
    <2>2. SUFFICES ASSUME NEW x \in Leased(fjobs') PROVE x.rev <= newest[x.file]
          BY <1>1, <2>1 DEF Bounds, ItemBounds
    <2>3. DOMAIN fjobs' = IndexFile \X Kind
          BY <1>1, <1>2 DEF LeaseBatch, IndexTypeOK
    <2>4. PICK j \in IndexFile \X Kind :
             x = [file |-> j[1], kind |-> j[2], rev |-> rows_of[j[1]].rev,
                  also |-> fjobs'[<<j[1], "exact">>].status \in {"queued", "running"}]
          BY <2>2, <2>3 DEF Leased
    <2>5. x.file = j[1] /\ x.rev = rows_of[j[1]].rev
          BY <2>4
    <2> QED BY <2>5, JobKey DEF Bounds, RowBounds, Bounded
  <1>3. CASE \E i \in batch : ReadItem(i)
    <2>1. PICK i \in batch : ReadItem(i)
          BY <1>3
    <2>2. i.file \in IndexFile /\ i.rev <= newest[i.file] /\ on_disk[i.file] \in {None, newest[i.file]}
          /\ newest[i.file] \in Nat
          BY <1>1, Revisions DEF Bounds, ItemBounds, FilesGrow
    <2>3. batch' \subseteq batch /\ reading' = reading \cup {[item |-> i, bytes |-> on_disk[i.file]]}
          BY <2>1 DEF ReadItem
    <2> QED BY <1>1, <2>2, <2>3 DEF Bounds, ItemBounds
  <1>4. CASE \E r \in reading : SettleItem(r)
        BY <1>1, <1>4 DEF SettleItem, Bounds, ItemBounds
  <1> QED BY <1>1, <1>2, <1>3, <1>4 DEF Bounds, ItemBounds

LEMMA BoundsStep == Typed /\ Bounds /\ [IndexNext]_index_vars => Bounds'
  <1> SUFFICES ASSUME Typed, Bounds, [IndexNext]_index_vars PROVE Bounds'
      OBVIOUS
  <1>1. CASE \E f \in IndexFile : WriteIndexed(f) \/ RemoveIndexed(f)
        BY <1>1, FileBounds
  <1>2. CASE ~ \E f \in IndexFile : WriteIndexed(f) \/ RemoveIndexed(f)
    <2> USE DEF catalog, work, runtime, GoOn, EndRun
    <2>1. UNCHANGED files
          BY <1>2 DEF IndexNext, RunStep, index_vars, StartScan, ResumeFingerprints, StartRun, PauseRun,
             RetryFailed, DropToken, WalkFolder, SkipWalk, IndexOne, WalkEnds, WalkFails, PlanJobs, PlanFails,
             LeaseBatch, PhaseStops, ReadItem, SettleItem, StoreHash, FailHash, LeaveItem, WindUp, GroupAndEnd,
             IndexDies, RecoverRuns
    <2>2. \/ UNCHANGED rows_of
          \/ \E f \in IndexFile : IndexOne(f)
          \/ \E inherit \in SUBSET IndexFile : WalkEnds(inherit)
          \/ rows_of' = Refreshed(rows_of, fjobs) \/ rows_of' = Refreshed(rows_of, fjobs')
          \/ \E r \in reading : StoreHash(r)
          BY <1>2 DEF IndexNext, RunStep, index_vars, StartScan, ResumeFingerprints, StartRun, PauseRun,
             RetryFailed, DropToken, WalkFolder, SkipWalk, WalkFails, PlanJobs, PlanFails,
             LeaseBatch, PhaseStops, ReadItem, FailHash, LeaveItem, WindUp, GroupAndEnd,
             IndexDies, RecoverRuns
    <2>3. \/ UNCHANGED <<batch, reading>>
          \/ batch' = {} /\ UNCHANGED reading
          \/ batch' = {} /\ reading' = {}
          \/ LeaseBatch
          \/ \E i \in batch : ReadItem(i)
          \/ \E r \in reading : SettleItem(r)
          BY <1>2 DEF IndexNext, RunStep, index_vars, StartScan, ResumeFingerprints, StartRun, PauseRun,
             RetryFailed, DropToken, WalkFolder, SkipWalk, IndexOne, WalkEnds, WalkFails, PlanJobs, PlanFails,
             PhaseStops, StoreHash, FailHash, LeaveItem, WindUp, GroupAndEnd, IndexDies, RecoverRuns
    <2>4. FilesGrow'
          BY <2>1 DEF files, Bounds, FilesGrow
    <2> QED BY <2>1, <2>2, <2>3, <2>4, RowsStep, ItemsStep DEF Bounds
  <1> QED BY <1>1, <1>2

LEMMA BoundsGiveHashes == Typed /\ Bounds => HashesAreOfTheFile
  <1> SUFFICES ASSUME Typed, Bounds, NEW f \in IndexFile,
                      on_disk[f] # None, rows_of[f].rev = on_disk[f], NEW k \in Kind
               PROVE  rows_of[f][k] \in {None, on_disk[f]}
      BY DEF HashesAreOfTheFile
  <1>1. IndexTypeOK
        BY DEF Typed
  <1>2. /\ on_disk[f] = newest[f] /\ newest[f] \in Nat /\ Bounded(rows_of[f], newest[f])
        /\ rows_of[f].look \in Nat /\ rows_of[f].exact \in Nat
        BY <1>1, Revisions DEF Bounds, FilesGrow, RowBounds
  <1>3. rows_of[f].look \in {None, on_disk[f]} /\ rows_of[f].exact \in {None, on_disk[f]}
        BY <1>2 DEF Bounded
  <1>4. CASE k = "look"
        BY <1>3, <1>4
  <1>5. CASE k = "exact"
        BY <1>3, <1>5
  <1> QED BY <1>4, <1>5 DEF Kind

\* Files may be written and removed at any moment, also between the lease of a
\* job, the read of its file and the write of its hash: a row of the file that
\* is there never has a hash of other bytes (complete_media_fingerprint_job,
\* upsert_media_index_entry).
THEOREM HashesAlwaysOfTheFile == IndexSpec => []HashesAreOfTheFile
  <1>1. IndexInit => Typed /\ Bounds
        BY TypedInitial, BoundsInitial
  <1>2. Typed /\ Bounds /\ [IndexNext]_index_vars => Typed' /\ Bounds'
        BY TypedStep, BoundsStep
  <1> QED BY <1>1, <1>2, BoundsGiveHashes, PTL DEF IndexSpec

-----------------------------------------------------------------------------
\* Leases.

LEMMA PhaseItemsStep == Typed /\ PhaseItems /\ [IndexNext]_index_vars => PhaseItems'
  <1> SUFFICES ASSUME Typed, PhaseItems, [IndexNext]_index_vars PROVE PhaseItems'
      OBVIOUS
  <1>1. at \notin Kind => batch = {} /\ reading = {}
        BY DEF Typed, IndexTypeOK, Item, Result, PhaseItems
  <1>2. CASE LeaseBatch
    <2>1. batch' = Leased(fjobs') /\ UNCHANGED reading /\ reading = {} /\ (batch' = {} \/ UNCHANGED at)
          BY <1>2 DEF LeaseBatch
    <2>2. ASSUME NEW x \in Leased(fjobs') PROVE x.kind = at
      <3>1. PICK j \in DOMAIN fjobs' :
               /\ j[2] = at
               /\ x = [file |-> j[1], kind |-> j[2], rev |-> rows_of[j[1]].rev,
                       also |-> fjobs'[<<j[1], "exact">>].status \in {"queued", "running"}]
            BY <2>2 DEF Leased
      <3> QED BY <3>1
    <2> QED BY <2>1, <2>2 DEF PhaseItems
  <1>3. CASE \E i \in batch : ReadItem(i)
        BY <1>3 DEF ReadItem, PhaseItems
  <1>4. CASE \E r \in reading : SettleItem(r)
        BY <1>4 DEF SettleItem, PhaseItems
  <1>5. CASE \/ UNCHANGED <<batch, reading>> /\ (UNCHANGED at \/ at \notin Kind)
             \/ batch' = {} /\ reading' = {}
        BY <1>1, <1>5 DEF PhaseItems
  <1>6. \/ UNCHANGED <<batch, reading>> /\ (UNCHANGED at \/ at \notin Kind)
        \/ batch' = {} /\ reading' = {}
        \/ LeaseBatch
        \/ \E i \in batch : ReadItem(i)
        \/ \E r \in reading : SettleItem(r)
    <2>1. ~Active => at \notin Kind
          BY DEF Typed, RunHasThread, Kind
    <2> QED BY <2>1 DEF IndexNext, RunStep, index_vars, work, runtime, StartScan, ResumeFingerprints, StartRun,
             PauseRun, RetryFailed, DropToken, WalkFolder, SkipWalk, IndexOne, WalkEnds, WalkFails, PlanJobs,
             PlanFails, PhaseStops, StoreHash, FailHash, LeaveItem, WindUp, GroupAndEnd, WriteIndexed,
             RemoveIndexed, IndexDies, RecoverRuns, Kind
  <1> QED BY <1>2, <1>3, <1>4, <1>5, <1>6

\* The keys of a kind's jobs are keys of the table.
LEMMA Jobs ==
    ASSUME IndexTypeOK
    PROVE  /\ DOMAIN fjobs = IndexFile \X Kind /\ fjobs \in [IndexFile \X Kind -> FJob]
           /\ \A f \in IndexFile, k \in Kind : <<f, k>> \in IndexFile \X Kind /\ fjobs[<<f, k>>] \in FJob
  BY DEF IndexTypeOK

LEMMA Unleased ==
    ASSUME IndexTypeOK,
           fjobs' = [j \in DOMAIN fjobs |->
             IF fjobs[j].status = "running" THEN [fjobs[j] EXCEPT !.status = "queued"] ELSE fjobs[j]]
    PROVE  /\ \A k \in Kind : Leaseless(k)'
           /\ UNCHANGED retried => \A k \in Kind : Settled(k) => Settled(k)'
  <1>1. \A f \in IndexFile, k \in Kind :
           /\ fjobs'[<<f, k>>].status # "running"
           /\ fjobs[<<f, k>>].status # "running" => fjobs'[<<f, k>>] = fjobs[<<f, k>>]
        BY Jobs DEF FJob
  <1>2. \A k \in Kind : Leaseless(k)'
        BY <1>1 DEF Leaseless
  <1>3. ASSUME UNCHANGED retried, NEW k \in Kind, Settled(k) PROVE Waitless(k)'
    <2>1. \A f \in IndexFile : fjobs'[<<f, k>>] = fjobs[<<f, k>>]
          BY <1>1, <1>3 DEF Settled, Leaseless
    <2> QED BY <1>3, <2>1 DEF Settled, Waitless
  <1> QED BY <1>2, <1>3 DEF Settled

LEMMA LeasedThenSettled ==
    ASSUME IndexTypeOK, LeaseBatch, NEW p \in Kind, at = p
    PROVE  /\ \A k \in Kind \ {p} : (Leaseless(k) => Leaseless(k)') /\ (Waitless(k) => Waitless(k)')
           /\ batch' = {} => Settled(p)'
  <1>1. /\ fjobs' = [j \in DOMAIN fjobs |->
             IF j[2] = p /\ fjobs[j].status = "queued" THEN TakenUp(fjobs[j]) ELSE fjobs[j]]
        /\ batch' = Leased(fjobs') /\ UNCHANGED retried
        BY DEF LeaseBatch
  <1>2. \A f \in IndexFile, k \in Kind \ {p} : fjobs'[<<f, k>>] = fjobs[<<f, k>>]
        BY <1>1, Jobs
  <1>3. \A f \in IndexFile : fjobs'[<<f, p>>].status # "queued"
        BY <1>1, Jobs DEF TakenUp
  <1>4. ASSUME batch' = {}, NEW f \in IndexFile, fjobs'[<<f, p>>].status = "running" PROVE FALSE
    <2>1. <<f, p>> \in {i \in DOMAIN fjobs' : i[2] = at /\ fjobs'[i].status = "running"}
          BY <1>1, <1>4, Jobs
    <2>2. Leased(fjobs') # {}
          BY <2>1, Zenon DEF Leased
    <2> QED BY <1>1, <1>4, <2>2
  <1>5. ASSUME NEW k \in Kind \ {p}
        PROVE  (Leaseless(k) => Leaseless(k)') /\ (Waitless(k) => Waitless(k)')
    <2>1. Leaseless(k) => Leaseless(k)'
          BY <1>2, <1>5 DEF Leaseless
    <2>2. Waitless(k) => Waitless(k)'
          BY <1>1, <1>2, <1>5 DEF Waitless
    <2> QED BY <2>1, <2>2
  <1>6. ASSUME batch' = {} PROVE Settled(p)'
    <2>1. Leaseless(p)'
          BY <1>4, <1>6 DEF Leaseless
    <2>2. Waitless(p)'
          BY <1>3 DEF Waitless
    <2> QED BY <2>1, <2>2 DEF Settled
  <1> QED BY <1>5, <1>6

\* A result settles jobs of its phase; the exact hash that comes with a look
\* may settle its job too.
LEMMA ResultSettles ==
    ASSUME Typed, PhaseItems, NEW r \in reading, StoreHash(r) \/ FailHash(r), NEW p \in Kind, at = p
    PROVE  \A k \in Kind \ {p} : (Leaseless(k) => Leaseless(k)') /\ (Waitless(k) => Waitless(k)')
  <1>1. IndexTypeOK /\ UNCHANGED retried
        BY DEF Typed, StoreHash, FailHash, SettleItem
  <1>2. r.item.file \in IndexFile /\ r.item.kind = p
        BY <1>1 DEF PhaseItems, IndexTypeOK, Result, Item
  <1>3. \A f \in IndexFile, k \in Kind \ {p} :
           fjobs'[<<f, k>>] = fjobs[<<f, k>>] \/ fjobs'[<<f, k>>].status = "complete"
    <2>1. CASE StoreHash(r) /\ rows_of[r.item.file].rev = r.item.rev
      <3> DEFINE done == {<<r.item.file, r.item.kind>>}
                            \cup (IF r.item.also THEN {<<r.item.file, "exact">>} ELSE {})
      <3>1. fjobs' = [j \in DOMAIN fjobs |->
               IF j \in done THEN [fjobs[j] EXCEPT !.status = "complete"] ELSE fjobs[j]]
            BY <2>1 DEF StoreHash
      <3>2. \A j \in FJob : [j EXCEPT !.status = "complete"].status = "complete"
            BY DEF FJob
      <3> HIDE DEF done
      <3> QED BY <1>1, <3>1, <3>2, Jobs
    <2>2. CASE \E s : fjobs' = [fjobs EXCEPT ![<<r.item.file, r.item.kind>>].status = s]
          BY <1>1, <1>2, <2>2, Jobs
    <2> QED BY <2>1, <2>2 DEF StoreHash, FailHash
  <1>4. ASSUME NEW k \in Kind \ {p}
        PROVE  (Leaseless(k) => Leaseless(k)') /\ (Waitless(k) => Waitless(k)')
    <2>1. Leaseless(k) => Leaseless(k)'
          BY <1>3, <1>4 DEF Leaseless
    <2>2. Waitless(k) => Waitless(k)'
          BY <1>1, <1>3, <1>4 DEF Waitless
    <2> QED BY <2>1, <2>2
  <1> QED BY <1>4

LEMMA SameJobs ==
    ASSUME UNCHANGED <<fjobs, retried>>, NEW k
    PROVE  (Leaseless(k) => Leaseless(k)') /\ (Waitless(k) => Waitless(k)')
  BY DEF Leaseless, Waitless

\* Leases while the run starts, walks, is paused or only reads.
LEMMA QuietLeases ==
    ASSUME Typed, LeasesEnd, UNCHANGED <<fjobs, retried>>,
           \/ StartScan \/ ResumeFingerprints \/ PauseRun \/ DropToken \/ PhaseStops
           \/ WalkFolder \/ SkipWalk \/ WalkFails \/ IndexDies
           \/ \E inherit \in SUBSET IndexFile : WalkEnds(inherit)
           \/ UNCHANGED <<at, run, cancelled, recovered, refused>>
    PROVE  LeasesEnd'
  <1> SUFFICES ASSUME ~refused' PROVE LeasesEnd'
      BY DEF LeasesEnd
  <1> USE SameJobs DEF LeasesEnd, Settled, work, runtime
  <1>1. CASE StartScan \/ ResumeFingerprints
    <2>1. at = "rest" /\ at' \in {"scan", "plan"} /\ run' = "running" /\ UNCHANGED <<recovered, refused>>
          BY <1>1 DEF StartScan, ResumeFingerprints, StartRun, Typed, RunHasThread
    <2> QED BY <2>1
  <1>2. CASE PauseRun
    <2>1. cancelled' = TRUE /\ (run' = "completed" => run = "completed") /\ UNCHANGED <<at, recovered, refused>>
          BY <1>2 DEF PauseRun
    <2> QED BY <2>1
  <1>3. CASE DropToken
        BY <1>3 DEF DropToken
  <1>4. CASE PhaseStops
    <2>1. at \in Kind /\ at' \in {"exact", "wind up"} /\ cancelled' /\ UNCHANGED run
          BY <1>4 DEF PhaseStops, GoOn, AfterPhase
    <2>2. run # "completed"
          BY <2>1 DEF Typed, RunHasThread, Active, Kind
    <2> QED BY <2>1, <2>2
  <1>5. CASE WalkFolder \/ SkipWalk \/ WalkFails \/ \E inherit \in SUBSET IndexFile : WalkEnds(inherit)
    <2>1. /\ at \in {"scan", "walk"} /\ at' \in {"walk", "plan", "rest"} /\ run' \in {run, "paused"}
          /\ UNCHANGED <<recovered, refused>>
          BY <1>5 DEF WalkFolder, SkipWalk, WalkFails, WalkEnds, GoOn, EndRun
    <2>2. run # "completed"
          BY <2>1 DEF Typed, RunHasThread, Active
    <2> QED BY <2>1, <2>2
  <1>6. CASE IndexDies
        BY <1>6 DEF IndexDies
  <1>7. CASE UNCHANGED <<at, run, cancelled, recovered, refused>>
        BY <1>7
  <1> QED BY <1>1, <1>2, <1>3, <1>4, <1>5, <1>6, <1>7

LEMMA LeasesStep == Typed /\ PhaseItems /\ LeasesEnd /\ [IndexNext]_index_vars => LeasesEnd'
  <1> SUFFICES ASSUME Typed, PhaseItems, LeasesEnd, [IndexNext]_index_vars, ~refused' PROVE LeasesEnd'
      BY DEF LeasesEnd
  <1>1. IndexTypeOK /\ (at # "rest" => run # "completed")
        BY DEF Typed, RunHasThread, Active
  <1> USE DEF work, runtime, catalog
  <1>2. CASE RetryFailed
    <2>1. \A k \in Kind : (Leaseless(k) => Leaseless(k)') /\ Waitless(k)'
      <3>1. \A f \in IndexFile, k \in Kind : fjobs[<<f, k>>].status # "running" => fjobs'[<<f, k>>].status # "running"
        <4>1. \A j \in FJob : [j EXCEPT !.status = "queued", !.attempts = 0].status = "queued"
              BY DEF FJob
        <4> QED BY <1>1, <1>2, <4>1, Jobs DEF RetryFailed
      <3>2. retried'
            BY <1>2 DEF RetryFailed
      <3> QED BY <3>1, <3>2 DEF Leaseless, Waitless
    <2>2. UNCHANGED <<at, run, cancelled, recovered, refused>>
          BY <1>2 DEF RetryFailed
    <2> QED BY <2>1, <2>2 DEF LeasesEnd, Settled, Kind
  <1>3. CASE \E eligible \in Eligibles : PlanJobs(eligible)
    <2>1. PICK eligible \in Eligibles : PlanJobs(eligible)
          BY <1>3
    <2>2. \A f \in IndexFile : fjobs'[<<f, "exact">>].status # "running"
      <3>1. "exact" \in Kind /\ \A j, row : Planned(j, row, "exact").status # "running"
            BY DEF Kind, Planned
      <3>2. NoFJob.status # "running"
            BY DEF NoFJob
      <3> QED BY <1>1, <2>1, <3>1, <3>2, Jobs DEF PlanJobs
    <2>3. at' = "look" /\ run' = run /\ run # "completed"
          BY <1>1, <2>1 DEF PlanJobs, GoOn
    <2> QED BY <2>2, <2>3 DEF LeasesEnd, Leaseless
  <1>4. CASE LeaseBatch
    <2>1. PICK p \in Kind : at = p
          BY <1>4 DEF LeaseBatch
    <2>2. /\ ~cancelled /\ UNCHANGED <<run, cancelled, recovered, refused>>
          /\ at' = p \/ (batch' = {} /\ at' = AfterPhase(p))
          BY <1>4, <2>1 DEF LeaseBatch, GoOn
    <2>3. /\ \A k \in Kind \ {p} : (Leaseless(k) => Leaseless(k)') /\ (Waitless(k) => Waitless(k)')
          /\ batch' = {} => Settled(p)'
          BY <1>1, <1>4, <2>1, LeasedThenSettled
    <2>4. run # "completed"
          BY <1>1, <2>1 DEF Kind
    <2>5. CASE p = "look"
          BY <2>1, <2>2, <2>3, <2>4, <2>5 DEF LeasesEnd, Kind, AfterPhase
    <2>6. CASE p = "exact"
          BY <2>1, <2>2, <2>3, <2>4, <2>6 DEF LeasesEnd, Settled, Kind, AfterPhase
    <2> QED BY <2>5, <2>6 DEF Kind
  <1>5. CASE \E r \in reading : StoreHash(r) \/ FailHash(r)
    <2>1. PICK r \in reading : StoreHash(r) \/ FailHash(r)
          BY <1>5
    <2>2. at \in Kind
          BY <1>1 DEF PhaseItems, IndexTypeOK, Result, Item
    <2>3. PICK p \in Kind : at = p
          BY <2>2
    <2>4. \A k \in Kind \ {p} : (Leaseless(k) => Leaseless(k)') /\ (Waitless(k) => Waitless(k)')
          BY <2>1, <2>3, ResultSettles
    <2>5. UNCHANGED <<at, run, cancelled, recovered, refused>> /\ run # "completed"
          BY <1>1, <2>1, <2>2 DEF StoreHash, FailHash, SettleItem, Kind
    <2> QED BY <2>3, <2>4, <2>5 DEF LeasesEnd, Settled, Kind
  <1>6. CASE WindUp
    <2>1. CASE EndRun("paused")
      <3>1. fjobs' = [j \in DOMAIN fjobs |->
                IF fjobs[j].status = "running" THEN [fjobs[j] EXCEPT !.status = "queued"] ELSE fjobs[j]]
            BY <1>6, <2>1 DEF WindUp, EndRun, GoOn
      <3>2. \A k \in Kind : Leaseless(k)'
            BY <1>1, <3>1, Unleased
      <3> QED BY <2>1, <3>2 DEF EndRun, LeasesEnd
    <2>2. CASE GoOn("group")
      <3>1. /\ at = "wind up" /\ ~cancelled /\ at' = "group" /\ run # "completed"
            /\ UNCHANGED <<run, cancelled, fjobs, retried, refused>>
            BY <1>1, <1>6, <2>2 DEF WindUp, GoOn, EndRun
      <3> QED BY <3>1, SameJobs DEF LeasesEnd, Settled
    <2> QED BY <1>6, <2>1, <2>2 DEF WindUp
  <1>7. CASE GroupAndEnd
    <2>1. /\ at = "group" /\ at' = "rest" /\ run' = (IF cancelled THEN "paused" ELSE "completed")
          /\ UNCHANGED <<fjobs, retried, refused>>
          BY <1>7 DEF GroupAndEnd, EndRun
    <2> QED BY <2>1, SameJobs DEF LeasesEnd, Settled
  <1>8. CASE RecoverRuns
    <2>1. /\ fjobs' = [j \in DOMAIN fjobs |->
                IF fjobs[j].status = "running" THEN [fjobs[j] EXCEPT !.status = "queued"] ELSE fjobs[j]]
          /\ UNCHANGED <<at, run, cancelled, refused, retried>>
          BY <1>8 DEF RecoverRuns
    <2>2. /\ \A k \in Kind : Leaseless(k)'
          /\ \A k \in Kind : Settled(k) => Settled(k)'
          BY <1>1, <2>1, Unleased
    <2> QED BY <2>1, <2>2 DEF LeasesEnd, Settled, Kind
  <1>9. CASE /\ UNCHANGED <<fjobs, retried>>
             /\ \/ StartScan \/ ResumeFingerprints \/ PauseRun \/ DropToken \/ PhaseStops
                \/ WalkFolder \/ SkipWalk \/ WalkFails \/ IndexDies
                \/ \E inherit \in SUBSET IndexFile : WalkEnds(inherit)
                \/ UNCHANGED <<at, run, cancelled, recovered, refused>>
        BY <1>9, QuietLeases
  <1>10. CASE PlanFails \/ \E r \in reading : LeaveItem(r) /\ refused'
        BY <1>10 DEF PlanFails
  <1> QED BY <1>2, <1>3, <1>4, <1>5, <1>6, <1>7, <1>8, <1>9, <1>10
          DEF IndexNext, RunStep, index_vars, StartScan, ResumeFingerprints, StartRun, PauseRun, DropToken,
              PhaseStops, WalkFolder, SkipWalk, WalkFails, WalkEnds, IndexDies, IndexOne, ReadItem, LeaveItem,
              SettleItem, WriteIndexed, RemoveIndexed

\* Wherever a run is paused, fails, is overtaken by a late recovery or dies: no
\* job stays leased after it once the start's recovery is over, and a run that
\* counts as completed left none waiting, unless the database refused a step or
\* the user put failed ones back meanwhile (run_phase,
\* release_media_fingerprint_leases, recover_interrupted_media_index_runs).
THEOREM RunsAlwaysEndSettled == IndexSpec => []RunsEndSettled
  <1>1. IndexInit => Typed /\ PhaseItems /\ LeasesEnd
    <2>1. IndexInit => PhaseItems
          BY DEF IndexInit, PhaseItems
    <2>2. IndexInit => LeasesEnd
          BY DEF IndexInit, LeasesEnd
    <2> QED BY <2>1, <2>2, TypedInitial
  <1>2. Typed /\ PhaseItems /\ LeasesEnd /\ [IndexNext]_index_vars => Typed' /\ PhaseItems' /\ LeasesEnd'
        BY TypedStep, PhaseItemsStep, LeasesStep
  <1>3. Typed /\ LeasesEnd => RunsEndSettled
    <2> SUFFICES ASSUME Typed, LeasesEnd, ~refused, NEW j \in DOMAIN fjobs
                 PROVE  /\ at = "rest" /\ recovered => fjobs[j].status # "running"
                        /\ run = "completed" /\ ~retried => fjobs[j].status \in {"none", "complete", "failed"}
        BY DEF RunsEndSettled
    <2>1. /\ j[1] \in IndexFile /\ j[2] \in Kind /\ j = <<j[1], j[2]>>
          /\ fjobs[j].status \in {"none", "queued", "running", "complete", "failed"}
      <3>1. j \in IndexFile \X Kind /\ fjobs[j] \in FJob
            BY DEF Typed, IndexTypeOK
      <3> QED BY <3>1, JobKey DEF FJob
    <2>2. Leaseless(j[2]) => fjobs[j].status # "running"
          BY <2>1 DEF Leaseless
    <2>3. Waitless(j[2]) /\ ~retried => fjobs[j].status # "queued"
          BY <2>1 DEF Waitless
    <2> QED BY <2>1, <2>2, <2>3 DEF LeasesEnd, Settled
  <1> QED BY <1>1, <1>2, <1>3, PTL DEF IndexSpec

-----------------------------------------------------------------------------
(***************************************************************************)
(* The media cleanup.                                                      *)
(***************************************************************************)

LinkPlaces == {"compare", "stage", "link", "release", "undo", "restore", "settle"}
Handling == LinkPlaces \cup {"next", "bin"}
Applying == Outside \cup {"begin"} \cup Handling

\* A group does not ask for its own file to keep, and its profiles are locked.
Sound(g) ==
    /\ g.keep \notin g.files
    /\ ProfileOf[g.keep] \in locked_sources
    /\ \A f \in g.files : ProfileOf[f] \in locked_sources

GroupsSound ==
    /\ \A g \in agenda.exact : Sound(g)
    /\ \A i \in 1..Len(agenda.similar) : Sound(agenda.similar[i])
    /\ group # NoGroup => Sound(group)
    /\ place \notin Applying => locked_sources = {} /\ agenda = NoAgenda /\ group = NoGroup
    /\ place \in LinkPlaces => group \in Group /\ group.do = "link" /\ at_hand \in group.files
    /\ place = "bin" => group \in Group /\ group.do = "recycle" /\ at_hand \in group.files

\* A recycled file has no name until recovery or a sync puts one there, and neither the
\* file a selection keeps nor one that is being linked is a recycled one.
Recycling ==
    /\ \A f \in Media : stored[f] = Binned => placed[f] = Gone
    /\ group.do = "recycle" => stored[group.keep] # Binned
    /\ place \in LinkPlaces => stored[at_hand] # Binned

----------------------------------------------------------------------------
LEMMA ApplyEndsSound ==
    ASSUME ApplyEnds
    PROVE  GroupsSound'
BY EmptySeq DEF ApplyEnds, GroupsSound, NoAgenda, NoGroup, Applying, Handling, LinkPlaces, Outside

LEMMA SoundUnchanged ==
    ASSUME GroupsSound, UNCHANGED <<locked_sources, agenda, group, at_hand>>,
           \/ place' = place
           \/ place \notin Applying /\ place' \notin Applying
           \/ place \in Outside /\ place' \in Outside \cup {"begin"}
           \/ place = "begin" /\ place' = "next"
           \/ place \in LinkPlaces /\ place' \in LinkPlaces
    PROVE  GroupsSound'
<1>1. place' \in LinkPlaces => place \in LinkPlaces
  BY DEF Applying, Handling, LinkPlaces, Outside
<1>2. place' = "bin" => place = "bin"
  BY DEF Applying, Handling, LinkPlaces, Outside
<1>3. place' \notin Applying => place \notin Applying
  BY DEF Applying, Handling, LinkPlaces, Outside
<1>4. QED  BY <1>1, <1>2, <1>3 DEF GroupsSound, Sound

\* What a scan asks to consolidate, and what the user selects, are groups of media.
LEMMA ExactAreGroups ==
    ASSUME NEW g \in ExactGroups
    PROVE  g \in Group /\ g.do = "link" /\ g.keep \notin g.files
<1>1. PICK f \in Media : g = [do |-> "link", keep |-> f, files |-> Targets(f)]
  BY DEF ExactGroups
<1>2. Targets(f) \subseteq Media /\ f \notin Targets(f)
  BY DEF Targets, Linked, Twins
<1>3. QED  BY <1>1, <1>2 DEF Group

LEMMA SimilarAreGroups ==
    ASSUME CleanupAssumption, NEW selections \in Selections
    PROVE  /\ SimilarGroups(selections) \in Seq(Group)
           /\ DOMAIN selections = 1..Len(selections)
           /\ Len(SimilarGroups(selections)) = Len(selections)
           /\ \A i \in 1..Len(selections) :
                 SimilarGroups(selections)[i] =
                     [do |-> "recycle", keep |-> selections[i].keep,
                      files |-> selections[i].remove \ {selections[i].keep}]
<1>1. selections \in Seq([keep : Media, remove : SUBSET Media])
  BY DEF CleanupAssumption
<1>2. /\ DOMAIN selections = 1..Len(selections) /\ Len(selections) \in Nat
      /\ \A i \in 1..Len(selections) : selections[i] \in [keep : Media, remove : SUBSET Media]
  BY <1>1, LenProperties, ElementOfSeq
<1>3. \A i \in 1..Len(selections) :
          [do |-> "recycle", keep |-> selections[i].keep,
           files |-> selections[i].remove \ {selections[i].keep}] \in Group
  BY <1>2 DEF Group
<1>4. QED  BY <1>2, <1>3 DEF SimilarGroups

\* The lock of an apply covers its groups.
LEMMA AffectedCoverExact ==
    ASSUME NEW selections, NEW g \in ExactGroups, NEW f \in {g.keep} \cup g.files
    PROVE  f \in AffectedFiles(TRUE, selections)
BY DEF AffectedFiles

LEMMA AffectedCoverSimilar ==
    ASSUME NEW exact, NEW selections, NEW i \in DOMAIN selections,
           NEW f \in {selections[i].keep} \cup selections[i].remove
    PROVE  f \in AffectedFiles(exact, selections)
BY DEF AffectedFiles

LEMMA EnqueueApplySound ==
    ASSUME CleanupAssumption, CleanupTypeOK, GroupsSound,
           NEW exact \in BOOLEAN, NEW selections \in Selections, EnqueueApply(exact, selections)
    PROVE  GroupsSound' /\ agenda' \in [exact : SUBSET Group, similar : Seq(Group)]
<1>1. /\ locked_sources' = {ProfileOf[f] : f \in AffectedFiles(exact, selections)}
      /\ agenda' = [exact |-> IF exact THEN ExactGroups ELSE {}, similar |-> SimilarGroups(selections)]
      /\ place' = "sync"
      /\ group' = NoGroup
  <2>1. place \notin Applying
    BY DEF EnqueueApply, Busy, Applying, Handling, LinkPlaces, Outside
  <2>2. QED  BY <2>1 DEF EnqueueApply, GroupsSound
<1>2. agenda'.exact = (IF exact THEN ExactGroups ELSE {}) /\ agenda'.similar = SimilarGroups(selections)
  BY <1>1
<1>3. ASSUME NEW g \in agenda'.exact
      PROVE  Sound(g)'
  <2>1. exact = TRUE /\ g \in ExactGroups
    BY <1>2, <1>3
  <2>2. \A f \in {g.keep} \cup g.files : ProfileOf[f] \in locked_sources'
    BY <1>1, <2>1, AffectedCoverExact
  <2>3. QED  BY <2>1, <2>2, ExactAreGroups DEF Sound
<1>4. ASSUME NEW i \in 1..Len(agenda'.similar)
      PROVE  Sound(agenda.similar[i])'
  <2>1. /\ i \in DOMAIN selections
        /\ agenda'.similar[i] = [do |-> "recycle", keep |-> selections[i].keep,
                                 files |-> selections[i].remove \ {selections[i].keep}]
    BY <1>2, <1>4, SimilarAreGroups
  <2>2. \A f \in {selections[i].keep} \cup selections[i].remove : ProfileOf[f] \in locked_sources'
    BY <1>1, <2>1, AffectedCoverSimilar
  <2>3. QED  BY <2>1, <2>2 DEF Sound
<1>5. agenda' \in [exact : SUBSET Group, similar : Seq(Group)]
  BY <1>1, ExactAreGroups, SimilarAreGroups
<1>6. place' \in Applying /\ place' \notin LinkPlaces \cup {"bin"}
  BY <1>1 DEF Applying, LinkPlaces, Outside
<1>7. QED  BY <1>1, <1>3, <1>4, <1>5, <1>6 DEF GroupsSound

\* The group at hand, or the one a step takes up.
LEMMA UpcomingSound ==
    ASSUME CleanupTypeOK, GroupsSound, NEW g \in Upcoming
    PROVE  g \in Group /\ Sound(g)
<1>1. CASE agenda.exact # {}
  BY <1>1 DEF Upcoming, CleanupTypeOK, GroupsSound
<1>2. CASE agenda.exact = {}
  <2>1. agenda.similar # <<>> /\ g = Head(agenda.similar) /\ agenda.similar \in Seq(Group)
    BY <1>2 DEF Upcoming, CleanupTypeOK
  <2>2. 1 \in 1..Len(agenda.similar) /\ g = agenda.similar[1] /\ g \in Group
    BY <2>1
  <2>3. QED  BY <2>2 DEF GroupsSound
<1>3. QED  BY <1>1, <1>2

LEMMA TakeGroupSound ==
    ASSUME CleanupTypeOK, GroupsSound, place = "next", NEW g \in Upcoming, TakeGroup(g)
    PROVE  /\ GroupsSound'
           /\ agenda' \in [exact : SUBSET Group, similar : Seq(Group)]
           /\ group' \in Group
<1>1. g \in Group /\ Sound(g)
  BY UpcomingSound
<1>2. CASE agenda.exact # {}
  <2>1. agenda' = [agenda EXCEPT !.exact = @ \ {g}]
    BY <1>2 DEF TakeGroup
  <2>2. agenda'.exact = agenda.exact \ {g} /\ agenda'.similar = agenda.similar
        /\ agenda' \in [exact : SUBSET Group, similar : Seq(Group)]
    BY <2>1 DEF CleanupTypeOK
  <2>3. QED
    BY <1>1, <2>2 DEF TakeGroup, GroupsSound, Sound, Applying, Handling, LinkPlaces
<1>3. CASE agenda.exact = {}
  <2>1. agenda' = [agenda EXCEPT !.similar = Tail(@)]
    BY <1>3 DEF TakeGroup
  <2>2. agenda.similar \in Seq(Group) /\ agenda.similar # <<>>
    BY <1>3 DEF CleanupTypeOK, Upcoming
  <2>3. agenda'.exact = agenda.exact /\ agenda'.similar = Tail(agenda.similar)
        /\ agenda' \in [exact : SUBSET Group, similar : Seq(Group)]
    <3>1. Tail(agenda.similar) \in Seq(Group) /\ agenda \in [exact : SUBSET Group, similar : Seq(Group)]
      BY <2>2, HeadTailProperties DEF CleanupTypeOK
    <3>2. QED  BY <2>1, <3>1
  <2>4. \A i \in 1..Len(agenda'.similar) :
            i + 1 \in 1..Len(agenda.similar) /\ agenda'.similar[i] = agenda.similar[i + 1]
    BY <2>2, <2>3
  <2>5. \A i \in 1..Len(agenda'.similar) : Sound(agenda.similar[i])'
    <3>1. SUFFICES ASSUME NEW i \in 1..Len(agenda'.similar)
                   PROVE  Sound(agenda.similar[i])'
      OBVIOUS
    <3>2. i + 1 \in 1..Len(agenda.similar) /\ agenda'.similar[i] = agenda.similar[i + 1]
      BY <2>4
    <3>3. Sound(agenda.similar[i + 1])
      BY <3>2 DEF GroupsSound
    <3>4. QED  BY <3>2, <3>3 DEF Sound, TakeGroup
  <2>6. QED
    BY <1>1, <2>3, <2>5 DEF TakeGroup, GroupsSound, Sound, Applying, Handling, LinkPlaces
<1>4. QED  BY <1>2, <1>3

\* The next file of the group at hand.
LEMMA NextFileSound ==
    ASSUME CleanupTypeOK, GroupsSound, place \in LinkPlaces \cup {"bin"}, NextFile
    PROVE  GroupsSound' /\ group' \in Group
<1>1. group \in Group /\ group # NoGroup
  BY DEF GroupsSound, Group, NoGroup
<1>2. /\ group' \in Group /\ group'.do = group.do /\ group'.keep = group.keep
      /\ group'.files = group.files \ {at_hand}
  BY <1>1 DEF NextFile, Group
<1>3. /\ place' = "next" /\ UNCHANGED <<locked_sources, agenda>>
  BY DEF NextFile
<1>4. QED
  BY <1>1, <1>2, <1>3 DEF GroupsSound, Sound, Applying, Handling, LinkPlaces

----------------------------------------------------------------------------
\* Types and sound groups are kept by every step.

LEMMA ScanToSound ==
    ASSUME CleanupTypeOK, HistoryOK', GroupsSound, place \notin Applying,
           NEW next \in {"none", "hash", "report", "wind up"}, ScanTo(next),
           scan_row' \in {"running", "completed", "ended"},
           signature' \in [Media -> Inode \cup {Gone}]
    PROVE  CleanupTypeOK' /\ GroupsSound'
<1>1. next \notin Applying
  BY DEF Applying, Handling, LinkPlaces, Outside
<1>2. GroupsSound'
  BY <1>1, SoundUnchanged DEF ScanTo, apply
<1>3. CleanupTypeOK'
  BY DEF ScanTo, CleanupTypeOK, JobPlace, disk, apply, outsiders, boot, past, put
<1>4. QED  BY <1>2, <1>3

LEMMA ScanStepSound ==
    ASSUME CleanupAssumption, CleanupTypeOK, HistoryOK', GroupsSound, ScanStep
    PROVE  CleanupTypeOK' /\ GroupsSound'
<1>1. NoSignature \in [Media -> Inode \cup {Gone}]
  BY DEF NoSignature
<1>2. "inventory" \notin Applying /\ "hash" \notin Applying /\ "report" \notin Applying
      /\ "wind up" \notin Applying /\ "none" \notin Applying
  BY DEF Applying, Handling, LinkPlaces, Outside
<1>3. CASE EnqueueScan
  <2>1. GroupsSound'
    BY <1>2, <1>3, SoundUnchanged DEF EnqueueScan, Busy, apply
  <2>2. CleanupTypeOK'
    BY <1>1, <1>3 DEF EnqueueScan, CleanupTypeOK, JobPlace, disk, apply, outsiders, boot, put
  <2>3. QED  BY <2>1, <2>2
<1>4. CASE EnqueueScanFails
  <2>1. GroupsSound'
    BY <1>4, SoundUnchanged DEF EnqueueScanFails, job, apply
  <2>2. CleanupTypeOK'
    BY <1>1, <1>4 DEF EnqueueScanFails, CleanupTypeOK, disk, job, apply, outsiders, boot, past, put
  <2>3. QED  BY <2>1, <2>2
<1>5. CASE CancelScan
  <2>1. GroupsSound'
    BY <1>5, SoundUnchanged DEF CancelScan, apply
  <2>2. CleanupTypeOK'
    BY <1>5 DEF CancelScan, CleanupTypeOK, disk, dedupe_rows, apply, outsiders, boot, past, put
  <2>3. QED  BY <2>1, <2>2
<1>6. CASE ScanInventory
  BY <1>2, <1>6, ScanToSound DEF ScanInventory, CleanupTypeOK
<1>7. CASE ScanComplete
  BY <1>2, <1>7, ScanToSound DEF ScanComplete, CleanupTypeOK
<1>8. CASE ScanReport
  BY <1>2, <1>8, ScanToSound DEF ScanReport, CleanupTypeOK
<1>9. CASE ScanStops
  BY <1>2, <1>9, ScanToSound DEF ScanStops, CleanupTypeOK
<1>10. CASE ScanWindUp
  BY <1>1, <1>2, <1>10, ScanToSound DEF ScanWindUp, CleanupTypeOK
<1>11. ASSUME NEW f \in Media, ScanHash(f)
       PROVE  CleanupTypeOK' /\ GroupsSound'
  <2>1. signature' \in [Media -> Inode \cup {Gone}]
    BY <1>11 DEF ScanHash, CleanupTypeOK
  <2>2. QED  BY <1>2, <1>11, <2>1, ScanToSound DEF ScanHash, CleanupTypeOK
<1>12. QED
  BY <1>3, <1>4, <1>5, <1>6, <1>7, <1>8, <1>9, <1>10, <1>11 DEF ScanStep

\* The end of an apply.
LEMMA ApplyEndsTyped ==
    ASSUME CleanupTypeOK, HistoryOK', ApplyEnds,
           placed' \in [Media -> Inode \cup {Gone}], backups' \in [Media -> SUBSET Inode],
           actions' \in [Media -> {"settled", "running", "failed"}],
           UNCHANGED <<scan_row, signature, interrupted, outsiders, boot, slipped, overlapped, stores>>,
           stored' \in [Media -> Inode \cup {Gone, Binned}],
           kept_for' \in [Media -> Media \cup {Gone}]
    PROVE  CleanupTypeOK' /\ GroupsSound'
<1>1. GroupsSound'
  BY ApplyEndsSound
<1>2. NoAgenda \in [exact : SUBSET Group, similar : Seq(Group)]
  BY EmptySeq DEF NoAgenda
<1>3. CleanupTypeOK'
  BY <1>2 DEF ApplyEnds, CleanupTypeOK, JobPlace, outsiders, boot
<1>4. QED  BY <1>1, <1>3

\* The step of the job from one place to another.
LEMMA ApplyGoesTyped ==
    ASSUME CleanupTypeOK, HistoryOK', GroupsSound', UNCHANGED <<locked_sources, cancel_scan>>,
           agenda' \in [exact : SUBSET Group, similar : Seq(Group)],
           group' \in Group \cup {NoGroup}, at_hand' \in Media \cup {Gone},
           staged' \in Inode \cup {Gone},
           place' \in Applying,
           placed' \in [Media -> Inode \cup {Gone}], backups' \in [Media -> SUBSET Inode],
           actions' \in [Media -> {"settled", "running", "failed"}],
           UNCHANGED <<scan_row, signature, interrupted, outsiders, boot, slipped, overlapped, stores>>,
           stored' \in [Media -> Inode \cup {Gone, Binned}],
           kept_for' \in [Media -> Media \cup {Gone}]
    PROVE  CleanupTypeOK' /\ GroupsSound'
<1>1. place' \in JobPlace
  BY DEF Applying, Handling, LinkPlaces, Outside, JobPlace
<1>2. QED  BY <1>1 DEF CleanupTypeOK, outsiders, boot

LEMMA EnqueueStepsSound ==
    ASSUME CleanupAssumption, CleanupTypeOK, HistoryOK', GroupsSound,
           \/ \E exact \in BOOLEAN, selections \in Selections : EnqueueApply(exact, selections)
           \/ EnsureIdle
           \/ ApplyBegin
           \/ ApplyDone
           \/ CheckKept
    PROVE  CleanupTypeOK' /\ GroupsSound'
<1>1. ASSUME NEW exact \in BOOLEAN, NEW selections \in Selections, EnqueueApply(exact, selections)
      PROVE  CleanupTypeOK' /\ GroupsSound'
  <2>1. GroupsSound' /\ agenda' \in [exact : SUBSET Group, similar : Seq(Group)]
    BY <1>1, EnqueueApplySound
  <2>2. locked_sources' \subseteq Profiles
    <3>1. AffectedFiles(exact, selections) \subseteq Media
      <4>1. \A g \in ExactGroups : g.keep \in Media /\ g.files \subseteq Media
        BY ExactAreGroups DEF Group
      <4>2. /\ DOMAIN selections = 1..Len(selections)
            /\ \A i \in 1..Len(selections) : selections[i] \in [keep : Media, remove : SUBSET Media]
        BY SimilarAreGroups, ElementOfSeq DEF CleanupAssumption
      <4>3. QED  BY <4>1, <4>2 DEF AffectedFiles
    <3>2. QED  BY <1>1, <3>1 DEF EnqueueApply, Profiles
  <2>3. CleanupTypeOK'
    BY <1>1, <2>1, <2>2 DEF EnqueueApply, CleanupTypeOK, JobPlace, disk, dedupe_rows, outsiders, boot, put
  <2>4. QED  BY <2>1, <2>3
<1>2. CASE EnsureIdle
  <2>1. CASE /\ place \in Outside
             /\ place' = NextLook[place]
             /\ UNCHANGED <<locked_sources, cancel_scan, apply>>
    <3>1. place' \in Outside \cup {"begin"}
      BY <2>1 DEF NextLook, Outside
    <3>2. GroupsSound' /\ place' \in Applying
      BY <2>1, <3>1, SoundUnchanged DEF apply, Applying, Outside
    <3>3. QED
      BY <1>2, <2>1, <3>2, ApplyGoesTyped
         DEF EnsureIdle, CleanupTypeOK, disk, dedupe_rows, apply, past, put
  <2>2. CASE ApplyEnds
    BY <1>2, <2>2, ApplyEndsTyped DEF EnsureIdle, CleanupTypeOK, disk, dedupe_rows, past, put
  <2>3. QED  BY <1>2, <2>1, <2>2 DEF EnsureIdle
<1>3. CASE ApplyBegin
  <2>1. CASE /\ place' = "next"
             /\ UNCHANGED <<locked_sources, cancel_scan, apply>>
    <3>1. GroupsSound' /\ place' \in Applying
      BY <1>3, <2>1, SoundUnchanged DEF ApplyBegin, apply, Applying, Handling
    <3>2. QED
      BY <1>3, <2>1, <3>1, ApplyGoesTyped
         DEF ApplyBegin, CleanupTypeOK, disk, dedupe_rows, apply, past, put
  <2>2. CASE ApplyEnds
    BY <1>3, <2>2, ApplyEndsTyped DEF ApplyBegin, CleanupTypeOK, disk, dedupe_rows, past, put
  <2>3. QED  BY <1>3, <2>1, <2>2 DEF ApplyBegin
<1>4. CASE ApplyDone
  BY <1>4, ApplyEndsTyped DEF ApplyDone, CleanupTypeOK, disk, dedupe_rows, past, put
<1>5. CASE CheckKept
  <2>1. ASSUME NEW g \in Upcoming, TakeGroup(g)
        PROVE  CleanupTypeOK' /\ GroupsSound'
    <3>1. place = "next" /\ place' = "next" /\ place' \in Applying
      BY <1>5, <2>1 DEF CheckKept, AtNextGroup, TakeGroup, Applying, Handling
    <3>2. GroupsSound' /\ agenda' \in [exact : SUBSET Group, similar : Seq(Group)] /\ group' \in Group
      BY <2>1, <3>1, TakeGroupSound
    <3>3. QED
      BY <1>5, <2>1, <3>1, <3>2, ApplyGoesTyped
         DEF CheckKept, TakeGroup, CleanupTypeOK, disk, dedupe_rows, past, put
  <2>2. CASE ApplyEnds
    BY <1>5, <2>2, ApplyEndsTyped DEF CheckKept, CleanupTypeOK, disk, dedupe_rows, past, put
  <2>3. QED  BY <1>5, <2>1, <2>2 DEF CheckKept
<1>6. QED  BY <1>1, <1>2, <1>3, <1>4, <1>5

\* What a link or a recycling has at hand.
LEMMA AtHand ==
    ASSUME CleanupTypeOK, GroupsSound, place \in LinkPlaces \cup {"bin"}
    PROVE  /\ group \in Group
           /\ group.keep \in Media /\ at_hand \in Media /\ group.keep # at_hand
           /\ ProfileOf[group.keep] \in locked_sources /\ ProfileOf[at_hand] \in locked_sources
<1>1. group \in Group /\ at_hand \in group.files /\ group # NoGroup
  BY DEF GroupsSound, Group, NoGroup
<1>2. group.keep \in Media /\ group.files \subseteq Media
  BY <1>1 DEF Group
<1>3. Sound(group)
  BY <1>1 DEF GroupsSound
<1>4. QED  BY <1>1, <1>2, <1>3 DEF Sound

\* The next file of a group becomes the one at hand.
LEMMA AtNextFileSound ==
    ASSUME CleanupTypeOK, GroupsSound, NEW kind \in {"link", "recycle"}, AtNextFile(kind),
           NEW t \in group.files
    PROVE  /\ group \in Group /\ t \in Media /\ group.keep \in Media /\ group.keep # t
           /\ (/\ place' = IF kind = "link" THEN "compare" ELSE "bin"
               /\ at_hand' = t
               /\ UNCHANGED <<locked_sources, agenda, group>>) => GroupsSound'
<1>1. group \in Group
  BY DEF AtNextFile, CleanupTypeOK, NoGroup
<1>2. group.keep \in Media /\ group.files \subseteq Media /\ group # NoGroup
  BY <1>1 DEF Group, NoGroup
<1>3. Sound(group)
  BY <1>2 DEF GroupsSound
<1>4. ASSUME place' = IF kind = "link" THEN "compare" ELSE "bin", at_hand' = t,
             UNCHANGED <<locked_sources, agenda, group>>
      PROVE  GroupsSound'
  BY <1>1, <1>2, <1>4 DEF GroupsSound, Sound, AtNextFile, Applying, Handling, LinkPlaces
<1>5. QED  BY <1>1, <1>2, <1>3, <1>4 DEF Sound

\* A link goes on with the same file, or fails.
LEMMA LinkGoesTyped ==
    ASSUME CleanupTypeOK, HistoryOK', GroupsSound, place \in LinkPlaces,
           NEW next \in LinkPlaces, place' = next,
           UNCHANGED <<locked_sources, cancel_scan, agenda, group, at_hand>>,
           staged' \in Inode \cup {Gone},
           placed' \in [Media -> Inode \cup {Gone}], backups' \in [Media -> SUBSET Inode],
           UNCHANGED <<actions, scan_row, signature, interrupted, outsiders, boot, put,
                       slipped, overlapped, stores>>
    PROVE  CleanupTypeOK' /\ GroupsSound'
<1>1. GroupsSound' /\ place' \in Applying
  BY SoundUnchanged DEF Applying, Handling
<1>2. QED  BY <1>1, ApplyGoesTyped DEF CleanupTypeOK, put

LEMMA LinkFailsTyped ==
    ASSUME CleanupTypeOK, HistoryOK', LinkFails,
           placed' \in [Media -> Inode \cup {Gone}], backups' \in [Media -> SUBSET Inode],
           UNCHANGED <<scan_row, signature, interrupted, outsiders, boot, put,
                       slipped, overlapped, stores>>
    PROVE  CleanupTypeOK' /\ GroupsSound'
<1>1. actions' \in [Media -> {"settled", "running", "failed"}]
  BY DEF LinkFails, CleanupTypeOK
<1>2. ApplyEnds
  BY DEF LinkFails
<1>3. stored' \in [Media -> Inode \cup {Gone, Binned}] /\ kept_for' \in [Media -> Media \cup {Gone}]
      /\ UNCHANGED <<slipped, overlapped, stores>>
  BY DEF put, CleanupTypeOK
<1>4. QED  BY <1>1, <1>2, <1>3, ApplyEndsTyped

LEMMA LinkStepsSound ==
    ASSUME CleanupAssumption, CleanupTypeOK, HistoryOK', GroupsSound,
           \/ LinkBegin \/ LinkCompare \/ LinkStage \/ LinkMake \/ LinkRelease
           \/ LinkUndo \/ LinkRestore \/ LinkSettle
    PROVE  CleanupTypeOK' /\ GroupsSound'
<1>1. CASE LinkBegin
  <2>1. PICK t \in group.files :
            \/ /\ group' = [group EXCEPT !.files = @ \ {t}]
               /\ UNCHANGED <<actions, locked_sources, cancel_scan, place, agenda, at_hand, staged>>
            \/ /\ actions' = [actions EXCEPT ![t] = "running"]
               /\ at_hand' = t
               /\ place' = "compare"
               /\ UNCHANGED <<locked_sources, cancel_scan, agenda, group, staged>>
            \/ /\ ApplyEnds
               /\ UNCHANGED actions
    BY <1>1 DEF LinkBegin
  <2>2. /\ group \in Group /\ t \in Media /\ place = "next"
        /\ (/\ place' = "compare" /\ at_hand' = t /\ UNCHANGED <<locked_sources, agenda, group>>)
              => GroupsSound'
    BY <1>1, AtNextFileSound DEF LinkBegin, AtNextFile
  <2>3. UNCHANGED <<placed, backups, interrupted, stored, kept_for, scan_row, signature,
                    outsiders, boot, slipped, overlapped, stores>>
    BY <1>1 DEF LinkBegin, disk, put, Elsewhere
  <2>4. CASE /\ group' = [group EXCEPT !.files = @ \ {t}]
             /\ UNCHANGED <<actions, locked_sources, cancel_scan, place, agenda, at_hand, staged>>
    <3>1. group' \in Group /\ group'.keep = group.keep /\ group'.files = group.files \ {t}
          /\ group # NoGroup
      BY <2>2, <2>4 DEF Group, NoGroup
    <3>2. GroupsSound' /\ place' \in Applying
      BY <2>2, <2>4, <3>1 DEF GroupsSound, Sound, Applying, Handling, LinkPlaces
    <3>3. QED  BY <2>3, <2>4, <3>1, <3>2, ApplyGoesTyped DEF CleanupTypeOK
  <2>5. CASE /\ actions' = [actions EXCEPT ![t] = "running"]
             /\ at_hand' = t
             /\ place' = "compare"
             /\ UNCHANGED <<locked_sources, cancel_scan, agenda, group, staged>>
    <3>1. GroupsSound' /\ place' \in Applying
      BY <2>2, <2>5 DEF Applying, Handling, LinkPlaces
    <3>2. actions' \in [Media -> {"settled", "running", "failed"}]
      BY <2>5 DEF CleanupTypeOK
    <3>3. QED  BY <2>2, <2>3, <2>5, <3>1, <3>2, ApplyGoesTyped DEF CleanupTypeOK
  <2>6. CASE ApplyEnds /\ UNCHANGED actions
    BY <2>3, <2>6, ApplyEndsTyped DEF CleanupTypeOK
  <2>7. QED  BY <2>1, <2>4, <2>5, <2>6
<1>2. CASE LinkCompare
  <2>1. place = "compare" /\ place \in LinkPlaces
    BY <1>2 DEF LinkCompare, LinkPlaces
  <2>2. UNCHANGED <<placed, backups, interrupted, put, scan_row, signature,
                    outsiders, boot, slipped, overlapped, stores>>
    BY <1>2 DEF LinkCompare, disk, Elsewhere
  <2>3. CASE GoTo("stage") /\ UNCHANGED actions
    BY <2>1, <2>2, <2>3, LinkGoesTyped DEF GoTo, apply, CleanupTypeOK, LinkPlaces
  <2>4. CASE LinkFails
    BY <2>2, <2>4, LinkFailsTyped DEF CleanupTypeOK
  <2>5. QED  BY <1>2, <2>3, <2>4 DEF LinkCompare
<1>3. CASE LinkStage
  <2>1. place = "stage" /\ place \in LinkPlaces
    BY <1>3 DEF LinkStage, LinkPlaces
  <2>2. UNCHANGED <<interrupted, put, scan_row, signature, outsiders, boot, slipped, overlapped, stores>>
    BY <1>3 DEF LinkStage, Elsewhere
  <2>3. CASE /\ placed[at_hand] # Gone
             /\ staged' = placed[at_hand]
             /\ backups' = [backups EXCEPT ![at_hand] = @ \cup {placed[at_hand]}]
             /\ placed' = [placed EXCEPT ![at_hand] = Gone]
             /\ place' = "link"
             /\ UNCHANGED <<locked_sources, cancel_scan, agenda, group, at_hand, actions>>
    <3>1. placed[at_hand] \in Inode
      BY <2>1, <2>3, AtHand DEF CleanupTypeOK
    <3>2. /\ staged' \in Inode \cup {Gone}
          /\ placed' \in [Media -> Inode \cup {Gone}] /\ backups' \in [Media -> SUBSET Inode]
      BY <2>3, <3>1 DEF CleanupTypeOK
    <3>3. QED  BY <2>1, <2>2, <2>3, <3>2, LinkGoesTyped DEF LinkPlaces
  <2>4. CASE LinkFails /\ UNCHANGED disk
    BY <2>2, <2>4, LinkFailsTyped DEF CleanupTypeOK, disk
  <2>5. QED  BY <1>3, <2>3, <2>4 DEF LinkStage
<1>4. CASE LinkMake
  <2>1. place = "link" /\ place \in LinkPlaces
    BY <1>4 DEF LinkMake, LinkPlaces
  <2>2. UNCHANGED <<backups, actions, interrupted, put, scan_row, signature, outsiders, boot,
                    slipped, overlapped, stores>>
    BY <1>4 DEF LinkMake, Elsewhere
  <2>3. CASE /\ placed' = [placed EXCEPT ![at_hand] = placed[group.keep]]
             /\ GoTo("release")
    <3>1. placed' \in [Media -> Inode \cup {Gone}]
      BY <2>1, <2>3, AtHand DEF CleanupTypeOK
    <3>2. QED
      BY <2>1, <2>2, <2>3, <3>1, LinkGoesTyped DEF GoTo, apply, CleanupTypeOK, LinkPlaces
  <2>4. CASE GoTo("undo") /\ UNCHANGED placed
    BY <2>1, <2>2, <2>4, LinkGoesTyped DEF GoTo, apply, CleanupTypeOK, LinkPlaces
  <2>5. QED  BY <1>4, <2>3, <2>4 DEF LinkMake
<1>5. CASE LinkRelease
  <2>1. place = "release" /\ place \in LinkPlaces
    BY <1>5 DEF LinkRelease, LinkPlaces
  <2>2. UNCHANGED <<placed, actions, interrupted, put, scan_row, signature, outsiders, boot,
                    slipped, overlapped, stores>>
    BY <1>5 DEF LinkRelease, Elsewhere
  <2>3. backups' \in [Media -> SUBSET Inode]
    BY <1>5, SMTT(30) DEF LinkRelease, CleanupTypeOK
  <2>4. PICK next \in {"settle", "undo"} : GoTo(next)
    BY <1>5 DEF LinkRelease
  <2>5. QED
    BY <2>1, <2>2, <2>3, <2>4, LinkGoesTyped DEF GoTo, apply, CleanupTypeOK, LinkPlaces
<1>6. CASE LinkUndo
  <2>1. place = "undo" /\ place \in LinkPlaces
    BY <1>6 DEF LinkUndo, LinkPlaces
  <2>2. UNCHANGED <<backups, actions, interrupted, put, scan_row, signature, outsiders, boot,
                    slipped, overlapped, stores>> /\ GoTo("restore")
    BY <1>6 DEF LinkUndo, Elsewhere
  <2>3. placed' \in [Media -> Inode \cup {Gone}]
    BY <1>6 DEF LinkUndo, CleanupTypeOK
  <2>4. QED
    BY <2>1, <2>2, <2>3, LinkGoesTyped DEF GoTo, apply, CleanupTypeOK, LinkPlaces
<1>7. CASE LinkRestore
  <2>1. UNCHANGED <<interrupted, put, scan_row, signature, outsiders, boot, slipped, overlapped, stores>>
        /\ LinkFails
    BY <1>7 DEF LinkRestore, Elsewhere
  <2>2. placed' \in [Media -> Inode \cup {Gone}] /\ backups' \in [Media -> SUBSET Inode]
    <3>1. staged \in backups[at_hand] => staged \in Inode
      BY <1>7, AtHand DEF LinkRestore, LinkPlaces, CleanupTypeOK
    <3>2. QED  BY <1>7, <3>1 DEF LinkRestore, CleanupTypeOK, disk
  <2>3. QED  BY <2>1, <2>2, LinkFailsTyped
<1>8. CASE LinkSettle
  <2>1. place = "settle" /\ place \in LinkPlaces
    BY <1>8 DEF LinkSettle, LinkPlaces
  <2>2. UNCHANGED <<placed, backups, interrupted, stored, kept_for, scan_row, signature,
                    outsiders, boot, slipped, overlapped, stores>>
    BY <1>8 DEF LinkSettle, disk, put, Elsewhere
  <2>3. CASE /\ actions' = [actions EXCEPT ![at_hand] = "settled"]
             /\ NextFile
    <3>1. GroupsSound' /\ group' \in Group
      BY <2>1, <2>3, NextFileSound
    <3>2. actions' \in [Media -> {"settled", "running", "failed"}] /\ place' \in Applying
      BY <2>3 DEF CleanupTypeOK, NextFile, Applying, Handling
    <3>3. QED
      BY <2>2, <2>3, <3>1, <3>2, ApplyGoesTyped DEF NextFile, CleanupTypeOK
  <2>4. CASE ApplyEnds /\ UNCHANGED actions
    BY <2>2, <2>4, ApplyEndsTyped DEF CleanupTypeOK
  <2>5. QED  BY <1>8, <2>3, <2>4 DEF LinkSettle
<1>9. QED  BY <1>1, <1>2, <1>3, <1>4, <1>5, <1>6, <1>7, <1>8

LEMMA RecycleStepsSound ==
    ASSUME CleanupAssumption, CleanupTypeOK, HistoryOK', GroupsSound, RecycleBegin \/ RecycleBin
    PROVE  CleanupTypeOK' /\ GroupsSound'
<1>1. CASE RecycleBegin
  <2>1. PICK t \in group.files :
            \/ /\ at_hand' = t
               /\ place' = "bin"
               /\ UNCHANGED <<locked_sources, cancel_scan, agenda, group, staged>>
            \/ ApplyEnds
    BY <1>1 DEF RecycleBegin
  <2>2. /\ t \in Media
        /\ (/\ place' = "bin" /\ at_hand' = t /\ UNCHANGED <<locked_sources, agenda, group>>)
              => GroupsSound'
    BY <1>1, AtNextFileSound DEF RecycleBegin
  <2>3. UNCHANGED <<placed, backups, actions, interrupted, stored, kept_for, scan_row, signature,
                    outsiders, boot, slipped, overlapped, stores>>
    BY <1>1 DEF RecycleBegin, disk, dedupe_rows, past, put
  <2>4. CASE /\ at_hand' = t
             /\ place' = "bin"
             /\ UNCHANGED <<locked_sources, cancel_scan, agenda, group, staged>>
    <3>1. GroupsSound' /\ place' \in Applying
      BY <2>2, <2>4 DEF Applying, Handling
    <3>2. QED  BY <2>2, <2>3, <2>4, <3>1, ApplyGoesTyped DEF CleanupTypeOK
  <2>5. CASE ApplyEnds
    BY <2>3, <2>5, ApplyEndsTyped DEF CleanupTypeOK
  <2>6. QED  BY <2>1, <2>4, <2>5
<1>2. CASE RecycleBin
  <2>1. place = "bin" /\ group \in Group /\ group.keep \in Media
    BY <1>2, AtHand DEF RecycleBin
  <2>2. UNCHANGED <<backups, actions, interrupted, scan_row, signature, outsiders, boot,
                    slipped, overlapped, stores>>
    BY <1>2 DEF RecycleBin, Elsewhere
  <2>3. /\ placed' \in [Media -> Inode \cup {Gone}]
        /\ stored' \in [Media -> Inode \cup {Gone, Binned}]
        /\ kept_for' \in [Media -> Media \cup {Gone}]
    BY <1>2, <2>1 DEF RecycleBin, CleanupTypeOK, put
  <2>4. CASE NextFile
    <3>1. GroupsSound' /\ group' \in Group
      BY <2>1, <2>4, NextFileSound
    <3>2. place' \in Applying
      BY <2>4 DEF NextFile, Applying, Handling
    <3>3. QED
      BY <2>2, <2>3, <2>4, <3>1, <3>2, ApplyGoesTyped DEF NextFile, CleanupTypeOK
  <2>5. CASE ApplyEnds
    BY <2>2, <2>3, <2>5, ApplyEndsTyped DEF CleanupTypeOK
  <2>6. QED  BY <1>2, <2>4, <2>5 DEF RecycleBin
<1>3. QED  BY <1>1, <1>2

LEMMA OutsideStepSound ==
    ASSUME CleanupAssumption, CleanupTypeOK, HistoryOK', GroupsSound, OutsideStep
    PROVE  CleanupTypeOK' /\ GroupsSound'
<1>1. UNCHANGED job
  BY DEF OutsideStep, PassLock, QueueJob, JobEnds, FolderGoes, StoreFile, GalleryDelete
<1>2. GroupsSound'
  BY <1>1, SoundUnchanged DEF job, apply
<1>3. ASSUME NEW s \in Profiles, NEW kind \in Outside,
             PassLock(s, kind) \/ QueueJob(s, kind) \/ JobEnds(s, kind)
      PROVE  CleanupTypeOK'
  <2>1. requested' \subseteq Profiles \X Outside /\ at_work' \subseteq Profiles \X Outside
    <3>1. <<s, kind>> \in Profiles \X Outside
      OBVIOUS
    <3>2. CASE PassLock(s, kind)
      BY <3>1, <3>2 DEF PassLock, CleanupTypeOK, past
    <3>3. CASE QueueJob(s, kind)
      BY <3>1, <3>3 DEF QueueJob, CleanupTypeOK
    <3>4. CASE JobEnds(s, kind)
      BY <3>1, <3>4 DEF JobEnds, CleanupTypeOK, past
    <3>5. QED  BY <1>3, <3>2, <3>3, <3>4
  <2>2. UNCHANGED <<disk, dedupe_rows, boot, put, overlapped, stores>>
    BY <1>3 DEF PassLock, QueueJob, JobEnds, past
  <2>3. /\ UNCHANGED <<placed, backups, scan_row, signature, actions, interrupted, locked_sources>>
        /\ UNCHANGED <<cancel_scan, place, agenda, group, at_hand, staged>>
        /\ UNCHANGED <<repair, to_repair, stored, kept_for, stores>>
    BY <1>1, <2>2 DEF disk, dedupe_rows, boot, put, job, apply
  <2>4. QED  BY <2>1, <2>3 DEF CleanupTypeOK
<1>4. ASSUME NEW s \in Profiles, NEW kind \in Outside, FolderGoes(s, kind)
      PROVE  CleanupTypeOK'
  <2>1. /\ placed' \in [Media -> Inode \cup {Gone}] /\ backups' \in [Media -> SUBSET Inode]
        /\ stored' \in [Media -> Inode \cup {Gone, Binned}]
    BY <1>4 DEF FolderGoes, CleanupTypeOK
  <2>2. /\ UNCHANGED <<scan_row, signature, actions, interrupted, locked_sources, cancel_scan>>
        /\ UNCHANGED <<place, agenda, group, at_hand, staged>>
        /\ UNCHANGED <<requested, at_work, repair, to_repair, kept_for, stores>>
    BY <1>1, <1>4 DEF FolderGoes, dedupe_rows, boot, outsiders, job, apply
  <2>3. QED  BY <2>1, <2>2 DEF CleanupTypeOK
<1>5. ASSUME NEW f \in Media, StoreFile(f)
      PROVE  CleanupTypeOK'
  <2>1. stores + 1 \in 1..Len(NewInodes) /\ NewInodes[stores + 1] \in Inode
        /\ stores' \in 0..Len(NewInodes)
    <3>1. NewInodes \in Seq(Inode) /\ Len(NewInodes) \in Nat
      BY LenProperties DEF CleanupAssumption
    <3>2. stores \in 0..Len(NewInodes) /\ stores < Len(NewInodes) /\ stores' = stores + 1
      BY <1>5 DEF StoreFile, CleanupTypeOK
    <3>3. stores + 1 \in 1..Len(NewInodes) /\ stores' \in 0..Len(NewInodes)
      BY <3>1, <3>2
    <3>4. QED  BY <3>1, <3>3, ElementOfSeq
  <2>2. /\ placed' \in [Media -> Inode \cup {Gone}]
        /\ stored' \in [Media -> Inode \cup {Gone, Binned}]
    BY <1>5, <2>1 DEF StoreFile, CleanupTypeOK
  <2>3. /\ UNCHANGED <<backups, scan_row, signature, actions, interrupted, locked_sources>>
        /\ UNCHANGED <<cancel_scan, place, agenda, group, at_hand, staged>>
        /\ UNCHANGED <<requested, at_work, repair, to_repair, kept_for>>
    BY <1>1, <1>5 DEF StoreFile, dedupe_rows, boot, outsiders, job, apply
  <2>4. QED  BY <2>1, <2>2, <2>3 DEF CleanupTypeOK
<1>6. ASSUME NEW f \in Media, GalleryDelete(f)
      PROVE  CleanupTypeOK'
  BY <1>1, <1>6 DEF GalleryDelete, CleanupTypeOK, boot, outsiders, job, apply
<1>7. QED  BY <1>2, <1>3, <1>4, <1>5, <1>6 DEF OutsideStep

LEMMA RepairStepSound ==
    ASSUME CleanupAssumption, CleanupTypeOK, HistoryOK', GroupsSound, RepairStep \/ Die
    PROVE  CleanupTypeOK' /\ GroupsSound'
<1>1. CASE Die
  <2>1. NoAgenda \in [exact : SUBSET Group, similar : Seq(Group)]
    BY EmptySeq DEF NoAgenda
  <2>2. GroupsSound'
    BY <1>1, EmptySeq DEF Die, GroupsSound, NoAgenda, Applying, Handling, LinkPlaces, Outside
  <2>3. requested' \subseteq Profiles \X Outside
    BY <1>1 DEF Die, CleanupTypeOK
  <2>4. CleanupTypeOK'
    BY <1>1, <2>1, <2>3 DEF Die, CleanupTypeOK, JobPlace, disk, dedupe_rows, past, put
  <2>5. QED  BY <2>2, <2>4
<1>2. CASE RepairStep
  <2>1. UNCHANGED job
    BY <1>2 DEF RepairStep, RepairRows, RepairDone, RepairFile
  <2>2. GroupsSound'
    BY <2>1, SoundUnchanged DEF job, apply
  <2>3. CASE RepairRows
    <3>1. NoSignature \in [Media -> Inode \cup {Gone}]
      BY DEF NoSignature
    <3>2. /\ scan_row' \in {"running", "completed", "ended"}
          /\ signature' \in [Media -> Inode \cup {Gone}]
          /\ actions' \in [Media -> {"settled", "running", "failed"}]
          /\ interrupted' \subseteq Media /\ to_repair' \subseteq Media
      BY <2>3, <3>1 DEF RepairRows, CleanupTypeOK
    <3>3. QED
      BY <2>1, <2>2, <2>3, <3>2 DEF RepairRows, CleanupTypeOK, disk, job, apply, outsiders, past, put
  <2>4. CASE RepairDone
    BY <2>1, <2>2, <2>4
       DEF RepairDone, CleanupTypeOK, disk, dedupe_rows, job, apply, outsiders, past, put
  <2>5. ASSUME NEW f \in Media, RepairFile(f)
        PROVE  CleanupTypeOK'
    <3>1. /\ placed' \in [Media -> Inode \cup {Gone}] /\ backups' \in [Media -> SUBSET Inode]
          /\ interrupted' \subseteq Media
          /\ stored' \in [Media -> Inode \cup {Gone, Binned}]
      <4>1. CASE UNCHANGED <<disk, interrupted, stored>>
        BY <4>1 DEF CleanupTypeOK, disk
      <4>2. ASSUME NEW b \in backups[f],
                   placed' = [placed EXCEPT ![f] = IF @ = Gone THEN b ELSE @],
                   backups' = [backups EXCEPT ![f] = @ \ {b}],
                   interrupted' = interrupted \ {f},
                   stored' = [stored EXCEPT ![f] = IF @ = Binned /\ placed[f] = Gone THEN b ELSE @]
            PROVE  /\ placed' \in [Media -> Inode \cup {Gone}] /\ backups' \in [Media -> SUBSET Inode]
                   /\ interrupted' \subseteq Media
                   /\ stored' \in [Media -> Inode \cup {Gone, Binned}]
        <5>1. b \in Inode
          BY <4>2 DEF CleanupTypeOK
        <5>2. QED  BY <4>2, <5>1 DEF CleanupTypeOK
      <4>3. QED  BY <2>5, <4>1, <4>2 DEF RepairFile
    <3>2. QED
      BY <2>1, <2>5, <3>1 DEF RepairFile, CleanupTypeOK, job, apply, outsiders
  <2>6. QED  BY <1>2, <2>2, <2>3, <2>4, <2>5 DEF RepairStep
<1>3. QED  BY <1>1, <1>2

LEMMA WhoseHistory ==
    ASSUME [CleanupNext]_cleanup_vars
    PROVE  \/ EnqueueScan
           \/ \E exact \in BOOLEAN, selections \in Selections : EnqueueApply(exact, selections)
           \/ \E s \in Profiles, kind \in Outside : QueueJob(s, kind)
           \/ UNCHANGED <<slipped, overlapped>>
<1>1. CASE UNCHANGED cleanup_vars
  BY <1>1 DEF cleanup_vars, past
<1>2. CASE ScanStep
  BY <1>2 DEF ScanStep, EnqueueScanFails, CancelScan, ScanTo, ScanInventory, ScanHash,
              ScanComplete, ScanReport, ScanStops, ScanWindUp, past
<1>3. CASE ApplyStep
  BY <1>3 DEF ApplyStep, EnsureIdle, ApplyBegin, ApplyDone, CheckKept, LinkBegin, LinkCompare,
              LinkStage, LinkMake, LinkRelease, LinkUndo, LinkRestore, LinkSettle,
              RecycleBegin, RecycleBin, Elsewhere, past
<1>4. CASE OutsideStep
  BY <1>4 DEF OutsideStep, PassLock, JobEnds, FolderGoes, StoreFile, GalleryDelete, past
<1>5. CASE RepairStep
  BY <1>5 DEF RepairStep, RepairRows, RepairDone, RepairFile, past
<1>6. CASE Die
  BY <1>6 DEF Die, past
<1>7. QED  BY <1>1, <1>2, <1>3, <1>4, <1>5, <1>6 DEF CleanupNext

LEMMA HistoryTyped ==
    ASSUME HistoryOK, [CleanupNext]_cleanup_vars
    PROVE  HistoryOK'
<1>1. CASE EnqueueScan
  BY <1>1 DEF HistoryOK, EnqueueScan
<1>2. ASSUME NEW exact \in BOOLEAN, NEW selections \in Selections, EnqueueApply(exact, selections)
      PROVE  HistoryOK'
  BY <1>2 DEF HistoryOK, EnqueueApply
<1>3. ASSUME NEW s \in Profiles, NEW kind \in Outside, QueueJob(s, kind)
      PROVE  HistoryOK'
  BY <1>3 DEF HistoryOK, QueueJob
<1>4. CASE UNCHANGED <<slipped, overlapped>>
  BY <1>4 DEF HistoryOK
<1>5. QED  BY <1>1, <1>2, <1>3, <1>4, WhoseHistory

LEMMA CleanupStepSound ==
    ASSUME CleanupAssumption, CleanupTypeOK, GroupsSound, [CleanupNext]_cleanup_vars
    PROVE  CleanupTypeOK' /\ GroupsSound'
<1> HistoryOK'
  BY HistoryTyped DEF CleanupTypeOK
<1>1. CASE UNCHANGED cleanup_vars
  <2>1. GroupsSound'
    BY <1>1, SoundUnchanged DEF cleanup_vars, job, apply
  <2>2. CleanupTypeOK'
    <3>1. /\ UNCHANGED <<placed, backups, scan_row, signature, actions, interrupted>>
          /\ UNCHANGED <<locked_sources, cancel_scan, place, agenda, group, at_hand, staged>>
          /\ UNCHANGED <<requested, at_work, repair, to_repair, stored, kept_for, stores>>
      BY <1>1 DEF cleanup_vars, disk, dedupe_rows, job, apply, outsiders, boot, past, put
    <3>2. QED  BY <3>1 DEF CleanupTypeOK
  <2>3. QED  BY <2>1, <2>2
<1>2. CASE ApplyStep
  BY <1>2, EnqueueStepsSound, LinkStepsSound, RecycleStepsSound DEF ApplyStep
<1>3. QED
  BY <1>1, <1>2, ScanStepSound, OutsideStepSound, RepairStepSound DEF CleanupNext

LEMMA CleanupInitSound ==
    ASSUME CleanupAssumption, CleanupInit
    PROVE  CleanupTypeOK /\ GroupsSound
<1>1. NoAgenda \in [exact : SUBSET Group, similar : Seq(Group)]
  BY EmptySeq DEF NoAgenda
<1>2. CleanupTypeOK
  <2>1. Len(NewInodes) \in Nat /\ FirstPlaced \in [Media -> Inode]
    BY LenProperties DEF CleanupAssumption
  <2>2. NoSignature \in [Media -> Inode \cup {Gone}] /\ NoSignature \in [Media -> Media \cup {Gone}]
    BY DEF NoSignature
  <2>3. stores \in 0..Len(NewInodes)
    BY <2>1 DEF CleanupInit
  <2>4. stored \in [Media -> Inode \cup {Gone, Binned}] /\ placed \in [Media -> Inode \cup {Gone}]
    BY <2>1 DEF CleanupInit
  <2>5. /\ backups \in [Media -> SUBSET Inode]
        /\ actions \in [Media -> {"settled", "running", "failed"}]
    BY DEF CleanupInit
  <2>6. HistoryOK
    BY DEF CleanupInit, HistoryOK
  <2>7. QED  BY <1>1, <2>2, <2>3, <2>4, <2>5, <2>6 DEF CleanupInit, CleanupTypeOK, JobPlace
<1>3. GroupsSound
  BY EmptySeq DEF CleanupInit, GroupsSound, NoAgenda, Applying, Handling, LinkPlaces, Outside
<1>4. QED  BY <1>2, <1>3
----------------------------------------------------------------------------
\* Which steps change what.

LEMMA WhoPlaces ==
    ASSUME [CleanupNext]_cleanup_vars
    PROVE  \/ UNCHANGED <<placed, backups, stored>>
           \/ LinkStage \/ LinkMake \/ LinkRelease \/ LinkUndo \/ LinkRestore \/ RecycleBin
           \/ \E s \in Profiles, kind \in Outside : FolderGoes(s, kind)
           \/ \E f \in Media : StoreFile(f) \/ GalleryDelete(f) \/ RepairFile(f)
<1>1. CASE UNCHANGED cleanup_vars
  BY <1>1 DEF cleanup_vars, disk, past, put
<1>2. CASE ScanStep
  BY <1>2 DEF ScanStep, EnqueueScan, EnqueueScanFails, CancelScan, ScanTo, ScanInventory, ScanHash,
              ScanComplete, ScanReport, ScanStops, ScanWindUp, disk, past, put
<1>3. CASE ApplyStep
  BY <1>3 DEF ApplyStep, EnqueueApply, EnsureIdle, ApplyBegin, ApplyDone, CheckKept, LinkBegin,
              LinkCompare, LinkSettle, RecycleBegin, disk, past, put
<1>4. CASE OutsideStep
  BY <1>4 DEF OutsideStep, PassLock, QueueJob, JobEnds, disk, past, put
<1>5. CASE RepairStep
  BY <1>5 DEF RepairStep, RepairRows, RepairDone, disk, past, put
<1>6. CASE Die
  BY <1>6 DEF Die, disk, past, put
<1>7. QED  BY <1>1, <1>2, <1>3, <1>4, <1>5, <1>6 DEF CleanupNext

LEMMA WhoKeeps ==
    ASSUME [CleanupNext]_cleanup_vars
    PROVE  RecycleBin \/ UNCHANGED kept_for
<1>1. CASE UNCHANGED cleanup_vars
  BY <1>1 DEF cleanup_vars, past, put
<1>2. CASE ScanStep
  BY <1>2 DEF ScanStep, EnqueueScan, EnqueueScanFails, CancelScan, ScanTo, ScanInventory, ScanHash,
              ScanComplete, ScanReport, ScanStops, ScanWindUp, past, put
<1>3. CASE ApplyStep
  BY <1>3 DEF ApplyStep, EnqueueApply, EnsureIdle, ApplyBegin, ApplyDone, CheckKept, LinkBegin,
              LinkCompare, LinkStage, LinkMake, LinkRelease, LinkUndo, LinkRestore, LinkSettle,
              RecycleBegin, past, put
<1>4. CASE OutsideStep
  BY <1>4 DEF OutsideStep, PassLock, QueueJob, JobEnds, FolderGoes, StoreFile, GalleryDelete, past, put
<1>5. CASE RepairStep
  BY <1>5 DEF RepairStep, RepairRows, RepairFile, RepairDone, past, put
<1>6. CASE Die
  BY <1>6 DEF Die, past, put
<1>7. QED  BY <1>1, <1>2, <1>3, <1>4, <1>5, <1>6 DEF CleanupNext

\* The job's own thread.
LEMMA WhoseGroup ==
    ASSUME CleanupTypeOK, GroupsSound, [CleanupNext]_cleanup_vars
    PROVE  \/ group'.do = "recycle" => group.do = "recycle" /\ group'.keep = group.keep
           \/ \E g \in Upcoming : Valid(g.keep) /\ group' = g /\ UNCHANGED <<placed, stored>>
<1>1. NoGroup.do # "recycle"
  BY DEF NoGroup
<1>2. CASE UNCHANGED group
  BY <1>2
<1>3. CASE group' = NoGroup
  BY <1>1, <1>3
<1>4. CASE ApplyStep
  <2>1. CASE ApplyEnds
    BY <1>3, <2>1 DEF ApplyEnds
  <2>2. CASE NextFile /\ place \in LinkPlaces \cup {"bin"}
    <3>1. group \in Group
      BY <2>2, AtHand
    <3>2. QED  BY <2>2, <3>1 DEF NextFile, Group
  <2>3. ASSUME NEW t \in group.files, group' = [group EXCEPT !.files = @ \ {t}], place = "next",
               group.do = "link"
        PROVE  group'.do # "recycle"
    <3>1. group \in Group
      BY <2>3 DEF CleanupTypeOK, NoGroup
    <3>2. QED  BY <2>3, <3>1 DEF Group
  <2>4. ASSUME NEW g \in Upcoming, Valid(g.keep), TakeGroup(g), CheckKept
        PROVE  Valid(g.keep) /\ group' = g /\ UNCHANGED <<placed, stored>>
    BY <2>4 DEF TakeGroup, CheckKept, disk, past, put
  <2>5. \/ UNCHANGED group \/ group' = NoGroup \/ ApplyEnds
        \/ NextFile /\ place \in LinkPlaces \cup {"bin"}
        \/ \E t \in group.files :
              group' = [group EXCEPT !.files = @ \ {t}] /\ place = "next" /\ group.do = "link"
        \/ \E g \in Upcoming : Valid(g.keep) /\ TakeGroup(g) /\ CheckKept
    <3>1. CASE \/ \E exact \in BOOLEAN, selections \in Selections : EnqueueApply(exact, selections)
               \/ EnsureIdle \/ ApplyBegin \/ ApplyDone
      BY <3>1 DEF EnqueueApply, EnsureIdle, ApplyBegin, ApplyDone, apply
    <3>2. CASE CheckKept
      BY <3>2 DEF CheckKept
    <3>3. CASE LinkBegin
      BY <3>3 DEF LinkBegin, AtNextFile
    <3>4. CASE \/ LinkCompare \/ LinkStage \/ LinkMake \/ LinkRelease \/ LinkUndo \/ LinkRestore
      BY <3>4 DEF LinkCompare, LinkStage, LinkMake, LinkRelease, LinkUndo, LinkRestore, LinkFails,
                  GoTo, apply
    <3>5. CASE LinkSettle \/ RecycleBin
      BY <3>5 DEF LinkSettle, RecycleBin, LinkPlaces
    <3>6. CASE RecycleBegin
      BY <3>6 DEF RecycleBegin
    <3>7. QED  BY <1>4, <3>1, <3>2, <3>3, <3>4, <3>5, <3>6 DEF ApplyStep
  <2>6. QED  BY <1>2, <1>3, <2>1, <2>2, <2>3, <2>4, <2>5
<1>5. CASE ScanStep
  BY <1>2, <1>5 DEF ScanStep, EnqueueScan, EnqueueScanFails, CancelScan, ScanTo, ScanInventory,
              ScanHash, ScanComplete, ScanReport, ScanStops, ScanWindUp, job, apply
<1>6. CASE OutsideStep \/ RepairStep \/ UNCHANGED cleanup_vars
  BY <1>2, <1>6 DEF OutsideStep, PassLock, QueueJob, JobEnds, FolderGoes, StoreFile, GalleryDelete,
              RepairStep, RepairRows, RepairFile, RepairDone, cleanup_vars, job, apply
<1>7. CASE Die
  BY <1>3, <1>7 DEF Die
<1>8. QED  BY <1>4, <1>5, <1>6, <1>7 DEF CleanupNext

LEMMA WhoLinks ==
    ASSUME [CleanupNext]_cleanup_vars, place' \in LinkPlaces
    PROVE  \/ place \in LinkPlaces /\ UNCHANGED at_hand
           \/ /\ \E t \in group.files : Valid(t) /\ at_hand' = t
              /\ AtNextFile("link")
              /\ UNCHANGED <<placed, stored>>
<1>1. CASE ScanStep
  BY <1>1 DEF ScanStep, EnqueueScan, EnqueueScanFails, CancelScan, ScanTo, ScanInventory, ScanHash,
              ScanComplete, ScanReport, ScanStops, ScanWindUp, job, apply, LinkPlaces
<1>2. CASE \/ \E exact \in BOOLEAN, selections \in Selections : EnqueueApply(exact, selections)
           \/ EnsureIdle \/ ApplyBegin \/ ApplyDone
  BY <1>2 DEF EnqueueApply, EnsureIdle, ApplyBegin, ApplyDone, ApplyEnds, NextLook, LinkPlaces, Outside
<1>3. CASE CheckKept
  BY <1>3 DEF CheckKept, AtNextGroup, TakeGroup, ApplyEnds, LinkPlaces
<1>4. CASE LinkBegin
  BY <1>4 DEF LinkBegin, AtNextFile, ApplyEnds, LinkPlaces, disk, put
<1>5. CASE LinkCompare \/ LinkStage \/ LinkMake \/ LinkRelease \/ LinkUndo \/ LinkRestore \/ LinkSettle
  BY <1>5 DEF LinkCompare, LinkStage, LinkMake, LinkRelease, LinkUndo, LinkRestore, LinkSettle,
              LinkFails, ApplyEnds, NextFile, GoTo, apply, LinkPlaces
<1>6. CASE RecycleBegin \/ RecycleBin
  BY <1>6 DEF RecycleBegin, RecycleBin, ApplyEnds, NextFile, LinkPlaces
<1>7. CASE OutsideStep \/ RepairStep \/ UNCHANGED cleanup_vars
  BY <1>7 DEF OutsideStep, PassLock, QueueJob, JobEnds, FolderGoes, StoreFile, GalleryDelete,
              RepairStep, RepairRows, RepairFile, RepairDone, cleanup_vars, job, apply
<1>8. CASE Die
  BY <1>8 DEF Die, LinkPlaces
<1>9. QED
  BY <1>1, <1>2, <1>3, <1>4, <1>5, <1>6, <1>7, <1>8 DEF CleanupNext, ApplyStep
----------------------------------------------------------------------------
\* What is recycled.

LEMMA RecycledIsGone ==
    ASSUME CleanupAssumption, CleanupTypeOK, GroupsSound, Recycling, [CleanupNext]_cleanup_vars,
           NEW f \in Media, stored'[f] = Binned
    PROVE  /\ placed'[f] = Gone
           /\ (RecycleBin /\ f = at_hand) \/ stored[f] = Binned
<1>1. /\ stored[f] = Binned => placed[f] = Gone
      /\ Binned \notin Inode /\ Gone # Binned
      /\ placed \in [Media -> Inode \cup {Gone}] /\ stored \in [Media -> Inode \cup {Gone, Binned}]
  BY DEF Recycling, CleanupAssumption, CleanupTypeOK
<1>2. CASE UNCHANGED <<placed, backups, stored>>
  BY <1>1, <1>2
<1>3. CASE LinkStage \/ LinkMake \/ LinkRelease \/ LinkUndo \/ LinkRestore
  <2>1. place \in LinkPlaces
    BY <1>3 DEF LinkStage, LinkMake, LinkRelease, LinkUndo, LinkRestore, LinkPlaces
  <2>2. at_hand \in Media /\ stored[at_hand] # Binned /\ UNCHANGED stored
    BY <1>3, <2>1, AtHand
       DEF LinkStage, LinkMake, LinkRelease, LinkUndo, LinkRestore, Recycling, put
  <2>3. placed' = placed \/ \E i : placed' = [placed EXCEPT ![at_hand] = i]
    BY <1>3 DEF LinkStage, LinkMake, LinkRelease, LinkUndo, LinkRestore, disk
  <2>4. QED  BY <1>1, <2>2, <2>3
<1>4. CASE RecycleBin
  <2>1. at_hand \in Media
    BY <1>4, AtHand DEF RecycleBin
  <2>2. \/ UNCHANGED <<placed, stored>>
        \/ /\ placed' = [placed EXCEPT ![at_hand] = Gone]
           /\ stored' = [stored EXCEPT ![at_hand] = Binned]
    BY <1>4 DEF RecycleBin, put
  <2>3. QED  BY <1>1, <1>4, <2>1, <2>2
<1>5. ASSUME NEW s \in Profiles, NEW kind \in Outside, FolderGoes(s, kind)
      PROVE  placed'[f] = Gone /\ stored[f] = Binned
  BY <1>1, <1>5 DEF FolderGoes
<1>6. ASSUME NEW g \in Media, StoreFile(g)
      PROVE  placed'[f] = Gone /\ stored[f] = Binned
  <2>1. NewInodes[stores + 1] \in Inode
    <3>1. NewInodes \in Seq(Inode) /\ Len(NewInodes) \in Nat /\ stores \in 0..Len(NewInodes)
      BY LenProperties DEF CleanupAssumption, CleanupTypeOK
    <3>2. stores + 1 \in 1..Len(NewInodes)
      BY <1>6, <3>1 DEF StoreFile
    <3>3. QED  BY <3>1, <3>2, ElementOfSeq
  <2>2. QED  BY <1>1, <1>6, <2>1 DEF StoreFile
<1>7. ASSUME NEW g \in Media, GalleryDelete(g)
      PROVE  placed'[f] = Gone /\ stored[f] = Binned
  BY <1>1, <1>7 DEF GalleryDelete
<1>8. ASSUME NEW g \in Media, RepairFile(g)
      PROVE  placed'[f] = Gone /\ stored[f] = Binned
  <2>1. CASE UNCHANGED <<placed, stored>>
    BY <1>1, <2>1
  <2>2. ASSUME NEW b \in backups[g],
               placed' = [placed EXCEPT ![g] = IF @ = Gone THEN b ELSE @],
               stored' = [stored EXCEPT ![g] = IF @ = Binned /\ placed[g] = Gone THEN b ELSE @]
        PROVE  placed'[f] = Gone /\ stored[f] = Binned
    <3>1. b \in Inode
      BY <2>2 DEF CleanupTypeOK
    <3>2. CASE f = g
      BY <1>1, <2>2, <3>1, <3>2 DEF Recycling
    <3>3. CASE f # g
      BY <1>1, <2>2, <3>3
    <3>4. QED  BY <3>2, <3>3
  <2>3. QED  BY <1>8, <2>1, <2>2 DEF RepairFile, disk
<1>9. QED  BY <1>1, <1>2, <1>3, <1>4, <1>5, <1>6, <1>7, <1>8, WhoPlaces

LEMMA RecyclingStep ==
    ASSUME CleanupAssumption, CleanupTypeOK, GroupsSound, Recycling, [CleanupNext]_cleanup_vars
    PROVE  Recycling'
<1>1. \A f \in Media : stored'[f] = Binned => placed'[f] = Gone
  BY RecycledIsGone
<1>2. ASSUME group'.do = "recycle"
      PROVE  stored'[group'.keep] # Binned
  <2>1. CASE group.do = "recycle" /\ group'.keep = group.keep
    <3>1. group \in Group /\ group.keep \in Media /\ stored[group.keep] # Binned
      BY <2>1 DEF CleanupTypeOK, NoGroup, Group, Recycling
    <3>2. RecycleBin => group.keep # at_hand
      BY AtHand DEF RecycleBin
    <3>3. QED  BY <2>1, <3>1, <3>2, RecycledIsGone
  <2>2. ASSUME NEW g \in Upcoming, Valid(g.keep), group' = g, UNCHANGED <<placed, stored>>
        PROVE  stored'[group'.keep] # Binned
    <3>1. g.keep \in Media /\ placed[g.keep] # Gone
      BY <2>2, UpcomingSound DEF Group, Valid, Same
    <3>2. QED  BY <2>2, <3>1 DEF Recycling
  <2>3. QED  BY <1>2, <2>1, <2>2, WhoseGroup
<1>3. ASSUME place' \in LinkPlaces
      PROVE  stored'[at_hand'] # Binned
  <2>1. CASE place \in LinkPlaces /\ UNCHANGED at_hand
    <3>1. at_hand \in Media /\ stored[at_hand] # Binned
      BY <2>1, AtHand DEF Recycling
    <3>2. ~ RecycleBin
      BY <2>1 DEF RecycleBin, LinkPlaces
    <3>3. QED  BY <2>1, <3>1, <3>2, RecycledIsGone
  <2>2. ASSUME NEW t \in group.files, Valid(t), at_hand' = t, AtNextFile("link"),
               UNCHANGED <<placed, stored>>
        PROVE  stored'[at_hand'] # Binned
    <3>1. t \in Media /\ placed[t] # Gone
      BY <2>2, AtNextFileSound DEF Valid, Same
    <3>2. QED  BY <2>2, <3>1 DEF Recycling
  <2>3. QED  BY <1>3, <2>1, <2>2, WhoLinks
<1>4. QED  BY <1>1, <1>2, <1>3 DEF Recycling

LEMMA LastCopyStep ==
    ASSUME CleanupAssumption, CleanupTypeOK, GroupsSound, Recycling, LastCopyStays,
           [CleanupNext]_cleanup_vars
    PROVE  LastCopyStays'
<1> SUFFICES ASSUME NEW bin \in (SUBSET Media) \ {{}}
             PROVE  \E f \in bin : stored'[f] # Binned \/ kept_for'[f] \notin bin
  BY DEF LastCopyStays
<1>1. PICK f \in bin : stored[f] # Binned \/ kept_for[f] \notin bin
  BY DEF LastCopyStays
<1>2. CASE ~ RecycleBin
  <2>1. UNCHANGED kept_for
    BY <1>2, WhoKeeps
  <2>2. QED  BY <1>1, <1>2, <2>1, RecycledIsGone
<1>3. CASE RecycleBin
  <2>1. group \in Group /\ group.do = "recycle" /\ group.keep \in Media /\ at_hand \in Media
        /\ group.keep # at_hand
    BY <1>3, AtHand DEF RecycleBin, GroupsSound
  <2>2. stored[group.keep] # Binned
    BY <2>1 DEF Recycling
  <2>3. CASE UNCHANGED <<stored, kept_for>>
    BY <1>1, <2>3
  <2>4. CASE /\ stored' = [stored EXCEPT ![at_hand] = Binned]
             /\ kept_for' = [kept_for EXCEPT ![at_hand] = group.keep]
    <3>1. CASE at_hand \notin bin
      BY <1>1, <2>1, <2>4, <3>1 DEF CleanupTypeOK
    <3>2. CASE at_hand \in bin /\ group.keep \notin bin
      BY <2>1, <2>4, <3>2 DEF CleanupTypeOK
    <3>3. CASE group.keep \in bin
      BY <2>1, <2>2, <2>4, <3>3 DEF CleanupTypeOK
    <3>4. QED  BY <3>1, <3>2, <3>3
  <2>5. QED  BY <1>3, <2>3, <2>4 DEF RecycleBin, put
<1>4. QED  BY <1>2, <1>3
----------------------------------------------------------------------------
\* Bytes, while the job has the library to itself.

\* Recovery is over while a job runs, and no other job is queued or running on a profile
\* it has locked once it has looked at the queue for that kind.
Undisturbed ==
    /\ Busy => repair = "done"
    /\ \A s \in locked_sources, kind \in Outside :
          place \in Applying \ StillLooks(kind) => <<s, kind>> \notin at_work

\* The file being linked is where the job believes it to be: with the bytes of the file to
\* keep, in the backup, or under its name, unless somebody deleted it.
Staged == {"link", "release", "undo", "restore"}
LinkAsBelieved ==
    /\ place = "stage" =>
          \/ placed[group.keep] = Gone \/ placed[at_hand] = Gone
          \/ Same(placed[group.keep], placed[at_hand])
    /\ place = "link" =>
          /\ placed[at_hand] = Gone
          /\ placed[group.keep] = Gone \/ Same(placed[group.keep], staged)
    /\ place \in Staged =>
          /\ staged # Gone /\ staged \in backups[at_hand]
          /\ placed[at_hand] = Gone \/ Same(placed[at_hand], staged)
    /\ place = "release" /\ placed[at_hand] = Gone => stored[at_hand] \notin Inode

\* Only the steps that start a job or queue one can disturb.
LEMMA AloneBefore ==
    ASSUME HistoryOK, [CleanupNext]_cleanup_vars, CleanedAlone'
    PROVE  CleanedAlone
<1>1. CASE UNCHANGED cleanup_vars
  BY <1>1 DEF CleanedAlone, cleanup_vars, past
<1>2. CASE EnqueueScan
  BY <1>2 DEF CleanedAlone, EnqueueScan
<1>3. ASSUME NEW exact \in BOOLEAN, NEW selections \in Selections, EnqueueApply(exact, selections)
      PROVE  CleanedAlone
  BY <1>3 DEF CleanedAlone, EnqueueApply
<1>4. ASSUME NEW s \in Profiles, NEW kind \in Outside, QueueJob(s, kind)
      PROVE  CleanedAlone
  BY <1>4 DEF CleanedAlone, QueueJob
<1>5. CASE UNCHANGED <<slipped, overlapped>>
  BY <1>5 DEF CleanedAlone
<1>6. QED  BY <1>2, <1>3, <1>4, <1>5, WhoseHistory

LEMMA AloneQueues ==
    ASSUME NEW s, NEW kind, QueueJob(s, kind), CleanedAlone'
    PROVE  s \notin locked_sources \/ place \in StillLooks(kind)
BY DEF QueueJob, CleanedAlone

LEMMA AloneStarts ==
    ASSUME EnqueueScan \/ (\E exact, selections : EnqueueApply(exact, selections)), CleanedAlone'
    PROVE  repair = "done"
BY DEF EnqueueScan, EnqueueApply, CleanedAlone

\* A job that goes on, that stops, or that looks at the next queue.
LEMMA StaysUndisturbed ==
    ASSUME Undisturbed, UNCHANGED repair, at_work' \subseteq at_work,
           \/ /\ UNCHANGED locked_sources
              /\ \/ UNCHANGED place
                 \/ place \in {"begin"} \cup Handling /\ place' \in Handling
           \/ place' \notin Applying /\ (place' # "none" => repair = "done")
    PROVE  Undisturbed'
<1>1. Busy' => repair' = "done"
  <2>1. "none" \notin Handling \cup {"begin"}
    BY DEF Handling, LinkPlaces
  <2>2. QED  BY <2>1 DEF Undisturbed, Busy
<1>2. ASSUME NEW s \in locked_sources', NEW kind \in Outside, place' \in Applying \ StillLooks(kind)
      PROVE  <<s, kind>> \notin at_work'
  <2>1. UNCHANGED locked_sources
    BY <1>2
  <2>2. CASE UNCHANGED place
    BY <1>2, <2>1, <2>2 DEF Undisturbed
  <2>3. CASE place \in {"begin"} \cup Handling
    <3>1. place \in Applying \ StillLooks(kind)
      BY <2>3 DEF StillLooks, Applying, Handling, LinkPlaces, Outside
    <3>2. QED  BY <1>2, <2>1, <3>1 DEF Undisturbed
  <2>4. QED  BY <1>2, <2>2, <2>3
<1>3. QED  BY <1>1, <1>2 DEF Undisturbed

LEMMA UndisturbedStep ==
    ASSUME CleanupTypeOK, GroupsSound, Undisturbed, [CleanupNext]_cleanup_vars, CleanedAlone'
    PROVE  Undisturbed'
<1>1. CASE ScanStep
  <2>1. UNCHANGED <<repair, at_work>>
    BY <1>1 DEF ScanStep, EnqueueScan, EnqueueScanFails, CancelScan, ScanTo, ScanInventory, ScanHash,
                ScanComplete, ScanReport, ScanStops, ScanWindUp, boot, outsiders
  <2>2. CASE EnqueueScan
    <3>1. repair = "done" /\ place' \notin Applying
      BY <2>2, AloneStarts DEF EnqueueScan, Applying, Handling, LinkPlaces, Outside
    <3>2. QED  BY <2>1, <3>1, StaysUndisturbed
  <2>3. CASE EnqueueScanFails \/ CancelScan
    BY <2>1, <2>3, StaysUndisturbed DEF EnqueueScanFails, CancelScan, job
  <2>4. ASSUME NEW next \in {"none", "hash", "report", "wind up"}, ScanTo(next), Busy
        PROVE  Undisturbed'
    <3>1. place' \notin Applying /\ repair = "done"
      BY <2>4 DEF ScanTo, Applying, Handling, LinkPlaces, Outside, Undisturbed
    <3>2. QED  BY <2>1, <3>1, StaysUndisturbed
  <2>5. EnqueueScan \/ EnqueueScanFails \/ CancelScan
        \/ \E next \in {"none", "hash", "report", "wind up"} : ScanTo(next) /\ Busy
    BY <1>1 DEF ScanStep, ScanInventory, ScanHash, ScanComplete, ScanReport, ScanStops, ScanWindUp, Busy
  <2>6. QED  BY <2>2, <2>3, <2>4, <2>5
<1>2. CASE ApplyStep
  <2>1. UNCHANGED <<repair, at_work>>
    BY <1>2 DEF ApplyStep, EnqueueApply, EnsureIdle, ApplyBegin, ApplyDone, CheckKept, LinkBegin,
                LinkCompare, LinkStage, LinkMake, LinkRelease, LinkUndo, LinkRestore, LinkSettle,
                RecycleBegin, RecycleBin, Elsewhere, boot, outsiders
  <2>2. ASSUME NEW exact \in BOOLEAN, NEW selections \in Selections, EnqueueApply(exact, selections)
        PROVE  Undisturbed'
    <3>1. repair = "done" /\ place' = "sync"
      BY <2>2, AloneStarts DEF EnqueueApply
    <3>2. \A kind \in Outside : "sync" \in StillLooks(kind)
      BY DEF StillLooks, Outside
    <3>3. QED  BY <2>1, <3>1, <3>2 DEF Undisturbed
  <2>3. CASE ApplyEnds
    <3>1. place' = "none" /\ place' \notin Applying
      BY <2>3 DEF ApplyEnds, Applying, Handling, LinkPlaces, Outside
    <3>2. QED  BY <2>1, <3>1, StaysUndisturbed
  <2>4. CASE /\ place \in Outside
             /\ \A s \in locked_sources : <<s, place>> \notin at_work
             /\ place' = NextLook[place]
             /\ UNCHANGED locked_sources
    <3>1. Busy' => repair' = "done"
      BY <2>1, <2>4 DEF Undisturbed, Busy, Outside
    <3>2. ASSUME NEW s \in locked_sources', NEW kind \in Outside, place' \in Applying \ StillLooks(kind)
          PROVE  <<s, kind>> \notin at_work'
      <4>1. CASE kind = place
        BY <2>1, <2>4, <4>1
      <4>2. CASE kind # place
        <5>1. place \in Applying \ StillLooks(kind)
          BY <2>4, <3>2, <4>2 DEF StillLooks, NextLook, Applying, Outside
        <5>2. QED  BY <2>1, <2>4, <5>1 DEF Undisturbed
      <4>3. QED  BY <4>1, <4>2
    <3>3. QED  BY <3>1, <3>2 DEF Undisturbed
  <2>5. CASE place \in {"begin"} \cup Handling /\ place' \in Handling /\ UNCHANGED locked_sources
    BY <2>1, <2>5, StaysUndisturbed
  <2>6. \/ \E exact \in BOOLEAN, selections \in Selections : EnqueueApply(exact, selections)
        \/ ApplyEnds
        \/ /\ place \in Outside
           /\ \A s \in locked_sources : <<s, place>> \notin at_work
           /\ place' = NextLook[place]
           /\ UNCHANGED locked_sources
        \/ place \in {"begin"} \cup Handling /\ place' \in Handling /\ UNCHANGED locked_sources
    <3>1. CASE \/ \E exact \in BOOLEAN, selections \in Selections : EnqueueApply(exact, selections)
               \/ EnsureIdle
      BY <3>1 DEF EnsureIdle
    <3>2. CASE ApplyBegin \/ ApplyDone \/ CheckKept
      BY <3>2 DEF ApplyBegin, ApplyDone, CheckKept, AtNextGroup, TakeGroup, Handling
    <3>3. CASE LinkBegin \/ RecycleBegin
      BY <3>3 DEF LinkBegin, RecycleBegin, AtNextFile, Handling, LinkPlaces
    <3>4. CASE LinkCompare \/ LinkStage \/ LinkMake \/ LinkRelease \/ LinkUndo \/ LinkRestore
      BY <3>4 DEF LinkCompare, LinkStage, LinkMake, LinkRelease, LinkUndo, LinkRestore, LinkFails,
                  GoTo, Handling, LinkPlaces
    <3>5. CASE LinkSettle \/ RecycleBin
      BY <3>5 DEF LinkSettle, RecycleBin, NextFile, Handling, LinkPlaces
    <3>6. QED  BY <1>2, <3>1, <3>2, <3>3, <3>4, <3>5 DEF ApplyStep
  <2>7. QED  BY <2>2, <2>3, <2>4, <2>5, <2>6
<1>3. CASE OutsideStep
  <2>1. UNCHANGED <<repair, place, locked_sources>>
    BY <1>3 DEF OutsideStep, PassLock, QueueJob, JobEnds, FolderGoes, StoreFile, GalleryDelete,
                boot, job
  <2>2. ASSUME NEW s \in Profiles, NEW kind \in Outside, QueueJob(s, kind)
        PROVE  Undisturbed'
    <3>1. s \notin locked_sources \/ place \in StillLooks(kind)
      BY <2>2, AloneQueues
    <3>2. at_work' = at_work \cup {<<s, kind>>}
      BY <2>2 DEF QueueJob
    <3>3. QED  BY <2>1, <3>1, <3>2 DEF Undisturbed, Busy
  <2>3. CASE at_work' \subseteq at_work
    BY <2>1, <2>3, StaysUndisturbed
  <2>4. QED
    BY <1>3, <2>2, <2>3 DEF OutsideStep, PassLock, JobEnds, FolderGoes, StoreFile, GalleryDelete, outsiders
<1>4. CASE RepairStep
  <2>1. UNCHANGED <<place, locked_sources, at_work>>
    BY <1>4 DEF RepairStep, RepairRows, RepairDone, RepairFile, job, outsiders
  <2>2. repair' = repair \/ repair # "done"
    BY <1>4 DEF RepairStep, RepairRows, RepairDone, RepairFile
  <2>3. QED  BY <2>1, <2>2 DEF Undisturbed, Busy
<1>5. CASE Die
  BY <1>5 DEF Die, Undisturbed, Busy, Applying, Handling, LinkPlaces, Outside
<1>6. CASE UNCHANGED cleanup_vars
  BY <1>6, StaysUndisturbed DEF cleanup_vars, boot, outsiders, job
<1>7. QED  BY <1>1, <1>2, <1>3, <1>4, <1>5, <1>6 DEF CleanupNext

\* A job that compared the two files goes on step by step.
LEMMA WhoStages ==
    ASSUME [CleanupNext]_cleanup_vars, place' \in LinkPlaces \ {"compare", "settle"}
    PROVE  /\ place \in LinkPlaces /\ UNCHANGED at_hand
           /\ \/ LinkCompare \/ LinkStage \/ LinkMake \/ LinkRelease \/ LinkUndo \/ LinkRestore
              \/ LinkSettle \/ OutsideStep \/ RepairStep \/ UNCHANGED cleanup_vars
<1>1. CASE ScanStep
  BY <1>1 DEF ScanStep, EnqueueScan, EnqueueScanFails, CancelScan, ScanTo, ScanInventory, ScanHash,
              ScanComplete, ScanReport, ScanStops, ScanWindUp, Busy, job, apply, LinkPlaces
<1>2. CASE \/ \E exact \in BOOLEAN, selections \in Selections : EnqueueApply(exact, selections)
           \/ EnsureIdle \/ ApplyBegin \/ ApplyDone
  BY <1>2 DEF EnqueueApply, EnsureIdle, ApplyBegin, ApplyDone, ApplyEnds, NextLook, LinkPlaces, Outside
<1>3. CASE CheckKept
  BY <1>3 DEF CheckKept, AtNextGroup, TakeGroup, ApplyEnds, LinkPlaces
<1>4. CASE LinkBegin
  BY <1>4 DEF LinkBegin, AtNextFile, ApplyEnds, LinkPlaces
<1>5. CASE LinkCompare \/ LinkStage \/ LinkMake \/ LinkRelease \/ LinkUndo \/ LinkRestore \/ LinkSettle
  BY <1>5 DEF LinkCompare, LinkStage, LinkMake, LinkRelease, LinkUndo, LinkRestore, LinkSettle,
              LinkFails, ApplyEnds, NextFile, GoTo, apply, LinkPlaces
<1>6. CASE RecycleBegin \/ RecycleBin
  BY <1>6 DEF RecycleBegin, RecycleBin, ApplyEnds, NextFile, LinkPlaces
<1>7. CASE OutsideStep \/ RepairStep \/ UNCHANGED cleanup_vars
  BY <1>7 DEF OutsideStep, PassLock, QueueJob, JobEnds, FolderGoes, StoreFile, GalleryDelete,
              RepairStep, RepairRows, RepairFile, RepairDone, cleanup_vars, job, apply
<1>8. CASE Die
  BY <1>8 DEF Die, LinkPlaces
<1>9. QED
  BY <1>1, <1>2, <1>3, <1>4, <1>5, <1>6, <1>7, <1>8 DEF CleanupNext, ApplyStep

LEMMA SameBytes ==
    /\ \A i, j : Same(i, j) => Same(j, i)
    /\ \A i, j, k : Same(i, j) /\ Same(j, k) => Same(i, k)
    /\ \A i, j : Same(i, j) => i # Gone /\ j # Gone
    /\ \A i \in Inode : CleanupAssumption => Same(i, i)
BY DEF Same, CleanupAssumption

\* No other job, and no recovery, works on the two files of a link.
LEMMA NobodyElse ==
    ASSUME CleanupTypeOK, GroupsSound, Undisturbed, place \in LinkPlaces,
           NEW f \in {group.keep, at_hand}
    PROVE  /\ \A kind \in Outside : <<ProfileOf[f], kind>> \notin at_work
           /\ repair = "done"
<1>1. place \in Applying /\ \A kind \in Outside : place \notin StillLooks(kind)
  BY DEF Applying, Handling, LinkPlaces, StillLooks, Outside
<1>2. ProfileOf[f] \in locked_sources
  BY AtHand
<1>3. Busy
  BY DEF Busy, LinkPlaces
<1>4. QED  BY <1>1, <1>2, <1>3 DEF Undisturbed

LEMMA BelievedStep ==
    ASSUME CleanupAssumption, CleanupTypeOK, GroupsSound, Undisturbed, LinkAsBelieved,
           [CleanupNext]_cleanup_vars
    PROVE  LinkAsBelieved'
<1> USE DEF Staged
<1>1. Gone \notin Inode
  BY DEF CleanupAssumption
<1>2. CASE place' \notin LinkPlaces
  BY <1>2 DEF LinkAsBelieved, LinkPlaces
<1>3. CASE place' \in {"compare", "settle"}
  BY <1>3 DEF LinkAsBelieved
<1>4. CASE place' \in LinkPlaces \ {"compare", "settle"}
  <2>1. place \in LinkPlaces /\ UNCHANGED at_hand
    BY <1>4, WhoStages
  <2>2. /\ group.keep \in Media /\ at_hand \in Media /\ group.keep # at_hand
        /\ placed \in [Media -> Inode \cup {Gone}] /\ backups \in [Media -> SUBSET Inode]
    BY <2>1, AtHand DEF CleanupTypeOK
  <2>3. CASE LinkCompare
    BY <1>4, <2>2, <2>3 DEF LinkCompare, GoTo, apply, disk, LinkFails, ApplyEnds, LinkPlaces,
                            LinkAsBelieved
  <2>4. CASE LinkStage
    <3>1. /\ placed[at_hand] # Gone
          /\ staged' = placed[at_hand]
          /\ backups' = [backups EXCEPT ![at_hand] = @ \cup {placed[at_hand]}]
          /\ placed' = [placed EXCEPT ![at_hand] = Gone]
          /\ place = "stage" /\ place' = "link" /\ UNCHANGED <<group, at_hand>>
      BY <1>4, <2>4 DEF LinkStage, LinkFails, ApplyEnds, LinkPlaces
    <3>2. placed[group.keep] = Gone \/ Same(placed[group.keep], placed[at_hand])
      BY <3>1 DEF LinkAsBelieved
    <3>3. /\ placed'[at_hand] = Gone /\ placed'[group.keep] = placed[group.keep]
          /\ staged' \in backups'[at_hand]
      BY <2>2, <3>1
    <3>4. QED  BY <3>1, <3>2, <3>3 DEF LinkAsBelieved
  <2>5. CASE LinkMake
    <3>1. /\ UNCHANGED <<backups, stored, group, at_hand, staged>>
          /\ place = "link" /\ place' \in {"release", "undo"}
      BY <2>5 DEF LinkMake, GoTo, apply, put
    <3>2. /\ placed[at_hand] = Gone
          /\ placed[group.keep] = Gone \/ Same(placed[group.keep], staged)
          /\ staged # Gone /\ staged \in backups[at_hand]
      BY <3>1 DEF LinkAsBelieved
    <3>3. CASE /\ placed[group.keep] # Gone /\ place' = "release"
               /\ placed' = [placed EXCEPT ![at_hand] = placed[group.keep]]
      <4>1. placed'[at_hand] # Gone /\ Same(placed'[at_hand], staged)
        BY <2>2, <3>2, <3>3
      <4>2. QED  BY <3>1, <3>2, <3>3, <4>1 DEF LinkAsBelieved
    <3>4. CASE place' = "undo" /\ UNCHANGED placed
      BY <3>1, <3>2, <3>4 DEF LinkAsBelieved
    <3>5. QED  BY <2>5, <3>3, <3>4 DEF LinkMake, GoTo
  <2>6. CASE LinkRelease
    BY <1>4, <2>6 DEF LinkRelease, GoTo, apply, put, LinkAsBelieved
  <2>7. CASE LinkUndo
    <3>1. /\ UNCHANGED <<backups, at_hand, staged>> /\ place = "undo" /\ place' = "restore"
          /\ placed'[at_hand] = Gone \/ UNCHANGED placed
      BY <2>2, <2>7 DEF LinkUndo, GoTo, apply
    <3>2. QED  BY <3>1 DEF LinkAsBelieved
  <2>8. CASE LinkRestore \/ LinkSettle
    BY <1>4, <2>8 DEF LinkRestore, LinkSettle, LinkFails, ApplyEnds, NextFile, LinkPlaces
  <2>9. ASSUME UNCHANGED <<place, group, at_hand, staged, backups>>,
               \A f \in {group.keep, at_hand} :
                  \/ placed'[f] = placed[f] /\ stored'[f] = stored[f]
                  \/ placed'[f] = Gone /\ stored'[f] = Gone
        PROVE  LinkAsBelieved'
    BY <1>1, <2>9 DEF LinkAsBelieved
  <2>10. CASE UNCHANGED <<place, group, at_hand, staged, backups, placed, stored>>
    BY <2>9, <2>10
  <2>11. CASE OutsideStep
    <3>1. UNCHANGED <<place, group, at_hand, staged>>
      BY <2>11 DEF OutsideStep, PassLock, QueueJob, JobEnds, FolderGoes, StoreFile, GalleryDelete,
                   job, apply
    <3>2. ASSUME NEW s \in Profiles, NEW kind \in Outside, FolderGoes(s, kind)
          PROVE  LinkAsBelieved'
      <4>1. ProfileOf[group.keep] # s /\ ProfileOf[at_hand] # s
        BY <2>1, <3>2, NobodyElse DEF FolderGoes
      <4>2. /\ \A f \in {group.keep, at_hand} : placed'[f] = placed[f] /\ stored'[f] = stored[f]
            /\ backups'[at_hand] = backups[at_hand]
        BY <2>2, <3>2, <4>1 DEF FolderGoes
      <4>3. QED  BY <3>1, <4>2 DEF LinkAsBelieved
    <3>3. ASSUME NEW g \in Media, StoreFile(g)
          PROVE  LinkAsBelieved'
      <4>1. group.keep # g /\ at_hand # g
        BY <2>1, <3>3, NobodyElse DEF StoreFile, Outside
      <4>2. \A f \in {group.keep, at_hand} : placed'[f] = placed[f] /\ stored'[f] = stored[f]
        BY <2>2, <3>3, <4>1 DEF StoreFile, CleanupTypeOK
      <4>3. UNCHANGED backups
        BY <3>3 DEF StoreFile
      <4>4. QED  BY <2>9, <3>1, <4>2, <4>3
    <3>4. ASSUME NEW g \in Media, GalleryDelete(g)
          PROVE  LinkAsBelieved'
      <4>1. UNCHANGED backups
        BY <3>4 DEF GalleryDelete
      <4>2. \A f \in {group.keep, at_hand} :
               \/ placed'[f] = placed[f] /\ stored'[f] = stored[f]
               \/ placed'[f] = Gone /\ stored'[f] = Gone
        BY <2>2, <3>4 DEF GalleryDelete, CleanupTypeOK
      <4>3. QED  BY <2>9, <3>1, <4>1, <4>2
    <3>5. QED
      BY <2>10, <2>11, <3>1, <3>2, <3>3, <3>4
         DEF OutsideStep, PassLock, QueueJob, JobEnds, disk, past, put
  <2>12. CASE RepairStep
    <3>1. repair = "done"
      BY <2>1, NobodyElse
    <3>2. QED  BY <2>12, <3>1 DEF RepairStep, RepairRows, RepairDone, RepairFile
  <2>13. CASE UNCHANGED cleanup_vars
    BY <2>10, <2>13 DEF cleanup_vars, disk, job, apply, past, put
  <2>14. LinkCompare \/ LinkStage \/ LinkMake \/ LinkRelease \/ LinkUndo \/ LinkRestore \/ LinkSettle
         \/ OutsideStep \/ RepairStep \/ UNCHANGED cleanup_vars
    BY <1>4, <2>1, WhoStages
  <2>15. QED
    BY <2>3, <2>4, <2>5, <2>6, <2>7, <2>8, <2>11, <2>12, <2>13, <2>14
<1>5. QED  BY <1>2, <1>3, <1>4

LEMMA BytesStep ==
    ASSUME CleanupAssumption, CleanupTypeOK, GroupsSound, LinkAsBelieved,
           \A f \in Media : stored[f] \in Inode =>
               \E i \in {placed[f]} \cup backups[f] : Same(i, stored[f]),
           [CleanupNext]_cleanup_vars
    PROVE  \A f \in Media : stored'[f] \in Inode =>
               \E i \in {placed'[f]} \cup backups'[f] : Same(i, stored'[f])
<1> SUFFICES ASSUME NEW f \in Media, stored'[f] \in Inode
             PROVE  \E i \in {placed'[f]} \cup backups'[f] : Same(i, stored'[f])
  OBVIOUS
<1> USE DEF Staged
<1>1. /\ Gone \notin Inode /\ Binned \notin Inode
      /\ placed \in [Media -> Inode \cup {Gone}] /\ backups \in [Media -> SUBSET Inode]
      /\ stored \in [Media -> Inode \cup {Gone, Binned}]
  BY DEF CleanupAssumption, CleanupTypeOK
<1>2. ASSUME placed'[f] = placed[f], backups'[f] = backups[f], stored'[f] = stored[f]
      PROVE  \E i \in {placed'[f]} \cup backups'[f] : Same(i, stored'[f])
  BY <1>2
<1>3. CASE LinkStage \/ LinkMake \/ LinkRelease \/ LinkUndo \/ LinkRestore
  <2>1. UNCHANGED stored /\ place \in LinkPlaces
    BY <1>3 DEF LinkStage, LinkMake, LinkRelease, LinkUndo, LinkRestore, put, LinkPlaces
  <2>2. PICK i \in {placed[f]} \cup backups[f] : Same(i, stored[f])
    BY <2>1
  <2>3. i # Gone
    BY <2>2 DEF Same
  <2>4. CASE f # at_hand
    <3>1. placed'[f] = placed[f] /\ backups'[f] = backups[f]
      BY <1>1, <1>3, <2>4 DEF LinkStage, LinkMake, LinkRelease, LinkUndo, LinkRestore, disk
    <3>2. QED  BY <1>2, <2>1, <3>1
  <2>5. CASE f = at_hand /\ UNCHANGED <<placed, backups>>
    BY <1>2, <2>1, <2>5
  <2>6. CASE f = at_hand /\ LinkStage /\ ~ UNCHANGED <<placed, backups>>
    <3>1. backups' = [backups EXCEPT ![at_hand] = @ \cup {placed[at_hand]}]
      BY <2>6 DEF LinkStage, disk
    <3>2. i \in backups'[f]
      BY <1>1, <2>2, <2>6, <3>1
    <3>3. QED  BY <2>1, <2>2, <3>2
  <2>7. CASE f = at_hand /\ LinkMake /\ ~ UNCHANGED <<placed, backups>>
    <3>1. placed[at_hand] = Gone /\ UNCHANGED backups
      BY <2>7 DEF LinkMake
    <3>2. i \in backups'[f]
      BY <2>2, <2>3, <2>7, <3>1
    <3>3. QED  BY <2>1, <2>2, <3>2
  <2>8. CASE f = at_hand /\ LinkRelease /\ ~ UNCHANGED <<placed, backups>>
    <3>1. /\ backups' = [backups EXCEPT ![at_hand] = @ \ {staged}] /\ UNCHANGED placed
          /\ place = "release"
      BY <2>8 DEF LinkRelease
    <3>2. Same(placed[f], staged)
      BY <2>1, <2>8, <3>1 DEF LinkAsBelieved
    <3>3. CASE i = staged
      BY <2>1, <2>2, <3>1, <3>2, <3>3 DEF Same
    <3>4. CASE i # staged
      BY <1>1, <2>1, <2>2, <2>8, <3>1, <3>4
    <3>5. QED  BY <3>3, <3>4
  <2>9. CASE f = at_hand /\ LinkUndo /\ ~ UNCHANGED <<placed, backups>>
    <3>1. UNCHANGED backups /\ place = "undo"
      BY <2>9 DEF LinkUndo
    <3>2. staged \in backups[f] /\ (placed[f] = Gone \/ Same(placed[f], staged))
      BY <2>9, <3>1 DEF LinkAsBelieved
    <3>3. CASE i = placed[f]
      BY <2>1, <2>2, <2>3, <3>1, <3>2, <3>3 DEF Same
    <3>4. CASE i \in backups[f]
      BY <2>1, <2>2, <3>1, <3>4
    <3>5. QED  BY <2>2, <3>3, <3>4
  <2>10. CASE f = at_hand /\ LinkRestore /\ ~ UNCHANGED <<placed, backups>>
    <3>1. /\ placed' = [placed EXCEPT ![at_hand] = staged]
          /\ backups' = [backups EXCEPT ![at_hand] = @ \ {staged}]
          /\ place = "restore"
      BY <2>10 DEF LinkRestore, disk
    <3>2. placed'[f] = staged /\ (placed[f] = Gone \/ Same(placed[f], staged))
      BY <1>1, <2>10, <3>1 DEF LinkAsBelieved
    <3>3. CASE i = placed[f] \/ i = staged
      BY <2>1, <2>2, <2>3, <3>2, <3>3 DEF Same
    <3>4. CASE i \in backups[f] /\ i # staged
      BY <1>1, <2>1, <2>2, <2>10, <3>1, <3>4
    <3>5. QED  BY <2>2, <3>3, <3>4
  <2>11. QED  BY <1>3, <2>4, <2>5, <2>6, <2>7, <2>8, <2>9, <2>10
<1>4. CASE RecycleBin
  <2>1. at_hand \in Media
    BY <1>4, AtHand DEF RecycleBin
  <2>2. f # at_hand \/ UNCHANGED <<placed, stored>>
    BY <1>1, <1>4, <2>1 DEF RecycleBin, put
  <2>3. placed'[f] = placed[f] /\ stored'[f] = stored[f] /\ backups'[f] = backups[f]
    BY <1>1, <1>4, <2>1, <2>2 DEF RecycleBin, put
  <2>4. QED  BY <1>2, <2>3
<1>5. ASSUME NEW s \in Profiles, NEW kind \in Outside, FolderGoes(s, kind)
      PROVE  \E i \in {placed'[f]} \cup backups'[f] : Same(i, stored'[f])
  <2>1. ProfileOf[f] # s
    BY <1>1, <1>5 DEF FolderGoes
  <2>2. placed'[f] = placed[f] /\ stored'[f] = stored[f] /\ backups'[f] = backups[f]
    BY <1>5, <2>1 DEF FolderGoes
  <2>3. QED  BY <1>2, <2>2
<1>6. ASSUME NEW g \in Media, StoreFile(g)
      PROVE  \E i \in {placed'[f]} \cup backups'[f] : Same(i, stored'[f])
  <2>1. CASE f = g
    <3>1. placed'[f] = stored'[f]
      BY <1>1, <1>6, <2>1 DEF StoreFile
    <3>2. QED  BY <1>1, <3>1 DEF Same
  <2>2. CASE f # g
    BY <1>1, <1>2, <1>6, <2>2 DEF StoreFile
  <2>3. QED  BY <2>1, <2>2
<1>7. ASSUME NEW g \in Media, GalleryDelete(g)
      PROVE  \E i \in {placed'[f]} \cup backups'[f] : Same(i, stored'[f])
  <2>1. f # g
    BY <1>1, <1>7 DEF GalleryDelete
  <2>2. QED  BY <1>1, <1>2, <1>7, <2>1 DEF GalleryDelete
<1>8. ASSUME NEW g \in Media, RepairFile(g)
      PROVE  \E i \in {placed'[f]} \cup backups'[f] : Same(i, stored'[f])
  <2>1. CASE UNCHANGED <<placed, backups, stored>> \/ f # g
    BY <1>1, <1>2, <1>8, <2>1 DEF RepairFile, disk
  <2>2. ASSUME f = g, NEW b \in backups[g], placed[g] = Gone \/ Same(b, placed[g]),
               placed' = [placed EXCEPT ![g] = IF @ = Gone THEN b ELSE @],
               backups' = [backups EXCEPT ![g] = @ \ {b}],
               stored' = [stored EXCEPT ![g] = IF @ = Binned /\ placed[g] = Gone THEN b ELSE @]
        PROVE  \E i \in {placed'[f]} \cup backups'[f] : Same(i, stored'[f])
    <3>1. b \in Inode /\ b # Gone
      BY <1>1, <2>2
    <3>2. placed'[f] = (IF placed[f] = Gone THEN b ELSE placed[f]) /\ backups'[f] = backups[f] \ {b}
      BY <1>1, <2>2
    <3>3. CASE stored[f] = Binned
      BY <1>1, <2>2, <3>1, <3>2, <3>3 DEF Same
    <3>4. CASE stored[f] # Binned
      <4>1. stored'[f] = stored[f]
        BY <1>1, <2>2, <3>4
      <4>2. PICK i \in {placed[f]} \cup backups[f] : Same(i, stored[f])
        BY <4>1
      <4>3. CASE i = b
        BY <2>2, <3>1, <3>2, <4>1, <4>2, <4>3 DEF Same
      <4>4. CASE i # b
        BY <3>2, <4>1, <4>2, <4>4 DEF Same
      <4>5. QED  BY <4>3, <4>4
    <3>5. QED  BY <3>3, <3>4
  <2>3. QED  BY <1>8, <2>1, <2>2 DEF RepairFile, disk
<1>9. QED  BY <1>2, <1>3, <1>4, <1>5, <1>6, <1>7, <1>8, WhoPlaces

----------------------------------------------------------------------------
CleanupInv ==
    /\ CleanupTypeOK
    /\ GroupsSound
    /\ Recycling
    /\ LastCopyStays
    /\ CleanedAlone => Undisturbed /\ LinkAsBelieved
    /\ BytesKept

LEMMA CleanupInitInv ==
    ASSUME CleanupAssumption, CleanupInit
    PROVE  CleanupInv
<1>1. CleanupTypeOK /\ GroupsSound
  BY CleanupInitSound
<1>2. /\ \A f \in Media : placed[f] = stored[f] /\ stored[f] \in Inode
      /\ Gone \notin Inode /\ Binned \notin Inode
  BY DEF CleanupInit, CleanupAssumption
<1>3. Recycling
  BY <1>2 DEF CleanupInit, Recycling, NoGroup, LinkPlaces
<1>4. LastCopyStays
  <2>1. SUFFICES ASSUME NEW bin \in (SUBSET Media) \ {{}}
                 PROVE  \E f \in bin : stored[f] # Binned \/ kept_for[f] \notin bin
    BY DEF LastCopyStays
  <2>2. PICK f \in bin : f \in Media
    OBVIOUS
  <2>3. stored[f] # Binned
    BY <1>2, <2>2
  <2>4. QED  BY <2>3
<1>5. BytesKept
  BY <1>2 DEF BytesKept, Same
<1>6. Undisturbed /\ LinkAsBelieved
  BY DEF CleanupInit, Undisturbed, LinkAsBelieved, Busy, Staged
<1>7. QED  BY <1>1, <1>3, <1>4, <1>5, <1>6 DEF CleanupInv

LEMMA CleanupStepInv ==
    ASSUME CleanupAssumption, CleanupInv, [CleanupNext]_cleanup_vars
    PROVE  CleanupInv'
<1>1. CleanupTypeOK' /\ GroupsSound'
  BY CleanupStepSound DEF CleanupInv
<1>2. Recycling' /\ LastCopyStays'
  BY RecyclingStep, LastCopyStep DEF CleanupInv
<1>3. ASSUME CleanedAlone'
      PROVE  /\ Undisturbed' /\ LinkAsBelieved'
             /\ \A f \in Media : stored'[f] \in Inode =>
                    \E i \in {placed'[f]} \cup backups'[f] : Same(i, stored'[f])
  <2>1. CleanedAlone
    BY <1>3, AloneBefore DEF CleanupInv, CleanupTypeOK
  <2>2. Undisturbed' /\ LinkAsBelieved'
    BY <1>3, <2>1, UndisturbedStep, BelievedStep DEF CleanupInv
  <2>3. LinkAsBelieved /\ \A f \in Media : stored[f] \in Inode =>
            \E i \in {placed[f]} \cup backups[f] : Same(i, stored[f])
    BY <2>1 DEF CleanupInv, BytesKept
  <2>4. QED  BY <2>2, <2>3, BytesStep DEF CleanupInv
<1>4. BytesKept'
  BY <1>3 DEF BytesKept, Same
<1>5. QED  BY <1>1, <1>2, <1>3, <1>4 DEF CleanupInv

LEMMA CleanupAlways == CleanupSpec => []CleanupInv
<1> USE CleanupAssumption
<1>1. CleanupInit => CleanupInv
  BY CleanupInitInv
<1>2. CleanupInv /\ [CleanupNext]_cleanup_vars => CleanupInv'
  BY CleanupStepInv
<1>3. QED  BY <1>1, <1>2, PTL DEF CleanupSpec

\* The rows, the disk, the lock and the job's own state have their types through scans,
\* applies, other jobs, deaths and recoveries.
THEOREM CleanupTypeCorrect == CleanupSpec => []CleanupTypeOK
<1>1. CleanupInv => CleanupTypeOK
  BY DEF CleanupInv
<1>2. QED  BY <1>1, CleanupAlways, PTL

\* Whatever the user selects, over however many applies and restarts, no set of files is
\* recycled each for the sake of another one of the set: the check of the file to keep
\* (validate_scanned_file) is enough, although it looks at the disk and not at what was
\* recycled.
THEOREM LastCopyAlwaysStays == CleanupSpec => []LastCopyStays
<1>1. CleanupInv => LastCopyStays
  BY DEF CleanupInv
<1>2. QED  BY <1>1, CleanupAlways, PTL

\* A job that had the library to itself never loses a file's bytes, at any step of a
\* consolidation, its undoing or a recovery (consolidate_hardlink,
\* recover_interrupted_media_dedupe_jobs).
THEOREM BytesAlwaysKept == CleanupSpec => []BytesKept
<1>1. CleanupInv => BytesKept
  BY DEF CleanupInv
<1>2. QED  BY <1>1, CleanupAlways, PTL
-----------------------------------------------------------------------------
(***************************************************************************)
(* What a scan of the cleanup finds.                                       *)
(***************************************************************************)

\* Types.

Bytes == {Pixels[v] : v \in FileVersion}
HashField == Bytes \cup {NoBytes}
Dated == Shelved \X FileVersion

CatalogueRow ==
    [was : FileVersion \cup {NoBytes}, seen : Nat, sha : HashField, look : HashField,
     doubt : BOOLEAN]
FileRow == [file : Shelved, was : FileVersion, sha : Bytes, look : HashField, doubt : BOOLEAN]
VideoJob ==
    [status : {"none", "running", "completed", "failed"}, inventory : SUBSET Dated,
     pairs : SUBSET SUBSET Shelved, shifted : BOOLEAN]
ScanRow ==
    [status : {"running", "completed", "ended"}, depth : Depth, files : SUBSET FileRow,
     jobs : [Owners -> VideoJob], stood : SUBSET (Shelved \X (FileVersion \cup {NoBytes}))]

Reading == {"read", "look", "record"}
LaneMap == {<<>>} \cup UNION {[ps -> {"wait", "run", "import", "done"}] : ps \in SUBSET Owners}
RunningScan ==
    [step : {"list", "hash", "compare", "complete", "totals"} \cup Reading,
     to_list : SUBSET Shelved, batch : SUBSET Dated, cursor : Nat,
     file : Shelved \cup {NoBytes}, sha : HashField, look : HashField, doubt : BOOLEAN,
     lanes : LaneMap, steady : SUBSET Shelved]

HuntTypes ==
    /\ album \in Albums
    /\ held \in [Shelved -> FileVersion \cup {NoBytes}]
    /\ index_rows \in [Shelved -> CatalogueRow]
    /\ hunts \in Seq(ScanRow)
    /\ hunt \in {NoHunt} \cup RunningScan

\* What is in the catalogue was listed by a scan; the scan that runs is the newest.
HuntPlaces ==
    /\ Len(hunts) <= MaxHunts /\ changes \in 0..MaxChanges
    /\ \A f \in Shelved : /\ index_rows[f].seen <= Len(hunts)
                          /\ index_rows[f].seen = 0 <=> index_rows[f].was = NoBytes
    /\ hunt # NoHunt => /\ hunts # <<>>
                        /\ hunts[Scan].status = IF hunt.step = "totals" THEN "completed"
                                                ELSE "running"
    /\ hunt.step = "list" => hunt.cursor = 0 /\ \A f \in Shelved : index_rows[f].seen # Scan
    /\ hunt.step \in Reading => /\ hunt.file \in SizeTwins
                                /\ hunt.cursor = Rank(hunt.file)
    /\ hunt.step \in {"look", "record"} => hunt.sha # NoBytes
-----------------------------------------------------------------------------
\* A hash without a doubt is of the version it stands beside.
TrueOf(row) ==
    ~row.doubt => \A hash \in {row.sha, row.look} \ {NoBytes} : hash = Pixels[row.was]

HashesTrue ==
    /\ \A f \in Shelved : TrueOf(index_rows[f])
    /\ \A s \in 1..Len(hunts) : \A r \in hunts[s].files : TrueOf(r)
    /\ hunt.step \in Reading /\ ~hunt.doubt =>
          LET was == index_rows[hunt.file].was IN
          /\ held[hunt.file] = was
          /\ \A hash \in {hunt.sha, hunt.look} \ {NoBytes} : hash = Pixels[was]

\* A comparison of the folder as it was listed pairs the videos that resemble each other.
JobTrue(duty, depth) ==
    ~duty.shifted =>
        \A a, b \in duty.inventory : a[1] # b[1] =>
            ({a[1], b[1]} \in duty.pairs <=> <<Pixels[a[2]], Pixels[b[2]]>> \in Alike[depth])

Lane(p) == hunt.step = "compare" /\ p \in DOMAIN hunt.lanes

JobsTrue ==
    \A s \in 1..Len(hunts) : \A p \in Owners :
        LET duty == hunts[s].jobs[p] IN
        /\ duty.status = "completed" => JobTrue(duty, hunts[s].depth)
        /\ s = Scan /\ Lane(p) /\ hunt.lanes[p] = "import" => JobTrue(duty, hunts[s].depth)
        /\ s = Scan /\ Lane(p) /\ hunt.lanes[p] \in {"run", "import"} => duty.status = "running"
-----------------------------------------------------------------------------
\* A file that stood still since the scan began is in the catalogue as it is.
ListedOnce ==
    hunt.step = "list" =>
        /\ \A a, b \in hunt.batch : a[1] = b[1] => a = b
        /\ \A a \in hunt.batch : a[1] \notin hunt.to_list
        /\ \A f \in hunt.steady \ hunt.to_list : held[f] # NoBytes => <<f, held[f]>> \in hunt.batch
        /\ \A a \in hunt.batch : a[1] \in hunt.steady => held[a[1]] = a[2]

InventoryKept == hunt.step \in {"hash", "compare", "complete"} \cup Reading

SteadyListed ==
    InventoryKept => \A f \in hunt.steady :
                 /\ f \in Seen => held[f] = index_rows[f].was
                 /\ held[f] # NoBytes => f \in Seen

\* Those of them that another file might be equal to have been hashed, up to the cursor.
Hashed(f) == \E r \in hunts[Scan].files : r.file = f /\ r.was = held[f]

Passed(f) ==
    \/ hunt.step \in {"compare", "complete"}
    \/ hunt.step = "hash" /\ Rank(f) <= hunt.cursor
    \/ hunt.step \in Reading /\ Rank(f) < hunt.cursor

SteadyHashed ==
    InventoryKept => \A f \in SizeTwins : f \in hunt.steady /\ Passed(f) => Hashed(f)

\* A file has one row in a scan.
HashedOnce ==
    /\ \A s \in 1..Len(hunts) :
          /\ IsFiniteSet(hunts[s].files)
          /\ \A r, t \in hunts[s].files : r.file = t.file => r = t
    /\ hunt.step = "list" => hunts[Scan].files = {}
    /\ hunt.step \in {"hash"} \cup Reading =>
          \A r \in hunts[Scan].files : Passed(r.file)

\* And the videos among them have been compared.
SteadyCompared ==
    InventoryKept => \A p \in Owners : \A f \in hunt.steady :
        /\ hunts[Scan].jobs[p].status \in {"running", "completed"}
        /\ Video(f) /\ album.owner[f] = p /\ held[f] # NoBytes
        => <<f, held[f]>> \in hunts[Scan].jobs[p].inventory

NothingComparedYet ==
    hunt.step \in {"list", "hash"} \cup Reading =>
        \A p \in Owners : hunts[Scan].jobs[p].status = "none"

\* What a completed scan says of the files that stood still.
StoodRow(s, a) ==
    \E r \in hunts[s].files : r.file = a[1] /\ r.was = a[2]

EqualsShown ==
    \A s \in 1..Len(hunts) : hunts[s].status = "completed" =>
        \A a, b \in hunts[s].stood :
            /\ a[1] # b[1] /\ NoBytes \notin {a[2], b[2]}
            /\ album.volume[a[1]] = album.volume[b[1]]
            /\ SizeOf[a[2]] = SizeOf[b[2]]
            => StoodRow(s, a)

VideosShown ==
    \A s \in 1..Len(hunts) : hunts[s].status = "completed" =>
        \A p \in Owners : \A a \in hunts[s].stood :
            /\ hunts[s].jobs[p].status = "completed"
            /\ a[2] # NoBytes /\ album.owner[a[1]] = p /\ Video(a[1])
            => a \in hunts[s].jobs[p].inventory

HuntsInv ==
    /\ HuntTypes /\ HuntPlaces
    /\ HashesTrue /\ JobsTrue
    /\ ListedOnce /\ SteadyListed /\ SteadyHashed /\ HashedOnce
    /\ SteadyCompared /\ NothingComparedYet
    /\ EqualsShown /\ VideosShown
-----------------------------------------------------------------------------
LEMMA ShelfRanks ==
    /\ \A f \in Shelved : Rank(f) \in 1..Len(Shelf) /\ Shelf[Rank(f)] = f
    /\ \A i \in 1..Len(Shelf) : Shelf[i] \in Shelved /\ Rank(Shelf[i]) = i
    /\ Len(Shelf) \in Nat
    /\ IsFiniteSet(Shelved)
  <1>1. Shelf \in Seq(Shelved) /\ IsInjective(Shelf)
        BY ScanAssumption DEF ScanAssumption
  <1>2. Len(Shelf) \in Nat /\ DOMAIN Shelf = 1..Len(Shelf)
        BY <1>1
  <1>3. ASSUME NEW f \in Shelved
        PROVE  Rank(f) \in 1..Len(Shelf) /\ Shelf[Rank(f)] = f
    <2>1. \E i \in 1..Len(Shelf) : Shelf[i] = f
          BY DEF Shelved
    <2> QED BY <2>1 DEF Rank
  <1>4. ASSUME NEW i \in 1..Len(Shelf)
        PROVE  Shelf[i] \in Shelved /\ Rank(Shelf[i]) = i
    <2>1. Shelf[i] \in Shelved
          BY DEF Shelved
    <2>2. Rank(Shelf[i]) \in 1..Len(Shelf) /\ Shelf[Rank(Shelf[i])] = Shelf[i]
          BY <1>3, <2>1
    <2>3. Rank(Shelf[i]) = i
          BY <1>1, <1>2, <2>2 DEF IsInjective
    <2> QED BY <2>1, <2>3
  <1>5. IsFiniteSet(Shelved)
    <2>1. IsFiniteSet(1..Len(Shelf))
          BY <1>2, FS_Interval
    <2>2. Shelf \in Surjection(1..Len(Shelf), Shelved)
          BY <1>1, <1>2 DEF Surjection, Shelved
    <2> QED BY <2>1, <2>2, FS_Surjection
  <1> QED BY <1>2, <1>3, <1>4, <1>5

\* A scan that runs has all the fields.
LEMMA Runs ==
    ASSUME HuntTypes, hunt.step # "none"
    PROVE  hunt \in RunningScan /\ hunt # NoHunt
  BY DEF HuntTypes, NoHunt

LEMMA SameAlbum ==
    ASSUME album' = album
    PROVE  /\ Owners' = Owners
           /\ ScanRow' = ScanRow
           /\ RunningScan' = RunningScan
  <1>1. Owners' = Owners
        BY DEF Owners
  <1>2. ScanRow' = ScanRow
        BY <1>1 DEF ScanRow
  <1>3. LaneMap' = LaneMap
        BY <1>1 DEF LaneMap
  <1> QED BY <1>1, <1>2, <1>3 DEF RunningScan

LEMMA SameCatalogue ==
    ASSUME album' = album, Len(hunts') = Len(hunts),
           \A f \in Shelved : /\ index_rows'[f].seen = index_rows[f].seen
                              /\ index_rows'[f].was = index_rows[f].was
    PROVE  Seen' = Seen /\ SizeTwins' = SizeTwins
  <1>1. Seen' = Seen
        BY DEF Seen, Scan
  <1>2. \A f \in Seen : f \in Shelved
        BY DEF Seen
  <1> QED BY <1>1, <1>2 DEF SizeTwins

LEMMA HuntsInitInv ==
    ASSUME HuntsInit
    PROVE  HuntsInv
  <1> USE DEF HuntsInit
  <1>1. HuntTypes
    <2>1. held \in [Shelved -> FileVersion \cup {NoBytes}]
          BY ScanAssumption DEF ScanAssumption
    <2>2. NeverListed \in CatalogueRow
          BY DEF NeverListed, CatalogueRow, HashField
    <2>3. index_rows \in [Shelved -> CatalogueRow]
          BY <2>2
    <2>4. hunts \in Seq(ScanRow)
          OBVIOUS
    <2> QED BY <2>1, <2>3, <2>4 DEF HuntTypes
  <1>2. hunt.step = "none" /\ Len(hunts) = 0
        BY DEF NoHunt
  <1>3. HuntPlaces
    <2>1. MaxHunts \in Nat /\ MaxChanges \in Nat
          BY ScanAssumption DEF ScanAssumption
    <2>2. \A f \in Shelved : index_rows[f].seen = 0 /\ index_rows[f].was = NoBytes
          BY DEF NeverListed
    <2> QED BY <1>2, <2>1, <2>2 DEF HuntPlaces, Reading
  <1>4. HashesTrue
    <2>1. \A f \in Shelved : TrueOf(index_rows[f])
          BY DEF TrueOf, NeverListed
    <2> QED BY <1>2, <2>1 DEF HashesTrue, Reading
  <1> QED BY <1>1, <1>2, <1>3, <1>4
          DEF HuntsInv, JobsTrue, ListedOnce, SteadyListed, SteadyHashed, HashedOnce,
              SteadyCompared, NothingComparedYet, EqualsShown, VideosShown, InventoryKept, Reading
-----------------------------------------------------------------------------
\* The steps, one by one.  What they leave alone first.

\* Catalogue and scans as they are.
SameScans ==
    /\ hunts' = hunts
    /\ UNCHANGED <<album, index_rows>>

LEMMA SameScansKeep ==
    ASSUME HuntsInv, SameScans
    PROVE  /\ Seen' = Seen /\ SizeTwins' = SizeTwins
           /\ EqualsShown' /\ VideosShown'
           /\ \A f \in Shelved : TrueOf(index_rows[f])'
           /\ \A s \in 1..Len(hunts) : \A r \in hunts[s].files : TrueOf(r)
           /\ \A s \in 1..Len(hunts) : \A p \in Owners :
                 hunts[s].jobs[p].status = "completed" => JobTrue(hunts[s].jobs[p], hunts[s].depth)
  <1>1. Seen' = Seen /\ SizeTwins' = SizeTwins
        BY SameCatalogue DEF SameScans
  <1>2. EqualsShown' /\ VideosShown'
        BY DEF SameScans, HuntsInv, EqualsShown, VideosShown, StoodRow, Owners, Video
  <1>3. \A f \in Shelved : TrueOf(index_rows[f])'
        BY DEF SameScans, HuntsInv, HashesTrue, TrueOf
  <1> QED BY <1>1, <1>2, <1>3 DEF HuntsInv, HashesTrue, JobsTrue

\* The comparisons stay true when none is imported anew.
LEMMA SameScansJobs ==
    ASSUME JobsTrue, hunts' = hunts, album' = album,
           \A p \in Owners : Lane(p)' /\ hunt'.lanes[p] # "wait" =>
                             Lane(p) /\ hunt.lanes[p] = hunt'.lanes[p]
    PROVE  JobsTrue'
  <1>1. Owners' = Owners /\ Scan' = Scan
        BY SameAlbum DEF Scan
  <1>2. ASSUME NEW s \in 1..Len(hunts), NEW p \in Owners
        PROVE  LET duty == hunts[s].jobs[p] IN
               /\ duty.status = "completed" => JobTrue(duty, hunts[s].depth)
               /\ s = Scan /\ Lane(p)' /\ hunt'.lanes[p] = "import" => JobTrue(duty, hunts[s].depth)
               /\ s = Scan /\ Lane(p)' /\ hunt'.lanes[p] \in {"run", "import"} => duty.status = "running"
        BY DEF JobsTrue
  <1>3. ASSUME NEW s \in 1..Len(hunts), NEW p \in Owners
        PROVE  JobTrue(hunts[s].jobs[p], hunts[s].depth)' <=> JobTrue(hunts[s].jobs[p], hunts[s].depth)
        BY DEF JobTrue
  <1>4. 1..Len(hunts)' = 1..Len(hunts)
        OBVIOUS
  <1> QED BY <1>1, <1>2, <1>3, <1>4 DEF JobsTrue

LEMMA FileChangesKeepsHunts ==
    ASSUME HuntsInv, NEW f \in Shelved, NEW v \in CanBecome[f], FileChanges(f, v)
    PROVE  HuntsInv'
  <1> USE DEF HuntsInv
  <1>0. SameScans /\ changes' = changes + 1 /\ changes < MaxChanges
        BY DEF FileChanges, SameScans
  <1>1. /\ Seen' = Seen /\ SizeTwins' = SizeTwins
        /\ EqualsShown' /\ VideosShown'
        BY <1>0, SameScansKeep
  <1>2. v \in FileVersion \cup {NoBytes}
        BY ScanAssumption DEF ScanAssumption
  <1>3. /\ held' \in [Shelved -> FileVersion \cup {NoBytes}]
        /\ \A g \in Shelved : g # f => held'[g] = held[g]
        BY <1>2 DEF FileChanges, HuntTypes
  <1>4. \/ hunt = NoHunt /\ hunt' = NoHunt
        \/ /\ hunt \in RunningScan /\ hunt' \in RunningScan
           /\ hunt'.step = hunt.step /\ hunt'.to_list = hunt.to_list /\ hunt'.batch = hunt.batch
           /\ hunt'.cursor = hunt.cursor /\ hunt'.file = hunt.file /\ hunt'.sha = hunt.sha
           /\ hunt'.look = hunt.look /\ hunt'.lanes = hunt.lanes
           /\ hunt'.steady = hunt.steady \ {f}
           /\ ~hunt'.doubt => ~hunt.doubt /\ f # hunt.file
    <2>1. CASE hunt = NoHunt
          BY <2>1 DEF FileChanges
    <2>2. CASE hunt # NoHunt
      <3>1. hunt \in RunningScan
            BY <2>2 DEF HuntTypes
      <3>2. hunt' = [hunt EXCEPT !.steady = @ \ {f}, !.doubt = @ \/ f = hunt.file]
            BY <2>2 DEF FileChanges
      <3>3. hunt.doubt \in BOOLEAN /\ (f = hunt.file) \in BOOLEAN
            BY <3>1 DEF RunningScan
      <3>4. (hunt.doubt \/ f = hunt.file) \in BOOLEAN
            BY <3>3
      <3>5. hunt'.doubt = (hunt.doubt \/ f = hunt.file)
            BY <3>1, <3>2 DEF RunningScan
      <3>6. ~hunt'.doubt => ~hunt.doubt /\ f # hunt.file
            BY <3>3, <3>5
      <3>7. hunt' \in RunningScan
            BY <3>1, <3>2, <3>4 DEF RunningScan
      <3> QED BY <3>1, <3>2, <3>6, <3>7 DEF RunningScan
    <2> QED BY <2>1, <2>2
  <1>5. HuntTypes'
        BY <1>0, <1>3, <1>4, SameAlbum DEF HuntTypes, SameScans
  <1>6. NoHunt.step = "none"
        BY DEF NoHunt
  <1>7. HuntPlaces'
    <2>1. changes' \in 0..MaxChanges
          BY <1>0, ScanAssumption DEF HuntPlaces, ScanAssumption
    <2> QED BY <1>0, <1>1, <1>4, <1>6, <2>1 DEF HuntPlaces, SameScans, Scan, Reading, RunningScan
  <1>8. HashesTrue'
    <2>1. ASSUME hunt'.step \in Reading, ~hunt'.doubt
          PROVE  LET was == index_rows[hunt.file].was IN
                 /\ held'[hunt.file] = was
                 /\ \A hash \in {hunt.sha, hunt.look} \ {NoBytes} : hash = Pixels[was]
      <3>1. /\ hunt.step \in Reading /\ ~hunt.doubt /\ f # hunt.file
            BY <1>4, <1>6, <2>1 DEF Reading
      <3>2. hunt.file \in Shelved
            BY <3>1 DEF HuntPlaces, SizeTwins, Seen
      <3> QED BY <1>3, <3>1, <3>2 DEF HashesTrue
    <2>2. hunt'.step \in Reading =>
            hunt'.file = hunt.file /\ hunt'.sha = hunt.sha /\ hunt'.look = hunt.look
          BY <1>4, <1>6 DEF Reading
    <2>3. \A s \in 1..Len(hunts') : \A r \in hunts'[s].files : TrueOf(r)
          BY <1>0, SameScansKeep DEF SameScans
    <2>4. \A g \in Shelved : TrueOf(index_rows'[g])
          BY <1>0 DEF HashesTrue, SameScans
    <2>5. (\A g \in Shelved : TrueOf(index_rows[g]))'
          BY <2>4 DEF TrueOf
    <2>6. (\A s \in 1..Len(hunts) : \A r \in hunts[s].files : TrueOf(r))'
          BY <2>3 DEF TrueOf
    <2>7. (hunt.step \in Reading /\ ~hunt.doubt =>
             LET was == index_rows[hunt.file].was IN
             /\ held[hunt.file] = was
             /\ \A hash \in {hunt.sha, hunt.look} \ {NoBytes} : hash = Pixels[was])'
      <3>1. index_rows' = index_rows
            BY <1>0 DEF SameScans
      <3> QED BY <2>1, <2>2, <3>1 DEF Reading
    <2> QED BY <2>5, <2>6, <2>7 DEF HashesTrue
  <1>9. JobsTrue'
    <2>1. \A p \in Owners : Lane(p)' => Lane(p) /\ hunt'.lanes = hunt.lanes
          BY <1>4, <1>6 DEF Lane
    <2>2. hunts' = hunts /\ Owners' = Owners
          BY <1>0, SameAlbum DEF SameScans
    <2> QED BY <1>0, <2>1, <2>2, SameScansJobs DEF SameScans
  <1>10. ListedOnce'
        BY <1>3, <1>4, <1>6 DEF ListedOnce, RunningScan
  <1>11. SteadyListed'
        BY <1>0, <1>1, <1>3, <1>4, <1>6 DEF SteadyListed, InventoryKept, Reading, SameScans, RunningScan
  <1>12. SteadyHashed'
        BY <1>0, <1>1, <1>3, <1>4, <1>6
        DEF SteadyHashed, InventoryKept, Passed, Hashed, Reading, SameScans, Scan, RunningScan
  <1>13. HashedOnce'
        BY <1>0, <1>4, <1>6 DEF HashedOnce, Passed, Reading, SameScans, Scan
  <1>14. SteadyCompared'
        BY <1>0, <1>3, <1>4, <1>6
        DEF SteadyCompared, InventoryKept, Reading, SameScans, Scan, Owners, Video, RunningScan
  <1>15. NothingComparedYet'
        BY <1>0, <1>4, <1>6 DEF NothingComparedYet, Reading, SameScans, Scan, Owners
  <1> QED BY <1>1, <1>5, <1>7, <1>8, <1>9, <1>10, <1>11, <1>12, <1>13, <1>14, <1>15
-----------------------------------------------------------------------------
\* Only the scan that runs moves: catalogue, scans and files are as they were.
OnlyHuntMoves == hunts' = hunts /\ UNCHANGED <<album, held, index_rows, changes>>

LEMMA OnlyHuntKeeps ==
    ASSUME HuntsInv, OnlyHuntMoves, hunt' \in {NoHunt} \cup RunningScan
    PROVE  /\ HuntTypes' /\ EqualsShown' /\ VideosShown'
           /\ Seen' = Seen /\ SizeTwins' = SizeTwins /\ Owners' = Owners /\ Scan' = Scan
  <1>1. SameScans /\ album' = album
        BY DEF OnlyHuntMoves, SameScans
  <1>2. HuntTypes'
        BY <1>1, SameAlbum DEF HuntsInv, HuntTypes, OnlyHuntMoves
  <1>3. Scan' = Scan
        BY DEF OnlyHuntMoves, Scan
  <1> QED BY <1>1, <1>2, <1>3, SameAlbum, SameScansKeep

LEMMA OnlyHuntHashes ==
    ASSUME HuntsInv, OnlyHuntMoves,
           hunt'.step \in Reading /\ ~hunt'.doubt =>
              LET was == index_rows[hunt'.file].was IN
              /\ held[hunt'.file] = was
              /\ \A hash \in {hunt'.sha, hunt'.look} \ {NoBytes} : hash = Pixels[was]
    PROVE  HashesTrue'
  <1>1. /\ \A g \in Shelved : TrueOf(index_rows[g])
        /\ \A s \in 1..Len(hunts) : \A r \in hunts[s].files : TrueOf(r)
        BY DEF HuntsInv, HashesTrue
  <1>2. (\A g \in Shelved : TrueOf(index_rows[g]))'
        BY <1>1 DEF TrueOf, OnlyHuntMoves
  <1>3. (\A s \in 1..Len(hunts) : \A r \in hunts[s].files : TrueOf(r))'
        BY <1>1 DEF TrueOf, OnlyHuntMoves
  <1>4. (hunt.step \in Reading /\ ~hunt.doubt =>
             LET was == index_rows[hunt.file].was IN
             /\ held[hunt.file] = was
             /\ \A hash \in {hunt.sha, hunt.look} \ {NoBytes} : hash = Pixels[was])'
    <2>1. index_rows' = index_rows /\ held' = held
          BY DEF OnlyHuntMoves
    <2> QED BY <2>1 DEF Reading
  <1> QED BY <1>2, <1>3, <1>4 DEF HashesTrue

LEMMA ListFileKeepsHunts ==
    ASSUME HuntsInv, NEW f \in Shelved, ListFile(f)
    PROVE  HuntsInv'
  <1> USE DEF HuntsInv
  <1>0. OnlyHuntMoves
        BY DEF ListFile, OnlyHuntMoves
  <1>1. hunt.step = "list" /\ f \in hunt.to_list /\ hunt \in RunningScan /\ hunt # NoHunt
        BY Runs DEF ListFile
  <1>2. held[f] # NoBytes => <<f, held[f]>> \in Dated
        BY DEF HuntTypes, Dated
  <1>3. /\ hunt'.step = "list" /\ hunt'.to_list = hunt.to_list \ {f}
        /\ hunt'.batch = IF held[f] = NoBytes THEN hunt.batch
                         ELSE hunt.batch \cup {<<f, held[f]>>}
        /\ hunt'.steady = hunt.steady /\ hunt'.cursor = hunt.cursor
        /\ hunt' \in RunningScan
        BY <1>1, <1>2 DEF ListFile, RunningScan
  <1>4. /\ HuntTypes' /\ EqualsShown' /\ VideosShown'
        /\ Seen' = Seen /\ SizeTwins' = SizeTwins /\ Owners' = Owners /\ Scan' = Scan
        BY <1>0, <1>3, OnlyHuntKeeps
  <1>5. HuntPlaces'
        BY <1>0, <1>1, <1>3, <1>4 DEF HuntPlaces, OnlyHuntMoves, Reading
  <1>6. HashesTrue'
        BY <1>0, <1>3, OnlyHuntHashes DEF Reading
  <1>7. JobsTrue'
    <2>1. \A p \in Owners : ~Lane(p)'
          BY <1>3 DEF Lane
    <2> QED BY <1>0, <2>1, SameScansJobs DEF OnlyHuntMoves
  <1>8. ListedOnce'
    <2>1. held' = held
          BY <1>0 DEF OnlyHuntMoves
    <2>2. (\A a, b \in hunt.batch : a[1] = b[1] => a = b)'
          BY <1>1, <1>3 DEF ListedOnce
    <2>3. (\A a \in hunt.batch : a[1] \notin hunt.to_list)'
          BY <1>1, <1>3 DEF ListedOnce
    <2>4. (\A g \in hunt.steady \ hunt.to_list : held[g] # NoBytes => <<g, held[g]>> \in hunt.batch)'
          BY <1>1, <1>3, <2>1 DEF ListedOnce
    <2>5. (\A a \in hunt.batch : a[1] \in hunt.steady => held[a[1]] = a[2])'
          BY <1>1, <1>3, <2>1 DEF ListedOnce
    <2> QED BY <2>2, <2>3, <2>4, <2>5 DEF ListedOnce
  <1>9. SteadyListed' /\ SteadyHashed' /\ SteadyCompared'
        BY <1>3 DEF SteadyListed, SteadyHashed, SteadyCompared, InventoryKept, Reading
  <1>10. HashedOnce'
        BY <1>0, <1>1, <1>3, <1>4 DEF HashedOnce, Reading, OnlyHuntMoves
  <1>11. NothingComparedYet'
        BY <1>0, <1>1, <1>3, <1>4 DEF NothingComparedYet, Reading, OnlyHuntMoves
  <1> QED BY <1>4, <1>5, <1>6, <1>7, <1>8, <1>9, <1>10, <1>11

\* What a file that stood still needs, while a scan goes on after its inventory.
LEMMA SteadyKeeps ==
    ASSUME HuntsInv, OnlyHuntMoves, InventoryKept, InventoryKept', hunt'.steady = hunt.steady,
           \A g \in SizeTwins : g \in hunt.steady /\ Passed(g)' => Passed(g)
    PROVE  SteadyListed' /\ SteadyHashed' /\ SteadyCompared'
  <1> USE DEF HuntsInv, OnlyHuntMoves
  <1>1. Seen' = Seen /\ SizeTwins' = SizeTwins /\ Owners' = Owners /\ Scan' = Scan
    <2>1. SameScans /\ album' = album
          BY DEF SameScans
    <2> QED BY <2>1, SameScansKeep, SameAlbum DEF Scan
  <1>2. SteadyListed'
        BY <1>1 DEF SteadyListed
  <1>3. SteadyHashed'
    <2>1. \A g \in SizeTwins : g \in hunt.steady /\ Passed(g)' => Hashed(g)
          BY DEF SteadyHashed
    <2>2. \A g : Hashed(g)' <=> Hashed(g)
          BY <1>1 DEF Hashed
    <2> QED BY <1>1, <2>1, <2>2 DEF SteadyHashed
  <1>4. SteadyCompared'
        BY <1>1 DEF SteadyCompared, Video
  <1> QED BY <1>2, <1>3, <1>4

\* A file the catalogue has of this scan was listed at a version.
LEMMA SeenAtVersion ==
    ASSUME HuntsInv, hunt # NoHunt, NEW f \in Seen
    PROVE  f \in Shelved /\ index_rows[f].was \in FileVersion
  <1>1. f \in Shelved /\ index_rows[f].seen = Len(hunts) /\ Len(hunts) # 0
        BY DEF Seen, Scan, HuntsInv, HuntPlaces, HuntTypes
  <1>2. index_rows[f] \in CatalogueRow
        BY <1>1 DEF HuntsInv, HuntTypes
  <1> QED BY <1>1, <1>2 DEF HuntsInv, HuntPlaces, CatalogueRow

LEMMA LookAtKeepsHunts ==
    ASSUME HuntsInv, NEW f \in Shelved, LookAt(f)
    PROVE  HuntsInv'
  <1> USE DEF HuntsInv
  <1> DEFINE row == index_rows[f]
  <1>0. OnlyHuntMoves
        BY DEF LookAt, OnlyHuntMoves
  <1>1. hunt.step = "hash" /\ hunt \in RunningScan /\ hunt # NoHunt
        BY Runs DEF LookAt
  <1>2. /\ f \in SizeTwins /\ f \in Seen /\ Rank(f) > hunt.cursor
        /\ Rank(f) \in Nat /\ hunt.cursor \in Nat
        BY <1>1, ShelfRanks DEF LookAt, Later, SizeTwins, RunningScan
  <1>3. \A g \in SizeTwins : Rank(g) \in Nat /\ (Rank(g) > hunt.cursor => Rank(f) <= Rank(g))
        BY ShelfRanks DEF LookAt, Later, SizeTwins, Seen
  <1>4. \A g \in SizeTwins : Rank(g) = Rank(f) => g = f
    <2>1. \A g \in SizeTwins : g \in Shelved
          BY DEF SizeTwins, Seen
    <2>2. \A g \in Shelved : Shelf[Rank(g)] = g
          BY ShelfRanks
    <2> QED BY <2>1, <2>2
  <1>5. row \in CatalogueRow
        BY DEF HuntTypes
  <1>6. /\ hunt'.cursor = Rank(f) /\ hunt'.steady = hunt.steady /\ hunt' \in RunningScan
        /\ \/ hunt'.step = "hash" /\ held[f] # row.was
           \/ /\ hunt'.step = ToRead(row.sha, row.look, f) /\ held[f] = row.was
              /\ hunt'.file = f /\ hunt'.sha = row.sha /\ hunt'.look = row.look
              /\ hunt'.doubt = row.doubt
    <2>1. CASE held[f] # row.was
      <3>1. hunt' = [hunt EXCEPT !.cursor = Rank(f)]
            BY <2>1 DEF LookAt
      <3> QED BY <1>1, <1>2, <2>1, <3>1 DEF RunningScan
    <2>2. CASE held[f] = row.was
      <3>1. hunt' = [hunt EXCEPT !.step = ToRead(row.sha, row.look, f), !.cursor = Rank(f),
                                 !.file = f, !.sha = row.sha, !.look = row.look,
                                 !.doubt = row.doubt]
            BY <2>2 DEF LookAt
      <3>2. ToRead(row.sha, row.look, f) \in Reading
            BY DEF ToRead, Reading
      <3> QED BY <1>1, <1>2, <1>5, <2>2, <3>1, <3>2 DEF RunningScan, CatalogueRow
    <2> QED BY <2>1, <2>2
  <1>7. hunt'.step \in {"hash"} \cup Reading
        BY <1>6 DEF ToRead, Reading
  <1>8. /\ HuntTypes' /\ EqualsShown' /\ VideosShown'
        /\ Seen' = Seen /\ SizeTwins' = SizeTwins /\ Owners' = Owners /\ Scan' = Scan
        BY <1>0, <1>6, OnlyHuntKeeps
  <1>9. HuntPlaces'
    <2>1. hunt'.step \in {"look", "record"} => hunt'.sha # NoBytes
          BY <1>6 DEF ToRead
    <2>2. hunt'.step \in Reading => hunt'.file \in SizeTwins /\ hunt'.cursor = Rank(hunt'.file)
          BY <1>2, <1>6 DEF Reading
    <2> QED BY <1>0, <1>1, <1>7, <1>8, <2>1, <2>2 DEF HuntPlaces, OnlyHuntMoves, Reading
  <1>10. HashesTrue'
    <2>1. TrueOf(row)
          BY DEF HashesTrue
    <2>2. hunt'.step \in Reading =>
             /\ hunt'.file = f /\ held[f] = row.was /\ hunt'.sha = row.sha
             /\ hunt'.look = row.look /\ hunt'.doubt = row.doubt
          BY <1>6 DEF Reading
    <2> QED BY <1>0, <2>1, <2>2, OnlyHuntHashes DEF TrueOf
  <1>11. JobsTrue'
    <2>1. \A p \in Owners : ~Lane(p)'
          BY <1>7 DEF Lane, Reading
    <2> QED BY <1>0, <2>1, SameScansJobs DEF OnlyHuntMoves
  <1>12. ListedOnce'
        BY <1>7 DEF ListedOnce, Reading
  <1>13. SteadyListed' /\ SteadyHashed' /\ SteadyCompared'
    <2>1. InventoryKept /\ InventoryKept'
          BY <1>1, <1>7 DEF InventoryKept
    <2>2. ASSUME NEW g \in SizeTwins, g \in hunt.steady, Passed(g)'
          PROVE  Passed(g)
      <3>0. hunt'.step = "hash" => held[f] # row.was
            BY <1>6 DEF ToRead
      <3>1. \/ Rank(g) <= Rank(f) /\ held[f] # row.was
            \/ Rank(g) < Rank(f)
        <4>1. hunt'.step \notin {"compare", "complete"}
              BY <1>7 DEF Reading
        <4>2. \/ hunt'.step = "hash" /\ Rank(g) <= hunt'.cursor
              \/ Rank(g) < hunt'.cursor
              BY <2>2, <4>1 DEF Passed
        <4> QED BY <1>6, <3>0, <4>2
      <3>2. f \in hunt.steady => held[f] = row.was
            BY <1>2, <2>1 DEF SteadyListed
      <3>3. Rank(g) < Rank(f)
            BY <1>2, <1>3, <1>4, <2>2, <3>1, <3>2
      <3> QED BY <1>1, <1>2, <1>3, <3>3 DEF Passed
    <2> QED BY <1>0, <1>6, <2>1, <2>2, SteadyKeeps
  <1>14. HashedOnce'
    <2>1. \A r \in hunts[Scan].files : Rank(r.file) <= hunt.cursor
          BY <1>1 DEF HashedOnce, Passed, Reading
    <2>2. \A r \in hunts[Scan].files : r.file \in Shelved
      <3>1. hunts[Scan] \in ScanRow
            BY <1>1 DEF HuntPlaces, HuntTypes, Scan
      <3> QED BY <3>1 DEF ScanRow, FileRow
    <2>3. \A r \in hunts[Scan].files : Rank(r.file) < Rank(f)
          BY <1>2, <2>1, <2>2, ShelfRanks
    <2>4. \A r \in hunts[Scan].files : Rank(r.file) <= Rank(f)
          BY <1>2, <2>2, <2>3, ShelfRanks
    <2>5. \A r \in hunts[Scan].files : Passed(r.file)'
          BY <1>6, <1>7, <2>3, <2>4 DEF Passed
    <2> QED BY <1>0, <1>7, <1>8, <2>5 DEF HashedOnce, OnlyHuntMoves, Reading
  <1>15. NothingComparedYet'
        BY <1>0, <1>1, <1>8 DEF NothingComparedYet, OnlyHuntMoves, Reading
  <1> QED BY <1>8, <1>9, <1>10, <1>11, <1>12, <1>13, <1>14, <1>15

\* The file is left, and the next one looked for.
LEMMA LeavingKeeps ==
    ASSUME HuntsInv, hunt.step \in Reading, held' = held, hunt' = LeaveFile
    PROVE  /\ hunt \in RunningScan /\ hunt # NoHunt /\ hunt' \in RunningScan
           /\ hunt.file \in Shelved /\ index_rows[hunt.file].was \in FileVersion
           /\ hunt'.step = "hash" /\ hunt'.cursor = hunt.cursor /\ hunt'.steady = hunt.steady
           /\ hunt.cursor = Rank(hunt.file)
           /\ \A g \in SizeTwins : Passed(g)' => Passed(g) \/ g = hunt.file
           /\ \A g \in Shelved : Passed(g) \/ g = hunt.file => Passed(g)'
  <1>1. hunt \in RunningScan /\ hunt # NoHunt
        BY DEF HuntsInv, HuntTypes, Reading, NoHunt
  <1>2. hunt.file \in SizeTwins /\ hunt.cursor = Rank(hunt.file)
        BY DEF HuntsInv, HuntPlaces
  <1>3. hunt.file \in Shelved /\ index_rows[hunt.file].was \in FileVersion
        BY <1>1, <1>2, SeenAtVersion DEF SizeTwins
  <1>4. /\ hunt' \in RunningScan
        /\ hunt'.step = "hash" /\ hunt'.cursor = hunt.cursor /\ hunt'.steady = hunt.steady
        BY <1>1 DEF LeaveFile, RunningScan, HashField
  <1>5. \A g \in Shelved : Rank(g) \in Nat /\ Shelf[Rank(g)] = g
        BY ShelfRanks
  <1>6. ASSUME NEW g \in Shelved
        PROVE  (Rank(g) <= hunt.cursor <=> Rank(g) < hunt.cursor \/ g = hunt.file)
        BY <1>2, <1>3, <1>5
  <1>7. \A g \in Shelved : Passed(g)' <=> Rank(g) <= hunt.cursor
        BY <1>4 DEF Passed, Reading
  <1>8. \A g \in Shelved : Passed(g) <=> Rank(g) < hunt.cursor
        BY DEF Passed, Reading
  <1>9. \A g \in SizeTwins : g \in Shelved
        BY DEF SizeTwins, Seen
  <1> QED BY <1>1, <1>2, <1>3, <1>4, <1>6, <1>7, <1>8, <1>9

\* From the reading of a file to the next step of it, or away from it.
LEMMA ReadingKeeps ==
    ASSUME HuntsInv, OnlyHuntMoves, hunt.step \in Reading,
           \/ hunt' = LeaveFile /\ held[hunt.file] # index_rows[hunt.file].was
           \/ /\ hunt' \in RunningScan /\ hunt'.step \in {"look", "record"} /\ hunt'.sha # NoBytes
              /\ hunt'.file = hunt.file /\ hunt'.cursor = hunt.cursor
              /\ hunt'.steady = hunt.steady /\ hunt'.doubt = hunt.doubt
              /\ ~hunt.doubt =>
                   \A hash \in {hunt'.sha, hunt'.look} \ {NoBytes} :
                       hash = Pixels[index_rows[hunt.file].was]
    PROVE  HuntsInv'
  <1> USE DEF HuntsInv
  <1>0. held' = held /\ hunts' = hunts /\ album' = album
        BY DEF OnlyHuntMoves
  <1>1. /\ hunt \in RunningScan /\ hunt # NoHunt
        /\ hunt.file \in SizeTwins /\ hunt.cursor = Rank(hunt.file)
        BY Runs DEF Reading, HuntPlaces
  <1>2. /\ hunt' \in RunningScan /\ hunt'.steady = hunt.steady /\ hunt'.cursor = hunt.cursor
        /\ hunt'.step \in {"hash", "look", "record"}
        BY <1>0, LeavingKeeps
  <1>3. hunt'.step \in {"look", "record"} =>
            /\ hunt'.file = hunt.file /\ hunt'.sha # NoBytes /\ hunt'.doubt = hunt.doubt
            /\ ~hunt.doubt =>
                   \A hash \in {hunt'.sha, hunt'.look} \ {NoBytes} :
                       hash = Pixels[index_rows[hunt.file].was]
        BY <1>0, LeavingKeeps
  <1>4. /\ HuntTypes' /\ EqualsShown' /\ VideosShown'
        /\ Seen' = Seen /\ SizeTwins' = SizeTwins /\ Owners' = Owners /\ Scan' = Scan
        BY <1>2, OnlyHuntKeeps
  <1>5. HuntPlaces'
    <2>1. hunt'.step \in Reading => hunt'.file \in SizeTwins /\ hunt'.cursor = Rank(hunt'.file)
          BY <1>1, <1>2, <1>3 DEF Reading
    <2> QED BY <1>1, <1>2, <1>3, <1>4, <2>1 DEF HuntPlaces, OnlyHuntMoves, Reading
  <1>6. HashesTrue'
    <2>1. hunt'.step \in Reading /\ ~hunt'.doubt =>
              LET was == index_rows[hunt'.file].was IN
              /\ held[hunt'.file] = was
              /\ \A hash \in {hunt'.sha, hunt'.look} \ {NoBytes} : hash = Pixels[was]
          BY <1>2, <1>3 DEF HashesTrue, Reading
    <2> QED BY <2>1, OnlyHuntHashes
  <1>7. JobsTrue'
    <2>1. \A p \in Owners : ~Lane(p)'
          BY <1>2 DEF Lane
    <2> QED BY <1>0, <2>1, SameScansJobs
  <1>8. ListedOnce'
        BY <1>2 DEF ListedOnce
  <1>9. \A g \in SizeTwins : Passed(g)' => Passed(g) \/ (g = hunt.file /\ hunt' = LeaveFile)
    <2>1. CASE hunt' = LeaveFile
          BY <1>0, <2>1, LeavingKeeps
    <2>2. CASE hunt'.step \in {"look", "record"}
      BY <1>2, <2>2 DEF Passed, Reading
    <2> QED BY <2>1, <2>2
  <1>10. SteadyListed' /\ SteadyHashed' /\ SteadyCompared'
    <2>1. InventoryKept /\ InventoryKept'
          BY <1>2 DEF InventoryKept, Reading
    <2>2. ASSUME NEW g \in SizeTwins, g \in hunt.steady, Passed(g)'
          PROVE  Passed(g)
      <3>1. ASSUME g = hunt.file, hunt' = LeaveFile
            PROVE  FALSE
        <4>1. held[g] = index_rows[g].was
              BY <1>1, <2>1, <2>2, <3>1 DEF SteadyListed, SizeTwins
        <4>2. hunt'.step = "hash"
              BY <1>0, <3>1, LeavingKeeps
        <4> QED BY <3>1, <4>1, <4>2
      <3> QED BY <1>9, <2>2, <3>1
    <2> QED BY <1>2, <2>1, <2>2, SteadyKeeps
  <1>11. HashedOnce'
    <2>1. \A r \in hunts[Scan].files : r.file \in Shelved /\ Passed(r.file)
      <3>1. hunts[Scan] \in ScanRow
            BY <1>1 DEF HuntPlaces, HuntTypes, Scan
      <3> QED BY <3>1 DEF HashedOnce, ScanRow, FileRow
    <2>2. \A r \in hunts[Scan].files : Passed(r.file)'
      <3>1. CASE hunt' = LeaveFile
            BY <1>0, <2>1, <3>1, LeavingKeeps
      <3>2. CASE hunt'.step \in {"look", "record"}
            BY <1>2, <2>1, <3>2 DEF Passed, Reading
      <3> QED BY <3>1, <3>2
    <2> QED BY <1>0, <1>2, <1>4, <2>2 DEF HashedOnce
  <1>12. NothingComparedYet'
        BY <1>0, <1>2, <1>4 DEF NothingComparedYet, Reading
  <1> QED BY <1>4, <1>5, <1>6, <1>7, <1>8, <1>10, <1>11, <1>12

LEMMA ReadBytesKeepsHunts ==
    ASSUME HuntsInv, ReadBytes
    PROVE  HuntsInv'
  <1> USE DEF HuntsInv
  <1>0. OnlyHuntMoves
        BY DEF ReadBytes, OnlyHuntMoves
  <1>1. hunt.step = "read" /\ hunt.step \in Reading /\ hunt \in RunningScan /\ hunt # NoHunt
        BY Runs DEF ReadBytes, Reading
  <1>2. /\ hunt.file \in Shelved /\ index_rows[hunt.file].was \in FileVersion
        BY <1>1, SeenAtVersion DEF HuntPlaces, SizeTwins
  <1>3. held[hunt.file] \in FileVersion \cup {NoBytes}
        BY <1>2 DEF HuntTypes
  <1>4. CASE held[hunt.file] = NoBytes
    <2>1. hunt' = LeaveFile
          BY <1>4 DEF ReadBytes
    <2>2. held[hunt.file] # index_rows[hunt.file].was
          BY <1>2, <1>4, ScanAssumption DEF ScanAssumption
    <2> QED BY <1>0, <1>1, <2>1, <2>2, ReadingKeeps
  <1>5. CASE held[hunt.file] # NoBytes
    <2> DEFINE sha == Pixels[held[hunt.file]]
    <2>1. hunt' = [hunt EXCEPT !.sha = sha, !.step = ToRead(sha, hunt.look, hunt.file)]
          BY <1>5 DEF ReadBytes
    <2>2. sha \in Bytes /\ sha # NoBytes
          BY <1>3, <1>5, ScanAssumption DEF Bytes, ScanAssumption
    <2>3. ToRead(sha, hunt.look, hunt.file) \in {"look", "record"}
          BY <2>2 DEF ToRead
    <2>4. /\ hunt' \in RunningScan /\ hunt'.step \in {"look", "record"} /\ hunt'.sha = sha
          /\ hunt'.file = hunt.file /\ hunt'.cursor = hunt.cursor
          /\ hunt'.steady = hunt.steady /\ hunt'.doubt = hunt.doubt /\ hunt'.look = hunt.look
      <3> HIDE DEF sha
      <3> QED BY <1>1, <2>1, <2>2, <2>3 DEF RunningScan, HashField, Reading
    <2>5. ~hunt.doubt =>
             \A hash \in {hunt'.sha, hunt'.look} \ {NoBytes} :
                 hash = Pixels[index_rows[hunt.file].was]
          BY <1>1, <2>4 DEF HashesTrue
    <2> QED BY <1>0, <1>1, <2>2, <2>4, <2>5, ReadingKeeps
  <1> QED BY <1>4, <1>5

LEMMA ReadImageKeepsHunts ==
    ASSUME HuntsInv, ReadImage
    PROVE  HuntsInv'
  <1> USE DEF HuntsInv
  <1>0. OnlyHuntMoves
        BY DEF ReadImage, OnlyHuntMoves
  <1>1. hunt.step = "look" /\ hunt.step \in Reading /\ hunt \in RunningScan /\ hunt # NoHunt
        BY Runs DEF ReadImage, Reading
  <1>2. hunt.file \in Shelved
        BY <1>1, SeenAtVersion DEF HuntPlaces, SizeTwins
  <1>3. held[hunt.file] \in FileVersion \cup {NoBytes}
        BY <1>2 DEF HuntTypes
  <1>4. PICK look \in {NoBytes, held[hunt.file]} :
          hunt' = [hunt EXCEPT !.step = "record",
                               !.look = IF look = NoBytes THEN NoBytes ELSE Pixels[look]]
        BY DEF ReadImage
  <1> DEFINE hash == IF look = NoBytes THEN NoBytes ELSE Pixels[look]
  <1>5. hash \in HashField /\ (hash # NoBytes => hash = Pixels[held[hunt.file]])
        BY <1>3 DEF HashField, Bytes
  <1>6. /\ hunt' \in RunningScan /\ hunt'.step = "record" /\ hunt'.sha = hunt.sha
        /\ hunt'.file = hunt.file /\ hunt'.cursor = hunt.cursor
        /\ hunt'.steady = hunt.steady /\ hunt'.doubt = hunt.doubt /\ hunt'.look = hash
    <2>1. hunt' = [hunt EXCEPT !.step = "record", !.look = hash]
          BY <1>4
    <2> HIDE DEF hash
    <2> QED BY <1>1, <1>5, <2>1 DEF RunningScan, Reading
  <1>7. ~hunt.doubt =>
           \A h \in {hunt'.sha, hunt'.look} \ {NoBytes} :
               h = Pixels[index_rows[hunt.file].was]
    <2> HIDE DEF hash
    <2> QED BY <1>1, <1>5, <1>6 DEF HashesTrue
  <1>8. hunt'.sha # NoBytes
        BY <1>1, <1>6 DEF HuntPlaces
  <1> QED BY <1>0, <1>1, <1>6, <1>7, <1>8, ReadingKeeps

LEMMA EndHashesKeepsHunts ==
    ASSUME HuntsInv, NEW tool \in BOOLEAN, EndHashes(tool)
    PROVE  HuntsInv'
  <1> USE DEF HuntsInv
  <1> DEFINE lanes == [p \in {q \in Owners : VideosOf(q) # {}} |-> "wait"]
  <1>0. OnlyHuntMoves
        BY DEF EndHashes, OnlyHuntMoves
  <1>1. hunt.step = "hash" /\ Later = {} /\ hunt \in RunningScan /\ hunt # NoHunt
        BY Runs DEF EndHashes
  <1>2. lanes \in LaneMap
    <2> DEFINE ps == {q \in Owners : VideosOf(q) # {}}
    <2>1. ps \in SUBSET Owners
          OBVIOUS
    <2>2. lanes \in [ps -> {"wait", "run", "import", "done"}]
          OBVIOUS
    <2> QED BY <2>1, <2>2 DEF LaneMap
  <1>3. \/ hunt' = [hunt EXCEPT !.step = "compare", !.lanes = lanes]
        \/ hunt' = [hunt EXCEPT !.step = "complete"]
        BY DEF EndHashes
  <1>4. /\ hunt' \in RunningScan /\ hunt'.steady = hunt.steady
        /\ hunt'.step \in {"compare", "complete"}
        /\ hunt'.step = "compare" => hunt'.lanes = lanes
    <2> HIDE DEF lanes
    <2> QED BY <1>1, <1>2, <1>3 DEF RunningScan
  <1>5. /\ HuntTypes' /\ EqualsShown' /\ VideosShown'
        /\ Seen' = Seen /\ SizeTwins' = SizeTwins /\ Owners' = Owners /\ Scan' = Scan
        BY <1>0, <1>4, OnlyHuntKeeps
  <1>6. HuntPlaces'
        BY <1>0, <1>1, <1>4, <1>5 DEF HuntPlaces, OnlyHuntMoves, Reading
  <1>7. HashesTrue'
        BY <1>0, <1>4, OnlyHuntHashes DEF Reading
  <1>8. JobsTrue'
    <2>1. \A p \in Owners : Lane(p)' => hunt'.lanes[p] = "wait"
          BY <1>4 DEF Lane
    <2> QED BY <1>0, <2>1, SameScansJobs DEF OnlyHuntMoves
  <1>9. ListedOnce'
        BY <1>4 DEF ListedOnce
  <1>10. SteadyListed' /\ SteadyHashed' /\ SteadyCompared'
    <2>1. InventoryKept /\ InventoryKept'
          BY <1>1, <1>4 DEF InventoryKept
    <2>2. ASSUME NEW g \in SizeTwins
          PROVE  Passed(g)
      <3>1. g \notin Later /\ Rank(g) \in Nat /\ hunt.cursor \in Nat
            BY <1>1, ShelfRanks DEF SizeTwins, Seen, RunningScan
      <3>2. Rank(g) <= hunt.cursor
            BY <3>1 DEF Later
      <3> QED BY <1>1, <3>2 DEF Passed
    <2> QED BY <1>0, <1>4, <2>1, <2>2, SteadyKeeps
  <1>11. HashedOnce'
        BY <1>0, <1>4, <1>5 DEF HashedOnce, OnlyHuntMoves, Reading
  <1>12. NothingComparedYet'
        BY <1>4 DEF NothingComparedYet, Reading
  <1> QED BY <1>5, <1>6, <1>7, <1>8, <1>9, <1>10, <1>11, <1>12

LEMMA EndLanesKeepsHunts ==
    ASSUME HuntsInv, EndLanes
    PROVE  HuntsInv'
  <1> USE DEF HuntsInv
  <1>0. OnlyHuntMoves
        BY DEF EndLanes, OnlyHuntMoves
  <1>1. hunt.step = "compare" /\ hunt \in RunningScan /\ hunt # NoHunt
        BY Runs DEF EndLanes
  <1>2. hunt' \in RunningScan /\ hunt'.steady = hunt.steady /\ hunt'.step = "complete"
        BY <1>1 DEF EndLanes, RunningScan
  <1>3. /\ HuntTypes' /\ EqualsShown' /\ VideosShown'
        /\ Seen' = Seen /\ SizeTwins' = SizeTwins /\ Owners' = Owners /\ Scan' = Scan
        BY <1>0, <1>2, OnlyHuntKeeps
  <1>4. HuntPlaces'
        BY <1>0, <1>1, <1>2, <1>3 DEF HuntPlaces, OnlyHuntMoves, Reading
  <1>5. HashesTrue'
        BY <1>0, <1>2, OnlyHuntHashes DEF Reading
  <1>6. JobsTrue'
    <2>1. \A p \in Owners : ~Lane(p)'
          BY <1>2 DEF Lane
    <2> QED BY <1>0, <2>1, SameScansJobs DEF OnlyHuntMoves
  <1>7. ListedOnce'
        BY <1>2 DEF ListedOnce
  <1>8. SteadyListed' /\ SteadyHashed' /\ SteadyCompared'
    <2>1. InventoryKept /\ InventoryKept'
          BY <1>1, <1>2 DEF InventoryKept
    <2>2. \A g \in SizeTwins : Passed(g)
          BY <1>1 DEF Passed
    <2> QED BY <1>0, <1>2, <2>1, <2>2, SteadyKeeps
  <1>9. HashedOnce'
        BY <1>0, <1>2, <1>3 DEF HashedOnce, OnlyHuntMoves, Reading
  <1>10. NothingComparedYet'
        BY <1>2 DEF NothingComparedYet, Reading
  <1> QED BY <1>3, <1>4, <1>5, <1>6, <1>7, <1>8, <1>9, <1>10

LEMMA HuntDoneKeepsHunts ==
    ASSUME HuntsInv, HuntDone
    PROVE  HuntsInv'
  <1> USE DEF HuntsInv
  <1>0. OnlyHuntMoves
        BY DEF HuntDone, OnlyHuntMoves
  <1>1. hunt' = NoHunt /\ hunt'.step = "none"
        BY DEF HuntDone, NoHunt
  <1>2. /\ HuntTypes' /\ EqualsShown' /\ VideosShown'
        /\ Seen' = Seen /\ SizeTwins' = SizeTwins /\ Owners' = Owners /\ Scan' = Scan
        BY <1>0, <1>1, OnlyHuntKeeps
  <1>3. HuntPlaces'
        BY <1>0, <1>1, <1>2 DEF HuntPlaces, OnlyHuntMoves, Reading
  <1>4. HashesTrue'
        BY <1>0, <1>1, OnlyHuntHashes DEF Reading
  <1>5. JobsTrue'
    <2>1. \A p \in Owners : ~Lane(p)'
          BY <1>1 DEF Lane
    <2> QED BY <1>0, <2>1, SameScansJobs DEF OnlyHuntMoves
  <1>6. ListedOnce' /\ SteadyListed' /\ SteadyHashed' /\ SteadyCompared' /\ NothingComparedYet'
        BY <1>1
        DEF ListedOnce, SteadyListed, SteadyHashed, SteadyCompared, NothingComparedYet,
            InventoryKept, Reading
  <1>7. HashedOnce'
        BY <1>0, <1>1, <1>2 DEF HashedOnce, OnlyHuntMoves, Reading
  <1> QED BY <1>2, <1>3, <1>4, <1>5, <1>6, <1>7

LEMMA PersistInventoryKeepsHunts ==
    ASSUME HuntsInv, PersistInventory
    PROVE  HuntsInv'
  <1> USE DEF HuntsInv
  <1> DEFINE listed(f) == \E v \in FileVersion : <<f, v>> \in hunt.batch
  <1>0. held' = held /\ hunts' = hunts /\ album' = album /\ changes' = changes
        BY DEF PersistInventory
  <1>1. hunt.step = "list" /\ hunt.to_list = {} /\ hunt \in RunningScan /\ hunt # NoHunt
        BY Runs DEF PersistInventory
  <1>2. /\ hunt' \in RunningScan /\ hunt'.steady = hunt.steady /\ hunt'.step = "hash"
        /\ hunt'.cursor = 0 /\ hunt' # NoHunt
        BY <1>1, Runs DEF PersistInventory, RunningScan, HuntPlaces, NoHunt
  <1>3. Owners' = Owners /\ Scan' = Scan /\ ScanRow' = ScanRow /\ RunningScan' = RunningScan
        BY <1>0, SameAlbum DEF Scan
  <1>4. Scan \in Nat \ {0} /\ Scan = Len(hunts) /\ hunts[Scan] \in ScanRow
        BY <1>1 DEF Scan, HuntTypes, HuntPlaces
  \* What becomes of each row.
  <1>5. ASSUME NEW f \in Shelved, NEW v \in FileVersion, <<f, v>> \in hunt.batch
        PROVE  /\ index_rows'[f] \in CatalogueRow
               /\ index_rows'[f].was = v /\ index_rows'[f].seen = Scan
               /\ TrueOf(index_rows'[f])
    <2>1. \A w \in FileVersion : <<f, w>> \in hunt.batch => w = v
      <3>1. ASSUME NEW w \in FileVersion, <<f, w>> \in hunt.batch
            PROVE  w = v
        <4>1. <<f, w>>[1] = <<f, v>>[1] => <<f, w>> = <<f, v>>
              BY <1>1, <1>5, <3>1 DEF ListedOnce
        <4> QED BY <4>1
      <3> QED BY <3>1
    <2>2. (CHOOSE w \in FileVersion : <<f, w>> \in hunt.batch) = v
          BY <1>5, <2>1
    <2>3. index_rows'[f] = RelistedRow(index_rows[f], v)
          BY <1>5, <2>2 DEF PersistInventory
    <2>4. index_rows[f] \in CatalogueRow /\ TrueOf(index_rows[f])
          BY DEF HuntTypes, HashesTrue
    <2>5. NeverListed \in CatalogueRow
          BY DEF NeverListed, CatalogueRow, HashField
    <2>6. CASE index_rows[f].was = v
      <3>1. index_rows'[f] = [index_rows[f] EXCEPT !.seen = Scan]
            BY <2>3, <2>6 DEF RelistedRow
      <3> QED BY <1>4, <2>4, <2>6, <3>1 DEF CatalogueRow, TrueOf
    <2>7. CASE index_rows[f].was # v
      <3>1. index_rows'[f] = [NeverListed EXCEPT !.was = v, !.seen = Scan]
            BY <2>3, <2>7 DEF RelistedRow
      <3> QED BY <1>4, <3>1 DEF NeverListed, CatalogueRow, TrueOf, HashField
    <2> QED BY <2>6, <2>7
  <1>6. ASSUME NEW f \in Shelved, ~listed(f)
        PROVE  index_rows'[f] = index_rows[f] /\ index_rows[f].seen # Scan
        BY <1>1, <1>6 DEF PersistInventory, HuntPlaces
  <1>7. ASSUME NEW a \in hunt.batch
        PROVE  a[1] \in Shelved /\ a[2] \in FileVersion /\ a = <<a[1], a[2]>>
        BY <1>1 DEF RunningScan, Dated
  <1>8. index_rows' \in [Shelved -> CatalogueRow]
    <2>1. \A f \in Shelved : index_rows'[f] \in CatalogueRow
          BY <1>5, <1>6 DEF HuntTypes
    <2>2. index_rows' = [f \in Shelved |-> index_rows'[f]]
          BY DEF PersistInventory
    <2> QED BY <2>1, <2>2
  <1>9. \A f \in Shelved : f \in Seen' <=> listed(f)
    <2>1. \A f \in Shelved : f \in Seen' <=> index_rows'[f].seen = Scan
          BY <1>3 DEF Seen
    <2> QED BY <1>5, <1>6, <2>1
  <1>10. HuntTypes'
        BY <1>0, <1>2, <1>3, <1>8 DEF HuntTypes
  <1>11. HuntPlaces'
    <2>1. ASSUME NEW f \in Shelved
          PROVE  /\ index_rows'[f].seen <= Scan
                 /\ index_rows'[f].seen = 0 <=> index_rows'[f].was = NoBytes
      <3>1. CASE listed(f)
            BY <1>4, <1>5, <3>1, ScanAssumption DEF ScanAssumption
      <3>2. CASE ~listed(f)
            BY <1>4, <1>6, <3>2 DEF HuntPlaces
      <3> QED BY <3>1, <3>2
    <2>2. hunts'[Scan'].status = "running"
          BY <1>0, <1>1, <1>3 DEF HuntPlaces
    <2> QED BY <1>0, <1>1, <1>2, <1>3, <1>4, <2>1, <2>2 DEF HuntPlaces, Reading
  <1>12. HashesTrue'
    <2>1. \A f \in Shelved : TrueOf(index_rows'[f])
      <3> SUFFICES ASSUME NEW f \in Shelved
                   PROVE  TrueOf(index_rows'[f])
            OBVIOUS
      <3>1. TrueOf(index_rows[f])
            BY DEF HashesTrue
      <3> QED BY <1>5, <1>6, <3>1
    <2>2. (\A f \in Shelved : TrueOf(index_rows[f]))'
          BY <2>1 DEF TrueOf
    <2>3. (\A s \in 1..Len(hunts) : \A r \in hunts[s].files : TrueOf(r))'
          BY <1>0 DEF HashesTrue, TrueOf
    <2> QED BY <1>2, <2>2, <2>3 DEF HashesTrue, Reading
  <1>13. JobsTrue'
    <2>1. \A p \in Owners : ~Lane(p)'
          BY <1>2 DEF Lane
    <2> QED BY <1>0, <2>1, SameScansJobs
  <1>14. ListedOnce'
        BY <1>2 DEF ListedOnce
  <1>15. SteadyListed'
    <2>1. hunt.steady \subseteq Shelved
          BY <1>1 DEF RunningScan
    <2>2. ASSUME NEW f \in hunt.steady, f \in Seen'
          PROVE  held[f] = index_rows'[f].was
      <3>1. PICK v \in FileVersion : <<f, v>> \in hunt.batch
            BY <1>9, <2>1, <2>2
      <3>2. held[<<f, v>>[1]] = <<f, v>>[2]
            BY <1>1, <3>1 DEF ListedOnce
      <3> QED BY <1>5, <2>1, <3>1, <3>2
    <2>3. ASSUME NEW f \in hunt.steady, held[f] # NoBytes
          PROVE  f \in Seen'
      <3>1. <<f, held[f]>> \in hunt.batch /\ held[f] \in FileVersion
            BY <1>1, <2>1, <2>3 DEF ListedOnce, HuntTypes
      <3> QED BY <1>9, <2>1, <3>1
    <2> QED BY <1>0, <1>2, <2>2, <2>3 DEF SteadyListed
  <1>16. SteadyHashed'
    <2>1. \A g \in Shelved : ~Passed(g)'
      <3> SUFFICES ASSUME NEW g \in Shelved
                   PROVE  ~Passed(g)'
            OBVIOUS
      <3>1. Rank(g) \in Nat /\ Rank(g) > 0
            BY ShelfRanks
      <3> QED BY <1>2, <3>1 DEF Passed, Reading
    <2>2. \A g \in SizeTwins' : g \in Shelved
          BY DEF SizeTwins, Seen
    <2> QED BY <2>1, <2>2 DEF SteadyHashed
  <1>17. HashedOnce'
        BY <1>0, <1>1, <1>2, <1>3 DEF HashedOnce, Reading
  <1>18. NothingComparedYet' /\ SteadyCompared'
        BY <1>0, <1>1, <1>2, <1>3 DEF NothingComparedYet, SteadyCompared
  <1>19. EqualsShown' /\ VideosShown'
    <2>1. \A s, a : StoodRow(s, a)' <=> StoodRow(s, a)
          BY <1>0 DEF StoodRow
    <2> QED BY <1>0, <1>3, <2>1 DEF EqualsShown, VideosShown, Video
  <1> QED BY <1>10, <1>11, <1>12, <1>13, <1>14, <1>15, <1>16, <1>17, <1>18, <1>19
-----------------------------------------------------------------------------
\* The scan that runs is written: the earlier ones stay as they are.
LEMMA ScanWritten ==
    ASSUME HuntsInv, hunt # NoHunt, NEW row \in ScanRow, hunts' = [hunts EXCEPT ![Scan] = row]
    PROVE  /\ hunts' \in Seq(ScanRow) /\ Len(hunts') = Len(hunts) /\ Scan' = Scan
           /\ Scan \in 1..Len(hunts) /\ hunts[Scan] \in ScanRow
           /\ hunts'[Scan] = row
           /\ \A s \in 1..Len(hunts) : s # Scan => hunts'[s] = hunts[s]
  <1>1. hunts \in Seq(ScanRow) /\ Len(hunts) \in Nat \ {0} /\ Scan = Len(hunts)
        BY DEF HuntsInv, HuntTypes, HuntPlaces, Scan
  <1>2. DOMAIN hunts = 1..Len(hunts) /\ Scan \in 1..Len(hunts)
        BY <1>1
  <1>3. hunts' \in Seq(ScanRow) /\ Len(hunts') = Len(hunts)
        BY <1>1, <1>2
  <1>4. Scan' = Scan
        BY <1>1, <1>3 DEF Scan
  <1>5. hunts[Scan] \in ScanRow
        BY <1>1, <1>2
  <1>6. hunts'[Scan] = row /\ \A s \in 1..Len(hunts) : s # Scan => hunts'[s] = hunts[s]
        BY <1>2
  <1> QED BY <1>2, <1>3, <1>4, <1>5, <1>6

LEMMA RecordHashesKeepsHunts ==
    ASSUME HuntsInv, RecordHashes
    PROVE  HuntsInv'
  <1> USE DEF HuntsInv
  <1> DEFINE f == hunt.file
             row == [index_rows[f] EXCEPT !.sha = hunt.sha, !.look = hunt.look,
                                          !.doubt = hunt.doubt]
             hashed == [file |-> f, was |-> row.was, sha |-> row.sha, look |-> row.look,
                        doubt |-> row.doubt]
  <1>0. hunt' = LeaveFile /\ held' = held /\ album' = album /\ changes' = changes
        BY DEF RecordHashes
  <1>1. /\ hunt.step = "record" /\ hunt.step \in Reading /\ hunt \in RunningScan /\ hunt # NoHunt
        /\ hunt.sha # NoBytes /\ f \in SizeTwins /\ f \in Seen
        BY Runs DEF RecordHashes, Reading, HuntPlaces, SizeTwins
  <1>2. CASE held[f] # index_rows[f].was
    <2>1. row.was = index_rows[f].was
      <3>1. f \in Shelved
            BY <1>1 DEF Seen
      <3> QED BY <3>1 DEF HuntTypes, CatalogueRow
    <2>2. OnlyHuntMoves
          BY <1>0, <1>2, <2>1 DEF RecordHashes, OnlyHuntMoves
    <2> QED BY <1>0, <1>1, <1>2, <2>2, ReadingKeeps
  <1>3. CASE held[f] = index_rows[f].was
    <2>1. /\ f \in Shelved /\ index_rows[f].was \in FileVersion
          /\ hunt' \in RunningScan /\ hunt'.step = "hash" /\ hunt'.cursor = hunt.cursor
          /\ hunt'.steady = hunt.steady /\ hunt.cursor = Rank(f)
          BY <1>0, <1>1, LeavingKeeps
    <2>2. /\ row \in CatalogueRow /\ row.was = index_rows[f].was /\ row.seen = index_rows[f].seen
          /\ row.sha = hunt.sha /\ row.look = hunt.look /\ row.doubt = hunt.doubt
      <3>1. index_rows[f] \in CatalogueRow
            BY <2>1 DEF HuntTypes
      <3> QED BY <1>1, <3>1 DEF CatalogueRow, RunningScan
    <2>3. hashed \in FileRow /\ hashed.file = f /\ hashed.was = held[f] /\ TrueOf(row) /\ TrueOf(hashed)
      <3>1. hunt.sha \in Bytes /\ hunt.look \in HashField /\ hunt.doubt \in BOOLEAN
            BY <1>1 DEF RunningScan, HashField
      <3>2. ~hunt.doubt => \A hash \in {hunt.sha, hunt.look} \ {NoBytes} :
                               hash = Pixels[index_rows[f].was]
            BY <1>1 DEF HashesTrue
      <3>3. TrueOf(row)
        <4> HIDE DEF row
        <4> QED BY <2>2, <3>2 DEF TrueOf
      <3>4. /\ hashed.file = f /\ hashed.was = index_rows[f].was
            /\ hashed.sha = hunt.sha /\ hashed.look = hunt.look /\ hashed.doubt = hunt.doubt
            BY <2>2
      <3>5. TrueOf(hashed)
        <4> HIDE DEF hashed
        <4> QED BY <3>2, <3>4 DEF TrueOf
      <3>6. hashed \in FileRow
        <4> HIDE DEF row
        <4> QED BY <2>1, <2>2, <3>1 DEF FileRow
      <3> QED BY <1>3, <3>3, <3>4, <3>5, <3>6
    <2> HIDE DEF row, hashed
    <2>4. /\ index_rows' = [index_rows EXCEPT ![f] = row]
          /\ hunts' = [hunts EXCEPT ![Scan].files = @ \cup {hashed}]
          BY <1>3, <2>2 DEF RecordHashes, row, hashed
    <2>5. hunts[Scan] \in ScanRow
          BY <1>1 DEF HuntPlaces, HuntTypes, Scan
    <2> DEFINE scan == [hunts[Scan] EXCEPT !.files = @ \cup {hashed}]
    <2>6. /\ scan \in ScanRow /\ scan.files = hunts[Scan].files \cup {hashed}
          /\ scan.status = hunts[Scan].status /\ scan.depth = hunts[Scan].depth
          /\ scan.jobs = hunts[Scan].jobs /\ scan.stood = hunts[Scan].stood
          BY <2>3, <2>5 DEF ScanRow
    <2>7. hunts' = [hunts EXCEPT ![Scan] = scan]
          BY <2>4
    <2> HIDE DEF scan
    <2>8. /\ hunts' \in Seq(ScanRow) /\ Len(hunts') = Len(hunts) /\ Scan' = Scan
          /\ Scan \in 1..Len(hunts) /\ hunts'[Scan] = scan
          /\ \A s \in 1..Len(hunts) : s # Scan => hunts'[s] = hunts[s]
          BY <1>1, <2>6, <2>7, ScanWritten
    <2>9. \A s \in 1..Len(hunts) :
             /\ hunts'[s].status = hunts[s].status /\ hunts'[s].depth = hunts[s].depth
             /\ hunts'[s].jobs = hunts[s].jobs /\ hunts'[s].stood = hunts[s].stood
             /\ hunts'[s].files = IF s = Scan THEN hunts[s].files \cup {hashed} ELSE hunts[s].files
          BY <2>6, <2>8
    <2>10. /\ index_rows' \in [Shelved -> CatalogueRow] /\ index_rows'[f] = row
           /\ \A g \in Shelved : g # f => index_rows'[g] = index_rows[g]
           /\ \A g \in Shelved : /\ index_rows'[g].seen = index_rows[g].seen
                                 /\ index_rows'[g].was = index_rows[g].was
      <3>1. index_rows \in [Shelved -> CatalogueRow]
            BY DEF HuntTypes
      <3> QED BY <2>1, <2>2, <2>4, <3>1
    <2>11. /\ Owners' = Owners /\ ScanRow' = ScanRow /\ RunningScan' = RunningScan
           /\ Seen' = Seen /\ SizeTwins' = SizeTwins
           BY <1>0, <2>8, <2>10, SameAlbum, SameCatalogue
    <2>12. HuntTypes'
           BY <1>0, <2>1, <2>8, <2>10, <2>11 DEF HuntTypes
    <2>13. HuntPlaces'
      <3>1. hunt' # NoHunt
            BY <2>1 DEF NoHunt
      <3>2. Len(hunts') <= MaxHunts /\ changes' \in 0..MaxChanges /\ hunts' # <<>>
            BY <1>0, <1>1, <2>8 DEF HuntPlaces
      <3>3. hunts'[Scan].status = "running"
            BY <1>1, <2>8, <2>9 DEF HuntPlaces
      <3>4. \A g \in Shelved : /\ index_rows'[g].seen <= Len(hunts')
                               /\ index_rows'[g].seen = 0 <=> index_rows'[g].was = NoBytes
            BY <2>8, <2>10 DEF HuntPlaces
      <3> QED BY <2>1, <2>8, <3>1, <3>2, <3>3, <3>4 DEF HuntPlaces, Reading
    <2>14. HashesTrue'
      <3>1. ASSUME NEW g \in Shelved
            PROVE  TrueOf(index_rows'[g])
            BY <2>3, <2>10 DEF HashesTrue
      <3>2. ASSUME NEW s \in 1..Len(hunts), NEW r \in hunts'[s].files
            PROVE  TrueOf(r)
        <4>1. r \in hunts[s].files \/ r = hashed
              BY <2>9
        <4> QED BY <2>3, <4>1 DEF HashesTrue
      <3>3. (\A g \in Shelved : TrueOf(index_rows[g]))'
            BY <3>1 DEF TrueOf
      <3>4. (\A s \in 1..Len(hunts) : \A r \in hunts[s].files : TrueOf(r))'
            BY <2>8, <3>2 DEF TrueOf
      <3> QED BY <2>1, <3>3, <3>4 DEF HashesTrue, Reading
    <2>15. JobsTrue'
      <3>1. \A p \in Owners : ~Lane(p)'
            BY <2>1 DEF Lane
      <3>2. ASSUME NEW s \in 1..Len(hunts), NEW p \in Owners,
                   hunts'[s].jobs[p].status = "completed"
            PROVE  JobTrue(hunts'[s].jobs[p], hunts'[s].depth)
            BY <2>9, <3>2 DEF JobsTrue
      <3> QED BY <2>8, <2>11, <3>1, <3>2 DEF JobsTrue, JobTrue
    <2>16. ListedOnce'
           BY <2>1 DEF ListedOnce
    <2>17. SteadyListed'
           BY <1>0, <1>1, <2>1, <2>10, <2>11 DEF SteadyListed, InventoryKept, Seen
    <2>18. SteadyHashed'
      <3>1. ASSUME NEW g \in SizeTwins, g \in hunt.steady, Passed(g)'
            PROVE  \E r \in hunts'[Scan].files : r.file = g /\ r.was = held[g]
        <4>1. Passed(g) \/ g = f
              BY <1>0, <1>1, <3>1, LeavingKeeps
        <4>2. CASE g = f
              BY <2>3, <2>6, <2>8, <4>2
        <4>3. CASE Passed(g)
          <5>1. \E r \in hunts[Scan].files : r.file = g /\ r.was = held[g]
                BY <1>1, <3>1, <4>3 DEF SteadyHashed, InventoryKept, Hashed
          <5> QED BY <2>6, <2>8, <5>1
        <4> QED BY <4>1, <4>2, <4>3
      <3> QED BY <1>0, <2>1, <2>8, <2>11, <3>1 DEF SteadyHashed, Hashed
    <2>19. HashedOnce'
      <3>1. \A r \in hunts[Scan].files : r.file \in Shelved /\ Passed(r.file)
            BY <1>1, <2>5 DEF HashedOnce, ScanRow, FileRow
      <3>2. \A r \in hunts[Scan].files : r.file # f
        <4>1. \A r \in hunts[Scan].files : Rank(r.file) < Rank(f)
              BY <1>1, <2>1, <3>1 DEF Passed, Reading
        <4>2. Rank(f) \in Nat
              BY <2>1, ShelfRanks
        <4> QED BY <4>1, <4>2
      <3>3. ASSUME NEW s \in 1..Len(hunts)
            PROVE  /\ IsFiniteSet(hunts'[s].files)
                   /\ \A r, t \in hunts'[s].files : r.file = t.file => r = t
        <4>1. /\ IsFiniteSet(hunts[s].files)
              /\ \A r, t \in hunts[s].files : r.file = t.file => r = t
              BY DEF HashedOnce
        <4>2. IsFiniteSet(hunts'[s].files)
              BY <2>9, <4>1, FS_AddElement
        <4>3. ASSUME NEW r \in hunts'[s].files, NEW t \in hunts'[s].files, r.file = t.file
              PROVE  r = t
          <5>1. s # Scan => r \in hunts[s].files /\ t \in hunts[s].files
                BY <2>9
          <5>2. s = Scan => /\ r \in hunts[s].files \/ r = hashed
                            /\ t \in hunts[s].files \/ t = hashed
                BY <2>9
          <5> QED BY <2>3, <3>2, <4>1, <4>3, <5>1, <5>2
        <4> QED BY <4>2, <4>3
      <3>4. \A r \in hunts'[Scan].files : Passed(r.file)'
        <4>1. \A g \in Shelved : Passed(g) \/ g = f => Passed(g)'
              BY <1>0, <1>1, LeavingKeeps
        <4>2. \A r \in hunts'[Scan].files : r \in hunts[Scan].files \/ r = hashed
              BY <2>6, <2>8
        <4> QED BY <2>1, <2>3, <3>1, <4>1, <4>2 DEF Passed
      <3> QED BY <2>1, <2>8, <3>3, <3>4 DEF HashedOnce
    <2>20. SteadyCompared' /\ NothingComparedYet'
           BY <1>0, <1>1, <2>1, <2>8, <2>9, <2>11
           DEF SteadyCompared, NothingComparedYet, InventoryKept, Video, Reading
    <2>21. \A s \in 1..Len(hunts) : hunts'[s].status = "completed" => hunts'[s] = hunts[s]
           BY <1>1, <2>8, <2>9 DEF HuntPlaces
    <2>22. EqualsShown' /\ VideosShown'
           BY <1>0, <2>8, <2>11, <2>21 DEF EqualsShown, VideosShown, StoodRow, Video
    <2> QED BY <2>12, <2>13, <2>14, <2>15, <2>16, <2>17, <2>18, <2>19, <2>20, <2>22
  <1> QED BY <1>2, <1>3

LEMMA BlankRows ==
    NotCompared \in VideoJob /\ [p \in Owners |-> NotCompared] \in [Owners -> VideoJob]
  <1>1. NotCompared \in VideoJob
        BY DEF NotCompared, VideoJob
  <1> QED BY <1>1

LEMMA BeginHuntKeepsHunts ==
    ASSUME HuntsInv, NEW depth \in Depth, BeginHunt(depth)
    PROVE  HuntsInv'
  <1> USE DEF HuntsInv
  <1> DEFINE scan == [status |-> "running", depth |-> depth, files |-> {},
                      jobs |-> [p \in Owners |-> NotCompared], stood |-> {}]
  <1>0. /\ album' = album /\ held' = held /\ index_rows' = index_rows /\ changes' = changes
        /\ hunt = NoHunt /\ Len(hunts) < MaxHunts
        BY DEF BeginHunt
  <1>1. /\ scan \in ScanRow /\ scan.status = "running" /\ scan.files = {} /\ scan.stood = {}
        /\ \A p \in Owners : scan.jobs[p].status = "none"
        BY BlankRows DEF ScanRow, NotCompared
  <1>2. hunts' = Append(hunts, scan)
        BY DEF BeginHunt
  <1> HIDE DEF scan
  <1>3. /\ hunts' \in Seq(ScanRow) /\ Len(hunts') = Len(hunts) + 1 /\ Len(hunts) \in Nat
        /\ hunts'[Len(hunts) + 1] = scan
        /\ \A s \in 1..Len(hunts) : hunts'[s] = hunts[s]
        BY <1>1, <1>2 DEF HuntTypes
  <1>4. Scan' = Len(hunts) + 1 /\ hunts'[Scan'] = scan
        BY <1>3 DEF Scan
  <1>5. \A s \in 1..Len(hunts') : (s \in 1..Len(hunts) /\ hunts'[s] = hunts[s]) \/ hunts'[s] = scan
        BY <1>3
  <1>6. /\ hunt' \in RunningScan /\ hunt'.step = "list" /\ hunt'.to_list = Shelved
        /\ hunt'.batch = {} /\ hunt'.cursor = 0 /\ hunt'.steady = Shelved
        BY DEF BeginHunt, RunningScan, HashField, LaneMap
  <1>7. Owners' = Owners /\ ScanRow' = ScanRow /\ RunningScan' = RunningScan
        BY <1>0, SameAlbum
  <1>8. HuntTypes'
        BY <1>0, <1>3, <1>6, <1>7 DEF HuntTypes
  <1>9. HuntPlaces'
    <2>1. \A f \in Shelved : /\ index_rows[f].seen \in Nat
                             /\ index_rows[f].seen <= Len(hunts)
                             /\ index_rows[f].seen = 0 <=> index_rows[f].was = NoBytes
          BY DEF HuntPlaces, HuntTypes, CatalogueRow
    <2>2. \A f \in Shelved : index_rows[f].seen <= Len(hunts') /\ index_rows[f].seen # Scan'
          BY <1>3, <1>4, <2>1
    <2>3. Len(hunts') <= MaxHunts /\ hunts' # <<>>
          BY <1>0, <1>3, ScanAssumption DEF ScanAssumption
    <2> QED BY <1>0, <1>1, <1>4, <1>6, <2>1, <2>2, <2>3 DEF HuntPlaces, Reading
  <1>10. HashesTrue'
    <2>1. ASSUME NEW s \in 1..Len(hunts'), NEW r \in hunts'[s].files
          PROVE  TrueOf(r)
      <3>1. s \in 1..Len(hunts) /\ r \in hunts[s].files
            BY <1>1, <1>5, <2>1
      <3> QED BY <3>1 DEF HashesTrue
    <2>2. (\A s \in 1..Len(hunts) : \A r \in hunts[s].files : TrueOf(r))'
          BY <2>1 DEF TrueOf
    <2>3. (\A f \in Shelved : TrueOf(index_rows[f]))'
          BY <1>0 DEF HashesTrue, TrueOf
    <2> QED BY <1>6, <2>2, <2>3 DEF HashesTrue, Reading
  <1>11. JobsTrue'
    <2>1. \A p \in Owners : ~Lane(p)'
          BY <1>6 DEF Lane
    <2>2. ASSUME NEW s \in 1..Len(hunts'), NEW p \in Owners,
                 hunts'[s].jobs[p].status = "completed"
          PROVE  JobTrue(hunts'[s].jobs[p], hunts'[s].depth)
      <3>1. s \in 1..Len(hunts) /\ hunts'[s] = hunts[s]
            BY <1>1, <1>5, <2>2
      <3> QED BY <2>2, <3>1 DEF JobsTrue
    <2> QED BY <1>7, <2>1, <2>2 DEF JobsTrue, JobTrue
  <1>12. ListedOnce'
        BY <1>6 DEF ListedOnce
  <1>13. SteadyListed' /\ SteadyHashed' /\ SteadyCompared'
        BY <1>6 DEF SteadyListed, SteadyHashed, SteadyCompared, InventoryKept, Reading
  <1>14. HashedOnce'
    <2>1. ASSUME NEW s \in 1..Len(hunts')
          PROVE  /\ IsFiniteSet(hunts'[s].files)
                 /\ \A r, t \in hunts'[s].files : r.file = t.file => r = t
          BY <1>1, <1>5, FS_EmptySet DEF HashedOnce
    <2> QED BY <1>1, <1>4, <1>6, <2>1 DEF HashedOnce, Reading
  <1>15. NothingComparedYet'
        BY <1>1, <1>4, <1>7 DEF NothingComparedYet
  <1>16. \A s \in 1..Len(hunts') :
            hunts'[s].status = "completed" => s \in 1..Len(hunts) /\ hunts'[s] = hunts[s]
        BY <1>1, <1>5
  <1>17. EqualsShown' /\ VideosShown'
        BY <1>0, <1>7, <1>16 DEF EqualsShown, VideosShown, StoodRow, Video
  <1> QED BY <1>8, <1>9, <1>10, <1>11, <1>12, <1>13, <1>14, <1>15, <1>17

LEMMA CompleteHuntKeepsHunts ==
    ASSUME HuntsInv, CompleteHunt
    PROVE  HuntsInv'
  <1> USE DEF HuntsInv
  <1> DEFINE scan == [hunts[Scan] EXCEPT !.status = "completed",
                                         !.stood = {<<f, held[f]>> : f \in hunt.steady}]
  <1>0. album' = album /\ held' = held /\ index_rows' = index_rows /\ changes' = changes
        BY DEF CompleteHunt
  <1>1. hunt.step = "complete" /\ hunt \in RunningScan /\ hunt # NoHunt
        BY Runs DEF CompleteHunt
  <1>2. hunt' \in RunningScan /\ hunt'.step = "totals" /\ hunt' # NoHunt
        BY <1>1 DEF CompleteHunt, RunningScan, NoHunt
  <1>3. hunts[Scan] \in ScanRow /\ hunts[Scan].status = "running"
        BY <1>1 DEF HuntPlaces, HuntTypes, Scan
  <1>4. /\ scan \in ScanRow /\ scan.status = "completed"
        /\ scan.stood = {<<f, held[f]>> : f \in hunt.steady}
        /\ scan.files = hunts[Scan].files /\ scan.depth = hunts[Scan].depth
        /\ scan.jobs = hunts[Scan].jobs
    <2>1. \A f \in hunt.steady : <<f, held[f]>> \in Shelved \X (FileVersion \cup {NoBytes})
          BY <1>1 DEF RunningScan, HuntTypes
    <2>2. {<<f, held[f]>> : f \in hunt.steady} \in SUBSET (Shelved \X (FileVersion \cup {NoBytes}))
          BY <2>1
    <2> QED BY <1>3, <2>2 DEF ScanRow
  <1>5. hunts' = [hunts EXCEPT ![Scan] = scan]
        BY DEF CompleteHunt
  <1> HIDE DEF scan
  <1>6. /\ hunts' \in Seq(ScanRow) /\ Len(hunts') = Len(hunts) /\ Scan' = Scan
        /\ Scan \in 1..Len(hunts) /\ hunts'[Scan] = scan
        /\ \A s \in 1..Len(hunts) : s # Scan => hunts'[s] = hunts[s]
        BY <1>1, <1>4, <1>5, ScanWritten
  <1>7. \A s \in 1..Len(hunts) :
           /\ hunts'[s].files = hunts[s].files /\ hunts'[s].depth = hunts[s].depth
           /\ hunts'[s].jobs = hunts[s].jobs
        BY <1>4, <1>6
  <1>8. Owners' = Owners /\ ScanRow' = ScanRow /\ RunningScan' = RunningScan
        BY <1>0, SameAlbum
  <1>9. HuntTypes'
        BY <1>0, <1>2, <1>6, <1>8 DEF HuntTypes
  <1>10. HuntPlaces'
    <2>1. Len(hunts') <= MaxHunts /\ changes' \in 0..MaxChanges /\ hunts' # <<>>
          BY <1>0, <1>1, <1>6 DEF HuntPlaces
    <2> QED BY <1>0, <1>2, <1>4, <1>6, <2>1 DEF HuntPlaces, Reading
  <1>11. HashesTrue'
    <2>1. ASSUME NEW s \in 1..Len(hunts), NEW r \in hunts'[s].files
          PROVE  TrueOf(r)
          BY <1>7, <2>1 DEF HashesTrue
    <2>2. (\A s \in 1..Len(hunts) : \A r \in hunts[s].files : TrueOf(r))'
          BY <1>6, <2>1 DEF TrueOf
    <2>3. (\A f \in Shelved : TrueOf(index_rows[f]))'
          BY <1>0 DEF HashesTrue, TrueOf
    <2> QED BY <1>2, <2>2, <2>3 DEF HashesTrue, Reading
  <1>12. JobsTrue'
    <2>1. \A p \in Owners : ~Lane(p)'
          BY <1>2 DEF Lane
    <2>2. ASSUME NEW s \in 1..Len(hunts), NEW p \in Owners,
                 hunts'[s].jobs[p].status = "completed"
          PROVE  JobTrue(hunts'[s].jobs[p], hunts'[s].depth)
          BY <1>7, <2>2 DEF JobsTrue
    <2> QED BY <1>6, <1>8, <2>1, <2>2 DEF JobsTrue, JobTrue
  <1>13. /\ ListedOnce' /\ SteadyListed' /\ SteadyHashed' /\ SteadyCompared'
         /\ NothingComparedYet'
        BY <1>2 DEF ListedOnce, SteadyListed, SteadyHashed, SteadyCompared,
                    NothingComparedYet, InventoryKept, Reading
  <1>14. HashedOnce'
    <2>1. ASSUME NEW s \in 1..Len(hunts)
          PROVE  /\ IsFiniteSet(hunts'[s].files)
                 /\ \A r, t \in hunts'[s].files : r.file = t.file => r = t
          BY <1>7 DEF HashedOnce
    <2> QED BY <1>2, <1>6, <2>1 DEF HashedOnce, Reading
  \* The files that stood still, as they are.
  <1>15. \A f \in hunt.steady : /\ f \in Shelved
                                /\ held[f] # NoBytes => f \in Seen /\ held[f] = index_rows[f].was
        BY <1>1 DEF SteadyListed, InventoryKept, RunningScan
  <1>16. EqualsShown'
    <2>1. ASSUME NEW f \in hunt.steady, NEW g \in hunt.steady,
                 f # g, held[f] # NoBytes, held[g] # NoBytes,
                 album.volume[f] = album.volume[g], SizeOf[held[f]] = SizeOf[held[g]]
          PROVE  \E r \in scan.files : r.file = f /\ r.was = held[f]
      <3>1. f \in SizeTwins
        <4>1. f \in Seen /\ held[f] = index_rows[f].was
              BY <1>15, <2>1
        <4>2. g \in Seen \ {f} /\ held[g] = index_rows[g].was
              BY <1>15, <2>1
        <4>3. SizeOf[index_rows[f].was] = SizeOf[index_rows[g].was]
              BY <2>1, <4>1, <4>2
        <4> QED BY <2>1, <4>1, <4>2, <4>3 DEF SizeTwins
      <3> QED BY <1>1, <1>4, <2>1, <3>1 DEF SteadyHashed, InventoryKept, Passed, Hashed
    <2>2. ASSUME NEW a \in scan.stood, NEW b \in scan.stood,
                 a[1] # b[1], NoBytes \notin {a[2], b[2]},
                 album.volume[a[1]] = album.volume[b[1]], SizeOf[a[2]] = SizeOf[b[2]]
          PROVE  \E r \in scan.files : r.file = a[1] /\ r.was = a[2]
      <3>1. PICK f \in hunt.steady : a = <<f, held[f]>>
            BY <1>4
      <3>2. PICK g \in hunt.steady : b = <<g, held[g]>>
            BY <1>4
      <3> QED BY <2>1, <2>2, <3>1, <3>2
    <2>3. ASSUME NEW s \in 1..Len(hunts), hunts'[s].status = "completed",
                 NEW a \in hunts'[s].stood, NEW b \in hunts'[s].stood,
                 a[1] # b[1], NoBytes \notin {a[2], b[2]},
                 album.volume[a[1]] = album.volume[b[1]], SizeOf[a[2]] = SizeOf[b[2]]
          PROVE  \E r \in hunts'[s].files : r.file = a[1] /\ r.was = a[2]
      <3>1. CASE s = Scan
            BY <1>6, <2>2, <2>3, <3>1
      <3>2. CASE s # Scan
            BY <1>6, <2>3, <3>2 DEF EqualsShown, StoodRow
      <3> QED BY <3>1, <3>2
    <2> QED BY <1>0, <1>6, <2>3 DEF EqualsShown, StoodRow
  <1>17. VideosShown'
    <2>1. ASSUME NEW p \in Owners, NEW a \in scan.stood, scan.jobs[p].status = "completed",
                 a[2] # NoBytes, album.owner[a[1]] = p, Video(a[1])
          PROVE  a \in scan.jobs[p].inventory
      <3>1. PICK f \in hunt.steady : a = <<f, held[f]>>
            BY <1>4
      <3> QED BY <1>1, <1>4, <2>1, <3>1 DEF SteadyCompared, InventoryKept
    <2>2. ASSUME NEW s \in 1..Len(hunts), hunts'[s].status = "completed", NEW p \in Owners,
                 NEW a \in hunts'[s].stood, hunts'[s].jobs[p].status = "completed",
                 a[2] # NoBytes, album.owner[a[1]] = p, Video(a[1])
          PROVE  a \in hunts'[s].jobs[p].inventory
      <3>1. CASE s = Scan
            BY <1>6, <2>1, <2>2, <3>1
      <3>2. CASE s # Scan
            BY <1>6, <2>2, <3>2 DEF VideosShown
      <3> QED BY <3>1, <3>2
    <2> QED BY <1>0, <1>6, <1>8, <2>2 DEF VideosShown, Video
  <1> QED BY <1>9, <1>10, <1>11, <1>12, <1>13, <1>14, <1>16, <1>17

LEMMA HuntEndsKeepsHunts ==
    ASSUME HuntsInv, HuntEnds
    PROVE  HuntsInv'
  <1> USE DEF HuntsInv
  <1> DEFINE scan == [hunts[Scan] EXCEPT !.status = "ended", !.files = {}, !.stood = {},
                                         !.jobs = [p \in Owners |-> NotCompared]]
  <1>0. /\ album' = album /\ held' = held /\ index_rows' = index_rows /\ changes' = changes
        /\ hunt # NoHunt /\ hunt' = NoHunt /\ hunt'.step = "none"
        BY DEF HuntEnds, NoHunt
  <1>1. hunts[Scan] \in ScanRow
        BY <1>0 DEF HuntPlaces, HuntTypes, Scan
  <1>2. /\ scan \in ScanRow /\ scan.status = "ended" /\ scan.files = {}
        /\ \A p \in Owners : scan.jobs[p].status = "none"
        BY <1>1, BlankRows DEF ScanRow, NotCompared
  <1>3. hunts' = [hunts EXCEPT ![Scan] = scan]
        BY DEF HuntEnds
  <1> HIDE DEF scan
  <1>4. /\ hunts' \in Seq(ScanRow) /\ Len(hunts') = Len(hunts) /\ Scan' = Scan
        /\ Scan \in 1..Len(hunts) /\ hunts'[Scan] = scan
        /\ \A s \in 1..Len(hunts) : s # Scan => hunts'[s] = hunts[s]
        BY <1>0, <1>2, <1>3, ScanWritten
  <1>5. \A s \in 1..Len(hunts) : hunts'[s] = hunts[s] \/ hunts'[s] = scan
        BY <1>4
  <1>6. Owners' = Owners /\ ScanRow' = ScanRow /\ RunningScan' = RunningScan
        BY <1>0, SameAlbum
  <1>7. HuntTypes'
        BY <1>0, <1>4, <1>6 DEF HuntTypes
  <1>8. HuntPlaces'
        BY <1>0, <1>4 DEF HuntPlaces, Reading
  <1>9. HashesTrue'
    <2>1. ASSUME NEW s \in 1..Len(hunts), NEW r \in hunts'[s].files
          PROVE  TrueOf(r)
          BY <1>2, <1>5, <2>1 DEF HashesTrue
    <2>2. (\A s \in 1..Len(hunts) : \A r \in hunts[s].files : TrueOf(r))'
          BY <1>4, <2>1 DEF TrueOf
    <2>3. (\A f \in Shelved : TrueOf(index_rows[f]))'
          BY <1>0 DEF HashesTrue, TrueOf
    <2> QED BY <1>0, <2>2, <2>3 DEF HashesTrue, Reading
  <1>10. JobsTrue'
    <2>1. \A p \in Owners : ~Lane(p)'
          BY <1>0 DEF Lane
    <2>2. ASSUME NEW s \in 1..Len(hunts), NEW p \in Owners,
                 hunts'[s].jobs[p].status = "completed"
          PROVE  JobTrue(hunts'[s].jobs[p], hunts'[s].depth)
          BY <1>2, <1>5, <2>2 DEF JobsTrue
    <2> QED BY <1>4, <1>6, <2>1, <2>2 DEF JobsTrue, JobTrue
  <1>11. /\ ListedOnce' /\ SteadyListed' /\ SteadyHashed' /\ SteadyCompared'
         /\ NothingComparedYet'
        BY <1>0 DEF ListedOnce, SteadyListed, SteadyHashed, SteadyCompared,
                    NothingComparedYet, InventoryKept, Reading
  <1>12. HashedOnce'
    <2>1. ASSUME NEW s \in 1..Len(hunts)
          PROVE  /\ IsFiniteSet(hunts'[s].files)
                 /\ \A r, t \in hunts'[s].files : r.file = t.file => r = t
          BY <1>2, <1>5, FS_EmptySet DEF HashedOnce
    <2> QED BY <1>0, <1>4, <2>1 DEF HashedOnce, Reading
  <1>13. \A s \in 1..Len(hunts) : hunts'[s].status = "completed" => hunts'[s] = hunts[s]
        BY <1>2, <1>5
  <1>14. EqualsShown' /\ VideosShown'
        BY <1>0, <1>4, <1>6, <1>13 DEF EqualsShown, VideosShown, StoodRow, Video
  <1> QED BY <1>7, <1>8, <1>9, <1>10, <1>11, <1>12, <1>14
-----------------------------------------------------------------------------
\* The comparison of a profile moves.
LEMMA JobMoves ==
    ASSUME HuntsInv, NEW p \in Owners, NEW duty \in VideoJob,
           NEW lane \in {"wait", "run", "import", "done"},
           hunt.step = "compare", p \in DOMAIN hunt.lanes,
           SetJob(p, duty), SetLane(p, lane), UNCHANGED <<album, held, index_rows, changes>>,
           duty.status = "completed" \/ lane = "import" => JobTrue(duty, hunts[Scan].depth),
           lane \in {"run", "import"} => duty.status = "running",
           duty.status \in {"running", "completed"} =>
              \A f \in hunt.steady :
                 Video(f) /\ album.owner[f] = p /\ held[f] # NoBytes =>
                    <<f, held[f]>> \in duty.inventory
    PROVE  HuntsInv'
  <1> USE DEF HuntsInv
  <1> DEFINE scan == [hunts[Scan] EXCEPT !.jobs[p] = duty]
  <1>0. album' = album /\ held' = held /\ index_rows' = index_rows /\ changes' = changes
        OBVIOUS
  <1>1. hunt \in RunningScan /\ hunt # NoHunt
        BY Runs
  <1>2. hunts[Scan] \in ScanRow
        BY <1>1 DEF HuntPlaces, HuntTypes, Scan
  <1>3. /\ scan \in ScanRow /\ scan.status = hunts[Scan].status /\ scan.depth = hunts[Scan].depth
        /\ scan.files = hunts[Scan].files /\ scan.stood = hunts[Scan].stood
        /\ scan.jobs[p] = duty /\ \A q \in Owners : q # p => scan.jobs[q] = hunts[Scan].jobs[q]
        BY <1>2 DEF ScanRow
  <1>4. hunts' = [hunts EXCEPT ![Scan] = scan]
        BY DEF SetJob
  <1> HIDE DEF scan
  <1>5. /\ hunts' \in Seq(ScanRow) /\ Len(hunts') = Len(hunts) /\ Scan' = Scan
        /\ Scan \in 1..Len(hunts) /\ hunts'[Scan] = scan
        /\ \A s \in 1..Len(hunts) : s # Scan => hunts'[s] = hunts[s]
        BY <1>1, <1>3, <1>4, ScanWritten
  <1>6. \A s \in 1..Len(hunts) :
           /\ hunts'[s].status = hunts[s].status /\ hunts'[s].depth = hunts[s].depth
           /\ hunts'[s].files = hunts[s].files /\ hunts'[s].stood = hunts[s].stood
           /\ \A q \in Owners :
                 hunts'[s].jobs[q] = IF s = Scan /\ q = p THEN duty ELSE hunts[s].jobs[q]
        BY <1>3, <1>5
  <1>7. /\ hunt' \in RunningScan /\ hunt'.step = "compare" /\ hunt'.steady = hunt.steady
        /\ DOMAIN hunt'.lanes = DOMAIN hunt.lanes /\ hunt'.lanes[p] = lane
        /\ \A q \in DOMAIN hunt.lanes : q # p => hunt'.lanes[q] = hunt.lanes[q]
    <2> DEFINE lanes == [hunt.lanes EXCEPT ![p] = lane]
    <2>1. hunt.lanes \in LaneMap
          BY <1>1 DEF RunningScan
    <2>2. hunt.lanes # <<>>
          OBVIOUS
    <2>3. PICK ps \in SUBSET Owners : hunt.lanes \in [ps -> {"wait", "run", "import", "done"}]
          BY <2>1, <2>2 DEF LaneMap
    <2>4. lanes \in [ps -> {"wait", "run", "import", "done"}] /\ DOMAIN hunt.lanes = ps
          BY <2>3
    <2>5. lanes \in LaneMap
          BY <2>4 DEF LaneMap
    <2>6. /\ DOMAIN lanes = DOMAIN hunt.lanes /\ lanes[p] = lane
          /\ \A q \in DOMAIN hunt.lanes : q # p => lanes[q] = hunt.lanes[q]
          BY <2>4
    <2>7. hunt' = [hunt EXCEPT !.lanes = lanes]
          BY DEF SetLane
    <2> HIDE DEF lanes
    <2>8. /\ hunt' \in RunningScan /\ hunt'.step = "compare" /\ hunt'.steady = hunt.steady
          /\ hunt'.lanes = lanes
          BY <1>1, <2>5, <2>7 DEF RunningScan
    <2> QED BY <2>6, <2>8
  <1>8. /\ Owners' = Owners /\ ScanRow' = ScanRow /\ RunningScan' = RunningScan
        /\ Seen' = Seen /\ SizeTwins' = SizeTwins
        BY <1>0, <1>5, SameAlbum, SameCatalogue
  <1>9. HuntTypes'
        BY <1>0, <1>5, <1>7, <1>8 DEF HuntTypes
  <1>10. HuntPlaces'
    <2>1. Len(hunts') <= MaxHunts /\ changes' \in 0..MaxChanges /\ hunts' # <<>>
          BY <1>0, <1>1, <1>5 DEF HuntPlaces
    <2>2. hunts'[Scan].status = "running"
          BY <1>1, <1>5, <1>6 DEF HuntPlaces
    <2> QED BY <1>0, <1>5, <1>7, <2>1, <2>2 DEF HuntPlaces, Reading
  <1>11. HashesTrue'
    <2>1. ASSUME NEW s \in 1..Len(hunts), NEW r \in hunts'[s].files
          PROVE  TrueOf(r)
          BY <1>6, <2>1 DEF HashesTrue
    <2>2. (\A s \in 1..Len(hunts) : \A r \in hunts[s].files : TrueOf(r))'
          BY <1>5, <2>1 DEF TrueOf
    <2>3. (\A f \in Shelved : TrueOf(index_rows[f]))'
          BY <1>0 DEF HashesTrue, TrueOf
    <2> QED BY <1>7, <2>2, <2>3 DEF HashesTrue, Reading
  <1>12. JobsTrue'
    <2>1. ASSUME NEW s \in 1..Len(hunts), NEW q \in Owners,
                 hunts'[s].jobs[q].status = "completed"
          PROVE  JobTrue(hunts'[s].jobs[q], hunts'[s].depth)
      <3>1. CASE s = Scan /\ q = p
            BY <1>6, <2>1, <3>1
      <3>2. CASE ~(s = Scan /\ q = p)
            BY <1>6, <2>1, <3>2 DEF JobsTrue
      <3> QED BY <3>1, <3>2
    <2>2. ASSUME NEW q \in Owners, q \in DOMAIN hunt.lanes, hunt'.lanes[q] \in {"run", "import"}
          PROVE  /\ hunts'[Scan].jobs[q].status = "running"
                 /\ hunt'.lanes[q] = "import" =>
                       JobTrue(hunts'[Scan].jobs[q], hunts'[Scan].depth)
      <3>1. CASE q = p
            BY <1>5, <1>6, <1>7, <2>2, <3>1
      <3>2. CASE q # p
            BY <1>5, <1>6, <1>7, <2>2, <3>2 DEF JobsTrue, Lane
      <3> QED BY <3>1, <3>2
    <2>3. \A s \in 1..Len(hunts) : \A q \in Owners :
             JobTrue(hunts[s].jobs[q], hunts[s].depth)' <=> JobTrue(hunts'[s].jobs[q], hunts'[s].depth)
          BY DEF JobTrue
    <2>4. \A q \in Owners : Lane(q)' <=> q \in DOMAIN hunt.lanes
          BY <1>7 DEF Lane
    <2> QED BY <1>5, <1>8, <2>1, <2>2, <2>3, <2>4 DEF JobsTrue
  <1>13. ListedOnce' /\ NothingComparedYet'
        BY <1>7 DEF ListedOnce, NothingComparedYet, Reading
  <1>14. SteadyListed' /\ SteadyHashed'
        BY <1>0, <1>5, <1>6, <1>7, <1>8
        DEF SteadyListed, SteadyHashed, InventoryKept, Hashed, Passed
  <1>15. SteadyCompared'
    <2>1. ASSUME NEW q \in Owners, NEW f \in hunt.steady,
                 hunts'[Scan].jobs[q].status \in {"running", "completed"},
                 Video(f), album.owner[f] = q, held[f] # NoBytes
          PROVE  <<f, held[f]>> \in hunts'[Scan].jobs[q].inventory
      <3>1. CASE q = p
            BY <1>5, <1>6, <2>1, <3>1
      <3>2. CASE q # p
            BY <1>5, <1>6, <2>1, <3>2 DEF SteadyCompared, InventoryKept
      <3> QED BY <3>1, <3>2
    <2> QED BY <1>0, <1>5, <1>7, <1>8, <2>1 DEF SteadyCompared, Video
  <1>16. HashedOnce'
    <2>1. ASSUME NEW s \in 1..Len(hunts)
          PROVE  /\ IsFiniteSet(hunts'[s].files)
                 /\ \A r, t \in hunts'[s].files : r.file = t.file => r = t
          BY <1>6 DEF HashedOnce
    <2> QED BY <1>5, <1>7, <2>1 DEF HashedOnce, Reading
  <1>17. \A s \in 1..Len(hunts) :
            hunts'[s].status = "completed" => s # Scan /\ hunts'[s] = hunts[s]
        BY <1>1, <1>5, <1>6 DEF HuntPlaces
  <1>18. EqualsShown' /\ VideosShown'
        BY <1>0, <1>5, <1>8, <1>17 DEF EqualsShown, VideosShown, StoodRow, Video
  <1> QED BY <1>9, <1>10, <1>11, <1>12, <1>13, <1>14, <1>15, <1>16, <1>18

LEMMA LeastNatural ==
    ASSUME NEW S \in SUBSET Nat, S # {}
    PROVE  \E m \in S : \A n \in S : m <= n
  <1> DEFINE less == OpToRel(<, Nat)
  <1>1. IsWellFoundedOn(less, Nat)
        BY NatLessThanWellFounded
  <1>2. \A m, n \in Nat : n < m => <<n, m>> \in less
        BY DEF OpToRel
  <1> HIDE DEF less
  <1>3. PICK m \in S : \A n \in S : ~ (<<n, m>> \in less)
        BY <1>1, WFMin
  <1>4. ASSUME NEW n \in S PROVE m <= n
    <2>1. m \in Nat /\ n \in Nat /\ ~(n < m)
          BY <1>2, <1>3
    <2> QED BY <2>1
  <1> QED BY <1>4

LEMMA GreatestBelow ==
    ASSUME NEW N \in Nat, NEW S \in SUBSET (1..N), S # {}
    PROVE  \E m \in S : \A n \in S : n <= m
  <1> DEFINE gaps == {N - s : s \in S}
  <1>1. gaps \in SUBSET Nat
    <2>1. \A s \in S : N - s \in Nat
          OBVIOUS
    <2> QED BY <2>1
  <1>2. gaps # {}
        OBVIOUS
  <1>3. PICK d \in gaps : \A other \in gaps : d <= other
        BY <1>1, <1>2, LeastNatural
  <1>4. PICK m \in S : d = N - m
        BY <1>3
  <1>5. ASSUME NEW n \in S PROVE n <= m
    <2>1. N - m <= N - n
          BY <1>3, <1>4
    <2>2. m \in 1..N /\ n \in 1..N
          OBVIOUS
    <2> QED BY <2>1, <2>2
  <1> QED BY <1>5

\* Fewer than two: no two of them differ.
LEMMA FewerThanTwo ==
    ASSUME NEW S, IsFiniteSet(S), Cardinality(S) < 2, NEW a \in S, NEW b \in S
    PROVE  a = b
  <1> SUFFICES ASSUME a # b PROVE FALSE
        OBVIOUS
  <1>1. IsFiniteSet({a}) /\ Cardinality({a}) = 1
        BY FS_Singleton
  <1>2. IsFiniteSet({a} \cup {b}) /\ Cardinality({a} \cup {b}) = 2
        BY <1>1, FS_AddElement
  <1>3. {a} \cup {b} \in SUBSET S
        OBVIOUS
  <1>4. Cardinality({a} \cup {b}) <= Cardinality(S)
        BY <1>3, FS_Subset
  <1>5. Cardinality(S) \in Nat
        BY FS_CardinalityType
  <1> QED BY <1>2, <1>4, <1>5

\* The inventory of a profile: its videos, each at the version it was listed at.
LEMMA InventoryOf ==
    ASSUME HuntsInv, hunt # NoHunt, NEW p \in Owners
    PROVE  /\ Inventory(p) \in SUBSET Dated /\ IsFiniteSet(Inventory(p))
           /\ InventoryKept =>
                \A f \in hunt.steady :
                    Video(f) /\ album.owner[f] = p /\ held[f] # NoBytes =>
                        <<f, held[f]>> \in Inventory(p)
  <1>1. \A f \in VideosOf(p) : f \in Shelved /\ index_rows[f].was \in FileVersion
        BY SeenAtVersion DEF VideosOf
  <1>2. Inventory(p) \in SUBSET Dated
        BY <1>1 DEF Inventory, Dated
  <1>3. IsFiniteSet(VideosOf(p))
    <2>1. VideosOf(p) \in SUBSET Shelved
          BY <1>1
    <2> QED BY <2>1, ShelfRanks, FS_Subset
  <1>4. IsFiniteSet(Inventory(p))
    <2> DEFINE dated == [f \in VideosOf(p) |-> <<f, index_rows[f].was>>]
    <2>1. dated \in Surjection(VideosOf(p), Inventory(p))
          BY DEF Surjection, Inventory
    <2> QED BY <1>3, <2>1, FS_Surjection
  <1>5. ASSUME InventoryKept, NEW f \in hunt.steady, Video(f), album.owner[f] = p,
               held[f] # NoBytes
        PROVE  <<f, held[f]>> \in Inventory(p)
    <2>1. f \in Seen /\ held[f] = index_rows[f].was
          BY <1>5 DEF HuntsInv, SteadyListed
    <2> QED BY <1>5, <2>1 DEF Inventory, VideosOf
  <1> QED BY <1>2, <1>4, <1>5

LEMMA BeginJobKeepsHunts ==
    ASSUME HuntsInv, NEW p \in Owners, BeginJob(p)
    PROVE  HuntsInv'
  <1> USE DEF HuntsInv
  <1> DEFINE inventory == Inventory(p)
             duty == [NotCompared EXCEPT !.inventory = inventory]
             earlier == Reusable(p, inventory)
  <1>1. /\ hunt.step = "compare" /\ p \in DOMAIN hunt.lanes /\ hunt # NoHunt /\ InventoryKept
        BY Runs DEF BeginJob, InventoryKept
  <1>2. UNCHANGED <<album, held, index_rows, changes>>
        BY DEF BeginJob
  <1>3. /\ inventory \in SUBSET Dated /\ IsFiniteSet(inventory)
        /\ \A f \in hunt.steady :
              Video(f) /\ album.owner[f] = p /\ held[f] # NoBytes => <<f, held[f]>> \in inventory
        BY <1>1, InventoryOf
  <1>4. /\ duty \in VideoJob /\ duty.inventory = inventory /\ duty.pairs = {} /\ duty.shifted = FALSE
    <2> HIDE DEF inventory
    <2> QED BY <1>3 DEF VideoJob, NotCompared
  <1> HIDE DEF inventory, duty
  <1>5. CASE Cardinality(inventory) < 2
    <2> DEFINE empty == [duty EXCEPT !.status = "completed"]
    <2>1. /\ empty \in VideoJob /\ empty.status = "completed" /\ empty.inventory = inventory
          BY <1>4 DEF VideoJob
    <2>2. SetJob(p, empty) /\ SetLane(p, "done")
          BY <1>5 DEF BeginJob, inventory, duty
    <2> HIDE DEF empty
    <2>3. JobTrue(empty, hunts[Scan].depth)
      <3>1. \A a, b \in empty.inventory : a = b
            BY <1>3, <1>5, <2>1, FewerThanTwo
      <3> QED BY <3>1 DEF JobTrue
    <2> QED BY <1>1, <1>2, <1>3, <2>1, <2>2, <2>3, JobMoves
  <1>6. CASE Cardinality(inventory) >= 2 /\ earlier # {}
    <2> DEFINE last == CHOOSE s \in earlier : \A t \in earlier : t <= s
               from == hunts[last].jobs[p]
               taken == TakenOver(duty, from)
    <2>1. earlier \in SUBSET (1..(Scan - 1)) /\ Scan - 1 \in Nat
          BY <1>1 DEF Reusable, Scan, HuntPlaces, HuntTypes
    <2>2. \E s \in earlier : \A t \in earlier : t <= s
          BY <1>6, <2>1, GreatestBelow
    <2>3. last \in earlier
          BY <2>2
    <2> HIDE DEF last
    <2>4. /\ last \in 1..(Scan - 1) /\ hunts[last].depth = hunts[Scan].depth
          /\ from.status = "completed" /\ from.inventory = inventory
          BY <2>3 DEF Reusable
    <2>5. last \in 1..Len(hunts)
          BY <2>1, <2>4 DEF Scan
    <2>6. from \in VideoJob /\ JobTrue(from, hunts[Scan].depth)
      <3>1. hunts[last] \in ScanRow
            BY <2>5 DEF HuntTypes
      <3> QED BY <2>4, <2>5, <3>1 DEF ScanRow, JobsTrue
    <2> HIDE DEF from
    <2>7. /\ taken \in VideoJob /\ taken.status = "completed" /\ taken.inventory = inventory
          /\ taken.pairs = from.pairs /\ taken.shifted = from.shifted
          BY <1>4, <2>6 DEF TakenOver, VideoJob
    <2>8. SetJob(p, taken) /\ SetLane(p, "done")
          BY <1>3, <1>6, FS_CardinalityType DEF BeginJob, inventory, duty, last, from
    <2> HIDE DEF taken
    <2>9. JobTrue(taken, hunts[Scan].depth)
          BY <2>4, <2>6, <2>7 DEF JobTrue
    <2> QED BY <1>1, <1>2, <1>3, <2>7, <2>8, <2>9, JobMoves
  <1>7. CASE Cardinality(inventory) >= 2 /\ earlier = {}
    <2> DEFINE begun == [duty EXCEPT !.status = "running"]
    <2>1. begun \in VideoJob /\ begun.status = "running" /\ begun.inventory = inventory
          BY <1>4 DEF VideoJob
    <2>2. SetJob(p, begun) /\ SetLane(p, "run")
          BY <1>3, <1>7, FS_CardinalityType DEF BeginJob, inventory, duty
    <2> HIDE DEF begun
    <2> QED BY <1>1, <1>2, <1>3, <2>1, <2>2, JobMoves
  <1>8. Cardinality(inventory) \in Nat
        BY <1>3, FS_CardinalityType
  <1> QED BY <1>5, <1>6, <1>7, <1>8

\* The comparison of a profile, as it is while the scan compares.
LEMMA JobOf ==
    ASSUME HuntsInv, hunt.step = "compare", NEW p \in Owners, p \in DOMAIN hunt.lanes
    PROVE  /\ hunts[Scan] \in ScanRow /\ hunts[Scan].jobs[p] \in VideoJob
           /\ hunt.lanes[p] \in {"run", "import"} =>
                 /\ hunts[Scan].jobs[p].status = "running"
                 /\ \A f \in hunt.steady :
                       Video(f) /\ album.owner[f] = p /\ held[f] # NoBytes =>
                          <<f, held[f]>> \in hunts[Scan].jobs[p].inventory
           /\ hunt.lanes[p] = "import" => JobTrue(hunts[Scan].jobs[p], hunts[Scan].depth)
  <1> USE DEF HuntsInv
  <1>1. hunt # NoHunt
        BY Runs
  <1>2. hunts[Scan] \in ScanRow /\ Scan \in 1..Len(hunts)
        BY <1>1 DEF HuntPlaces, HuntTypes, Scan
  <1>3. hunts[Scan].jobs[p] \in VideoJob
        BY <1>2 DEF ScanRow
  <1>4. /\ hunt.lanes[p] \in {"run", "import"} => hunts[Scan].jobs[p].status = "running"
        /\ hunt.lanes[p] = "import" => JobTrue(hunts[Scan].jobs[p], hunts[Scan].depth)
        BY <1>2 DEF JobsTrue, Lane
  <1> QED BY <1>2, <1>3, <1>4 DEF SteadyCompared, InventoryKept

LEMMA CompareVideosKeepsHunts ==
    ASSUME HuntsInv, NEW p \in Owners, CompareVideos(p)
    PROVE  HuntsInv'
  <1> USE DEF HuntsInv
  <1> DEFINE there == {f \in Shelved : Video(f) /\ album.owner[f] = p /\ held[f] # NoBytes}
             now == {<<f, held[f]>> : f \in there}
             old == hunts[Scan].jobs[p]
             depth == hunts[Scan].depth
             duty == [old EXCEPT !.pairs = Results(there), !.shifted = now # old.inventory]
  <1>1. /\ hunt.step = "compare" /\ p \in DOMAIN hunt.lanes /\ hunt.lanes[p] = "run"
        /\ UNCHANGED <<album, held, index_rows, changes>>
        /\ SetJob(p, duty) /\ SetLane(p, "import")
        BY DEF CompareVideos
  <1>2. /\ old \in VideoJob /\ old.status = "running"
        /\ \A f \in hunt.steady :
              Video(f) /\ album.owner[f] = p /\ held[f] # NoBytes =>
                 <<f, held[f]>> \in old.inventory
        BY <1>1, JobOf
  <1>3. Results(there) \in SUBSET SUBSET Shelved
        BY DEF Results
  <1>4. /\ duty \in VideoJob /\ duty.status = "running" /\ duty.inventory = old.inventory
        /\ duty.pairs = Results(there) /\ duty.shifted = (now # old.inventory)
    <2>1. (now # old.inventory) \in BOOLEAN
          OBVIOUS
    <2> HIDE DEF now, there, old
    <2> QED BY <1>2, <1>3, <2>1 DEF VideoJob
  <1>5. JobTrue(duty, depth)
    <2> SUFFICES ASSUME ~duty.shifted, NEW a \in duty.inventory, NEW b \in duty.inventory, a[1] # b[1]
                 PROVE  {a[1], b[1]} \in Results(there)
                           <=> <<Pixels[a[2]], Pixels[b[2]]>> \in Alike[depth]
      <3> HIDE DEF duty, depth, there
      <3> QED BY <1>4 DEF JobTrue
    <2>1. a \in now /\ b \in now
          BY <1>4
    <2>2. PICK f \in there : a = <<f, held[f]>>
          BY <2>1
    <2>3. PICK g \in there : b = <<g, held[g]>>
          BY <2>1
    <2>4. f # g
          BY <2>2, <2>3
    <2>5. {f, g} \in Results(there) <=> <<Pixels[held[f]], Pixels[held[g]]>> \in Alike[depth]
      <3>1. /\ <<Pixels[held[f]], Pixels[held[g]]>> \in Alike[depth]
               <=> <<Pixels[held[g]], Pixels[held[f]]>> \in Alike[depth]
        <4>1. depth \in DOMAIN Alike
              BY <1>1, JobOf DEF ScanRow, Depth
        <4>2. \A pair \in Alike[depth] : <<pair[2], pair[1]>> \in Alike[depth]
              BY <4>1, ScanAssumption DEF ScanAssumption
        <4> HIDE DEF depth
        <4> QED BY <4>2
      <3>2. {f, g} \in Results(there) <=>
               \E x, y \in {f, g} :
                  /\ {f, g} = {x, y} /\ x # y
                  /\ <<Pixels[held[x]], Pixels[held[y]]>> \in Alike[depth]
            BY DEF Results
      <3> HIDE DEF depth, there
      <3> QED BY <2>4, <3>1, <3>2
    <2> QED BY <2>2, <2>3, <2>5
  <1> HIDE DEF duty
  <1> QED BY <1>1, <1>2, <1>4, <1>5, JobMoves

LEMMA CompareFailsKeepsHunts ==
    ASSUME HuntsInv, NEW p \in Owners, CompareFails(p)
    PROVE  HuntsInv'
  <1> DEFINE duty == [hunts[Scan].jobs[p] EXCEPT !.status = "failed"]
  <1>1. /\ hunt.step = "compare" /\ p \in DOMAIN hunt.lanes
        /\ UNCHANGED <<album, held, index_rows, changes>>
        /\ SetJob(p, duty) /\ SetLane(p, "done")
        BY DEF CompareFails
  <1>2. duty \in VideoJob /\ duty.status = "failed"
    <2>1. hunts[Scan].jobs[p] \in VideoJob
          BY <1>1, JobOf
    <2> QED BY <2>1 DEF VideoJob
  <1> HIDE DEF duty
  <1> QED BY <1>1, <1>2, JobMoves

LEMMA ImportPairsKeepsHunts ==
    ASSUME HuntsInv, NEW p \in Owners, ImportPairs(p)
    PROVE  HuntsInv'
  <1> DEFINE old == hunts[Scan].jobs[p]
             duty == [old EXCEPT !.status = "completed"]
  <1>1. /\ hunt.step = "compare" /\ p \in DOMAIN hunt.lanes /\ hunt.lanes[p] = "import"
        /\ UNCHANGED <<album, held, index_rows, changes>>
        /\ SetJob(p, duty) /\ SetLane(p, "done")
        BY DEF ImportPairs
  <1>2. /\ old \in VideoJob /\ JobTrue(old, hunts[Scan].depth)
        /\ \A f \in hunt.steady :
              Video(f) /\ album.owner[f] = p /\ held[f] # NoBytes =>
                 <<f, held[f]>> \in old.inventory
        BY <1>1, JobOf
  <1> HIDE DEF old
  <1>3. /\ duty \in VideoJob /\ duty.status = "completed" /\ duty.inventory = old.inventory
        /\ duty.pairs = old.pairs /\ duty.shifted = old.shifted
        BY <1>2 DEF VideoJob
  <1> HIDE DEF duty
  <1>4. JobTrue(duty, hunts[Scan].depth)
        BY <1>2, <1>3 DEF JobTrue
  <1>5. \A f \in hunt.steady :
           Video(f) /\ album.owner[f] = p /\ held[f] # NoBytes => <<f, held[f]>> \in duty.inventory
        BY <1>2, <1>3
  <1> QED BY <1>1, <1>3, <1>4, <1>5, JobMoves
-----------------------------------------------------------------------------
LEMMA HuntsStutter ==
    ASSUME HuntsInv, UNCHANGED hunt_vars
    PROVE  HuntsInv'
  <1> USE DEF HuntsInv, hunt_vars
  <1>1. OnlyHuntMoves /\ hunt' = hunt
        BY DEF OnlyHuntMoves
  <1>2. /\ HuntTypes' /\ EqualsShown' /\ VideosShown'
        /\ Seen' = Seen /\ SizeTwins' = SizeTwins /\ Owners' = Owners /\ Scan' = Scan
        BY <1>1, OnlyHuntKeeps DEF HuntTypes
  <1>3. HuntPlaces'
        BY <1>2 DEF HuntPlaces
  <1>4. HashesTrue'
        BY <1>1, OnlyHuntHashes DEF HashesTrue
  <1>5. JobsTrue'
        BY <1>1, SameScansJobs DEF OnlyHuntMoves, Lane
  <1>6. ListedOnce' /\ SteadyListed'
        BY <1>2 DEF ListedOnce, SteadyListed, InventoryKept
  <1>7. SteadyHashed' /\ HashedOnce'
        BY <1>2 DEF SteadyHashed, HashedOnce, InventoryKept, Hashed, Passed
  <1>8. SteadyCompared' /\ NothingComparedYet'
        BY <1>2 DEF SteadyCompared, NothingComparedYet, InventoryKept, Video
  <1> QED BY <1>2, <1>3, <1>4, <1>5, <1>6, <1>7, <1>8

LEMMA HuntsStep == HuntsInv /\ [HuntsNext]_hunt_vars => HuntsInv'
  <1> SUFFICES ASSUME HuntsInv, [HuntsNext]_hunt_vars
               PROVE  HuntsInv'
        OBVIOUS
  <1>1. ASSUME NEW f \in Shelved, NEW v \in CanBecome[f], FileChanges(f, v)
        PROVE  HuntsInv'
        BY <1>1, FileChangesKeepsHunts
  <1>2. ASSUME NEW depth \in Depth, BeginHunt(depth)
        PROVE  HuntsInv'
        BY <1>2, BeginHuntKeepsHunts
  <1>3. ASSUME NEW f \in Shelved, ListFile(f) \/ LookAt(f)
        PROVE  HuntsInv'
        BY <1>3, ListFileKeepsHunts, LookAtKeepsHunts
  <1>4. CASE PersistInventory \/ ReadBytes \/ ReadImage \/ RecordHashes
        BY <1>4, PersistInventoryKeepsHunts, ReadBytesKeepsHunts, ReadImageKeepsHunts,
           RecordHashesKeepsHunts
  <1>5. ASSUME NEW tool \in BOOLEAN, EndHashes(tool)
        PROVE  HuntsInv'
        BY <1>5, EndHashesKeepsHunts
  <1>6. ASSUME NEW p \in Owners, BeginJob(p) \/ CompareVideos(p) \/ CompareFails(p) \/ ImportPairs(p)
        PROVE  HuntsInv'
        BY <1>6, BeginJobKeepsHunts, CompareVideosKeepsHunts, CompareFailsKeepsHunts,
           ImportPairsKeepsHunts
  <1>7. CASE EndLanes \/ CompleteHunt \/ HuntDone \/ HuntEnds
        BY <1>7, EndLanesKeepsHunts, CompleteHuntKeepsHunts, HuntDoneKeepsHunts, HuntEndsKeepsHunts
  <1>8. CASE UNCHANGED hunt_vars
        BY <1>8, HuntsStutter
  <1> QED BY <1>1, <1>2, <1>3, <1>4, <1>5, <1>6, <1>7, <1>8 DEF HuntsNext

LEMMA HuntsAlways == HuntsSpec => []HuntsInv
  <1>1. HuntsInit => HuntsInv
        BY HuntsInitInv
  <1> QED BY <1>1, HuntsStep, PTL DEF HuntsSpec

\* The catalogue and the scans' rows stay within their types; a row of the catalogue that
\* has a scan has a version, and a file a scan hashed has a hash.
THEOREM HuntsTypeCorrect == HuntsSpec => []HuntsTypeOK
  <1>1. HuntsInv => HuntsTypeOK
    <2> SUFFICES ASSUME HuntsInv PROVE HuntsTypeOK
          OBVIOUS
    <2> USE DEF HuntsInv, HuntTypes, HuntPlaces
    <2>1. \A f \in Shelved : /\ index_rows[f].seen \in 0..Len(hunts)
                             /\ index_rows[f].seen = 0 <=> index_rows[f].was = NoBytes
          BY DEF CatalogueRow
    <2>2. ASSUME NEW s \in 1..Len(hunts)
          PROVE  /\ hunts[s].status \in {"running", "completed", "ended"}
                 /\ \A r \in hunts[s].files : r.was # NoBytes /\ r.sha # NoBytes
      <3>1. hunts[s] \in ScanRow
            OBVIOUS
      <3>2. \A b \in Bytes : b # NoBytes
            BY ScanAssumption DEF Bytes, ScanAssumption
      <3> QED BY <3>1, <3>2, ScanAssumption DEF ScanRow, FileRow, ScanAssumption
    <2>3. /\ hunt.step \in {"none", "list", "hash", "read", "look", "record", "compare",
                            "complete", "totals"}
          /\ hunt.step = "none" \/ hunts # <<>>
          BY DEF NoHunt, RunningScan, Reading
    <2> QED BY <2>1, <2>2, <2>3 DEF HuntsTypeOK
  <1> QED BY <1>1, HuntsAlways, PTL
-----------------------------------------------------------------------------
\* The groups of images, made file by file.

\* They are apart, each has a file that resembles its others, and of the files up to
\* the n-th that are in none, none resembles another that is in none.
GroupsRight(rows, groups, n) ==
    /\ \A g, h \in groups : g # h => g \cap h = {}
    /\ UNION groups \subseteq rows
    /\ \A g \in groups : \E head \in g : \A r \in g \ {head} : Resemble(head, r)
    /\ \A r, t \in Unconsumed(rows, groups) :
          r # t /\ Rank(r.file) <= n => ~Resemble(r, t)

LEMMA GroupedKeeps ==
    ASSUME NEW rows \in SUBSET FileRow, IsFiniteSet(rows),
           \A r, t \in rows : r.file = t.file => r = t,
           NEW groups, NEW n \in 0..Len(Shelf), n # Len(Shelf), GroupsRight(rows, groups, n)
    PROVE  GroupsRight(rows, Grouped(rows, groups, Shelf[n + 1]), n + 1)
  <1> DEFINE name == Shelf[n + 1]
             left == Unconsumed(rows, groups)
             heads == {r \in left : r.file = name}
             alike(r) == {s \in left : s = r \/ Resemble(r, s)}
             more == {g \in {alike(r) : r \in heads} : Cardinality(g) > 1}
             grown == groups \cup more
  <1>1. Grouped(rows, groups, name) = grown
        BY DEF Grouped
  <1>2. n + 1 \in 1..Len(Shelf) /\ Rank(name) = n + 1
        BY ShelfRanks
  <1>3. left \subseteq rows /\ left \cap UNION groups = {}
        BY DEF Unconsumed
  <1>4. \A r, t \in heads : r = t
        BY <1>3
  <1>5. \A g \in more : g \subseteq left /\ \E r \in heads : g = alike(r)
        OBVIOUS
  <1>6. ASSUME NEW g \in more, NEW h \in more
        PROVE  g = h
    <2>1. PICK r \in heads : g = alike(r)
          BY <1>5
    <2>2. PICK t \in heads : h = alike(t)
          BY <1>5
    <2>3. r = t
          BY <1>4
    <2> HIDE DEF heads, more
    <2> QED BY <2>1, <2>2, <2>3
  <1>7. \A g \in groups : g \subseteq UNION groups
        OBVIOUS
  <1> HIDE DEF more
  <1>8. ASSUME NEW g \in grown, NEW h \in grown, g # h
        PROVE  g \cap h = {}
    <2>1. CASE g \in groups /\ h \in groups
          BY <1>8, <2>1 DEF GroupsRight
    <2>2. CASE g \in groups /\ h \in more
          BY <1>3, <1>5, <1>7, <2>2
    <2>3. CASE g \in more /\ h \in groups
          BY <1>3, <1>5, <1>7, <2>3
    <2> QED BY <1>6, <1>8, <2>1, <2>2, <2>3
  <1>9. UNION grown \subseteq rows
        BY <1>3, <1>5 DEF GroupsRight
  <1>10. ASSUME NEW g \in grown
         PROVE  \E head \in g : \A r \in g \ {head} : Resemble(head, r)
    <2>1. CASE g \in groups
          BY <2>1 DEF GroupsRight
    <2>2. CASE g \in more
      <3>1. PICK r \in heads : g = alike(r)
            BY <1>5, <2>2
      <3>2. r \in g /\ \A s \in g \ {r} : Resemble(r, s)
            BY <3>1
      <3> QED BY <3>2
    <2> QED BY <2>1, <2>2
  <1>11. ASSUME NEW r \in Unconsumed(rows, grown), NEW t \in Unconsumed(rows, grown),
                r # t, Rank(r.file) <= n + 1, Resemble(r, t)
         PROVE  FALSE
    <2>1. r \in left /\ t \in left /\ r \in rows /\ r \notin UNION grown
          BY DEF Unconsumed
    <2>2. Rank(r.file) \in 1..Len(Shelf) /\ Shelf[Rank(r.file)] = r.file
          BY <2>1, ShelfRanks DEF FileRow
    <2>3. CASE Rank(r.file) <= n
          BY <1>11, <2>1, <2>3 DEF GroupsRight
    <2>4. CASE Rank(r.file) = n + 1
      <3>1. r \in heads
            BY <2>1, <2>2, <2>4
      <3>2. r \in alike(r) /\ t \in alike(r) /\ alike(r) \in SUBSET rows
            BY <1>3, <1>11, <2>1
      <3>3. IsFiniteSet(alike(r))
            BY <3>2, FS_Subset
      <3>4. Cardinality(alike(r)) > 1
        <4>1. Cardinality(alike(r)) \in Nat
              BY <3>3, FS_CardinalityType
        <4>2. ~(Cardinality(alike(r)) < 2)
          <5> DEFINE g == alike(r)
          <5>1. IsFiniteSet(g) /\ r \in g /\ t \in g
                BY <3>2, <3>3
          <5> HIDE DEF g
          <5>2. ~(Cardinality(g) < 2)
                BY <1>11, <5>1, FewerThanTwo
          <5> QED BY <5>2 DEF g
        <4> QED BY <4>1, <4>2
      <3>5. alike(r) \in more
            BY <3>1, <3>4 DEF more
      <3> QED BY <2>1, <3>2, <3>5
    <2> QED BY <1>11, <2>2, <2>3, <2>4
  <1> HIDE DEF grown
  <1>12. GroupsRight(rows, grown, n + 1)
         BY <1>8, <1>9, <1>10, <1>11 DEF GroupsRight
  <1> QED BY <1>1, <1>12

\* A family made one after the other, each from the one before.
LEMMA ImageGroupsRight ==
    ASSUME NEW rows \in SUBSET FileRow, IsFiniteSet(rows),
           \A r, t \in rows : r.file = t.file => r = t
    PROVE  GroupsRight(rows, ImageGroups(rows), Len(Shelf))
  <1> DEFINE L == Len(Shelf)
             made(u, N) ==
                u = [n \in 0..N |-> IF n = 0 THEN {} ELSE Grouped(rows, u[n - 1], Shelf[n])]
             fails == {n \in 0..L : ~ \E u : made(u, n)}
             upto == CHOOSE u : made(u, L)
             wrong == {n \in 0..L : ~GroupsRight(rows, upto[n], n)}
  <1>1. L \in Nat
        BY ShelfRanks
  <1>0. \A n \in 0..L : n \notin fails => \E u : made(u, n)
        OBVIOUS
  <1>2. fails = {}
    <2> SUFFICES ASSUME fails # {} PROVE FALSE
          OBVIOUS
    <2>1. fails \in SUBSET Nat
          BY <1>1
    <2>2. PICK n \in fails : \A m \in fails : n <= m
          BY <2>1, LeastNatural
    <2>3. n \in 0..L /\ ~ \E u : made(u, n)
          BY <2>2
    <2>4. n # 0
      <3>1. made([m \in 0..0 |-> {}], 0)
            OBVIOUS
      <3> QED BY <2>3, <3>1
    <2>5. n - 1 \in 0..L /\ n - 1 \notin fails
      <3>1. n \in Nat /\ n <= L /\ L \in Nat
            BY <1>1, <2>3
      <3>2. n - 1 \in 0..L /\ ~(n <= n - 1)
            BY <2>4, <3>1
      <3> HIDE DEF fails, made
      <3> QED BY <2>2, <3>2
    <2>6. PICK u : made(u, n - 1)
      <3> HIDE DEF fails, made
      <3> QED BY <1>0, <2>5
    <2> DEFINE next == [m \in 0..n |-> IF m = n THEN Grouped(rows, u[n - 1], Shelf[n]) ELSE u[m]]
    <2>7. \A m \in 0..n :
             next[m] = IF m = 0 THEN {} ELSE Grouped(rows, next[m - 1], Shelf[m])
      <3>1. ASSUME NEW m \in 0..n
            PROVE  next[m] = IF m = 0 THEN {} ELSE Grouped(rows, next[m - 1], Shelf[m])
        <4>1. CASE m = n
          <5>1. next[m - 1] = u[m - 1]
                BY <2>3, <2>4, <4>1
          <5> QED BY <2>3, <2>4, <4>1, <5>1
        <4>2. CASE m # n
          <5>1. m \in 0..(n - 1) /\ next[m] = u[m]
                BY <2>3, <4>2
          <5>2. u[m] = IF m = 0 THEN {} ELSE Grouped(rows, u[m - 1], Shelf[m])
                BY <2>6, <5>1
          <5>3. m # 0 => next[m - 1] = u[m - 1]
                BY <2>3, <4>2
          <5> QED BY <5>1, <5>2, <5>3
        <4> QED BY <4>1, <4>2
      <3> QED BY <3>1
    <2>8. made(next, n)
          BY <2>7
    <2> QED BY <2>3, <2>8
  <1>3. made(upto, L)
    <2>1. \E u : made(u, L)
      <3>1. L \in 0..L
            BY <1>1
      <3> HIDE DEF fails, made
      <3> QED BY <1>0, <1>2, <3>1
    <2> QED BY <2>1
  <1>4. ImageGroups(rows) = upto[L]
        BY DEF ImageGroups
  <1>5. \A n \in 0..L : upto[n] = IF n = 0 THEN {} ELSE Grouped(rows, upto[n - 1], Shelf[n])
        BY <1>3
  <1> HIDE DEF upto
  <1>6. wrong = {}
    <2> SUFFICES ASSUME wrong # {} PROVE FALSE
          OBVIOUS
    <2>1. wrong \in SUBSET Nat
          BY <1>1
    <2>2. PICK n \in wrong : \A m \in wrong : n <= m
          BY <2>1, LeastNatural
    <2>3. n \in 0..L /\ ~GroupsRight(rows, upto[n], n)
          BY <2>2
    <2>4. GroupsRight(rows, {}, 0)
      <3>1. ASSUME NEW r \in rows
            PROVE  ~(Rank(r.file) <= 0)
        <4>1. r.file \in Shelved
              BY DEF FileRow
        <4> QED BY <4>1, ShelfRanks
      <3> QED BY <3>1 DEF GroupsRight, Unconsumed
    <2>5. n # 0
          BY <1>5, <2>3, <2>4
    <2>6. n - 1 \in 0..L /\ n - 1 # L /\ n - 1 \notin wrong /\ (n - 1) + 1 = n
          BY <2>2, <2>3, <2>5
    <2>7. GroupsRight(rows, upto[n - 1], n - 1)
          BY <2>6
    <2>8. GroupsRight(rows, Grouped(rows, upto[n - 1], Shelf[(n - 1) + 1]), (n - 1) + 1)
      <3> HIDE DEF wrong
      <3> QED BY <2>6, <2>7, GroupedKeeps
    <2> QED BY <1>5, <2>3, <2>5, <2>6, <2>8
  <1>7. L \in 0..L
        BY <1>1
  <1> QED BY <1>4, <1>6, <1>7
-----------------------------------------------------------------------------
\* What the window shows is a completed scan's.
LEMMA ShownScan ==
    ASSUME HuntsInv, NEW s \in LastResult
    PROVE  \E k \in 1..Len(hunts) : s = hunts[k] /\ hunts[k].status = "completed"
  BY DEF LastResult

LEMMA TrueHash ==
    ASSUME NEW r \in FileRow, TrueOf(r), ~r.doubt
    PROVE  r.sha = Pixels[r.was] /\ (r.look # NoBytes => r.look = Pixels[r.was])
  <1>1. \A b \in Bytes : b # NoBytes
        BY ScanAssumption DEF Bytes, ScanAssumption
  <1>2. r.sha # NoBytes
        BY <1>1 DEF FileRow
  <1> QED BY <1>2 DEF TrueOf

LEMMA ShownSo ==
    ASSUME HuntsInv, NEW k \in 1..Len(hunts), hunts[k].status = "completed"
    PROVE  ShownIsSo(hunts[k])
  <1> USE DEF HuntsInv
  <1> DEFINE s == hunts[k]
  <1>1. s \in ScanRow
        BY DEF HuntTypes
  <1>2. /\ s.files \in SUBSET FileRow /\ IsFiniteSet(s.files)
        /\ \A r \in s.files : TrueOf(r)
        /\ \A r, t \in s.files : r.file = t.file => r = t
        BY <1>1 DEF ScanRow, HashesTrue, HashedOnce
  <1>3. DOMAIN s.jobs = Owners
        BY <1>1 DEF ScanRow
  <1>4. ASSUME NEW r \in s.files, NEW t \in s.files, Equal(r, t), Still(r), Still(t)
        PROVE  Pixels[held[r.file]] = Pixels[held[t.file]]
    <2>1. r.sha = Pixels[held[r.file]] /\ t.sha = Pixels[held[t.file]]
          BY <1>2, <1>4, TrueHash DEF Still
    <2> QED BY <1>4, <2>1 DEF Equal
  <1>5. ASSUME NEW p \in DOMAIN s.jobs, NEW f \in Shelved, NEW g \in Shelved,
               ~s.jobs[p].shifted, f # g, {f, g} \in VideoPairs(s, p),
               {<<f, held[f]>>, <<g, held[g]>>} \subseteq s.jobs[p].inventory
        PROVE  <<Pixels[held[f]], Pixels[held[g]]>> \in Alike[s.depth]
    <2>1. s.jobs[p].status = "completed" /\ {f, g} \in s.jobs[p].pairs
          BY <1>5 DEF VideoPairs
    <2>2. JobTrue(s.jobs[p], s.depth)
          BY <1>3, <2>1 DEF JobsTrue
    <2>3. ASSUME NEW a \in s.jobs[p].inventory, NEW b \in s.jobs[p].inventory,
                 a[1] # b[1], {a[1], b[1]} \in s.jobs[p].pairs
          PROVE  <<Pixels[a[2]], Pixels[b[2]]>> \in Alike[s.depth]
          BY <1>5, <2>2, <2>3 DEF JobTrue
    <2>4. <<f, held[f]>> \in s.jobs[p].inventory /\ <<g, held[g]>> \in s.jobs[p].inventory
          BY <1>5
    <2>5. /\ <<f, held[f]>>[1] = f /\ <<f, held[f]>>[2] = held[f]
          /\ <<g, held[g]>>[1] = g /\ <<g, held[g]>>[2] = held[g]
          OBVIOUS
    <2> QED BY <1>5, <2>1, <2>3, <2>4, <2>5
  <1>6. ASSUME NEW alike \in ImageGroups(s.files)
        PROVE  \E head \in alike : \A r \in alike \ {head} :
                  Still(head) /\ Still(r) =>
                     <<Pixels[held[head.file]], Pixels[held[r.file]]>> \in Alike["image"]
    <2>1. GroupsRight(s.files, ImageGroups(s.files), Len(Shelf))
      <3> HIDE DEF s
      <3> QED BY <1>2, ImageGroupsRight
    <2>2. PICK head \in alike : \A r \in alike \ {head} : Resemble(head, r)
          BY <2>1 DEF GroupsRight
    <2>3. alike \subseteq s.files
          BY <2>1 DEF GroupsRight
    <2>4. ASSUME NEW r \in alike \ {head}, Still(head), Still(r)
          PROVE  <<Pixels[held[head.file]], Pixels[held[r.file]]>> \in Alike["image"]
      <3>1. Resemble(head, r)
            BY <2>2
      <3>2. head.look # NoBytes /\ r.look # NoBytes /\ <<head.look, r.look>> \in Alike["image"]
            BY <3>1 DEF Resemble
      <3>3. head.look = Pixels[held[head.file]] /\ r.look = Pixels[held[r.file]]
            BY <1>2, <2>3, <2>4, <3>2, TrueHash DEF Still
      <3> QED BY <3>2, <3>3
    <2> QED BY <2>4
  <1> HIDE DEF s
  <1>7. ShownIsSo(s)
        BY <1>4, <1>5, <1>6 DEF ShownIsSo
  <1> QED BY <1>7 DEF s

LEMMA SoShown ==
    ASSUME HuntsInv, NEW k \in 1..Len(hunts), hunts[k].status = "completed"
    PROVE  SoIsShown(hunts[k])
  <1> USE DEF HuntsInv
  <1> DEFINE s == hunts[k]
             groups == ImageGroups(s.files)
  <1>1. s \in ScanRow
        BY DEF HuntTypes
  <1>2. /\ s.files \in SUBSET FileRow /\ IsFiniteSet(s.files)
        /\ \A r \in s.files : TrueOf(r)
        /\ \A r, t \in s.files : r.file = t.file => r = t
        BY <1>1 DEF ScanRow, HashesTrue, HashedOnce
  <1>3. DOMAIN s.jobs = Owners /\ s.stood \in SUBSET (Shelved \X (FileVersion \cup {NoBytes}))
        BY <1>1 DEF ScanRow
  <1>4. ASSUME NEW a \in s.stood, NEW b \in s.stood, a[1] # b[1], NoBytes \notin {a[2], b[2]},
               album.volume[a[1]] = album.volume[b[1]], Pixels[a[2]] = Pixels[b[2]]
        PROVE  \E r, t \in s.files : /\ r.file = a[1] /\ t.file = b[1]
                                     /\ (Equal(r, t) \/ r.doubt \/ t.doubt)
    <2>1. a[2] \in FileVersion /\ b[2] \in FileVersion
          BY <1>3, <1>4
    <2>2. SizeOf[a[2]] = SizeOf[b[2]]
          BY <1>4, <2>1, ScanAssumption DEF ScanAssumption
    <2>3. StoodRow(k, a) /\ StoodRow(k, b)
          BY <1>4, <2>2 DEF EqualsShown
    <2>4. PICK r \in s.files : r.file = a[1] /\ r.was = a[2]
          BY <2>3 DEF StoodRow
    <2>5. PICK t \in s.files : t.file = b[1] /\ t.was = b[2]
          BY <2>3 DEF StoodRow
    <2>6. ~r.doubt /\ ~t.doubt => Equal(r, t)
      <3>1. ~r.doubt => r.sha = Pixels[a[2]]
            BY <1>2, <2>4, TrueHash
      <3>2. ~t.doubt => t.sha = Pixels[b[2]]
            BY <1>2, <2>5, TrueHash
      <3> QED BY <1>4, <2>2, <2>4, <2>5, <3>1, <3>2 DEF Equal
    <2> QED BY <2>4, <2>5, <2>6
  <1>5. ASSUME NEW p \in DOMAIN s.jobs, NEW a \in s.stood, NEW b \in s.stood,
               s.jobs[p].status = "completed", a[1] # b[1], NoBytes \notin {a[2], b[2]},
               album.owner[a[1]] = p, album.owner[b[1]] = p, Video(a[1]), Video(b[1]),
               <<Pixels[a[2]], Pixels[b[2]]>> \in Alike[s.depth]
        PROVE  s.jobs[p].shifted \/ {a[1], b[1]} \in VideoPairs(s, p)
    <2>1. a \in s.jobs[p].inventory /\ b \in s.jobs[p].inventory
          BY <1>3, <1>5 DEF VideosShown
    <2>2. JobTrue(s.jobs[p], s.depth)
          BY <1>3, <1>5 DEF JobsTrue
    <2>3. s.jobs[p].shifted \/ {a[1], b[1]} \in s.jobs[p].pairs
          BY <1>5, <2>1, <2>2 DEF JobTrue
    <2> QED BY <1>5, <2>3 DEF VideoPairs
  <1>6. GroupsRight(s.files, groups, Len(Shelf))
    <2> HIDE DEF s
    <2> QED BY <1>2, ImageGroupsRight
  <1>7. \A g, h \in groups : g # h => g \cap h = {}
        BY <1>6 DEF GroupsRight
  <1>8. ASSUME NEW r \in s.files, NEW t \in s.files, r # t, Resemble(r, t)
        PROVE  \E g \in groups : {r, t} \cap g # {}
    <2>1. Rank(r.file) <= Len(Shelf)
      <3>1. r.file \in Shelved
            BY <1>2 DEF FileRow
      <3> QED BY <3>1, ShelfRanks
    <2>2. ~(r \in Unconsumed(s.files, groups) /\ t \in Unconsumed(s.files, groups))
          BY <1>6, <1>8, <2>1 DEF GroupsRight
    <2> HIDE DEF groups
    <2> QED BY <2>2 DEF Unconsumed
  <1> HIDE DEF s
  <1>9. SoIsShown(s)
        BY <1>4, <1>5, <1>7, <1>8 DEF SoIsShown
  <1> QED BY <1>9 DEF s

\* What the cleanup window shows is true of the files and leaves out nothing that stood
\* still, whatever the scan took over from earlier ones and whatever changed meanwhile.
THEOREM FoundIsShown == HuntsSpec => []FoundAndShown
  <1>1. HuntsInv => FoundAndShown
    <2> SUFFICES ASSUME HuntsInv, NEW s \in LastResult
                 PROVE  ShownIsSo(s) /\ SoIsShown(s)
          BY DEF FoundAndShown
    <2>1. PICK k \in 1..Len(hunts) : s = hunts[k] /\ hunts[k].status = "completed"
          BY ShownScan
    <2> QED BY <2>1, ShownSo, SoShown
  <1> QED BY <1>1, HuntsAlways, PTL
=============================================================================
