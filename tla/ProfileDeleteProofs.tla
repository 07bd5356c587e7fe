-------------------------- MODULE ProfileDeleteProofs -------------------------
(***************************************************************************)
(* Theorems about MediaThumbnailQueue, for every set of profiles, threads  *)
(* and generators, and any number of files; and, by these, about           *)
(* ProfileDelete, for every set of profiles, lanes, threads and files, and *)
(* with every failure the module models. What only holds while nobody asks *)
(* for anything about a profile that is being deleted is proved of         *)
(* MCProfileDelete's specification, whose `slips` records that, for every  *)
(* bound on the calls.                                                     *)
(***************************************************************************)
EXTENDS MCProfileDelete, TLAPS

-----------------------------------------------------------------------------
(***************************************************************************)
(* The thumbnail queue.                                                    *)
(***************************************************************************)

\* The invariant, in parts.

WaitsOnce == \A i, j \in DOMAIN queued : queued[i] = queued[j] => i = j

ActiveLeft == active # None => ~Waiting(active)

WorkerFlag == worker_running <=> wpc # "idle"

ClearingWaits == \A c \in clearing : waits[c] # None

Inv == ThumbnailTypeOK /\ WaitsOnce /\ ActiveLeft /\ WorkerFlag /\ ClearingWaits

\* A request for the job being worked on has a thread that has not yet found the
\* job gone: the reason why the threads that did find one gone do no harm.
RequestAwaited ==
    active # None /\ active \in cancel_requested =>
        \E e \in Canceller \ clearing : waits[e] = active
-----------------------------------------------------------------------------
\* What the three ways to change the queue do to it.

LEMMA Appended ==
    ASSUME queued \in Seq(Source), WaitsOnce, NEW s \in Source, ~Waiting(s),
           queued' = Append(queued, s)
    PROVE  /\ queued' \in Seq(Source)
           /\ WaitsOnce'
           /\ \A t : Waiting(t)' <=> Waiting(t) \/ t = s
  <1>1. /\ queued' \in Seq(Source)
        /\ Len(queued') = Len(queued) + 1
        /\ \A i \in 1..Len(queued) : queued'[i] = queued[i]
        /\ queued'[Len(queued) + 1] = s
        OBVIOUS
  <1>2. /\ DOMAIN queued = 1..Len(queued)
        /\ DOMAIN queued' = 1..(Len(queued) + 1)
        /\ Len(queued) \in Nat
        BY <1>1
  <1>3. WaitsOnce'
        BY <1>1, <1>2 DEF WaitsOnce, Waiting
  <1>4. \A t : Waiting(t)' <=> Waiting(t) \/ t = s
        BY <1>1, <1>2 DEF Waiting
  <1> QED BY <1>1, <1>3, <1>4

LEMMA Taken ==
    ASSUME queued \in Seq(Source), WaitsOnce, queued # <<>>, queued' = Tail(queued)
    PROVE  /\ queued' \in Seq(Source)
           /\ WaitsOnce'
           /\ Head(queued) \in Source
           /\ Waiting(Head(queued))
           /\ \A t : Waiting(t)' => Waiting(t) /\ t # Head(queued)
  <1>1. /\ queued' \in Seq(Source)
        /\ Len(queued) \in Nat \ {0}
        /\ Len(queued') = Len(queued) - 1
        /\ \A i \in 1..(Len(queued) - 1) : queued'[i] = queued[i + 1]
        /\ Head(queued) = queued[1]
        /\ Head(queued) \in Source
        OBVIOUS
  <1>2. /\ DOMAIN queued = 1..Len(queued)
        /\ DOMAIN queued' = 1..(Len(queued) - 1)
        BY <1>1
  <1>3. WaitsOnce'
        BY <1>1, <1>2 DEF WaitsOnce
  <1>4. Waiting(Head(queued))
        BY <1>1, <1>2 DEF Waiting
  <1>5. \A t : Waiting(t)' => Waiting(t) /\ t # Head(queued)
        BY <1>1, <1>2 DEF Waiting, WaitsOnce
  <1> QED BY <1>1, <1>3, <1>4, <1>5

LEMMA Dropped ==
    ASSUME queued \in Seq(Source), WaitsOnce, NEW s \in Source, DropQueued(s)
    PROVE  /\ queued' \in Seq(Source)
           /\ WaitsOnce'
           /\ \A t : Waiting(t)' => Waiting(t) /\ t # s
           /\ queued' # <<>> => queued # <<>>
  <1>1. CASE ~Waiting(s) /\ queued' = queued
        BY <1>1 DEF WaitsOnce, Waiting
  <1>2. CASE \E i \in DOMAIN queued :
                /\ queued[i] = s
                /\ queued' = [j \in 1..(Len(queued) - 1) |->
                                IF j < i THEN queued[j] ELSE queued[j + 1]]
    <2>1. PICK i \in DOMAIN queued :
                /\ queued[i] = s
                /\ queued' = [j \in 1..(Len(queued) - 1) |->
                                IF j < i THEN queued[j] ELSE queued[j + 1]]
          BY <1>2
    <2>2. /\ DOMAIN queued = 1..Len(queued)
          /\ Len(queued) \in Nat \ {0}
          /\ i \in 1..Len(queued)
          /\ \A j \in 1..Len(queued) : queued[j] \in Source
          BY <2>1
    <2>3. /\ DOMAIN queued' = 1..(Len(queued) - 1)
          /\ \A j \in 1..(Len(queued) - 1) :
                queued'[j] = IF j < i THEN queued[j] ELSE queued[j + 1]
          BY <2>1
    <2>4. queued' \in Seq(Source)
      <3>1. Len(queued) - 1 \in Nat
            BY <2>2
      <3>2. queued' \in [1..(Len(queued) - 1) -> Source]
            BY <2>1, <2>2
      <3> QED BY <3>1, <3>2
    <2>5. WaitsOnce'
          BY <2>2, <2>3 DEF WaitsOnce
    <2>6. \A t : Waiting(t)' => Waiting(t) /\ t # s
          BY <2>1, <2>2, <2>3 DEF Waiting, WaitsOnce
    <2>7. queued # <<>>
          BY <2>2
    <2> QED BY <2>4, <2>5, <2>6, <2>7
  <1> QED BY <1>1, <1>2 DEF DropQueued
-----------------------------------------------------------------------------
\* The invariant holds in every state.

LEMMA InvInit ==
    ThumbnailInit => Inv
  <1> SUFFICES ASSUME ThumbnailInit
               PROVE  Inv
      OBVIOUS
  <1> USE DEF ThumbnailInit
  <1>1. ThumbnailTypeOK
    <2>1. pending \in 0..MaxFiles
          BY ThumbnailAssumption DEF ThumbnailAssumption
    <2>2. /\ queued \in Seq(Source)
          /\ cancel_requested \subseteq Source
          /\ gen \in [Generator -> {"off", "look", "take", "make"}]
          /\ waits \in [Canceller -> Source \cup {None}]
          /\ clearing \subseteq Canceller
          OBVIOUS
    <2>3. /\ active \in Source \cup {None}
          /\ worker_running \in BOOLEAN /\ stopped \in BOOLEAN
          /\ active # None <=> wpc \notin {"idle", "loop"}
          /\ wpc \in {"idle", "loop", "begin", "list", "make", "close"}
          OBVIOUS
    <2> QED BY <2>1, <2>2, <2>3 DEF ThumbnailTypeOK
  <1>2. WaitsOnce /\ ActiveLeft /\ WorkerFlag /\ ClearingWaits
        BY DEF WaitsOnce, ActiveLeft, WorkerFlag, ClearingWaits
  <1> QED BY <1>1, <1>2 DEF Inv

LEMMA EnqueueKeepsInv ==
    ASSUME Inv, NEW s \in Source, EnqueueThumbnails(s)
    PROVE  Inv'
  <1> USE DEF EnqueueThumbnails, StartWorker, cancellers
  <1>1. ~Waiting(s) /\ active # s
        BY DEF Known
  <1>2. queued \in Seq(Source) /\ WaitsOnce
        BY DEF Inv, ThumbnailTypeOK
  <1>3. /\ queued' \in Seq(Source)
        /\ WaitsOnce'
        /\ \A t : Waiting(t)' <=> Waiting(t) \/ t = s
        BY <1>1, <1>2, Appended
  <1>4. ThumbnailTypeOK'
        BY <1>3 DEF Inv, ThumbnailTypeOK, Unrequested, WorkerFlag
  <1>5. ActiveLeft'
        BY <1>1, <1>3 DEF Inv, ActiveLeft
  <1>6. WorkerFlag' /\ ClearingWaits'
        BY DEF Inv, WorkerFlag, ClearingWaits
  <1> QED BY <1>3, <1>4, <1>5, <1>6 DEF Inv

LEMMA BadBatchKeepsInv ==
    ASSUME Inv, NEW s \in Source, NEW t \in Source, EnqueueBadBatch(s, t)
    PROVE  Inv'
  <1> USE DEF EnqueueBadBatch, job, cancellers
  <1>1. ~Waiting(s) /\ active # s
        BY DEF Known
  <1>2. queued \in Seq(Source) /\ WaitsOnce
        BY DEF Inv, ThumbnailTypeOK
  <1>3. /\ queued' \in Seq(Source)
        /\ WaitsOnce'
        /\ \A v : Waiting(v)' <=> Waiting(v) \/ v = s
        BY <1>1, <1>2, Appended
  <1>4. ThumbnailTypeOK'
        BY <1>3 DEF Inv, ThumbnailTypeOK
  <1>5. ActiveLeft'
        BY <1>1, <1>3 DEF Inv, ActiveLeft
  <1>6. WorkerFlag' /\ ClearingWaits'
        BY DEF Inv, WorkerFlag, ClearingWaits
  <1> QED BY <1>3, <1>4, <1>5, <1>6 DEF Inv

LEMMA CancelKeepsInv ==
    ASSUME Inv, NEW c \in Canceller, NEW s \in Source, CancelThumbnails(c, s)
    PROVE  Inv'
  <1> USE DEF CancelThumbnails, job
  <1>1. queued \in Seq(Source) /\ WaitsOnce
        BY DEF Inv, ThumbnailTypeOK
  <1>2. /\ queued' \in Seq(Source)
        /\ WaitsOnce'
        /\ \A t : Waiting(t)' => Waiting(t) /\ t # s
        BY <1>1, Dropped
  <1>3. ThumbnailTypeOK'
        BY <1>2 DEF Inv, ThumbnailTypeOK
  <1>4. ActiveLeft'
        BY <1>2 DEF Inv, ActiveLeft
  <1>5. s # None
        BY ThumbnailAssumption DEF ThumbnailAssumption
  <1>6. ClearingWaits'
        BY <1>5 DEF Inv, ClearingWaits, ThumbnailTypeOK
  <1>7. WorkerFlag'
        BY DEF Inv, WorkerFlag
  <1> QED BY <1>2, <1>3, <1>4, <1>6, <1>7 DEF Inv

LEMMA TakeKeepsInv ==
    ASSUME Inv, TakeJob
    PROVE  Inv'
  <1> USE DEF TakeJob, cancellers
  <1>1. queued \in Seq(Source) /\ WaitsOnce
        BY DEF Inv, ThumbnailTypeOK
  <1>2. /\ queued' \in Seq(Source)
        /\ WaitsOnce'
        /\ Head(queued) \in Source
        /\ \A t : Waiting(t)' => Waiting(t) /\ t # Head(queued)
        BY <1>1, Taken
  <1>3. Head(queued) # None
        BY <1>2, ThumbnailAssumption DEF ThumbnailAssumption
  <1>4. ThumbnailTypeOK'
        BY <1>2, <1>3 DEF Inv, ThumbnailTypeOK
  <1>5. ActiveLeft'
        BY <1>2 DEF ActiveLeft
  <1>6. WorkerFlag' /\ ClearingWaits'
        BY DEF Inv, WorkerFlag, ClearingWaits
  <1> QED BY <1>2, <1>4, <1>5, <1>6 DEF Inv

\* The rest leaves the queue and the job alone, or ends the job.
LEMMA OthersKeepInv ==
    ASSUME Inv,
           \/ \E s \in Source : EnqueueKnown(s) \/ EnqueueMissing(s)
           \/ \E c \in Canceller : CancellerStep(c)
           \/ \E g \in Generator : GeneratorStep(g)
           \/ StopWorker \/ BeginJob \/ ListFails \/ ListFiles \/ Join \/ CloseJob
    PROVE  Inv'
  <1> DEFINE SameQueue == queued' = queued /\ active' = active
  <1>1. ASSUME SameQueue
        PROVE  WaitsOnce' /\ ActiveLeft'
        BY <1>1 DEF Inv, WaitsOnce, ActiveLeft, Waiting
  <1>2. CASE \E s \in Source : EnqueueKnown(s) \/ EnqueueMissing(s)
    <2>1. SameQueue
          BY <1>2 DEF EnqueueKnown, EnqueueMissing, queue
    <2>2. CASE \E s \in Source : EnqueueKnown(s)
      <3>1. ThumbnailTypeOK' /\ WorkerFlag' /\ ClearingWaits'
            BY <2>2 DEF Inv, EnqueueKnown, StartWorker, cancellers, ThumbnailTypeOK, WorkerFlag,
                        ClearingWaits
      <3> QED BY <2>1, <3>1, <1>1 DEF Inv
    <2>3. CASE \E s \in Source : EnqueueMissing(s)
      <3>1. ThumbnailTypeOK' /\ WorkerFlag' /\ ClearingWaits'
            BY <2>3 DEF Inv, EnqueueMissing, Unrequested, queue, job, cancellers,
                        ThumbnailTypeOK, WorkerFlag, ClearingWaits
      <3> QED BY <2>1, <3>1, <1>1 DEF Inv
    <2> QED BY <1>2, <2>2, <2>3
  <1>3. CASE \E c \in Canceller : CancellerStep(c)
    <2>1. PICK c \in Canceller : CancellerStep(c)
          BY <1>3
    <2>2. SameQueue /\ worker_running' = worker_running /\ UNCHANGED job
          BY <2>1 DEF CancellerStep, FindGone, ClearRequest, GiveUpWaiting, queue
    <2>3. /\ waits' \in [Canceller -> Source \cup {None}]
          /\ clearing' \subseteq Canceller
          /\ cancel_requested' \subseteq Source
          BY <2>1 DEF Inv, ThumbnailTypeOK, CancellerStep, FindGone, ClearRequest, GiveUpWaiting
    <2>4. ClearingWaits'
          BY <2>1 DEF Inv, ThumbnailTypeOK, ClearingWaits, CancellerStep, FindGone, ClearRequest,
                      GiveUpWaiting
    <2>5. ThumbnailTypeOK' /\ WorkerFlag'
          BY <2>2, <2>3 DEF Inv, ThumbnailTypeOK, WorkerFlag, job
    <2> QED BY <2>2, <2>4, <2>5, <1>1 DEF Inv
  <1>4. CASE \E g \in Generator : GeneratorStep(g)
    <2>1. PICK g \in Generator : GeneratorStep(g)
          BY <1>4
    <2>2. SameQueue /\ UNCHANGED <<worker_running, wpc, cancel_requested, cancellers>>
          BY <2>1 DEF GeneratorStep, Look, TakeFile, MakeThumbnail, queue
    <2>3. pending' \in 0..MaxFiles
          BY <2>1, ThumbnailAssumption
          DEF Inv, ThumbnailTypeOK, GeneratorStep, Look, TakeFile, MakeThumbnail, ThumbnailAssumption
    <2>4. /\ gen' \in [Generator -> {"off", "look", "take", "make"}]
          /\ stopped' \in BOOLEAN
          BY <2>1 DEF Inv, ThumbnailTypeOK, GeneratorStep, Look, TakeFile, MakeThumbnail
    <2>5. ThumbnailTypeOK' /\ WorkerFlag' /\ ClearingWaits'
          BY <2>2, <2>3, <2>4 DEF Inv, ThumbnailTypeOK, WorkerFlag, ClearingWaits, cancellers
    <2> QED BY <2>2, <2>5, <1>1 DEF Inv
  <1>5. CASE StopWorker \/ BeginJob \/ ListFails \/ Join
    <2>1. SameQueue
          BY <1>5 DEF StopWorker, BeginJob, ListFails, Join, queue
    <2>2. ThumbnailTypeOK' /\ WorkerFlag' /\ ClearingWaits'
          BY <1>5 DEF Inv, StopWorker, BeginJob, ListFails, Join, queue, cancellers,
                      ThumbnailTypeOK, WorkerFlag, ClearingWaits
    <2> QED BY <2>1, <2>2, <1>1 DEF Inv
  <1>6. CASE ListFiles
    <2>1. SameQueue
          BY <1>6 DEF ListFiles, queue
    <2>2. ThumbnailTypeOK' /\ WorkerFlag' /\ ClearingWaits'
          BY <1>6 DEF Inv, ListFiles, queue, cancellers, ThumbnailTypeOK, WorkerFlag, ClearingWaits
    <2> QED BY <2>1, <2>2, <1>1 DEF Inv
  <1>7. CASE CloseJob
    <2>1. ThumbnailTypeOK' /\ WorkerFlag' /\ ClearingWaits'
          BY <1>7 DEF Inv, CloseJob, cancellers, Unrequested, ThumbnailTypeOK, WorkerFlag,
                      ClearingWaits
    <2>2. WaitsOnce' /\ ActiveLeft'
          BY <1>7 DEF Inv, CloseJob, WaitsOnce, ActiveLeft
    <2> QED BY <2>1, <2>2 DEF Inv
  <1> QED BY <1>2, <1>3, <1>4, <1>5, <1>6, <1>7

LEMMA StutterKeepsInv ==
    ASSUME Inv, UNCHANGED tvars
    PROVE  Inv'
  BY DEF Inv, tvars, queue, job, cancellers, ThumbnailTypeOK, WaitsOnce, ActiveLeft, Waiting,
         WorkerFlag, ClearingWaits

LEMMA StepKeepsInv ==
    ASSUME Inv, [ThumbnailNext]_tvars
    PROVE  Inv'
  <1>1. CASE \E s \in Source : EnqueueThumbnails(s)
        BY <1>1, EnqueueKeepsInv
  <1>2. CASE \E s, t \in Source : EnqueueBadBatch(s, t)
        BY <1>2, BadBatchKeepsInv
  <1>3. CASE \E c \in Canceller, s \in Source : CancelThumbnails(c, s)
        BY <1>3, CancelKeepsInv
  <1>4. CASE TakeJob
        BY <1>4, TakeKeepsInv
  <1>5. CASE \/ \E s \in Source : EnqueueKnown(s) \/ EnqueueMissing(s)
             \/ \E c \in Canceller : CancellerStep(c)
             \/ \E g \in Generator : GeneratorStep(g)
             \/ StopWorker \/ BeginJob \/ ListFails \/ ListFiles \/ Join \/ CloseJob
        BY <1>5, OthersKeepInv
  <1>6. CASE UNCHANGED tvars
        BY <1>6, StutterKeepsInv
  <1> QED BY <1>1, <1>2, <1>3, <1>4, <1>5, <1>6
          DEF ThumbnailNext, EnqueueCall, ThumbnailRun, ThumbnailWorkerStep

THEOREM InvAlways == ThumbnailSpec => []Inv
  <1>1. ThumbnailInit => Inv
        BY InvInit
  <1>2. Inv /\ [ThumbnailNext]_tvars => Inv'
        BY StepKeepsInv
  <1> QED BY <1>1, <1>2, PTL DEF ThumbnailSpec

\* Every variable of the thumbnail queue keeps its type, and a job is active
\* exactly while the worker works on one.
THEOREM ThumbnailTypeCorrect == ThumbnailSpec => []ThumbnailTypeOK
  <1>1. Inv => ThumbnailTypeOK
        BY DEF Inv
  <1> QED BY <1>1, InvAlways, PTL
-----------------------------------------------------------------------------
\* Waiting jobs have a worker, unless a batch may fail half way.

QueueServed == queued # <<>> => worker_running

LEMMA StepKeepsServed ==
    ASSUME ~BadBatches, Inv, QueueServed, [ThumbnailNext]_tvars
    PROVE  QueueServed'
  <1> USE DEF QueueServed
  <1>1. CASE \E s \in Source : EnqueueThumbnails(s)
        BY <1>1 DEF EnqueueThumbnails, StartWorker
  <1>2. CASE \E s \in Source : EnqueueKnown(s)
        BY <1>2 DEF EnqueueKnown, StartWorker
  <1>3. CASE \E s \in Source : EnqueueMissing(s)
        BY <1>3 DEF EnqueueMissing, queue
  <1>4. CASE \E s, t \in Source : EnqueueBadBatch(s, t)
        BY <1>4 DEF EnqueueBadBatch
  <1>5. CASE \E c \in Canceller, s \in Source : CancelThumbnails(c, s)
    <2>1. PICK c \in Canceller, s \in Source : CancelThumbnails(c, s)
          BY <1>5
    <2>2. queued' # <<>> => queued # <<>>
          BY <2>1, Dropped DEF CancelThumbnails, Inv, ThumbnailTypeOK
    <2> QED BY <2>1, <2>2 DEF CancelThumbnails
  <1>6. CASE \E c \in Canceller : CancellerStep(c)
        BY <1>6 DEF CancellerStep, FindGone, ClearRequest, GiveUpWaiting, queue
  <1>7. CASE \E g \in Generator : GeneratorStep(g)
        BY <1>7 DEF GeneratorStep, Look, TakeFile, MakeThumbnail, queue
  <1>8. CASE TakeJob
        BY <1>8 DEF TakeJob, Inv, WorkerFlag
  <1>9. CASE StopWorker
        BY <1>9 DEF StopWorker
  <1>10. CASE BeginJob \/ ListFails \/ ListFiles \/ Join \/ CloseJob
        BY <1>10 DEF BeginJob, ListFails, ListFiles, Join, CloseJob, queue
  <1>11. CASE UNCHANGED tvars
        BY <1>11 DEF tvars, queue
  <1> QED BY <1>1, <1>2, <1>3, <1>4, <1>5, <1>6, <1>7, <1>8, <1>9, <1>10, <1>11
          DEF ThumbnailNext, EnqueueCall, ThumbnailRun, ThumbnailWorkerStep

\* A profile waits once and not while it is worked on, and what waits has a
\* worker, whatever the order of arrivals, cancellations and worker exits.
THEOREM JobsServed ==
    ASSUME ~BadBatches
    PROVE  ThumbnailSpec => []ThumbnailsServed
  <1>1. ThumbnailInit => QueueServed
        BY DEF ThumbnailInit, QueueServed
  <1>2. Inv /\ QueueServed /\ [ThumbnailNext]_tvars => QueueServed'
        BY StepKeepsServed
  <1>3. Inv /\ QueueServed => ThumbnailsServed
        BY DEF Inv, WaitsOnce, ActiveLeft, WorkerFlag, QueueServed, ThumbnailsServed
  <1> QED BY <1>1, <1>2, <1>3, InvAlways, PTL DEF ThumbnailSpec
-----------------------------------------------------------------------------
\* Requests

LEMMA StepKeepsFresh ==
    ASSUME Inv, NoStaleRequest, [ThumbnailNext]_tvars
    PROVE  NoStaleRequest'
  <1>1. CASE \E s \in Source : EnqueueThumbnails(s)
    <2>1. PICK s \in Source : EnqueueThumbnails(s)
          BY <1>1
    <2>2. \A t : Waiting(t)' <=> Waiting(t) \/ t = s
          BY <2>1, Appended DEF EnqueueThumbnails, Known, Inv, ThumbnailTypeOK
    <2> QED BY <2>1, <2>2 DEF EnqueueThumbnails, Unrequested, cancellers, NoStaleRequest
  <1>2. CASE \E s, t \in Source : EnqueueBadBatch(s, t)
    <2>1. PICK s \in Source, t \in Source : EnqueueBadBatch(s, t)
          BY <1>2
    <2>2. \A v : Waiting(v)' <=> Waiting(v) \/ v = s
          BY <2>1, Appended DEF EnqueueBadBatch, Known, Inv, ThumbnailTypeOK
    <2> QED BY <2>1, <2>2 DEF EnqueueBadBatch, cancellers, NoStaleRequest
  <1>3. CASE \E c \in Canceller, s \in Source : CancelThumbnails(c, s)
    <2>1. PICK c \in Canceller, s \in Source : CancelThumbnails(c, s)
          BY <1>3
    <2>2. \A t : Waiting(t)' => Waiting(t) /\ t # s
          BY <2>1, Dropped DEF CancelThumbnails, Inv, ThumbnailTypeOK
    <2>3. /\ waits[c] = None
          /\ waits'[c] = s
          /\ \A e \in Canceller : e # c => waits'[e] = waits[e]
          /\ None \notin Source
          BY <2>1, ThumbnailAssumption
          DEF CancelThumbnails, Inv, ThumbnailTypeOK, ThumbnailAssumption
    <2>4. ASSUME NEW t \in cancel_requested'
          PROVE  ~Waiting(t)' /\ (active' = t \/ \E e \in Canceller : waits'[e] = t)
      <3>1. CASE t = s
            BY <3>1, <2>2, <2>3
      <3>2. CASE t # s
            BY <2>1, <2>2, <2>3, <2>4, <3>2
            DEF CancelThumbnails, NoStaleRequest, Inv, ThumbnailTypeOK
      <3> QED BY <3>1, <3>2
    <2> QED BY <2>4 DEF NoStaleRequest
  <1>4. CASE TakeJob
    <2>1. \A t : Waiting(t)' => Waiting(t) /\ t # Head(queued)
          BY <1>4, Taken DEF TakeJob, Inv, ThumbnailTypeOK
    <2>2. active = None /\ None \notin cancel_requested
          BY <1>4, ThumbnailAssumption
          DEF TakeJob, Inv, ThumbnailTypeOK, ThumbnailAssumption
    <2> QED BY <1>4, <2>1, <2>2 DEF TakeJob, cancellers, NoStaleRequest
  <1>5. CASE \E c \in Canceller : CancellerStep(c)
    <2>1. PICK c \in Canceller : CancellerStep(c)
          BY <1>5
    <2>2. CASE FindGone(c)
          BY <2>2 DEF FindGone, queue, Waiting, NoStaleRequest
    <2>3. CASE ClearRequest(c)
          BY <2>3 DEF ClearRequest, queue, Waiting, NoStaleRequest, Inv, ThumbnailTypeOK
    <2>4. CASE GiveUpWaiting(c)
          BY <2>4 DEF GiveUpWaiting, queue, Waiting, NoStaleRequest, Inv, ThumbnailTypeOK
    <2> QED BY <2>1, <2>2, <2>3, <2>4 DEF CancellerStep
  <1>6. CASE CloseJob
        BY <1>6 DEF CloseJob, Unrequested, cancellers, Waiting, NoStaleRequest
  <1>7. CASE \E s \in Source : EnqueueKnown(s) \/ EnqueueMissing(s)
        BY <1>7 DEF EnqueueKnown, EnqueueMissing, Unrequested, queue, cancellers, Waiting,
                    NoStaleRequest
  <1>8. CASE \/ \E g \in Generator : GeneratorStep(g)
             \/ StopWorker \/ BeginJob \/ ListFails \/ ListFiles \/ Join
             \/ UNCHANGED tvars
    <2>1. UNCHANGED <<queued, active, cancel_requested, waits>>
          BY <1>8 DEF GeneratorStep, Look, TakeFile, MakeThumbnail, StopWorker, BeginJob,
                      ListFails, ListFiles, Join, queue, cancellers, tvars
    <2> QED BY <2>1 DEF Waiting, NoStaleRequest
  <1> QED BY <1>1, <1>2, <1>3, <1>4, <1>5, <1>6, <1>7, <1>8
          DEF ThumbnailNext, EnqueueCall, ThumbnailRun, ThumbnailWorkerStep

\* A request to stop names a job being worked on or a profile some thread waits
\* for, never a job that waits: a profile enqueued again is not stopped by an
\* earlier cancellation, even when a wait was given up.
THEOREM RequestsFresh == ThumbnailSpec => []NoStaleRequest
  <1>1. ThumbnailInit => NoStaleRequest
        BY DEF ThumbnailInit, NoStaleRequest
  <1>2. Inv /\ NoStaleRequest /\ [ThumbnailNext]_tvars => NoStaleRequest'
        BY StepKeepsFresh
  <1> QED BY <1>1, <1>2, InvAlways, PTL DEF ThumbnailSpec

LEMMA StepKeepsAwaited ==
    ASSUME ~TimeOuts, Inv, NoStaleRequest, RequestAwaited, [ThumbnailNext]_tvars
    PROVE  RequestAwaited'
  <1> SUFFICES ASSUME active' # None, active' \in cancel_requested'
               PROVE  \E e \in Canceller \ clearing' : waits'[e] = active'
      BY DEF RequestAwaited
  <1>1. CASE TakeJob
    <2>1. Waiting(Head(queued))
          BY <1>1, Taken DEF TakeJob, Inv, ThumbnailTypeOK
    <2> QED BY <1>1, <2>1 DEF TakeJob, NoStaleRequest
  <1>2. CASE CloseJob
        BY <1>2 DEF CloseJob
  <1>3. CASE \E c \in Canceller, s \in Source : CancelThumbnails(c, s)
    <2>1. PICK c \in Canceller, s \in Source : CancelThumbnails(c, s)
          BY <1>3
    <2>2. c \notin clearing /\ waits'[c] = s
          BY <2>1 DEF CancelThumbnails, Inv, ClearingWaits, ThumbnailTypeOK
    <2>3. CASE active = s
          BY <2>1, <2>2, <2>3 DEF CancelThumbnails
    <2>4. CASE active # s
      <3>1. PICK e \in Canceller \ clearing : waits[e] = active
            BY <2>1, <2>4 DEF CancelThumbnails, RequestAwaited
      <3>2. e # c
            BY <2>1, <3>1 DEF CancelThumbnails
      <3> QED BY <2>1, <3>1, <3>2 DEF CancelThumbnails, Inv, ThumbnailTypeOK
    <2> QED BY <2>3, <2>4
  <1>4. CASE \E c \in Canceller : CancellerStep(c)
    <2>1. PICK c \in Canceller : CancellerStep(c)
          BY <1>4
    <2>2. active' = active /\ active \in cancel_requested
          BY <2>1 DEF CancellerStep, FindGone, ClearRequest, GiveUpWaiting, queue
    <2>3. PICK e \in Canceller \ clearing : waits[e] = active
          BY <2>2 DEF RequestAwaited
    <2>4. CASE FindGone(c)
          BY <2>2, <2>3, <2>4 DEF FindGone
    <2>5. CASE ClearRequest(c)
      <3>1. e # c
            BY <2>3, <2>5 DEF ClearRequest
      <3> QED BY <2>2, <2>3, <2>5, <3>1 DEF ClearRequest, Inv, ThumbnailTypeOK
    <2>6. CASE GiveUpWaiting(c)
          BY <2>6 DEF GiveUpWaiting
    <2> QED BY <2>1, <2>4, <2>5, <2>6 DEF CancellerStep
  <1>5. CASE \/ EnqueueCall
             \/ \E g \in Generator : GeneratorStep(g)
             \/ StopWorker \/ BeginJob \/ ListFails \/ ListFiles \/ Join
             \/ UNCHANGED tvars
    <2>1. /\ active' = active
          /\ cancel_requested' \subseteq cancel_requested
          /\ UNCHANGED <<waits, clearing>>
          BY <1>5 DEF EnqueueCall, EnqueueThumbnails, EnqueueKnown, EnqueueMissing,
                      EnqueueBadBatch, Unrequested, GeneratorStep, Look, TakeFile,
                      MakeThumbnail, StopWorker, BeginJob, ListFails, ListFiles, Join, queue,
                      cancellers, tvars
    <2> QED BY <2>1 DEF RequestAwaited
  <1> QED BY <1>1, <1>2, <1>3, <1>4, <1>5 DEF ThumbnailNext, ThumbnailRun, ThumbnailWorkerStep

LEMMA StepKeepsRequest ==
    ASSUME Inv, RequestAwaited, [ThumbnailNext]_tvars
    PROVE  KeepsRequest
  <1> SUFFICES ASSUME active # None, active' = active, active \in cancel_requested,
                      active \notin cancel_requested'
               PROVE  \E c, e \in Canceller : c # e /\ waits[c] = active /\ waits[e] = active
      BY DEF KeepsRequest
  <1>1. PICK e \in Canceller \ clearing : waits[e] = active
        BY DEF RequestAwaited
  <1>2. CASE \E c \in Canceller : ClearRequest(c)
        BY <1>1, <1>2 DEF ClearRequest
  <1>3. CASE EnqueueCall
        BY <1>3 DEF EnqueueCall, EnqueueThumbnails, EnqueueKnown, EnqueueMissing,
                    EnqueueBadBatch, Unrequested, Known
  <1>4. CASE \E c \in Canceller, s \in Source : CancelThumbnails(c, s)
        BY <1>4 DEF CancelThumbnails
  <1>5. CASE CloseJob
        BY <1>5 DEF CloseJob
  <1>6. CASE \/ \E c \in Canceller : FindGone(c) \/ GiveUpWaiting(c)
             \/ \E g \in Generator : GeneratorStep(g)
             \/ TakeJob \/ StopWorker \/ BeginJob \/ ListFails \/ ListFiles \/ Join
             \/ UNCHANGED tvars
        BY <1>6 DEF FindGone, GiveUpWaiting, GeneratorStep, Look, TakeFile, MakeThumbnail,
                    TakeJob, StopWorker, BeginJob, ListFails, ListFiles, Join, tvars
  <1> QED BY <1>2, <1>3, <1>4, <1>5, <1>6
          DEF ThumbnailNext, CancellerStep, ThumbnailRun, ThumbnailWorkerStep

\* While a job is worked on nothing but its end takes back a request to stop it,
\* unless two threads cancel the same profile, provided no wait is given up.
THEOREM RequestsKept ==
    ASSUME ~TimeOuts
    PROVE  ThumbnailSpec => [][KeepsRequest]_tvars
  <1>1. ThumbnailInit => RequestAwaited
        BY DEF ThumbnailInit, RequestAwaited
  <1>2. Inv /\ NoStaleRequest /\ RequestAwaited /\ [ThumbnailNext]_tvars => RequestAwaited'
        BY StepKeepsAwaited
  <1>3. Inv /\ RequestAwaited /\ [ThumbnailNext]_tvars => [KeepsRequest]_tvars
        BY StepKeepsRequest
  <1> QED BY <1>1, <1>2, <1>3, InvAlways, RequestsFresh, PTL DEF ThumbnailSpec

-----------------------------------------------------------------------------
(***************************************************************************)
(* The deletion of profiles.                                               *)
(***************************************************************************)

\* Types, without those of the thumbnail queue.

LaneTypes ==
    /\ Sync!LanesTypeOK
    /\ sync_stage \in [Provider -> {"none", "started", "syncing", "synced", "settling"}]
    /\ wanted \in [Provider -> SUBSET File]
    /\ saved \in [Provider -> SUBSET File]

LibraryTypes ==
    /\ profile \in [Source -> {"live", "hidden", "gone"}]
    /\ media \in [Source -> SUBSET File]
    /\ ledger \in [Source -> SUBSET File]
    /\ moving \subseteq Source

Steps == {"idle", "loop", "check", "withdraw", "wait", "thumbs", "release",
          "hide", "wipe", "purge", "image", "row", "close"}

DeletionTypes ==
    /\ delete_queue \in Seq(Job)
    /\ delete_worker \in BOOLEAN
    /\ step \in [Canceller -> Steps]
    /\ doing \in [Canceller -> Job \cup {None}]
    /\ \A c \in Canceller : doing[c] = None <=> step[c] \in {"idle", "loop"}

\* A lane has a stage while it has a run.
RunStage == \A p \in Provider : sync_stage[p] = "none" <=> sync_running[p] = None

DeleterFlag == delete_worker <=> step[Deleter] # "idle"

DeleteInv == Inv /\ LaneTypes /\ RunStage /\ LibraryTypes /\ DeletionTypes /\ DeleterFlag

LEMMA LaneRuns ==
    ASSUME LaneTypes, RunStage, NEW p \in Provider, sync_stage[p] # "none"
    PROVE  sync_running[p] \in Source
  BY DEF LaneTypes, RunStage, Sync!LanesTypeOK

LEMMA DeletesJob ==
    ASSUME DeletionTypes, NEW c \in Canceller, step[c] \notin {"idle", "loop"}
    PROVE  /\ doing[c] \in Job
           /\ doing[c].source \in Source
  <1>1. doing[c] \in Job
        BY DEF DeletionTypes
  <1>2. \A j \in Job : j.source \in Source
        BY DEF Job
  <1> QED BY <1>1, <1>2
-----------------------------------------------------------------------------
\* The composition leaves the thumbnail queue to its own actions, so what holds
\* of that queue holds here.

LEMMA DeleteStepLeavesThumbnails ==
    ASSUME DeleteInv, NEW c \in Canceller, DeleteStep(c) \/ FailDelete(c)
    PROVE  [ThumbnailNext]_tvars
  <1>1. CASE AskThumbnails(c)
    <2>1. doing[c].source \in Source
          BY <1>1, DeletesJob DEF AskThumbnails, DeleteInv
    <2>2. CancelThumbnails(c, doing[c].source)
          BY <1>1 DEF AskThumbnails
    <2> QED BY <2>1, <2>2 DEF ThumbnailNext
  <1>2. CASE AwaitThumbnails(c)
        BY <1>2 DEF AwaitThumbnails, ThumbnailNext
  <1>3. CASE CheckSync(c) \/ WithdrawSync(c) \/ AwaitSync(c) \/ Prepare(c) \/ Hide(c)
        BY <1>3 DEF CheckSync, WithdrawSync, AwaitSync, Prepare, Hide
  <1>4. CASE \/ \E f \in File : WipeFile(c, f)
             \/ EndWipe(c) \/ PurgeLedger(c) \/ RemoveImages(c) \/ DeleteRow(c)
             \/ FailDelete(c) \/ CloseDelete(c)
        BY <1>4 DEF WipeFile, EndWipe, PurgeLedger, RemoveImages, DeleteRow, FailDelete,
                    CloseDelete
  <1> QED BY <1>1, <1>2, <1>3, <1>4 DEF DeleteStep

LEMMA SyncStepLeavesThumbnails ==
    ASSUME DeleteInv, NEW p \in Provider, SyncStep(p) \/ HoldSync(p)
    PROVE  [ThumbnailNext]_tvars
  <1>1. CASE Announce(p)
    <2>1. sync_running[p] \in Source
          BY <1>1, LaneRuns DEF Announce, DeleteInv
    <2>2. \/ EnqueueThumbnails(sync_running[p])
          \/ EnqueueKnown(sync_running[p])
          \/ EnqueueMissing(sync_running[p])
          \/ UNCHANGED tvars
          BY <1>1 DEF Announce
    <2> QED BY <2>1, <2>2 DEF ThumbnailNext, EnqueueCall
  <1>2. CASE \E s \in Source : StartSync(p, s)
        BY <1>2 DEF StartSync
  <1>3. CASE LoadProfile(p) \/ EndSync(p) \/ \E f \in File : SaveFile(p, f)
        BY <1>3 DEF LoadProfile, EndSync, SaveFile
  <1>4. CASE FinishSync(p) \/ HoldSync(p)
        BY <1>4 DEF FinishSync, HoldSync, LeaveLane
  <1> QED BY <1>1, <1>2, <1>3, <1>4 DEF SyncStep

LEMMA StepIsThumbnailStep ==
    ASSUME DeleteInv, [DeleteNext]_dvars
    PROVE  [ThumbnailNext]_tvars
  <1>1. CASE Call
    <2>1. CASE \E s \in Source : RequestSync(s) \/ StartMove(s)
          BY <2>1 DEF RequestSync, StartMove
    <2>2. CASE \E s \in Source : RequestThumbnails(s)
          BY <2>2 DEF RequestThumbnails, ThumbnailNext, EnqueueCall
    <2>3. CASE \E s, t \in Source : RequestBadBatch(s, t)
          BY <2>3 DEF RequestBadBatch, ThumbnailNext, EnqueueCall
    <2>4. CASE \E s \in Source, mode \in {"UserOnly", "WithMedia"} :
                    EnqueueDelete(s, mode) \/ \E c \in Canceller : DeleteNow(c, s, mode)
          BY <2>4 DEF EnqueueDelete, DeleteNow
    <2> QED BY <1>1, <2>1, <2>2, <2>3, <2>4 DEF Call
  <1>2. CASE \E p \in Provider : SyncStep(p) \/ HoldSync(p)
        BY <1>2, SyncStepLeavesThumbnails
  <1>3. CASE \E s \in Source : EndMove(s)
        BY <1>3 DEF EndMove
  <1>4. CASE RunThumbnails
        BY <1>4 DEF RunThumbnails, ThumbnailNext
  <1>5. CASE TakeDelete \/ StopDeleter
        BY <1>5 DEF TakeDelete, StopDeleter
  <1>6. CASE \E c \in Canceller : DeleteStep(c) \/ FailDelete(c)
        BY <1>6, DeleteStepLeavesThumbnails
  <1>7. CASE UNCHANGED dvars
        BY <1>7 DEF dvars
  <1> QED BY <1>1, <1>2, <1>3, <1>4, <1>5, <1>6, <1>7, DeleteAssumption
          DEF DeleteNext, DeleterStep, DeleteAssumption
-----------------------------------------------------------------------------
\* Types hold in every state.

LEMMA DeleteInvInit ==
    DeleteInit => DeleteInv
  <1> SUFFICES ASSUME DeleteInit
               PROVE  DeleteInv
      OBVIOUS
  <1>1. Inv
        BY InvInit DEF DeleteInit
  <1>2. LaneTypes /\ RunStage
        BY DEF DeleteInit, LaneTypes, RunStage, Sync!Init, Sync!LanesTypeOK
  <1>3. LibraryTypes
        BY DEF DeleteInit, LibraryTypes
  <1>4. DeletionTypes
    <2>1. delete_queue \in Seq(Job)
          BY DEF DeleteInit
    <2>2. /\ delete_worker \in BOOLEAN
          /\ step \in [Canceller -> Steps]
          /\ doing \in [Canceller -> Job \cup {None}]
          /\ \A c \in Canceller : doing[c] = None <=> step[c] \in {"idle", "loop"}
          BY DEF DeleteInit, Steps
    <2> QED BY <2>1, <2>2 DEF DeletionTypes
  <1>5. DeleterFlag
        BY DeleteAssumption DEF DeleteInit, DeleterFlag, DeleteAssumption
  <1> QED BY <1>1, <1>2, <1>3, <1>4, <1>5 DEF DeleteInv

LEMMA SyncStepKeepsTypes ==
    ASSUME DeleteInv, NEW p \in Provider, SyncStep(p) \/ HoldSync(p)
    PROVE  LaneTypes' /\ RunStage' /\ LibraryTypes' /\ DeletionTypes'
  <1> USE DEF DeleteInv
  <1>1. DeletionTypes'
        BY DEF SyncStep, StartSync, LoadProfile, SaveFile, EndSync, Announce, FinishSync, HoldSync,
               LeaveLane, deletions, DeletionTypes
  <1>2. CASE \E s \in Source : StartSync(p, s)
    <2>1. PICK s \in Source : StartSync(p, s)
          BY <1>2
    <2>2. LibraryTypes'
          BY <2>1 DEF StartSync, library, LibraryTypes
    <2>3. s # None
          BY ThumbnailAssumption DEF ThumbnailAssumption
    <2>4. LaneTypes' /\ RunStage'
          BY <2>1, <2>3 DEF StartSync, LaneTypes, RunStage, Sync!Start, Sync!LanesTypeOK
    <2> QED BY <1>1, <2>2, <2>4
  <1>3. CASE LoadProfile(p)
    <2>1. LibraryTypes'
          BY <1>3 DEF LoadProfile, library, LibraryTypes
    <2>2. LaneTypes' /\ RunStage'
          BY <1>3 DEF LoadProfile, lanes, LaneTypes, RunStage, Sync!LanesTypeOK
    <2> QED BY <1>1, <2>1, <2>2
  <1>4. CASE \E f \in File : SaveFile(p, f)
    <2>1. sync_running[p] \in Source
          BY <1>4, LaneRuns DEF SaveFile
    <2>2. LibraryTypes'
          BY <1>4, <2>1 DEF SaveFile, LibraryTypes
    <2>3. LaneTypes' /\ RunStage'
          BY <1>4 DEF SaveFile, lanes, LaneTypes, RunStage, Sync!LanesTypeOK
    <2> QED BY <1>1, <2>2, <2>3
  <1>5. CASE EndSync(p)
    <2>1. sync_running[p] \in Source
          BY <1>5, LaneRuns DEF EndSync
    <2>2. saved[p] \subseteq File
          BY DEF LaneTypes
    <2>3. LibraryTypes'
          BY <1>5, <2>1, <2>2 DEF EndSync, LibraryTypes
    <2>4. /\ UNCHANGED lanes
          /\ wanted' \in [Provider -> SUBSET File]
          /\ saved' \in [Provider -> SUBSET File]
          BY <1>5 DEF EndSync, LaneTypes
    <2>5. /\ sync_stage[p] # "none"
          /\ \E next \in {"synced", "settling"} : sync_stage' = [sync_stage EXCEPT ![p] = next]
          BY <1>5 DEF EndSync
    <2>6. LaneTypes' /\ RunStage'
          BY <2>4, <2>5 DEF lanes, LaneTypes, RunStage, Sync!LanesTypeOK
    <2> QED BY <1>1, <2>3, <2>6
  <1>6. CASE Announce(p)
    <2>1. LibraryTypes'
          BY <1>6 DEF Announce, library, LibraryTypes
    <2>2. LaneTypes' /\ RunStage'
          BY <1>6 DEF Announce, lanes, LaneTypes, RunStage, Sync!LanesTypeOK
    <2> QED BY <1>1, <2>1, <2>2
  <1>7. CASE FinishSync(p) \/ HoldSync(p)
    <2>1. LibraryTypes'
          BY <1>7 DEF FinishSync, HoldSync, LeaveLane, library, LibraryTypes
    <2>2. sync_running[p] \in Source
          BY <1>7, LaneRuns DEF FinishSync, HoldSync, LeaveLane
    <2>3. LaneTypes' /\ RunStage'
          BY <1>7, <2>2
          DEF FinishSync, HoldSync, LeaveLane, LaneTypes, RunStage, Sync!Finish, Sync!GiveBack,
              Sync!LanesTypeOK
    <2> QED BY <1>1, <2>1, <2>3
  <1> QED BY <1>2, <1>3, <1>4, <1>5, <1>6, <1>7 DEF SyncStep

LEMMA DeleteStepKeepsTypes ==
    ASSUME DeleteInv, NEW c \in Canceller, DeleteStep(c) \/ FailDelete(c)
    PROVE  LaneTypes' /\ RunStage' /\ LibraryTypes' /\ DeletionTypes'
  <1> USE DEF DeleteInv
  <1>1. CASE WithdrawSync(c)
    <2>1. LibraryTypes'
          BY <1>1 DEF WithdrawSync, library, LibraryTypes
    <2>2. LaneTypes' /\ RunStage'
          BY <1>1 DEF WithdrawSync, LaneTypes, RunStage, Sync!Withdraw, Sync!LanesTypeOK
    <2>3. DeletionTypes'
          BY <1>1 DEF WithdrawSync, Goto, DeletionTypes, Steps
    <2> QED BY <2>1, <2>2, <2>3
  <1>2. ASSUME ~WithdrawSync(c)
        PROVE  LaneTypes' /\ RunStage'
    <2>1. UNCHANGED runs
          BY <1>2 DEF DeleteStep, CheckSync, AwaitSync, AskThumbnails, AwaitThumbnails, Prepare,
                      Hide, WipeFile, EndWipe, PurgeLedger, RemoveImages, DeleteRow, FailDelete,
                      CloseDelete
    <2> QED BY <2>1 DEF runs, lanes, LaneTypes, RunStage, Sync!LanesTypeOK
  <1>3. CASE CheckSync(c) \/ AwaitSync(c) \/ AskThumbnails(c) \/ Prepare(c)
    <2>1. LibraryTypes'
          BY <1>3 DEF CheckSync, AwaitSync, AskThumbnails, Prepare, library, LibraryTypes
    <2>2. DeletionTypes'
          BY <1>3 DEF CheckSync, AwaitSync, AskThumbnails, Prepare, Goto, DeletionTypes, Steps
    <2> QED BY <1>1, <1>2, <2>1, <2>2
  <1>4. CASE AwaitThumbnails(c)
        BY <1>1, <1>2, <1>4
        DEF AwaitThumbnails, deletions, library, DeletionTypes, LibraryTypes
  <1>5. CASE Hide(c) \/ DeleteRow(c)
    <2>1. doing[c].source \in Source
          BY <1>5, DeletesJob DEF Hide, DeleteRow
    <2>2. LibraryTypes'
          BY <1>5, <2>1 DEF Hide, DeleteRow, LibraryTypes
    <2>3. DeletionTypes'
          BY <1>5 DEF Hide, DeleteRow, Goto, DeletionTypes, Steps
    <2> QED BY <1>1, <1>2, <2>2, <2>3
  <1>6. CASE \E f \in File : WipeFile(c, f)
    <2>1. doing[c].source \in Source
          BY <1>6, DeletesJob DEF WipeFile
    <2>2. LibraryTypes'
          BY <1>6, <2>1 DEF WipeFile, LibraryTypes
    <2>3. DeletionTypes'
          BY <1>6 DEF WipeFile, deletions, DeletionTypes
    <2> QED BY <1>1, <1>2, <2>2, <2>3
  <1>7. CASE PurgeLedger(c)
    <2>1. doing[c].source \in Source
          BY <1>7, DeletesJob DEF PurgeLedger
    <2>2. LibraryTypes'
          BY <1>7, <2>1 DEF PurgeLedger, Purged, LibraryTypes
    <2>3. DeletionTypes'
          BY <1>7 DEF PurgeLedger, Goto, DeletionTypes, Steps
    <2> QED BY <1>1, <1>2, <2>2, <2>3
  <1>8. CASE EndWipe(c) \/ RemoveImages(c) \/ FailDelete(c) \/ CloseDelete(c)
    <2>1. LibraryTypes'
          BY <1>8 DEF EndWipe, RemoveImages, FailDelete, CloseDelete, library, LibraryTypes
    <2>2. DeletionTypes'
          BY <1>8 DEF EndWipe, RemoveImages, FailDelete, CloseDelete, Goto, DeletionTypes, Steps
    <2> QED BY <1>1, <1>2, <2>1, <2>2
  <1> QED BY <1>1, <1>3, <1>4, <1>5, <1>6, <1>7, <1>8 DEF DeleteStep

LEMMA CallKeepsTypes ==
    ASSUME DeleteInv, Call
    PROVE  LaneTypes' /\ RunStage' /\ LibraryTypes' /\ DeletionTypes'
  <1> USE DEF DeleteInv
  <1>1. CASE \E s \in Source : RequestSync(s)
    <2>1. LaneTypes' /\ RunStage'
          BY <1>1 DEF RequestSync, LaneTypes, RunStage, Sync!Submit, Sync!LanesTypeOK
    <2> QED BY <1>1, <2>1 DEF RequestSync, deletions, library, DeletionTypes, LibraryTypes
  <1>2. CASE \E s \in Source : StartMove(s)
    <2>1. LaneTypes' /\ RunStage'
          BY <1>2 DEF StartMove, runs, lanes, LaneTypes, RunStage, Sync!LanesTypeOK
    <2> QED BY <1>2, <2>1 DEF StartMove, deletions, library, DeletionTypes, LibraryTypes
  <1>3. CASE \/ \E s \in Source : RequestThumbnails(s)
             \/ \E s, t \in Source : RequestBadBatch(s, t)
    <2>1. UNCHANGED <<runs, deletions, library, moving>>
          BY <1>3 DEF RequestThumbnails, RequestBadBatch
    <2>2. LaneTypes' /\ RunStage'
          BY <2>1 DEF runs, lanes, LaneTypes, RunStage, Sync!LanesTypeOK
    <2> QED BY <2>1, <2>2 DEF deletions, library, DeletionTypes, LibraryTypes
  <1>4. CASE \E s \in Source, mode \in {"UserOnly", "WithMedia"} :
                EnqueueDelete(s, mode) \/ \E c \in Canceller : DeleteNow(c, s, mode)
    <2>1. PICK s \in Source, mode \in {"UserOnly", "WithMedia"} :
                EnqueueDelete(s, mode) \/ \E c \in Canceller : DeleteNow(c, s, mode)
          BY <1>4
    <2>2. UNCHANGED <<runs, library, moving>>
          BY <2>1 DEF EnqueueDelete, DeleteNow
    <2>3. LaneTypes' /\ RunStage'
          BY <2>2 DEF runs, lanes, LaneTypes, RunStage, Sync!LanesTypeOK
    <2>4. [source |-> s, mode |-> mode] \in Job /\ [source |-> s, mode |-> mode] # None
          BY DeleteAssumption DEF Job, DeleteAssumption
    <2>5. DeletionTypes'
      <3>1. CASE EnqueueDelete(s, mode)
        <4>1. delete_queue' \in Seq(Job)
              BY <2>4, <3>1 DEF EnqueueDelete, DeletionTypes
        <4>2. /\ delete_worker' \in BOOLEAN
              /\ doing' = doing
              /\ step' \in [Canceller -> Steps]
              BY <3>1 DEF EnqueueDelete, DeletionTypes, Steps
        <4>3. \A c \in Canceller : doing'[c] = None <=> step'[c] \in {"idle", "loop"}
          <5>1. CASE delete_worker
                BY <3>1, <5>1 DEF EnqueueDelete, DeletionTypes
          <5>2. CASE ~delete_worker
            <6>1. doing[Deleter] = None
                  BY <5>2, DeleteAssumption DEF DeleterFlag, DeletionTypes, DeleteAssumption
            <6> QED BY <3>1, <5>2, <6>1 DEF EnqueueDelete, DeletionTypes
          <5> QED BY <5>1, <5>2
        <4> QED BY <4>1, <4>2, <4>3 DEF DeletionTypes
      <3>2. CASE \E c \in Canceller : DeleteNow(c, s, mode)
            BY <2>4, <3>2 DEF DeleteNow, DeletionTypes, Steps
      <3> QED BY <2>1, <3>1, <3>2
    <2> QED BY <2>2, <2>3, <2>5 DEF library, LibraryTypes
  <1> QED BY <1>1, <1>2, <1>3, <1>4 DEF Call

LEMMA WorkerKeepsTypes ==
    ASSUME DeleteInv, TakeDelete \/ StopDeleter
    PROVE  LaneTypes' /\ RunStage' /\ LibraryTypes' /\ DeletionTypes'
  <1> USE DEF DeleteInv
  <1>1. UNCHANGED <<runs, library, moving>>
        BY DEF TakeDelete, StopDeleter
  <1>2. LaneTypes' /\ RunStage' /\ LibraryTypes'
        BY <1>1 DEF runs, lanes, library, LaneTypes, RunStage, LibraryTypes, Sync!LanesTypeOK
  <1>3. CASE TakeDelete
    <2>1. /\ Head(delete_queue) \in Job
          /\ delete_queue' \in Seq(Job)
          BY <1>3 DEF TakeDelete, DeletionTypes
    <2>2. Head(delete_queue) # None
          BY <2>1, DeleteAssumption DEF DeleteAssumption
    <2>3. DeletionTypes'
          BY <1>3, <2>1, <2>2, DeleteAssumption
          DEF TakeDelete, Goto, DeletionTypes, Steps, DeleteAssumption
    <2> QED BY <1>2, <2>3
  <1>4. CASE StopDeleter
        BY <1>2, <1>4, DeleteAssumption
        DEF StopDeleter, Goto, DeletionTypes, Steps, DeleteAssumption
  <1> QED BY <1>3, <1>4

LEMMA StepKeepsFlag ==
    ASSUME DeleteInv, [DeleteNext]_dvars
    PROVE  DeleterFlag'
  <1> USE DEF DeleteInv
  <1>1. CASE Call
    <2>1. CASE \E s \in Source, mode \in {"UserOnly", "WithMedia"} : EnqueueDelete(s, mode)
          BY <2>1, DeleteAssumption
          DEF EnqueueDelete, DeleterFlag, DeletionTypes, Steps, DeleteAssumption
    <2>2. CASE \E s \in Source, mode \in {"UserOnly", "WithMedia"}, c \in Canceller :
                    DeleteNow(c, s, mode)
          BY <2>2, DeleteAssumption DEF DeleteNow, DeleterFlag, DeletionTypes, DeleteAssumption
    <2>3. CASE \/ \E s \in Source : RequestSync(s) \/ StartMove(s) \/ RequestThumbnails(s)
               \/ \E s, t \in Source : RequestBadBatch(s, t)
          BY <2>3 DEF RequestSync, StartMove, RequestThumbnails, RequestBadBatch, deletions,
                      DeleterFlag
    <2> QED BY <1>1, <2>1, <2>2, <2>3 DEF Call
  <1>2. CASE TakeDelete \/ StopDeleter
        BY <1>2, DeleteAssumption
        DEF TakeDelete, StopDeleter, Goto, DeleterFlag, DeletionTypes, DeleteAssumption
  <1>3. CASE \E c \in Canceller : DeleteStep(c) \/ FailDelete(c)
    <2>1. PICK c \in Canceller : DeleteStep(c) \/ FailDelete(c)
          BY <1>3
    <2>2. delete_worker' = delete_worker
          BY <2>1 DEF DeleteStep, CheckSync, WithdrawSync, AwaitSync, AskThumbnails,
                      AwaitThumbnails, Prepare, Hide, WipeFile, EndWipe, PurgeLedger,
                      RemoveImages, DeleteRow, FailDelete, CloseDelete, deletions
    <2>3. \/ step' = step
          \/ /\ step[c] # "idle"
             /\ \E next \in Steps : step' = [step EXCEPT ![c] = next]
             /\ c = Deleter => step'[c] # "idle"
      <3>1. CASE CloseDelete(c)
            BY <3>1 DEF CloseDelete, Goto, Steps, DeletionTypes
      <3>2. CASE AwaitThumbnails(c) \/ \E f \in File : WipeFile(c, f)
            BY <3>2 DEF AwaitThumbnails, WipeFile, deletions
      <3>3. CASE CheckSync(c) \/ WithdrawSync(c) \/ AwaitSync(c) \/ AskThumbnails(c)
            BY <3>3 DEF CheckSync, WithdrawSync, AwaitSync, AskThumbnails, Goto, Steps,
                        DeletionTypes
      <3>4. CASE Prepare(c) \/ Hide(c) \/ EndWipe(c) \/ PurgeLedger(c) \/ RemoveImages(c)
                 \/ DeleteRow(c) \/ FailDelete(c)
            BY <3>4 DEF Prepare, Hide, EndWipe, PurgeLedger, RemoveImages, DeleteRow,
                        FailDelete, Goto, Steps, DeletionTypes
      <3> QED BY <2>1, <3>1, <3>2, <3>3, <3>4 DEF DeleteStep
    <2> QED BY <2>2, <2>3, DeleteAssumption DEF DeleterFlag, DeletionTypes, DeleteAssumption
  <1>4. CASE \/ \E p \in Provider : SyncStep(p) \/ HoldSync(p)
             \/ \E s \in Source : EndMove(s)
             \/ RunThumbnails
             \/ UNCHANGED dvars
        BY <1>4 DEF SyncStep, StartSync, LoadProfile, SaveFile, EndSync, Announce, FinishSync,
                    HoldSync, LeaveLane, EndMove, RunThumbnails, deletions, dvars, DeleterFlag
  <1> QED BY <1>1, <1>2, <1>3, <1>4, DeleteAssumption DEF DeleteNext, DeleterStep, DeleteAssumption

LEMMA StepKeepsDeleteInv ==
    ASSUME DeleteInv, [DeleteNext]_dvars
    PROVE  DeleteInv'
  <1>1. Inv'
        BY StepIsThumbnailStep, StepKeepsInv DEF DeleteInv
  <1>2. DeleterFlag'
        BY StepKeepsFlag
  <1>3. LaneTypes' /\ RunStage' /\ LibraryTypes' /\ DeletionTypes'
    <2>1. CASE Call
          BY <2>1, CallKeepsTypes
    <2>2. CASE \E p \in Provider : SyncStep(p) \/ HoldSync(p)
          BY <2>2, SyncStepKeepsTypes
    <2>3. CASE TakeDelete \/ StopDeleter
          BY <2>3, WorkerKeepsTypes
    <2>4. CASE \E c \in Canceller : DeleteStep(c) \/ FailDelete(c)
          BY <2>4, DeleteStepKeepsTypes
    <2>5. CASE (\E s \in Source : EndMove(s)) \/ RunThumbnails \/ UNCHANGED dvars
      <3>1. /\ UNCHANGED <<runs, deletions, library>>
            /\ moving' \subseteq moving
            BY <2>5 DEF EndMove, RunThumbnails, dvars
      <3> QED BY <3>1 DEF DeleteInv, runs, lanes, deletions, library, LaneTypes, RunStage,
                          LibraryTypes, DeletionTypes, Sync!LanesTypeOK
    <2> QED BY <2>1, <2>2, <2>3, <2>4, <2>5, DeleteAssumption
            DEF DeleteNext, DeleterStep, DeleteAssumption
  <1> QED BY <1>1, <1>2, <1>3 DEF DeleteInv

THEOREM DeleteInvAlways == DeleteSpec => []DeleteInv
  <1>1. DeleteInit => DeleteInv
        BY DeleteInvInit
  <1>2. DeleteInv /\ [DeleteNext]_dvars => DeleteInv'
        BY StepKeepsDeleteInv
  <1> QED BY <1>1, <1>2, PTL DEF DeleteSpec

\* Every variable of the composition keeps its type, and a deleting thread has a
\* deletion exactly between taking it and closing it.
THEOREM DeleteTypeCorrect == DeleteSpec => []DeleteTypeOK
  <1>1. DeleteInv => DeleteTypeOK
        BY DEF DeleteInv, Inv, LaneTypes, LibraryTypes, DeletionTypes, Steps, DeleteTypeOK
  <1> QED BY <1>1, DeleteInvAlways, PTL

\* Deletions, syncs and announcements use the thumbnail queue only through its
\* operations: the composition implements ThumbnailSpec.
THEOREM ThumbnailsRefined == DeleteSpec => ThumbnailSpec
  <1>1. DeleteInit => ThumbnailInit
        BY DEF DeleteInit
  <1>2. DeleteInv /\ [DeleteNext]_dvars => [ThumbnailNext]_tvars
        BY StepIsThumbnailStep
  <1> QED BY <1>1, <1>2, DeleteInvAlways, PTL DEF DeleteSpec, ThumbnailSpec

\* A thumbnail job asked for after a deletion gave up on its profile, or while a
\* sync announces its files, is never stopped by the old request.
THEOREM DeleteRequestsFresh == DeleteSpec => []NoStaleRequest
  BY ThumbnailsRefined, RequestsFresh, PTL
-----------------------------------------------------------------------------
\* The delete queue

DeleteOnce ==
    \A i, j \in DOMAIN delete_queue :
        delete_queue[i].source = delete_queue[j].source => i = j

DeleteLeft == doing[Deleter] # None => ~DeleteQueued(doing[Deleter].source)

DeletesHaveWorker == delete_queue # <<>> => delete_worker

QueueInv == DeleteOnce /\ DeleteLeft /\ DeletesHaveWorker

LEMMA EnqueueKeepsQueue ==
    ASSUME DeleteInv, QueueInv, NEW s \in Source, NEW mode \in {"UserOnly", "WithMedia"},
           EnqueueDelete(s, mode)
    PROVE  QueueInv'
  <1> USE DEF EnqueueDelete
  <1>1. CASE DeleteKnown(s)
        BY <1>1 DEF QueueInv, DeleteOnce, DeleteLeft, DeletesHaveWorker, DeleteQueued
  <1>2. CASE ~DeleteKnown(s)
    <2> DEFINE deletion == [source |-> s, mode |-> mode]
    <2>1. deletion \in Job /\ deletion.source = s
          BY DEF Job
    <2>2. delete_queue \in Seq(Job)
          BY DEF DeleteInv, DeletionTypes
    <2>3. delete_queue' = Append(delete_queue, deletion)
          BY <1>2
    <2> HIDE DEF deletion
    <2>4. /\ Len(delete_queue) \in Nat
          /\ DOMAIN delete_queue = 1..Len(delete_queue)
          /\ DOMAIN delete_queue' = 1..(Len(delete_queue) + 1)
          /\ \A i \in 1..Len(delete_queue) : delete_queue'[i] = delete_queue[i]
          /\ delete_queue'[Len(delete_queue) + 1] = deletion
          BY <2>1, <2>2, <2>3
    <2>5. \A i \in 1..Len(delete_queue) : delete_queue[i].source # s
          BY <1>2, <2>4 DEF DeleteKnown, DeleteQueued
    <2>6. DeleteOnce'
          BY <2>1, <2>4, <2>5 DEF QueueInv, DeleteOnce
    <2>7. \A t : DeleteQueued(t)' => DeleteQueued(t) \/ t = s
          BY <2>1, <2>4 DEF DeleteQueued
    <2>8. DeleteLeft'
          BY <1>2, <2>7 DEF QueueInv, DeleteLeft, DeleteKnown
    <2> QED BY <2>6, <2>8 DEF QueueInv, DeletesHaveWorker
  <1> QED BY <1>1, <1>2

LEMMA TakeKeepsQueue ==
    ASSUME DeleteInv, QueueInv, TakeDelete
    PROVE  QueueInv'
  <1>1. /\ delete_queue \in Seq(Job)
        /\ delete_queue # <<>>
        /\ delete_queue' = Tail(delete_queue)
        /\ doing'[Deleter] = Head(delete_queue)
        /\ delete_worker' = delete_worker
        BY DeleteAssumption DEF TakeDelete, DeleteInv, DeletionTypes, DeleteAssumption
  <1>2. /\ Len(delete_queue) \in Nat \ {0}
        /\ DOMAIN delete_queue = 1..Len(delete_queue)
        /\ DOMAIN delete_queue' = 1..(Len(delete_queue) - 1)
        /\ \A i \in 1..(Len(delete_queue) - 1) : delete_queue'[i] = delete_queue[i + 1]
        /\ Head(delete_queue) = delete_queue[1]
        BY <1>1
  <1>3. ASSUME NEW i \in 1..(Len(delete_queue) - 1), NEW j \in 1..(Len(delete_queue) - 1),
               delete_queue'[i].source = delete_queue'[j].source
        PROVE  i = j
    <2>1. /\ i + 1 \in DOMAIN delete_queue
          /\ j + 1 \in DOMAIN delete_queue
          /\ delete_queue[i + 1].source = delete_queue[j + 1].source
          BY <1>2, <1>3
    <2>2. i + 1 = j + 1
          BY <2>1 DEF QueueInv, DeleteOnce
    <2> QED BY <2>2
  <1>4. ASSUME NEW i \in 1..(Len(delete_queue) - 1),
               delete_queue'[i].source = Head(delete_queue).source
        PROVE  FALSE
    <2>1. /\ i + 1 \in DOMAIN delete_queue
          /\ 1 \in DOMAIN delete_queue
          /\ delete_queue[i + 1].source = delete_queue[1].source
          BY <1>2, <1>4
    <2>2. i + 1 = 1
          BY <2>1 DEF QueueInv, DeleteOnce
    <2> QED BY <2>2
  <1>5. DeleteOnce' /\ DeleteLeft'
        BY <1>1, <1>2, <1>3, <1>4 DEF DeleteOnce, DeleteLeft, DeleteQueued
  <1>6. DeletesHaveWorker'
        BY <1>1 DEF QueueInv, DeletesHaveWorker
  <1> QED BY <1>5, <1>6 DEF QueueInv

LEMMA StepKeepsQueue ==
    ASSUME DeleteInv, QueueInv, [DeleteNext]_dvars
    PROVE  QueueInv'
  <1>1. CASE \E s \in Source, mode \in {"UserOnly", "WithMedia"} : EnqueueDelete(s, mode)
        BY <1>1, EnqueueKeepsQueue
  <1>2. CASE TakeDelete
        BY <1>2, TakeKeepsQueue
  <1>3. CASE StopDeleter
        BY <1>3 DEF StopDeleter, QueueInv, DeleteOnce, DeleteLeft, DeletesHaveWorker, DeleteQueued
  <1>4. ASSUME UNCHANGED <<delete_queue, delete_worker>>,
               doing'[Deleter] \in {doing[Deleter], None}
        PROVE  QueueInv'
        BY <1>4 DEF QueueInv, DeleteOnce, DeleteLeft, DeletesHaveWorker, DeleteQueued
  <1>5. CASE \E c \in Canceller : DeleteStep(c) \/ FailDelete(c)
    <2>1. PICK c \in Canceller : DeleteStep(c) \/ FailDelete(c)
          BY <1>5
    <2>2. UNCHANGED <<delete_queue, delete_worker>>
          BY <2>1 DEF DeleteStep, CheckSync, WithdrawSync, AwaitSync, AskThumbnails,
                      AwaitThumbnails, Prepare, Hide, WipeFile, EndWipe, PurgeLedger,
                      RemoveImages, DeleteRow, FailDelete, CloseDelete, deletions
    <2>3. doing' = doing \/ doing' = [doing EXCEPT ![c] = None]
          BY <2>1 DEF DeleteStep, CheckSync, WithdrawSync, AwaitSync, AskThumbnails,
                      AwaitThumbnails, Prepare, Hide, WipeFile, EndWipe, PurgeLedger,
                      RemoveImages, DeleteRow, FailDelete, CloseDelete, deletions
    <2>4. doing'[Deleter] \in {doing[Deleter], None}
          BY <2>3, DeleteAssumption DEF DeleteInv, DeletionTypes, DeleteAssumption
    <2> QED BY <1>4, <2>2, <2>4
  <1>6. CASE \E s \in Source, mode \in {"UserOnly", "WithMedia"}, c \in Canceller :
                DeleteNow(c, s, mode)
    <2>1. UNCHANGED <<delete_queue, delete_worker>> /\ doing'[Deleter] = doing[Deleter]
          BY <1>6, DeleteAssumption DEF DeleteNow, DeleteInv, DeletionTypes, DeleteAssumption
    <2> QED BY <1>4, <2>1
  <1>7. CASE \/ \E s \in Source : RequestSync(s) \/ StartMove(s) \/ RequestThumbnails(s)
             \/ \E s, t \in Source : RequestBadBatch(s, t)
             \/ \E p \in Provider : SyncStep(p) \/ HoldSync(p)
             \/ \E s \in Source : EndMove(s)
             \/ RunThumbnails
             \/ UNCHANGED dvars
    <2>1. UNCHANGED deletions
          BY <1>7 DEF RequestSync, StartMove, RequestThumbnails, RequestBadBatch, SyncStep,
                      StartSync, LoadProfile, SaveFile, EndSync, Announce, FinishSync, HoldSync,
                      LeaveLane, EndMove, RunThumbnails, dvars
    <2> QED BY <1>4, <2>1 DEF deletions
  <1> QED BY <1>1, <1>2, <1>3, <1>5, <1>6, <1>7, DeleteAssumption
          DEF DeleteNext, Call, DeleterStep, DeleteAssumption

\* A profile waits for its deletion once, not while the worker deletes it, and a
\* waiting deletion has the worker, however calls and its exits interleave.
THEOREM DeletionsServed == DeleteSpec => []DeletesServed
  <1>1. DeleteInit => QueueInv
    <2> SUFFICES ASSUME DeleteInit
                 PROVE  QueueInv
        OBVIOUS
    <2>1. delete_queue = <<>> /\ doing[Deleter] = None
          BY DeleteAssumption DEF DeleteInit, DeleteAssumption
    <2> QED BY <2>1 DEF QueueInv, DeleteOnce, DeleteLeft, DeletesHaveWorker
  <1>2. DeleteInv /\ QueueInv /\ [DeleteNext]_dvars => QueueInv'
        BY StepKeepsQueue
  <1>3. DeleteInv /\ QueueInv => DeletesServed
        BY DEF DeleteInv, DeleterFlag, QueueInv, DeleteOnce, DeleteLeft, DeletesHaveWorker,
               DeletesServed
  <1> QED BY <1>1, <1>2, <1>3, DeleteInvAlways, PTL DEF DeleteSpec
-----------------------------------------------------------------------------
\* The steps while no slip has been made.

CarefulCall(s) ==
    /\ ~BeingDeleted(s)
    /\ \/ RequestSync(s) \/ StartMove(s) \/ RequestThumbnails(s)
       \/ \E mode \in {"UserOnly", "WithMedia"} :
            EnqueueDelete(s, mode) \/ \E c \in Canceller : DeleteNow(c, s, mode)

CarefulNext ==
    \/ \E s \in Source : CarefulCall(s)
    \/ \E p \in Provider : SyncStep(p) \/ HoldSync(p)
    \/ \E s \in Source : EndMove(s)
    \/ RunThumbnails
    \/ TakeDelete \/ StopDeleter
    \/ \E c \in Canceller : DeleteStep(c) /\ ~GiveUpWaiting(c)
    \/ UNCHANGED dvars

LEMMA MCStepIsStep ==
    ASSUME [MCNext]_mcvars
    PROVE  [DeleteNext]_dvars
  <1>1. CASE BoundedCall
    <2>1. Call
          BY <1>1 DEF BoundedCall, Call
    <2> QED BY <2>1 DEF DeleteNext
  <1>2. CASE BoundedHold
        BY <1>2 DEF BoundedHold, DeleteNext
  <1>3. CASE Unbounded
        BY <1>3 DEF Unbounded, DeleteNext
  <1>4. CASE DatabaseFails
        BY <1>4 DEF DatabaseFails, DeleteNext
  <1>5. CASE UNCHANGED mcvars
        BY <1>5 DEF mcvars
  <1> QED BY <1>1, <1>2, <1>3, <1>4, <1>5 DEF MCNext

LEMMA CarefulStep ==
    ASSUME DeleteInv, [MCNext]_mcvars, slips' = {}
    PROVE  slips = {} /\ CarefulNext
  <1>1. CASE BoundedCall
    <2>1. PICK s \in Source :
            \/ (RequestSync(s) \/ StartMove(s) \/ RequestThumbnails(s)) /\ Ask(s)
            \/ \E mode \in {"UserOnly", "WithMedia"} :
                /\ EnqueueDelete(s, mode) \/ \E c \in Canceller : DeleteNow(c, s, mode)
                /\ Ask(s)
            \/ \E t \in Source : RequestBadBatch(s, t) /\ Slip({"batch"})
          BY <1>1 DEF BoundedCall
    <2>2. ~Slip({"batch"})
          BY DEF Slip
    <2>3. Ask(s)
          BY <2>1, <2>2
    <2>4. slips = {} /\ ~BeingDeleted(s)
          BY <2>3 DEF Ask, Slip
    <2>5. \/ RequestSync(s) \/ StartMove(s) \/ RequestThumbnails(s)
          \/ \E mode \in {"UserOnly", "WithMedia"} :
                EnqueueDelete(s, mode) \/ \E c \in Canceller : DeleteNow(c, s, mode)
          BY <2>1, <2>2
    <2>6. CarefulCall(s)
          BY <2>4, <2>5 DEF CarefulCall
    <2> QED BY <2>4, <2>6 DEF CarefulNext
  <1>2. CASE BoundedHold
        BY <1>2 DEF BoundedHold, CarefulNext
  <1>3. CASE Unbounded
    <2>1. slips = {} /\ \A c \in Canceller : ~Impatient(c)
          BY <1>3 DEF Unbounded, Slip
    <2>2. \A c \in Canceller : ~GiveUpWaiting(c)
          BY <2>1 DEF GiveUpWaiting, Impatient, DeleteInv, Inv, ThumbnailTypeOK
    <2>3. \/ \E p \in Provider : SyncStep(p)
          \/ \E s \in Source : EndMove(s)
          \/ RunThumbnails
          \/ TakeDelete \/ StopDeleter
          \/ \E c \in Canceller : DeleteStep(c)
          BY <1>3, DeleteAssumption DEF Unbounded, DeleterStep, DeleteAssumption
    <2> QED BY <2>1, <2>2, <2>3 DEF CarefulNext
  <1>4. CASE DatabaseFails
        BY <1>4 DEF DatabaseFails, Slip
  <1>5. CASE UNCHANGED mcvars
        BY <1>5 DEF mcvars, budget, CarefulNext
  <1> QED BY <1>1, <1>2, <1>3, <1>4, <1>5 DEF MCNext
-----------------------------------------------------------------------------
\* The parts of the inductive invariant.

\* A profile has one deletion, and none more waiting.
OneDeleter ==
    \A c \in Canceller : doing[c] # None =>
        /\ \A e \in Canceller : doing[e] # None /\ doing[e].source = doing[c].source => e = c
        /\ ~DeleteQueued(doing[c].source)

NotMoved == \A s \in moving : ~BeingDeleted(s)

CancelledSync == {"thumbs", "release", "hide", "wipe", "purge", "image", "row"}

\* The sync of a profile is over when its thumbnails are cancelled, and stays so.
SyncOver == \A c \in Canceller : step[c] \in CancelledSync => ~SyncLive(doing[c].source)

CancelledThumbnails == CancelledSync \ {"thumbs"}

\* A deletion waits for the thumbnail job of its profile alone.
WaitsForOwn ==
    \A c \in Canceller : waits[c] # None => step[c] = "release" /\ waits[c] = doing[c].source

\* No thumbnail job of the profile waits once it is cancelled, and none runs once
\* the deletion has seen it gone.
ThumbnailsOver ==
    \A c \in Canceller : step[c] \in CancelledThumbnails =>
        /\ ~Waiting(doing[c].source)
        /\ waits[c] = None \/ c \in clearing => active # doing[c].source

\* What a run has saved is in the folder until the run records it.
SavedThere ==
    \A p \in Provider :
        /\ sync_stage[p] # "syncing" => saved[p] = {}
        /\ sync_running[p] # None => saved[p] \subseteq media[sync_running[p]]

FolderEmpty ==
    \A c \in Canceller : step[c] \in {"image", "row"} => media[doing[c].source] = {}

GoneLeft == \A s \in Source : profile[s] = "gone" => media[s] = {} /\ ~SyncLive(s)

CarefulInv ==
    /\ OneDeleter /\ NotMoved
    /\ SyncOver
    /\ WaitsForOwn /\ ThumbnailsOver
    /\ SavedThere /\ FolderEmpty /\ GoneLeft /\ LedgerMatches
-----------------------------------------------------------------------------
\* How one step moves each deleting thread.

OwnStep(c) ==
    \/ DeleteStep(c) /\ ~GiveUpWaiting(c)
    \/ \E s \in Source, mode \in {"UserOnly", "WithMedia"} :
            ~BeingDeleted(s) /\ DeleteNow(c, s, mode)
    \/ /\ step[c] \in {"idle", "loop"}
       /\ step'[c] \in {"idle", "loop", "check"}
       /\ UNCHANGED <<tvars, runs, library, moving>>

LEMMA DeleteStepIsOwn ==
    ASSUME DeleteInv, NEW c \in Canceller, NEW e \in Canceller, e # c, DeleteStep(e)
    PROVE  step'[c] = step[c] /\ doing'[c] = doing[c]
  <1> USE DEF DeleteInv, DeletionTypes
  <1>1. CASE CloseDelete(e)
        BY <1>1 DEF CloseDelete, Goto
  <1>2. CASE AwaitThumbnails(e) \/ \E f \in File : WipeFile(e, f)
        BY <1>2 DEF AwaitThumbnails, WipeFile, deletions
  <1>3. CASE CheckSync(e) \/ WithdrawSync(e) \/ AwaitSync(e) \/ AskThumbnails(e)
        BY <1>3 DEF CheckSync, WithdrawSync, AwaitSync, AskThumbnails, Goto
  <1>4. CASE Prepare(e) \/ Hide(e) \/ EndWipe(e) \/ PurgeLedger(e) \/ RemoveImages(e)
             \/ DeleteRow(e)
        BY <1>4 DEF Prepare, Hide, EndWipe, PurgeLedger, RemoveImages, DeleteRow, Goto
  <1> QED BY <1>1, <1>2, <1>3, <1>4 DEF DeleteStep

LEMMA ThreadsApart ==
    ASSUME DeleteInv, CarefulNext, NEW c \in Canceller
    PROVE  (step'[c] = step[c] /\ doing'[c] = doing[c]) \/ OwnStep(c)
  <1> USE DEF DeleteInv, DeletionTypes
  <1>1. CASE \E s \in Source : CarefulCall(s)
    <2>1. PICK s \in Source : CarefulCall(s)
          BY <1>1
    <2>2. CASE RequestSync(s) \/ StartMove(s) \/ RequestThumbnails(s)
          BY <2>2 DEF RequestSync, StartMove, RequestThumbnails, deletions
    <2>3. CASE \E mode \in {"UserOnly", "WithMedia"} : EnqueueDelete(s, mode)
          BY <2>3, DeleteAssumption
          DEF EnqueueDelete, OwnStep, DeleterFlag, DeleteAssumption
    <2>4. CASE \E mode \in {"UserOnly", "WithMedia"}, e \in Canceller : DeleteNow(e, s, mode)
      <3>1. PICK mode \in {"UserOnly", "WithMedia"}, e \in Canceller : DeleteNow(e, s, mode)
            BY <2>4
      <3>2. CASE e = c
            BY <2>1, <3>1, <3>2 DEF OwnStep, CarefulCall
      <3>3. CASE e # c
            BY <3>1, <3>3 DEF DeleteNow
      <3> QED BY <3>2, <3>3
    <2> QED BY <2>1, <2>2, <2>3, <2>4 DEF CarefulCall
  <1>2. CASE \/ \E p \in Provider : SyncStep(p) \/ HoldSync(p)
             \/ \E s \in Source : EndMove(s)
             \/ RunThumbnails
             \/ UNCHANGED dvars
        BY <1>2 DEF SyncStep, StartSync, LoadProfile, SaveFile, EndSync, Announce, FinishSync,
                    HoldSync, LeaveLane, EndMove, RunThumbnails, deletions, dvars
  <1>3. CASE TakeDelete \/ StopDeleter
        BY <1>3, DeleteAssumption DEF TakeDelete, StopDeleter, Goto, OwnStep, DeleteAssumption
  <1>4. CASE \E e \in Canceller : DeleteStep(e) /\ ~GiveUpWaiting(e)
        BY <1>4, DeleteStepIsOwn DEF OwnStep
  <1> QED BY <1>1, <1>2, <1>3, <1>4 DEF CarefulNext
-----------------------------------------------------------------------------
\* What is over for a profile that is being deleted stays over.

LEMMA SyncStaysOver ==
    ASSUME DeleteInv, CarefulNext, NEW s \in Source, ~SyncLive(s), SyncLive(s)'
    PROVE  ~BeingDeleted(s) /\ profile[s] = "live"
  <1> USE DEF DeleteInv, LaneTypes, Sync!LanesTypeOK
  <1>1. CASE \E t \in Source : CarefulCall(t)
    <2>1. PICK t \in Source : CarefulCall(t)
          BY <1>1
    <2>2. CASE RequestSync(t)
      <3>1. s = t
            BY <2>2 DEF RequestSync, Sync!Submit, SyncLive
      <3> QED BY <2>1, <2>2, <3>1 DEF CarefulCall, RequestSync
    <2>3. CASE \/ StartMove(t) \/ RequestThumbnails(t)
               \/ \E mode \in {"UserOnly", "WithMedia"} :
                    EnqueueDelete(t, mode) \/ \E c \in Canceller : DeleteNow(c, t, mode)
          BY <2>3
          DEF StartMove, RequestThumbnails, EnqueueDelete, DeleteNow, runs, lanes, SyncLive
    <2> QED BY <2>1, <2>2, <2>3 DEF CarefulCall
  <1>2. CASE \E p \in Provider : SyncStep(p) \/ HoldSync(p)
    <2>1. PICK p \in Provider : SyncStep(p) \/ HoldSync(p)
          BY <1>2
    <2>2. CASE \E t \in Source : StartSync(p, t)
          BY <2>2 DEF StartSync, Sync!Start, SyncLive
    <2>3. CASE LoadProfile(p) \/ EndSync(p) \/ Announce(p) \/ \E f \in File : SaveFile(p, f)
          BY <2>3 DEF LoadProfile, EndSync, Announce, SaveFile, lanes, SyncLive
    <2>4. CASE FinishSync(p)
          BY <2>4, ThumbnailAssumption
          DEF FinishSync, LeaveLane, Sync!Finish, SyncLive, ThumbnailAssumption
    <2>5. CASE HoldSync(p)
          BY <2>5, ThumbnailAssumption
          DEF HoldSync, LeaveLane, Sync!GiveBack, SyncLive, ThumbnailAssumption
    <2> QED BY <2>1, <2>2, <2>3, <2>4, <2>5 DEF SyncStep
  <1>3. CASE \/ \E t \in Source : EndMove(t)
             \/ RunThumbnails
             \/ TakeDelete \/ StopDeleter
             \/ UNCHANGED dvars
        BY <1>3 DEF EndMove, RunThumbnails, TakeDelete, StopDeleter, dvars, runs, lanes, SyncLive
  <1>4. CASE \E c \in Canceller : DeleteStep(c)
    <2>1. PICK c \in Canceller : DeleteStep(c)
          BY <1>4
    <2>2. CASE WithdrawSync(c)
          BY <2>2 DEF WithdrawSync, Sync!Withdraw, SyncLive
    <2>3. CASE ~WithdrawSync(c)
      <3>1. UNCHANGED runs
            BY <2>1, <2>3
            DEF DeleteStep, CheckSync, AwaitSync, AskThumbnails, AwaitThumbnails, Prepare, Hide,
                WipeFile, EndWipe, PurgeLedger, RemoveImages, DeleteRow, CloseDelete
      <3> QED BY <3>1 DEF runs, lanes, SyncLive
    <2> QED BY <2>2, <2>3
  <1> QED BY <1>1, <1>2, <1>3, <1>4 DEF CarefulNext

\* A thumbnail step that does not enqueue a profile.
LEMMA JobStaysAway ==
    ASSUME Inv, NEW s \in Source, ~Waiting(s),
           \/ \E t \in Source : t # s /\ EnqueueThumbnails(t)
           \/ \E t \in Source : EnqueueKnown(t) \/ EnqueueMissing(t)
           \/ \E c \in Canceller, t \in Source : CancelThumbnails(c, t)
           \/ \E c \in Canceller : CancellerStep(c)
           \/ ThumbnailRun
           \/ UNCHANGED tvars
    PROVE  ~Waiting(s)' /\ (active # s => active' # s)
  <1>1. queued \in Seq(Source) /\ WaitsOnce
        BY DEF Inv, ThumbnailTypeOK
  <1>2. CASE \E t \in Source : t # s /\ EnqueueThumbnails(t)
    <2>1. PICK t \in Source : t # s /\ EnqueueThumbnails(t)
          BY <1>2
    <2>2. ~Waiting(t) /\ queued' = Append(queued, t) /\ active' = active
          BY <2>1 DEF EnqueueThumbnails, Known
    <2>3. \A v : Waiting(v)' <=> Waiting(v) \/ v = t
          BY <1>1, <2>2, Appended
    <2> QED BY <2>1, <2>2, <2>3
  <1>3. CASE \E c \in Canceller, t \in Source : CancelThumbnails(c, t)
    <2>1. PICK c \in Canceller, t \in Source : CancelThumbnails(c, t)
          BY <1>3
    <2>2. DropQueued(t) /\ active' = active
          BY <2>1 DEF CancelThumbnails
    <2>3. \A v : Waiting(v)' => Waiting(v) /\ v # t
          BY <1>1, <2>2, Dropped
    <2> QED BY <2>2, <2>3
  <1>4. CASE TakeJob
    <2>1. queued # <<>> /\ queued' = Tail(queued) /\ active' = Head(queued)
          BY <1>4 DEF TakeJob
    <2>2. Waiting(Head(queued)) /\ \A v : Waiting(v)' => Waiting(v) /\ v # Head(queued)
          BY <1>1, <2>1, Taken
    <2> QED BY <2>1, <2>2
  <1>5. CASE \/ \E t \in Source : EnqueueKnown(t) \/ EnqueueMissing(t)
             \/ \E c \in Canceller : CancellerStep(c)
             \/ StopWorker \/ BeginJob \/ ListFails \/ ListFiles \/ Join \/ CloseJob
             \/ \E g \in Generator : GeneratorStep(g)
             \/ UNCHANGED tvars
    <2>1. queued' = queued /\ active' \in {active, None}
          BY <1>5 DEF EnqueueKnown, EnqueueMissing, CancellerStep, FindGone, ClearRequest,
                      GiveUpWaiting, StopWorker, BeginJob, ListFails, ListFiles, Join, CloseJob,
                      GeneratorStep, Look, TakeFile, MakeThumbnail, queue, tvars
    <2> QED BY <2>1, ThumbnailAssumption DEF Waiting, ThumbnailAssumption
  <1> QED BY <1>2, <1>3, <1>4, <1>5 DEF ThumbnailRun, ThumbnailWorkerStep

LEMMA ThumbnailsStayOver ==
    ASSUME DeleteInv, CarefulNext, NEW s \in Source, BeingDeleted(s), ~SyncLive(s), ~Waiting(s)
    PROVE  ~Waiting(s)' /\ (active # s => active' # s)
  <1> DEFINE Away ==
        \/ \E t \in Source : t # s /\ EnqueueThumbnails(t)
        \/ \E t \in Source : EnqueueKnown(t) \/ EnqueueMissing(t)
        \/ \E c \in Canceller, t \in Source : CancelThumbnails(c, t)
        \/ \E c \in Canceller : CancellerStep(c)
        \/ ThumbnailRun
        \/ UNCHANGED tvars
  <1> SUFFICES Away
      BY JobStaysAway DEF DeleteInv
  <1>1. CASE \E t \in Source : CarefulCall(t)
    <2>1. PICK t \in Source : CarefulCall(t)
          BY <1>1
    <2>2. t # s
          BY <2>1 DEF CarefulCall
    <2>3. CASE RequestThumbnails(t)
          BY <2>2, <2>3 DEF RequestThumbnails
    <2>4. CASE \/ RequestSync(t) \/ StartMove(t)
               \/ \E mode \in {"UserOnly", "WithMedia"} :
                    EnqueueDelete(t, mode) \/ \E c \in Canceller : DeleteNow(c, t, mode)
          BY <2>4 DEF RequestSync, StartMove, EnqueueDelete, DeleteNow
    <2> QED BY <2>1, <2>3, <2>4 DEF CarefulCall
  <1>2. CASE \E p \in Provider : SyncStep(p) \/ HoldSync(p)
    <2>1. PICK p \in Provider : SyncStep(p) \/ HoldSync(p)
          BY <1>2
    <2>2. CASE Announce(p)
      <3>1. sync_running[p] \in Source
            BY <2>2, LaneRuns DEF Announce, DeleteInv
      <3>2. sync_running[p] # s
            BY DEF SyncLive
      <3> QED BY <2>2, <3>1, <3>2 DEF Announce
    <2>3. CASE \/ \E t \in Source : StartSync(p, t)
               \/ LoadProfile(p) \/ EndSync(p) \/ FinishSync(p) \/ HoldSync(p)
               \/ \E f \in File : SaveFile(p, f)
          BY <2>3 DEF StartSync, LoadProfile, EndSync, FinishSync, HoldSync, LeaveLane, SaveFile
    <2> QED BY <2>1, <2>2, <2>3 DEF SyncStep
  <1>3. CASE \/ \E t \in Source : EndMove(t)
             \/ RunThumbnails
             \/ TakeDelete \/ StopDeleter
             \/ UNCHANGED dvars
        BY <1>3 DEF EndMove, RunThumbnails, TakeDelete, StopDeleter, dvars
  <1>4. CASE \E c \in Canceller : DeleteStep(c)
    <2>1. PICK c \in Canceller : DeleteStep(c)
          BY <1>4
    <2>2. CASE AskThumbnails(c)
      <3>1. doing[c].source \in Source
            BY <2>2, DeletesJob DEF AskThumbnails, DeleteInv
      <3> QED BY <2>2, <3>1 DEF AskThumbnails
    <2>3. CASE AwaitThumbnails(c)
          BY <2>3 DEF AwaitThumbnails
    <2>4. CASE ~AskThumbnails(c) /\ ~AwaitThumbnails(c)
          BY <2>1, <2>4
          DEF DeleteStep, CheckSync, WithdrawSync, AwaitSync, Prepare, Hide, WipeFile, EndWipe,
              PurgeLedger, RemoveImages, DeleteRow, CloseDelete
    <2> QED BY <2>2, <2>3, <2>4
  <1> QED BY <1>1, <1>2, <1>3, <1>4 DEF CarefulNext
-----------------------------------------------------------------------------
\* One deletion of a profile at a time, and no migration of it.

LEMMA DeletionsShrink ==
    ASSUME OneDeleter, NotMoved, delete_queue' = delete_queue, moving' \subseteq moving,
           \A c \in Canceller : doing'[c] = doing[c] \/ doing'[c] = None,
           Deleter \in Canceller
    PROVE  OneDeleter' /\ NotMoved'
  <1>1. \A s : DeleteQueued(s)' => DeleteQueued(s)
        BY DEF DeleteQueued
  <1>2. OneDeleter'
        BY <1>1 DEF OneDeleter
  <1>3. \A s : BeingDeleted(s)' => BeingDeleted(s)
        BY <1>1 DEF BeingDeleted, DeleteKnown
  <1> QED BY <1>2, <1>3 DEF NotMoved

LEMMA EnqueueKeepsDeleters ==
    ASSUME DeleteInv, OneDeleter, NotMoved, NEW s \in Source,
           NEW mode \in {"UserOnly", "WithMedia"}, EnqueueDelete(s, mode), ~BeingDeleted(s)
    PROVE  OneDeleter' /\ NotMoved'
  <1> DEFINE deletion == [source |-> s, mode |-> mode]
  <1>1. deletion \in Job /\ deletion.source = s
        BY DEF Job
  <1>2. /\ delete_queue \in Seq(Job)
        /\ delete_queue' = Append(delete_queue, deletion)
        /\ s \notin moving
        /\ UNCHANGED <<doing, moving>>
        BY DEF DeleteInv, DeletionTypes, EnqueueDelete, BeingDeleted
  <1> HIDE DEF deletion
  <1>3. /\ Len(delete_queue) \in Nat
        /\ DOMAIN delete_queue = 1..Len(delete_queue)
        /\ DOMAIN delete_queue' = 1..(Len(delete_queue) + 1)
        /\ \A i \in 1..Len(delete_queue) : delete_queue'[i] = delete_queue[i]
        /\ delete_queue'[Len(delete_queue) + 1] = deletion
        BY <1>1, <1>2
  <1>4. \A t : DeleteQueued(t)' => DeleteQueued(t) \/ t = s
        BY <1>1, <1>3 DEF DeleteQueued
  <1>5. OneDeleter'
        BY <1>2, <1>4 DEF OneDeleter, BeingDeleted
  <1>6. \A t : BeingDeleted(t)' => BeingDeleted(t) \/ t = s
        BY <1>2, <1>4 DEF BeingDeleted, DeleteKnown
  <1>7. NotMoved'
        BY <1>2, <1>6 DEF NotMoved
  <1> QED BY <1>5, <1>7

LEMMA TakeKeepsDeleters ==
    ASSUME DeleteInv, QueueInv, OneDeleter, NotMoved, TakeDelete
    PROVE  OneDeleter' /\ NotMoved'
  <1>1. /\ delete_queue \in Seq(Job)
        /\ delete_queue # <<>>
        /\ delete_queue' = Tail(delete_queue)
        /\ doing' = [doing EXCEPT ![Deleter] = Head(delete_queue)]
        /\ doing \in [Canceller -> Job \cup {None}]
        /\ moving' = moving
        /\ Deleter \in Canceller
        BY DeleteAssumption DEF TakeDelete, DeleteInv, DeletionTypes, DeleteAssumption
  <1>2. /\ Len(delete_queue) \in Nat \ {0}
        /\ DOMAIN delete_queue = 1..Len(delete_queue)
        /\ DOMAIN delete_queue' = 1..(Len(delete_queue) - 1)
        /\ \A i \in 1..(Len(delete_queue) - 1) : delete_queue'[i] = delete_queue[i + 1]
        /\ Head(delete_queue) = delete_queue[1]
        BY <1>1
  <1>3. \A t : DeleteQueued(t)' => DeleteQueued(t)
        BY <1>2 DEF DeleteQueued
  <1>4. DeleteQueued(Head(delete_queue).source)
    <2>1. 1 \in DOMAIN delete_queue /\ delete_queue[1].source = Head(delete_queue).source
          BY <1>2
    <2> QED BY <2>1 DEF DeleteQueued
  <1>5. doing'[Deleter] # None => ~DeleteQueued(doing[Deleter].source)'
        BY TakeKeepsQueue DEF QueueInv, DeleteLeft
  <1>6. /\ doing'[Deleter] = Head(delete_queue)
        /\ \A c \in Canceller : c # Deleter => doing'[c] = doing[c]
        BY <1>1
  <1>7. ASSUME NEW c \in Canceller, doing[c] # None
        PROVE  doing[c].source # Head(delete_queue).source
        BY <1>4, <1>7 DEF OneDeleter
  <1>8. OneDeleter'
    <2> SUFFICES ASSUME NEW c \in Canceller, doing'[c] # None
                 PROVE  /\ \A e \in Canceller :
                            doing'[e] # None /\ doing'[e].source = doing'[c].source => e = c
                        /\ ~DeleteQueued(doing[c].source)'
        BY DEF OneDeleter, DeleteQueued
    <2>1. CASE c = Deleter
          BY <1>5, <1>6, <1>7, <2>1
    <2>2. CASE c # Deleter
      <3>1. doing[c] # None /\ doing'[c] = doing[c]
            BY <1>6, <2>2
      <3>2. ~DeleteQueued(doing[c].source)
            BY <3>1 DEF OneDeleter
      <3>3. ~DeleteQueued(doing[c].source)'
            BY <1>3, <3>1, <3>2
      <3>4. \A e \in Canceller :
                doing'[e] # None /\ doing'[e].source = doing'[c].source => e = c
            BY <1>6, <1>7, <3>1 DEF OneDeleter
      <3> QED BY <3>3, <3>4
    <2> QED BY <2>1, <2>2
  <1>9. \A t : BeingDeleted(t)' => BeingDeleted(t)
    <2> SUFFICES ASSUME NEW t, BeingDeleted(t)'
                 PROVE  BeingDeleted(t)
        OBVIOUS
    <2>1. CASE DeleteQueued(t)'
          BY <1>3, <2>1 DEF BeingDeleted, DeleteKnown
    <2>2. CASE \E c \in Canceller : doing'[c] # None /\ doing'[c].source = t
          BY <1>4, <1>6, <2>2 DEF BeingDeleted, DeleteKnown
    <2> QED BY <1>1, <2>1, <2>2 DEF BeingDeleted, DeleteKnown
  <1> QED BY <1>1, <1>8, <1>9 DEF NotMoved

LEMMA NowKeepsDeleters ==
    ASSUME DeleteInv, OneDeleter, NotMoved, NEW s \in Source, NEW c \in Canceller,
           NEW mode \in {"UserOnly", "WithMedia"}, DeleteNow(c, s, mode), ~BeingDeleted(s)
    PROVE  OneDeleter' /\ NotMoved'
  <1> DEFINE deletion == [source |-> s, mode |-> mode]
  <1>1. deletion.source = s
        OBVIOUS
  <1>2. /\ doing' = [doing EXCEPT ![c] = deletion]
        /\ doing \in [Canceller -> Job \cup {None}]
        /\ c # Deleter
        /\ s \notin moving
        /\ UNCHANGED <<delete_queue, moving>>
        BY DEF DeleteNow, DeleteInv, DeletionTypes
  <1> HIDE DEF deletion
  <1>3. \A t : DeleteQueued(t)' <=> DeleteQueued(t)
        BY <1>2 DEF DeleteQueued
  <1>4. ~DeleteQueued(s) /\ \A e \in Canceller : doing[e] # None => doing[e].source # s
        BY DEF BeingDeleted, DeleteKnown
  <1>5. OneDeleter'
        BY <1>1, <1>2, <1>3, <1>4 DEF OneDeleter
  <1>6. \A t : BeingDeleted(t)' => BeingDeleted(t) \/ t = s
        BY <1>1, <1>2, <1>3, DeleteAssumption DEF BeingDeleted, DeleteKnown, DeleteAssumption
  <1> QED BY <1>2, <1>5, <1>6 DEF NotMoved

LEMMA StepKeepsDeleters ==
    ASSUME DeleteInv, QueueInv, OneDeleter, NotMoved, CarefulNext
    PROVE  OneDeleter' /\ NotMoved'
  <1> USE DeleteAssumption DEF DeleteAssumption
  <1>1. CASE \E s \in Source : CarefulCall(s)
    <2>1. PICK s \in Source : CarefulCall(s)
          BY <1>1
    <2>2. ~BeingDeleted(s)
          BY <2>1 DEF CarefulCall
    <2>3. CASE RequestSync(s) \/ RequestThumbnails(s)
      <3>1. UNCHANGED <<delete_queue, doing, moving>>
            BY <2>3 DEF RequestSync, RequestThumbnails, deletions
      <3> QED BY <3>1, DeletionsShrink
    <2>4. CASE StartMove(s)
      <3>1. UNCHANGED <<delete_queue, doing>> /\ moving' = moving \cup {s}
            BY <2>4 DEF StartMove, deletions
      <3>2. \A t : BeingDeleted(t)' <=> BeingDeleted(t)
            BY <3>1 DEF BeingDeleted, DeleteKnown, DeleteQueued
      <3>3. OneDeleter'
            BY <3>1 DEF OneDeleter, DeleteQueued
      <3> QED BY <2>2, <3>1, <3>2, <3>3 DEF NotMoved
    <2>5. CASE \E mode \in {"UserOnly", "WithMedia"} : EnqueueDelete(s, mode)
          BY <2>2, <2>5, EnqueueKeepsDeleters
    <2>6. CASE \E mode \in {"UserOnly", "WithMedia"}, c \in Canceller : DeleteNow(c, s, mode)
          BY <2>2, <2>6, NowKeepsDeleters
    <2> QED BY <2>1, <2>3, <2>4, <2>5, <2>6 DEF CarefulCall
  <1>2. CASE TakeDelete
        BY <1>2, TakeKeepsDeleters
  <1>3. CASE StopDeleter
    <2>1. UNCHANGED <<delete_queue, doing, moving>>
          BY <1>3 DEF StopDeleter
    <2> QED BY <2>1, DeletionsShrink
  <1>4. CASE \/ \E p \in Provider : SyncStep(p) \/ HoldSync(p)
             \/ \E s \in Source : EndMove(s)
             \/ RunThumbnails
             \/ UNCHANGED dvars
    <2>1. UNCHANGED deletions /\ moving' \subseteq moving
          BY <1>4 DEF SyncStep, StartSync, LoadProfile, SaveFile, EndSync, Announce, FinishSync,
                      HoldSync, LeaveLane, EndMove, RunThumbnails, dvars
    <2> QED BY <2>1, DeletionsShrink DEF deletions
  <1>5. CASE \E c \in Canceller : DeleteStep(c)
    <2>1. PICK c \in Canceller : DeleteStep(c)
          BY <1>5
    <2>2. UNCHANGED <<delete_queue, moving>>
          BY <2>1 DEF DeleteStep, CheckSync, WithdrawSync, AwaitSync, AskThumbnails,
                      AwaitThumbnails, Prepare, Hide, WipeFile, EndWipe, PurgeLedger,
                      RemoveImages, DeleteRow, CloseDelete, deletions
    <2>3. doing' = doing \/ doing' = [doing EXCEPT ![c] = None]
          BY <2>1 DEF DeleteStep, CheckSync, WithdrawSync, AwaitSync, AskThumbnails,
                      AwaitThumbnails, Prepare, Hide, WipeFile, EndWipe, PurgeLedger,
                      RemoveImages, DeleteRow, CloseDelete, deletions
    <2>4. \A e \in Canceller : doing'[e] = doing[e] \/ doing'[e] = None
          BY <2>3 DEF DeleteInv, DeletionTypes
    <2> QED BY <2>2, <2>4, DeletionsShrink
  <1> QED BY <1>1, <1>2, <1>3, <1>4, <1>5 DEF CarefulNext
-----------------------------------------------------------------------------
\* The sync of a profile being deleted.

LEMMA Deletes ==
    ASSUME DeleteInv, NEW c \in Canceller, step[c] \notin {"idle", "loop"}
    PROVE  doing[c].source \in Source /\ BeingDeleted(doing[c].source)
  <1>1. doing[c] # None /\ doing[c].source \in Source
        BY DeletesJob DEF DeleteInv, DeletionTypes
  <1> QED BY <1>1 DEF BeingDeleted

LEMMA StepKeepsSyncOver ==
    ASSUME DeleteInv, SyncOver, CarefulNext
    PROVE  SyncOver'
  <1> SUFFICES ASSUME NEW c \in Canceller, step'[c] \in CancelledSync
               PROVE  ~SyncLive(doing[c].source)'
      BY DEF SyncOver
  <1>1. ASSUME step[c] \notin {"idle", "loop"}, doing'[c] = doing[c],
               ~SyncLive(doing[c].source)
        PROVE  ~SyncLive(doing[c].source)'
    <2>1. PICK s \in Source : s = doing[c].source /\ BeingDeleted(s)
          BY <1>1, Deletes
    <2>2. ~SyncLive(s)'
          BY <1>1, <2>1, SyncStaysOver
    <2> QED BY <1>1, <2>1, <2>2
  <1>2. ASSUME step'[c] = step[c] /\ doing'[c] = doing[c]
        PROVE  ~SyncLive(doing[c].source)'
        BY <1>1, <1>2 DEF SyncOver, CancelledSync
  <1>3. CASE DeleteStep(c)
    <2>1. CASE AwaitThumbnails(c) \/ \E f \in File : WipeFile(c, f)
          BY <1>2, <2>1 DEF AwaitThumbnails, WipeFile, deletions
    <2>2. CASE CheckSync(c) \/ AwaitSync(c)
      <3>1. /\ doing' = doing
            /\ ~SyncLive(doing[c].source)
            /\ step[c] \in {"check", "wait"}
            BY <2>2 DEF CheckSync, AwaitSync, Goto, CancelledSync, DeleteInv, DeletionTypes
      <3> QED BY <1>1, <3>1
    <2>3. CASE WithdrawSync(c) \/ CloseDelete(c)
          BY <2>3 DEF WithdrawSync, CloseDelete, Goto, CancelledSync, DeleteInv, DeletionTypes
    <2>4. CASE AskThumbnails(c) \/ Prepare(c) \/ Hide(c) \/ EndWipe(c) \/ PurgeLedger(c)
               \/ RemoveImages(c) \/ DeleteRow(c)
      <3>1. doing' = doing /\ step[c] \in CancelledSync
            BY <2>4 DEF AskThumbnails, Prepare, Hide, EndWipe, PurgeLedger, RemoveImages,
                        DeleteRow, CancelledSync
      <3> QED BY <1>1, <3>1 DEF SyncOver, CancelledSync
    <2> QED BY <1>3, <2>1, <2>2, <2>3, <2>4 DEF DeleteStep
  <1>4. CASE \E s \in Source, mode \in {"UserOnly", "WithMedia"} : DeleteNow(c, s, mode)
    <2>1. PICK s \in Source, mode \in {"UserOnly", "WithMedia"} : DeleteNow(c, s, mode)
          BY <1>4
    <2>2. doing'[c].source = s
          BY <2>1 DEF DeleteNow, DeleteInv, DeletionTypes
    <2>3. ~SyncLive(s)'
          BY <2>1 DEF DeleteNow, runs, lanes, SyncLive
    <2> QED BY <2>2, <2>3
  <1>5. CASE step'[c] \in {"idle", "loop", "check"}
        BY <1>5 DEF CancelledSync
  <1> QED BY <1>2, <1>3, <1>4, <1>5, ThreadsApart DEF OwnStep
-----------------------------------------------------------------------------
\* Its thumbnails.

\* What a step does to the wait of a thread that does not begin one.
LEMMA WaitMoves ==
    ASSUME DeleteInv, CarefulNext, NEW c \in Canceller, ~AskThumbnails(c)
    PROVE  \/ waits'[c] = waits[c] /\ (c \in clearing' => c \in clearing)
           \/ FindGone(c)
           \/ waits'[c] = None /\ c \in clearing
  <1>1. waits \in [Canceller -> Source \cup {None}]
        BY DEF DeleteInv, Inv, ThumbnailTypeOK
  <1>2. CASE \E e \in Canceller : AskThumbnails(e)
        BY <1>1, <1>2 DEF AskThumbnails, CancelThumbnails
  <1>3. CASE \E e \in Canceller : AwaitThumbnails(e) /\ ~GiveUpWaiting(e)
    <2>1. PICK e \in Canceller : FindGone(e) \/ ClearRequest(e)
          BY <1>3 DEF AwaitThumbnails, CancellerStep
    <2>2. CASE e = c
          BY <1>1, <2>1, <2>2 DEF ClearRequest
    <2>3. CASE e # c
          BY <1>1, <2>1, <2>3 DEF FindGone, ClearRequest
    <2> QED BY <2>2, <2>3
  <1>4. ASSUME ~\E e \in Canceller : AskThumbnails(e) \/ (AwaitThumbnails(e) /\ ~GiveUpWaiting(e))
        PROVE  UNCHANGED cancellers
    <2>1. CASE \E s \in Source : CarefulCall(s)
          BY <2>1 DEF CarefulCall, RequestSync, StartMove, RequestThumbnails, EnqueueThumbnails,
                      EnqueueKnown, EnqueueMissing, EnqueueDelete, DeleteNow, tvars
    <2>2. CASE \E p \in Provider : SyncStep(p) \/ HoldSync(p)
          BY <2>2 DEF SyncStep, StartSync, LoadProfile, SaveFile, EndSync, Announce, FinishSync,
                      HoldSync, LeaveLane, EnqueueThumbnails, EnqueueKnown, EnqueueMissing,
                      tvars
    <2>3. CASE RunThumbnails
          BY <2>3 DEF RunThumbnails, ThumbnailRun, ThumbnailWorkerStep, TakeJob, StopWorker,
                      BeginJob, ListFails, ListFiles, Join, CloseJob, GeneratorStep, Look,
                      TakeFile, MakeThumbnail
    <2>4. CASE (\E s \in Source : EndMove(s)) \/ TakeDelete \/ StopDeleter \/ UNCHANGED dvars
          BY <2>4 DEF EndMove, TakeDelete, StopDeleter, dvars, tvars
    <2>5. CASE \E e \in Canceller : DeleteStep(e) /\ ~GiveUpWaiting(e)
          BY <1>4, <2>5
          DEF DeleteStep, CheckSync, WithdrawSync, AwaitSync, Prepare, Hide, WipeFile, EndWipe,
              PurgeLedger, RemoveImages, DeleteRow, CloseDelete, tvars
    <2> QED BY <2>1, <2>2, <2>3, <2>4, <2>5 DEF CarefulNext
  <1> QED BY <1>2, <1>3, <1>4 DEF cancellers

LEMMA StepKeepsWaitsForOwn ==
    ASSUME DeleteInv, WaitsForOwn, CarefulNext
    PROVE  WaitsForOwn'
  <1> SUFFICES ASSUME NEW c \in Canceller, waits'[c] # None
               PROVE  step'[c] = "release" /\ waits'[c] = doing'[c].source
      BY DEF WaitsForOwn
  <1>1. CASE AskThumbnails(c)
        BY <1>1 DEF AskThumbnails, CancelThumbnails, Goto, DeleteInv, DeletionTypes, Inv,
                    ThumbnailTypeOK
  <1>2. CASE ~AskThumbnails(c)
    <2>1. waits'[c] = waits[c]
          BY <1>2, WaitMoves DEF FindGone
    <2>2. step[c] = "release" /\ waits[c] # None
          BY <2>1 DEF WaitsForOwn
    <2>3. CASE DeleteStep(c)
      <3>1. AwaitThumbnails(c)
            BY <1>2, <2>2, <2>3
            DEF DeleteStep, CheckSync, WithdrawSync, AwaitSync, Prepare, Hide, WipeFile, EndWipe,
                PurgeLedger, RemoveImages, DeleteRow, CloseDelete
      <3> QED BY <2>1, <3>1 DEF AwaitThumbnails, deletions, WaitsForOwn
    <2> QED BY <2>1, <2>2, <2>3, ThreadsApart DEF OwnStep, DeleteNow, WaitsForOwn
  <1> QED BY <1>1, <1>2

LEMMA StepKeepsThumbnailsOver ==
    ASSUME DeleteInv, SyncOver, WaitsForOwn, ThumbnailsOver, CarefulNext
    PROVE  ThumbnailsOver'
  <1> SUFFICES ASSUME NEW c \in Canceller, step'[c] \in CancelledThumbnails
               PROVE  /\ ~Waiting(doing[c].source)'
                      /\ waits'[c] = None \/ c \in clearing' => active' # doing'[c].source
      BY DEF ThumbnailsOver
  <1>1. CASE AskThumbnails(c)
    <2>1. PICK s \in Source : s = doing[c].source
          BY <1>1, Deletes DEF AskThumbnails
    <2>2. CancelThumbnails(c, s) /\ doing' = doing
          BY <1>1, <2>1 DEF AskThumbnails
    <2>3. ~Waiting(s)'
          BY <2>2, Dropped DEF CancelThumbnails, DeleteInv, Inv, ThumbnailTypeOK
    <2>4. waits'[c] # None
          BY <2>2, ThumbnailAssumption
          DEF CancelThumbnails, DeleteInv, Inv, ThumbnailTypeOK, ThumbnailAssumption
    <2>5. c \notin clearing'
          BY <2>2 DEF CancelThumbnails, DeleteInv, Inv, ClearingWaits
    <2> QED BY <2>1, <2>2, <2>3, <2>4, <2>5
  <1>2. CASE ~AskThumbnails(c)
    <2>1. step[c] \in CancelledThumbnails /\ doing'[c] = doing[c]
      <3>1. CASE step'[c] = step[c] /\ doing'[c] = doing[c]
            BY <3>1
      <3>2. CASE DeleteStep(c)
        <4>1. CASE AwaitThumbnails(c) \/ \E f \in File : WipeFile(c, f)
              BY <4>1 DEF AwaitThumbnails, WipeFile, deletions
        <4>2. CASE CheckSync(c) \/ WithdrawSync(c) \/ AwaitSync(c) \/ CloseDelete(c)
              BY <4>2 DEF CheckSync, WithdrawSync, AwaitSync, CloseDelete, Goto, CancelledSync,
                          CancelledThumbnails, DeleteInv, DeletionTypes
        <4>3. CASE Prepare(c) \/ Hide(c) \/ EndWipe(c) \/ PurgeLedger(c) \/ RemoveImages(c)
                   \/ DeleteRow(c)
              BY <4>3 DEF Prepare, Hide, EndWipe, PurgeLedger, RemoveImages, DeleteRow,
                          CancelledSync, CancelledThumbnails
        <4> QED BY <1>2, <3>2, <4>1, <4>2, <4>3 DEF DeleteStep
      <3>3. ~\E s \in Source, mode \in {"UserOnly", "WithMedia"} : DeleteNow(c, s, mode)
            BY DEF DeleteNow, CancelledSync, CancelledThumbnails, DeleteInv, DeletionTypes
      <3> QED BY <3>1, <3>2, <3>3, ThreadsApart DEF OwnStep, CancelledSync, CancelledThumbnails
    <2>2. PICK s \in Source : s = doing[c].source /\ BeingDeleted(s)
          BY <2>1, Deletes DEF CancelledSync, CancelledThumbnails
    <2>3. ~SyncLive(s) /\ ~Waiting(s)
          BY <2>1, <2>2 DEF SyncOver, ThumbnailsOver, CancelledThumbnails
    <2>4. ~Waiting(s)' /\ (active # s => active' # s)
          BY <2>2, <2>3, ThumbnailsStayOver
    <2>5. ASSUME waits'[c] = None \/ c \in clearing'
          PROVE  active # s
      <3>1. CASE FindGone(c)
            BY <2>2, <3>1 DEF FindGone, WaitsForOwn
      <3>2. CASE waits[c] = None \/ c \in clearing
            BY <2>1, <2>2, <3>2 DEF ThumbnailsOver
      <3> QED BY <1>2, <2>5, <3>1, <3>2, WaitMoves
    <2> QED BY <2>1, <2>2, <2>4, <2>5
  <1> QED BY <1>1, <1>2
-----------------------------------------------------------------------------
\* Its files.

LEMMA LibraryMoves ==
    ASSUME DeleteInv, CarefulNext, NEW s \in Source
    PROVE  \/ /\ media'[s] = media[s]
              /\ ledger'[s] \subseteq ledger[s]
              /\ profile'[s] = "gone" => profile[s] = "gone"
              /\ profile'[s] = "live" => profile[s] = "live"
           \/ \E p \in Provider, f \in File : SaveFile(p, f) /\ sync_running[p] = s
           \/ \E p \in Provider : EndSync(p) /\ sync_running[p] = s
           \/ \E c \in Canceller : /\ doing[c].source = s
                                   /\ DeleteRow(c) \/ \E f \in File : WipeFile(c, f)
  <1> USE DEF DeleteInv, LibraryTypes
  <1>1. CASE \E t \in Source : CarefulCall(t)
        BY <1>1 DEF CarefulCall, RequestSync, StartMove, RequestThumbnails, EnqueueDelete,
                    DeleteNow, library
  <1>2. CASE \E p \in Provider : SyncStep(p) \/ HoldSync(p)
    <2>1. PICK p \in Provider : SyncStep(p) \/ HoldSync(p)
          BY <1>2
    <2>2. CASE \E f \in File : SaveFile(p, f)
          BY <2>2 DEF SaveFile
    <2>3. CASE EndSync(p)
          BY <2>3 DEF EndSync
    <2>4. CASE \/ \E t \in Source : StartSync(p, t)
               \/ LoadProfile(p) \/ Announce(p) \/ FinishSync(p) \/ HoldSync(p)
          BY <2>4 DEF StartSync, LoadProfile, Announce, FinishSync, HoldSync, LeaveLane, library
    <2> QED BY <2>1, <2>2, <2>3, <2>4 DEF SyncStep
  <1>3. CASE \/ \E t \in Source : EndMove(t)
             \/ RunThumbnails
             \/ TakeDelete \/ StopDeleter
             \/ UNCHANGED dvars
        BY <1>3 DEF EndMove, RunThumbnails, TakeDelete, StopDeleter, dvars, library
  <1>4. CASE \E c \in Canceller : DeleteStep(c)
    <2>1. PICK c \in Canceller : DeleteStep(c)
          BY <1>4
    <2>2. CASE \E f \in File : WipeFile(c, f)
          BY <2>2 DEF WipeFile
    <2>3. CASE DeleteRow(c)
          BY <2>3 DEF DeleteRow
    <2>4. CASE PurgeLedger(c)
          BY <2>4 DEF PurgeLedger, Purged
    <2>5. CASE Hide(c)
          BY <2>5 DEF Hide
    <2>6. CASE \/ CheckSync(c) \/ WithdrawSync(c) \/ AwaitSync(c) \/ AskThumbnails(c)
               \/ AwaitThumbnails(c) \/ Prepare(c) \/ EndWipe(c) \/ RemoveImages(c)
               \/ CloseDelete(c)
          BY <2>6 DEF CheckSync, WithdrawSync, AwaitSync, AskThumbnails, AwaitThumbnails, Prepare,
                      EndWipe, RemoveImages, CloseDelete, library
    <2> QED BY <2>1, <2>2, <2>3, <2>4, <2>5, <2>6 DEF DeleteStep
  <1> QED BY <1>1, <1>2, <1>3, <1>4 DEF CarefulNext

\* Only a run of a profile adds to its folder.
LEMMA FolderOnlyShrinks ==
    ASSUME DeleteInv, CarefulNext, NEW s \in Source, ~SyncLive(s)
    PROVE  media'[s] \subseteq media[s]
  <1>1. CASE \E c \in Canceller, f \in File : WipeFile(c, f)
        BY <1>1 DEF WipeFile, DeleteInv, LibraryTypes
  <1>2. CASE \E c \in Canceller : DeleteRow(c)
        BY <1>2 DEF DeleteRow
  <1>3. ~\E p \in Provider : sync_running[p] = s
        BY DEF SyncLive
  <1> QED BY <1>1, <1>2, <1>3, LibraryMoves

LEMMA StepKeepsFolderEmpty ==
    ASSUME DeleteInv, SyncOver, FolderEmpty, CarefulNext
    PROVE  FolderEmpty'
  <1> SUFFICES ASSUME NEW c \in Canceller, step'[c] \in {"image", "row"}
               PROVE  media'[doing'[c].source] = {}
      BY DEF FolderEmpty
  <1>1. ASSUME step[c] \in {"image", "row"}, doing'[c] = doing[c]
        PROVE  media'[doing'[c].source] = {}
    <2>1. PICK s \in Source : s = doing[c].source
          BY <1>1, Deletes
    <2>2. ~SyncLive(s) /\ media[s] = {}
          BY <1>1, <2>1 DEF SyncOver, FolderEmpty, CancelledSync
    <2>3. media'[s] = {}
          BY <2>2, FolderOnlyShrinks
    <2> QED BY <1>1, <2>1, <2>3
  <1>2. CASE DeleteStep(c)
    <2>1. CASE AwaitThumbnails(c) \/ \E f \in File : WipeFile(c, f)
          BY <1>1, <2>1 DEF AwaitThumbnails, WipeFile, deletions
    <2>2. CASE EndWipe(c) \/ PurgeLedger(c)
      <3>1. media' = media /\ doing' = doing /\ media[doing[c].source] = {}
            BY <2>2 DEF EndWipe, PurgeLedger, Goto, library, DeleteInv, DeletionTypes
      <3> QED BY <3>1
    <2>3. CASE RemoveImages(c)
          BY <1>1, <2>3 DEF RemoveImages
    <2>4. CASE \/ CheckSync(c) \/ WithdrawSync(c) \/ AwaitSync(c) \/ AskThumbnails(c)
               \/ Prepare(c) \/ Hide(c) \/ DeleteRow(c) \/ CloseDelete(c)
          BY <2>4 DEF CheckSync, WithdrawSync, AwaitSync, AskThumbnails, Prepare, Hide, DeleteRow,
                      CloseDelete, Goto, DeleteInv, DeletionTypes
    <2> QED BY <1>2, <2>1, <2>2, <2>3, <2>4 DEF DeleteStep
  <1>3. ~\E s \in Source, mode \in {"UserOnly", "WithMedia"} : DeleteNow(c, s, mode)
        BY DEF DeleteNow, DeleteInv, DeletionTypes
  <1> QED BY <1>1, <1>2, <1>3, ThreadsApart DEF OwnStep

LEMMA StepKeepsGoneLeft ==
    ASSUME DeleteInv, SyncOver, FolderEmpty, GoneLeft, CarefulNext
    PROVE  GoneLeft'
  <1> SUFFICES ASSUME NEW s \in Source, profile'[s] = "gone"
               PROVE  media'[s] = {} /\ ~SyncLive(s)'
      BY DEF GoneLeft
  <1>1. CASE profile[s] = "gone"
    <2>1. media[s] = {} /\ ~SyncLive(s)
          BY <1>1 DEF GoneLeft
    <2> QED BY <1>1, <2>1, FolderOnlyShrinks, SyncStaysOver
  <1>2. CASE \E c \in Canceller : DeleteRow(c) /\ doing[c].source = s
    <2>1. media[s] = {} /\ ~SyncLive(s)
          BY <1>2 DEF DeleteRow, FolderEmpty, SyncOver, CancelledSync
    <2> QED BY <1>2, <2>1 DEF DeleteRow, runs, lanes, SyncLive
  <1> QED BY <1>1, <1>2, LibraryMoves DEF SaveFile, EndSync, WipeFile

LEMMA StepKeepsSavedThere ==
    ASSUME DeleteInv, SyncOver, SavedThere, CarefulNext
    PROVE  SavedThere'
  <1> USE DEF DeleteInv, LaneTypes, Sync!LanesTypeOK
  <1>1. CASE \E p \in Provider : SyncStep(p) \/ HoldSync(p)
    <2>1. PICK p \in Provider : SyncStep(p) \/ HoldSync(p)
          BY <1>1
    <2>2. CASE \E s \in Source : StartSync(p, s)
      <3>1. PICK s \in Source : StartSync(p, s)
            BY <2>2
      <3>2. saved[p] = {}
            BY <3>1 DEF StartSync, Sync!Start, RunStage, SavedThere
      <3> QED BY <3>1, <3>2 DEF StartSync, Sync!Start, library, SavedThere
    <2>3. CASE LoadProfile(p)
          BY <2>3 DEF LoadProfile, lanes, library, SavedThere
    <2>4. CASE \E f \in File : SaveFile(p, f)
      <3>1. PICK f \in File : SaveFile(p, f)
            BY <2>4
      <3>2. sync_running[p] \in Source
            BY <3>1, LaneRuns DEF SaveFile
      <3>3. \A q \in Provider : sync_running[q] # None => sync_running[q] \in Source
            OBVIOUS
      <3> QED BY <3>1, <3>2, <3>3 DEF SaveFile, lanes, LibraryTypes, SavedThere
    <2>5. CASE EndSync(p)
          BY <2>5 DEF EndSync, lanes, SavedThere
    <2>6. CASE Announce(p)
          BY <2>6 DEF Announce, lanes, library, SavedThere
    <2>7. CASE FinishSync(p)
          BY <2>7 DEF FinishSync, LeaveLane, Sync!Finish, library, SavedThere
    <2>8. CASE HoldSync(p)
          BY <2>8 DEF HoldSync, LeaveLane, Sync!GiveBack, library, SavedThere
    <2> QED BY <2>1, <2>2, <2>3, <2>4, <2>5, <2>6, <2>7, <2>8 DEF SyncStep
  <1>2. CASE \E c \in Canceller, f \in File : WipeFile(c, f)
    <2>1. PICK c \in Canceller, f \in File : WipeFile(c, f)
          BY <1>2
    <2>2. PICK s \in Source : s = doing[c].source
          BY <2>1, Deletes DEF WipeFile
    <2>3. \A p \in Provider : sync_running[p] # s
          BY <2>1, <2>2 DEF WipeFile, SyncOver, SyncLive, CancelledSync
    <2>4. \A t \in Source : t # s => media'[t] = media[t]
          BY <2>1, <2>2 DEF WipeFile, LibraryTypes
    <2>5. \A p \in Provider :
            sync_running[p] # None => media'[sync_running[p]] = media[sync_running[p]]
          BY <2>3, <2>4
    <2> QED BY <2>1, <2>5 DEF WipeFile, runs, lanes, SavedThere
  <1>3. ASSUME ~\E p \in Provider : SyncStep(p) \/ HoldSync(p),
               ~\E c \in Canceller, f \in File : WipeFile(c, f)
        PROVE  UNCHANGED <<sync_running, sync_stage, saved, media>>
    <2>1. CASE \E s \in Source : CarefulCall(s)
          BY <2>1 DEF CarefulCall, RequestSync, Sync!Submit, StartMove, RequestThumbnails,
                      EnqueueDelete, DeleteNow, runs, lanes, library
    <2>2. CASE \/ \E s \in Source : EndMove(s)
               \/ RunThumbnails
               \/ TakeDelete \/ StopDeleter
               \/ UNCHANGED dvars
          BY <2>2 DEF EndMove, RunThumbnails, TakeDelete, StopDeleter, dvars, runs, lanes, library
    <2>3. CASE \E c \in Canceller : DeleteStep(c)
          BY <1>3, <2>3
          DEF DeleteStep, CheckSync, WithdrawSync, Sync!Withdraw, AwaitSync, AskThumbnails,
              AwaitThumbnails, Prepare, Hide, EndWipe, PurgeLedger, RemoveImages, DeleteRow,
              CloseDelete, runs, lanes, library
    <2> QED BY <1>3, <2>1, <2>2, <2>3 DEF CarefulNext
  <1>4. CASE UNCHANGED <<sync_running, sync_stage, saved, media>>
        BY <1>4 DEF SavedThere
  <1> QED BY <1>1, <1>2, <1>3, <1>4

\* A wipe ends with the ledger purged or with the profile gone.
LEMMA WipeEnds ==
    ASSUME DeleteInv, CarefulNext, NEW s \in Source, Wiping(s), ~Wiping(s)'
    PROVE  \E c \in Canceller : doing[c].source = s /\ (PurgeLedger(c) \/ DeleteRow(c))
  <1>1. PICK c \in Canceller :
            step[c] \in {"wipe", "purge", "image", "row"} /\ doing[c].source = s
        BY DEF Wiping
  <1>2. ~(step'[c] \in {"wipe", "purge", "image", "row"} /\ doing'[c].source = s)
        BY DEF Wiping
  <1>3. DeleteStep(c)
        BY <1>1, <1>2, ThreadsApart DEF OwnStep, DeleteNow
  <1>4. CASE AwaitThumbnails(c) \/ \E f \in File : WipeFile(c, f)
        BY <1>1, <1>2, <1>4 DEF AwaitThumbnails, WipeFile, deletions
  <1>5. CASE EndWipe(c) \/ RemoveImages(c)
        BY <1>1, <1>2, <1>5 DEF EndWipe, RemoveImages, Goto, DeleteInv, DeletionTypes
  <1>6. CASE \/ CheckSync(c) \/ WithdrawSync(c) \/ AwaitSync(c) \/ AskThumbnails(c)
             \/ Prepare(c) \/ Hide(c) \/ CloseDelete(c)
        BY <1>1, <1>6 DEF CheckSync, WithdrawSync, AwaitSync, AskThumbnails, Prepare, Hide,
                          CloseDelete
  <1> QED BY <1>1, <1>3, <1>4, <1>5, <1>6 DEF DeleteStep

LEMMA StepKeepsLedger ==
    ASSUME DeleteInv, SyncOver, SavedThere, LedgerMatches, CarefulNext
    PROVE  LedgerMatches'
  <1> SUFFICES ASSUME NEW s \in Source, profile'[s] = "live", ~Wiping(s)'
               PROVE  ledger'[s] \subseteq media'[s]
      BY DEF LedgerMatches
  <1> USE DEF DeleteInv, LibraryTypes
  <1>1. CASE Wiping(s)
    <2>1. PICK c \in Canceller : doing[c].source = s /\ (PurgeLedger(c) \/ DeleteRow(c))
          BY <1>1, WipeEnds
    <2>2. CASE PurgeLedger(c)
          BY <2>1, <2>2 DEF PurgeLedger, Purged
    <2>3. CASE DeleteRow(c)
          BY <2>1, <2>3 DEF DeleteRow
    <2> QED BY <2>1, <2>2, <2>3
  <1>2. CASE ~Wiping(s)
    <2>1. ASSUME profile[s] = "live"
          PROVE  ledger[s] \subseteq media[s]
          BY <1>2, <2>1 DEF LedgerMatches
    <2>2. CASE \E p \in Provider, f \in File : SaveFile(p, f) /\ sync_running[p] = s
          BY <2>1, <2>2 DEF SaveFile
    <2>3. CASE \E p \in Provider : EndSync(p) /\ sync_running[p] = s
      <3>1. PICK p \in Provider : EndSync(p) /\ sync_running[p] = s
            BY <2>3
      <3>2. saved[p] \subseteq media[s]
            BY <3>1, ThumbnailAssumption DEF SavedThere, ThumbnailAssumption
      <3>3. ledger'[s] \subseteq ledger[s] \cup saved[p] /\ UNCHANGED <<profile, media>>
            BY <3>1 DEF EndSync
      <3> QED BY <2>1, <3>2, <3>3
    <2>4. CASE \E c \in Canceller, f \in File : WipeFile(c, f) /\ doing[c].source = s
          BY <1>2, <2>4 DEF WipeFile, Wiping
    <2>5. CASE \E c \in Canceller : DeleteRow(c) /\ doing[c].source = s
          BY <1>2, <2>5 DEF DeleteRow, Wiping
    <2> QED BY <2>1, <2>2, <2>3, <2>4, <2>5, LibraryMoves
  <1> QED BY <1>1, <1>2
-----------------------------------------------------------------------------
LEMMA StepKeepsCareful ==
    ASSUME DeleteInv, QueueInv, CarefulInv, CarefulNext
    PROVE  CarefulInv'
  <1> USE DEF CarefulInv
  <1>1. OneDeleter' /\ NotMoved'
        BY StepKeepsDeleters
  <1>2. SyncOver'
        BY StepKeepsSyncOver
  <1>3. WaitsForOwn'
        BY StepKeepsWaitsForOwn
  <1>4. ThumbnailsOver'
        BY StepKeepsThumbnailsOver
  <1>5. SavedThere'
        BY StepKeepsSavedThere
  <1>6. FolderEmpty' /\ GoneLeft'
        BY StepKeepsFolderEmpty, StepKeepsGoneLeft
  <1>7. LedgerMatches'
        BY StepKeepsLedger
  <1> QED BY <1>1, <1>2, <1>3, <1>4, <1>5, <1>6, <1>7

LEMMA CarefulInit ==
    ASSUME DeleteInit
    PROVE  QueueInv /\ CarefulInv
  <1> USE DEF DeleteInit, ThumbnailInit, Sync!Init
  <1>1. delete_queue = <<>> /\ \A c \in Canceller : doing[c] = None /\ step[c] = "idle"
        OBVIOUS
  <1>2. QueueInv
        BY <1>1, DeleteAssumption
        DEF QueueInv, DeleteOnce, DeleteLeft, DeletesHaveWorker, DeleteAssumption
  <1>3. OneDeleter /\ NotMoved
        BY <1>1 DEF OneDeleter, NotMoved
  <1>4. SyncOver /\ WaitsForOwn /\ ThumbnailsOver /\ FolderEmpty
        BY <1>1
        DEF SyncOver, WaitsForOwn, ThumbnailsOver, FolderEmpty, CancelledSync, CancelledThumbnails
  <1>5. SavedThere /\ GoneLeft /\ LedgerMatches
        BY DEF SavedThere, GoneLeft, LedgerMatches
  <1> QED BY <1>2, <1>3, <1>4, <1>5 DEF CarefulInv

\* While no slip has been made a deletion keeps its profile for itself: one
\* deletion, no migration, its sync over from the moment its thumbnails are
\* cancelled, no thumbnail job once it has seen it gone; and files, ledgers and
\* what runs have saved agree.
THEOREM CarefulAlways ==
    MCSpec => [](DeleteInv /\ QueueInv /\ (slips = {} => CarefulInv))
  <1> DEFINE I == DeleteInv /\ QueueInv /\ (slips = {} => CarefulInv)
  <1>1. MCInit => I
        BY DeleteInvInit, CarefulInit DEF MCInit
  <1>2. I /\ [MCNext]_mcvars => I'
    <2> SUFFICES ASSUME I, [MCNext]_mcvars
                 PROVE  I'
        OBVIOUS
    <2>1. DeleteInv' /\ QueueInv'
          BY MCStepIsStep, StepKeepsDeleteInv, StepKeepsQueue
    <2>2. ASSUME slips' = {}
          PROVE  CarefulInv'
          BY <2>2, CarefulStep, StepKeepsCareful
    <2> QED BY <2>1, <2>2
  <1> QED BY <1>1, <1>2, PTL DEF MCSpec

\* source_delete_runtime.rs:210: the waits of a deletion, in their order, keep sync,
\* thumbnails and migration off the folder while it is wiped, and a profile that
\* is gone leaves no file and no run that could save one.
THEOREM CarefulWipesUndisturbed == MCSpec => []UndisturbedIfCareful
  <1>1. DeleteInv /\ CarefulInv => WipeUndisturbed
    <2> SUFFICES ASSUME DeleteInv, CarefulInv, NEW s \in Source, Wiping(s)
                 PROVE  /\ s \notin sync_pending \cup moving
                        /\ \A p \in Provider : sync_running[p] # s
                        /\ ~Known(s)
        BY DEF WipeUndisturbed
    <2>1. PICK c \in Canceller :
            step[c] \in {"wipe", "purge", "image", "row"} /\ doing[c].source = s
          BY DEF Wiping
    <2>2. ~SyncLive(s) /\ ~Waiting(s)
          BY <2>1 DEF CarefulInv, SyncOver, ThumbnailsOver, CancelledSync, CancelledThumbnails
    <2>3. waits[c] = None
          BY <2>1 DEF CarefulInv, WaitsForOwn
    <2>4. active # s
          BY <2>1, <2>3 DEF CarefulInv, ThumbnailsOver, CancelledSync, CancelledThumbnails
    <2>5. s \notin moving
          BY <2>1, Deletes DEF CarefulInv, NotMoved
    <2> QED BY <2>2, <2>4, <2>5 DEF SyncLive, Known
  <1>2. CarefulInv => GoneLeavesNothing
        BY DEF CarefulInv, GoneLeft, GoneLeavesNothing
  <1>3. DeleteInv /\ (slips = {} => CarefulInv) => UndisturbedIfCareful
        BY <1>1, <1>2 DEF UndisturbedIfCareful
  <1> QED BY <1>3, CarefulAlways, PTL

\* sources.rs:690: a profile that survives its deletion, however far the wipe got,
\* has nothing in its ledger that is not in its folder.
THEOREM CarefulLedgersMatch == MCSpec => []MatchesIfCareful
  <1>1. (slips = {} => CarefulInv) => MatchesIfCareful
        BY DEF CarefulInv, MatchesIfCareful
  <1> QED BY <1>1, CarefulAlways, PTL
=============================================================================
