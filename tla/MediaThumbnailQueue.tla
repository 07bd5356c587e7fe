------------------------- MODULE MediaThumbnailQueue --------------------------
(***************************************************************************)
(* The thumbnail queue (media_thumbnail_runtime.rs): profiles wait in a    *)
(* FIFO, one worker takes them and makes the missing thumbnails of a       *)
(* profile with several generator threads, and a thread about to delete a  *)
(* profile cancels its job and waits, for a while, until it is gone.       *)
(*                                                                         *)
(* An action is one critical section of the queue's mutex; between the     *)
(* sections of one thread the others run.                                  *)
(***************************************************************************)
EXTENDS Naturals, Sequences

CONSTANTS
    Source,     \* profiles
    Canceller,  \* threads that cancel thumbnail jobs
    Generator,  \* threads that work on a job
    MaxFiles,   \* bound: files of a profile without a thumbnail
    TimeOuts,   \* whether a canceller may run out of patience
    BadBatches, \* whether an enqueue can fail after its first profile
    None

ASSUME ThumbnailAssumption ==
    /\ None \notin Source
    /\ MaxFiles \in Nat
    /\ TimeOuts \in BOOLEAN
    /\ BadBatches \in BOOLEAN

VARIABLES
    queued,             \* profiles waiting
    active,             \* the profile being worked on, or None
    worker_running,     \* whether a worker was spawned
    cancel_requested,   \* profiles whose job is to stop
    wpc,                \* where the worker is
    pending,            \* files of the job no generator has taken
    gen,                \* where each generator is
    stopped,            \* whether a generator of the job saw a request
    waits,              \* the profile each canceller waits for, or None
    clearing            \* cancellers that found the job gone

queue == <<queued, active, worker_running>>
job == <<wpc, pending, gen, stopped>>
cancellers == <<waits, clearing>>
tvars == <<queue, cancel_requested, job, cancellers>>

ThumbnailTypeOK ==
    /\ queued \in Seq(Source)
    /\ active \in Source \cup {None}
    /\ worker_running \in BOOLEAN
    /\ cancel_requested \subseteq Source
    /\ wpc \in {"idle", "loop", "begin", "list", "make", "close"}
    /\ pending \in 0..MaxFiles
    /\ gen \in [Generator -> {"off", "look", "take", "make"}]
    /\ stopped \in BOOLEAN
    /\ waits \in [Canceller -> Source \cup {None}]
    /\ clearing \subseteq Canceller
    /\ active # None <=> wpc \notin {"idle", "loop"}

ThumbnailInit ==
    /\ queued = <<>>
    /\ active = None
    /\ worker_running = FALSE
    /\ cancel_requested = {}
    /\ wpc = "idle"
    /\ pending = 0
    /\ gen = [g \in Generator |-> "off"]
    /\ stopped = FALSE
    /\ waits = [c \in Canceller |-> None]
    /\ clearing = {}
-----------------------------------------------------------------------------
\* Enqueue

Waiting(s) == \E i \in DOMAIN queued : queued[i] = s

Known(s) == Waiting(s) \/ active = s

\* Fault: an earlier request stays and stops the new job.
RequestStays(s) == cancel_requested

Unrequested(s) == cancel_requested \ {s}

StartWorker ==
    /\ worker_running' = TRUE
    /\ wpc' = IF worker_running THEN wpc ELSE "loop"

EnqueueThumbnails(s) ==
    /\ ~Known(s)
    /\ cancel_requested' = Unrequested(s)
    /\ queued' = Append(queued, s)
    /\ StartWorker
    /\ UNCHANGED <<active, pending, gen, stopped, cancellers>>

\* Nothing to add, but a queue an earlier call left without a worker gets one.
EnqueueKnown(s) ==
    /\ Known(s)
    /\ queued # <<>>
    /\ ~worker_running
    /\ StartWorker
    /\ UNCHANGED <<queued, active, cancel_requested, pending, gen, stopped, cancellers>>

\* The profile does not exist: the call returns when its request is cleared.
EnqueueMissing(s) ==
    /\ ~Known(s)
    /\ cancel_requested' = Unrequested(s)
    /\ UNCHANGED <<queue, job, cancellers>>

\* The same for the second profile of a batch: the first was queued already.
EnqueueBadBatch(s, t) ==
    /\ BadBatches
    /\ ~Known(s)
    /\ ~Known(t)
    /\ s # t
    /\ cancel_requested' = cancel_requested \ {s, t}
    /\ queued' = Append(queued, s)
    /\ UNCHANGED <<active, worker_running, job, cancellers>>
-----------------------------------------------------------------------------
\* cancel_queued_and_wait

\* The waiting job of a profile is dropped: it waits at most once.
DropQueued(s) ==
    \/ /\ ~Waiting(s)
       /\ UNCHANGED queued
    \/ \E i \in DOMAIN queued :
        /\ queued[i] = s
        /\ queued' = [j \in 1..(Len(queued) - 1) |-> IF j < i THEN queued[j] ELSE queued[j + 1]]

CancelThumbnails(c, s) ==
    /\ waits[c] = None
    /\ DropQueued(s)
    /\ cancel_requested' = cancel_requested \cup {s}
    /\ waits' = [waits EXCEPT ![c] = s]
    /\ UNCHANGED <<active, worker_running, job, clearing>>

FindGone(c) ==
    /\ waits[c] # None
    /\ active # waits[c]
    /\ c \notin clearing
    /\ clearing' = clearing \cup {c}
    /\ UNCHANGED <<queue, cancel_requested, job, waits>>

ClearRequest(c) ==
    /\ c \in clearing
    /\ cancel_requested' = cancel_requested \ {waits[c]}
    /\ waits' = [waits EXCEPT ![c] = None]
    /\ clearing' = clearing \ {c}
    /\ UNCHANGED <<queue, job>>

\* Eight seconds are over and the job still runs: its request stays.
GiveUpWaiting(c) ==
    /\ TimeOuts
    /\ waits[c] # None
    /\ c \notin clearing
    /\ active = waits[c]
    /\ waits' = [waits EXCEPT ![c] = None]
    /\ UNCHANGED <<queue, cancel_requested, job, clearing>>
-----------------------------------------------------------------------------
\* The worker and its generators

TakeJob ==
    /\ wpc = "loop"
    /\ queued # <<>>
    /\ active' = Head(queued)
    /\ queued' = Tail(queued)
    /\ wpc' = "begin"
    /\ UNCHANGED <<worker_running, cancel_requested, pending, gen, stopped, cancellers>>

\* Fault: the thread ends and leaves the flag.
StopKeepsFlag ==
    /\ wpc = "loop"
    /\ queued = <<>>
    /\ wpc' = "idle"
    /\ UNCHANGED <<queue, cancel_requested, pending, gen, stopped, cancellers>>

StopWorker ==
    /\ wpc = "loop"
    /\ queued = <<>>
    /\ worker_running' = FALSE
    /\ wpc' = "idle"
    /\ UNCHANGED <<queued, active, cancel_requested, pending, gen, stopped, cancellers>>

BeginJob ==
    /\ wpc = "begin"
    /\ wpc' = IF active \in cancel_requested THEN "close" ELSE "list"
    /\ UNCHANGED <<queue, cancel_requested, pending, gen, stopped, cancellers>>

\* The profile's folder or its files cannot be read.
ListFails ==
    /\ wpc = "list"
    /\ wpc' = "close"
    /\ UNCHANGED <<queue, cancel_requested, pending, gen, stopped, cancellers>>

ListFiles ==
    /\ wpc = "list"
    /\ pending' \in 0..MaxFiles
    /\ gen' = [g \in Generator |-> "look"]
    /\ wpc' = "make"
    /\ UNCHANGED <<queue, cancel_requested, stopped, cancellers>>

\* A generator looks at the request before each file, then takes one, in
\* separate critical sections.
Look(g) ==
    LET stop == stopped \/ active \in cancel_requested IN
    /\ gen[g] = "look"
    /\ gen' = [gen EXCEPT ![g] = IF stop THEN "off" ELSE "take"]
    /\ stopped' = stop
    /\ pending' = IF stop THEN 0 ELSE pending
    /\ UNCHANGED <<queue, cancel_requested, wpc, cancellers>>

TakeFile(g) ==
    /\ gen[g] = "take"
    /\ gen' = [gen EXCEPT ![g] = IF pending = 0 THEN "off" ELSE "make"]
    /\ pending' = IF pending = 0 THEN 0 ELSE pending - 1
    /\ UNCHANGED <<queue, cancel_requested, wpc, stopped, cancellers>>

MakeThumbnail(g) ==
    /\ gen[g] = "make"
    /\ gen' = [gen EXCEPT ![g] = "look"]
    /\ UNCHANGED <<queue, cancel_requested, wpc, pending, stopped, cancellers>>

Join ==
    /\ wpc = "make"
    /\ \A g \in Generator : gen[g] = "off"
    /\ wpc' = "close"
    /\ UNCHANGED <<queue, cancel_requested, pending, gen, stopped, cancellers>>

\* finish and finish_cancelled, which differ only in what they report.
CloseJob ==
    /\ wpc = "close"
    /\ cancel_requested' = Unrequested(active)
    /\ active' = None
    /\ stopped' = FALSE
    /\ wpc' = "loop"
    /\ UNCHANGED <<queued, worker_running, pending, gen, cancellers>>
-----------------------------------------------------------------------------
CancellerStep(c) == FindGone(c) \/ ClearRequest(c) \/ GiveUpWaiting(c)

GeneratorStep(g) == Look(g) \/ TakeFile(g) \/ MakeThumbnail(g)

ThumbnailWorkerStep ==
    TakeJob \/ StopWorker \/ BeginJob \/ ListFails \/ ListFiles \/ Join \/ CloseJob

ThumbnailRun == ThumbnailWorkerStep \/ \E g \in Generator : GeneratorStep(g)

EnqueueCall ==
    \/ \E s \in Source : EnqueueThumbnails(s) \/ EnqueueKnown(s) \/ EnqueueMissing(s)
    \/ \E s, t \in Source : EnqueueBadBatch(s, t)

ThumbnailNext ==
    \/ EnqueueCall
    \/ \E c \in Canceller, s \in Source : CancelThumbnails(c, s)
    \/ \E c \in Canceller : CancellerStep(c)
    \/ ThumbnailRun

ThumbnailSpec == ThumbnailInit /\ [][ThumbnailNext]_tvars
-----------------------------------------------------------------------------
\* Safety

\* A profile waits once and not while it is worked on, and what waits has a
\* worker, whatever the order of arrivals, cancellations and worker exits.
ThumbnailsServed ==
    /\ \A i, j \in DOMAIN queued : queued[i] = queued[j] => i = j
    /\ active # None => ~Waiting(active)
    /\ worker_running <=> wpc # "idle"
    /\ queued # <<>> => worker_running

\* media_thumbnail_runtime.rs:74, "Clear a prior cancel so a fresh enqueue is
\* not immediately aborted": a request names a job being worked on or a profile
\* some thread is waiting for, never a job that waits.
NoStaleRequest ==
    \A s \in cancel_requested :
        /\ ~Waiting(s)
        /\ active = s \/ \E c \in Canceller : waits[c] = s

\* Cancelling and enqueueing race: while a job is worked on, only the end of the
\* job takes a request to stop it back, or a thread that found an earlier job of
\* the same profile gone while a second one cancels the next.
KeepsRequest ==
    active # None /\ active' = active /\ active \in cancel_requested
        => \/ active \in cancel_requested'
           \/ \E c, d \in Canceller : c # d /\ waits[c] = active /\ waits[d] = active
=============================================================================
