---- MODULE IngestionPool ----
(***************************************************************************)
(* The pool that runs the parse jobs of uploads: a bounded executor inside *)
(* the ingestion service, and the shutdown of both.  Uploads are handed in *)
(* by the event loop; pool threads take them from the queue; the shutdown  *)
(* runs in a thread of its own, cancels what is still queued, waits for    *)
(* what runs and fails the jobs it cancelled.  What run_job does to the    *)
(* document is in DocumentIngestion; here a run has an end, good or bad.   *)
(***************************************************************************)
EXTENDS Naturals, Sequences, FiniteSets

CONSTANTS Uploads,     \* uploads, and the jobs and futures made for them
          Threads,     \* threads of the pool (max_workers)
          QueueSize,   \* max_queue_size
          Stoppers,    \* callers of DocumentIngestionService.shutdown
          NoUpload,    \* a pool thread without a work item
          MaxPoolFaults \* bound on exceptions inside fail_job and on restarts

ASSUME PoolAssumption ==
    /\ IsFiniteSet(Uploads) /\ IsFiniteSet(Threads)
    /\ NoUpload \notin Uploads
    /\ QueueSize \in Nat
    /\ MaxPoolFaults \in Nat

Capacity == Cardinality(Threads) + QueueSize

VARIABLES uploadJob,  \* status of the parse job
          future,     \* state of the future
          callbacks,  \* done callbacks that are still to be run
          queue,      \* the executor's work queue
          work,       \* what a pool thread runs
          free,       \* the bounded semaphore
          submitted,  \* the service's table of futures
          closing,    \* the service's _shutdown_started
          closed,     \* its _shutdown_complete
          stop,       \* where a caller of shutdown is
          listed,     \* the futures a caller of shutdown listed
          slipped,    \* history: jobs whose end was lost to an exception or a restart
          poolFaults

pool == <<future, callbacks, queue, work, free, submitted>>
service == <<closing, closed, stop, listed>>
poolVars == <<uploadJob, future, callbacks, queue, work, free, submitted,
              closing, closed, stop, listed, slipped, poolFaults>>

PoolTypeOK ==
    /\ uploadJob \in [Uploads -> {"none", "queued", "running", "completed", "failed"}]
    /\ future \in [Uploads -> {"none", "pending", "running", "finished", "cancelled"}]
    /\ callbacks \in [Uploads -> SUBSET {"release", "forget"}]
    /\ queue \in Seq(Uploads)
    /\ work \in [Threads -> Uploads \cup {NoUpload}]
    /\ free \in 0..Capacity
    /\ submitted \in SUBSET Uploads
    /\ closing \in BOOLEAN /\ closed \in BOOLEAN
    /\ stop \in [Stoppers -> {"idle", "list", "cancel", "join", "fail", "wait", "done"}]
    /\ listed \in [Stoppers -> SUBSET Uploads]
    /\ slipped \in SUBSET Uploads
    /\ poolFaults \in 0..MaxPoolFaults

PoolInit ==
    /\ uploadJob = [u \in Uploads |-> "none"]
    /\ future = [u \in Uploads |-> "none"]
    /\ callbacks = [u \in Uploads |-> {}]
    /\ queue = <<>>
    /\ work = [w \in Threads |-> NoUpload]
    /\ free = Capacity
    /\ submitted = {}
    /\ closing = FALSE /\ closed = FALSE
    /\ stop = [s \in Stoppers |-> "idle"]
    /\ listed = [s \in Stoppers |-> {}]
    /\ slipped = {} /\ poolFaults = 0

Fault == poolFaults < MaxPoolFaults /\ poolFaults' = poolFaults + 1
SaveJob(u, status) == uploadJob' = [uploadJob EXCEPT ![u] = status]

---------------------------------------------------------------------------
(* The upload endpoint, on the event loop.                                 *)

CreateJob(u) ==
    /\ uploadJob[u] = "none"
    /\ SaveJob(u, "queued")
    /\ UNCHANGED <<pool, service, slipped, poolFaults>>

Handed(u) == future[u] # "none"

\* submit, under the lock of the shutdown flag.  A thread may be through with the item
\* before the callbacks are added; they then run in the caller, with the same effect.
Submit(u) ==
    /\ uploadJob[u] = "queued" /\ ~Handed(u) /\ u \notin slipped
    /\ ~closing /\ free > 0
    /\ free' = free - 1
    /\ queue' = Append(queue, u)
    /\ future' = [future EXCEPT ![u] = "pending"]
    /\ callbacks' = [callbacks EXCEPT ![u] = {"release", "forget"}]
    /\ submitted' = submitted \cup {u}
    /\ UNCHANGED <<uploadJob, work, service, slipped, poolFaults>>

\* Variant: the permit is taken before the shutdown flag is read and never given back.
RefuseKeepingPermit(u) ==
    /\ uploadJob[u] = "queued" /\ ~Handed(u) /\ u \notin slipped
    /\ closing \/ free = 0
    /\ SaveJob(u, "failed")
    /\ free' = IF free > 0 THEN free - 1 ELSE free
    /\ UNCHANGED <<future, callbacks, queue, work, submitted, service, slipped, poolFaults>>

\* IngestionShutdownError or IngestionQueueFullError: the job fails before the answer.
Refuse(u) ==
    /\ uploadJob[u] = "queued" /\ ~Handed(u) /\ u \notin slipped
    /\ closing \/ free = 0
    /\ SaveJob(u, "failed")
    /\ UNCHANGED <<pool, service, slipped, poolFaults>>

---------------------------------------------------------------------------
(* Pool threads.                                                           *)

Take(w) ==
    /\ work[w] = NoUpload /\ queue # <<>>
    /\ work' = [work EXCEPT ![w] = Head(queue)]
    /\ queue' = Tail(queue)
    /\ future' = [future EXCEPT ![Head(queue)] = "running"]
    /\ UNCHANGED <<uploadJob, callbacks, free, submitted, service, slipped, poolFaults>>

BeginJob(w) ==
    /\ work[w] # NoUpload /\ future[work[w]] = "running" /\ uploadJob[work[w]] = "queued"
    /\ SaveJob(work[w], "running")
    /\ UNCHANGED <<pool, service, slipped, poolFaults>>

\* A job that could not be saved as running is failed as well.
EndJob(w) ==
    /\ work[w] # NoUpload /\ future[work[w]] = "running"
    /\ \/ uploadJob[work[w]] = "running" /\ SaveJob(work[w], "completed")
       \/ SaveJob(work[w], "failed")
    /\ future' = [future EXCEPT ![work[w]] = "finished"]
    /\ UNCHANGED <<callbacks, queue, work, free, submitted, service, slipped, poolFaults>>

\* The job cannot be failed: the exception ends up in the future.
LoseJob(w) ==
    /\ Fault
    /\ work[w] # NoUpload /\ future[work[w]] = "running"
    /\ slipped' = slipped \cup {work[w]}
    /\ future' = [future EXCEPT ![work[w]] = "finished"]
    /\ UNCHANGED <<uploadJob, callbacks, queue, work, free, submitted, service>>

\* The done callbacks of a future, in the order they were added.
CallBack(u) ==
    \/ /\ "release" \in callbacks[u]
       /\ free' = free + 1
       /\ callbacks' = [callbacks EXCEPT ![u] = @ \ {"release"}]
       /\ UNCHANGED submitted
    \/ /\ callbacks[u] = {"forget"}
       /\ submitted' = submitted \ {u}
       /\ callbacks' = [callbacks EXCEPT ![u] = {}]
       /\ UNCHANGED free

RunCallback(w) ==
    /\ work[w] # NoUpload /\ future[work[w]] = "finished"
    /\ CallBack(work[w])
    /\ UNCHANGED <<uploadJob, future, queue, work, service, slipped, poolFaults>>

FinishItem(w) ==
    /\ work[w] # NoUpload /\ future[work[w]] = "finished" /\ callbacks[work[w]] = {}
    /\ work' = [work EXCEPT ![w] = NoUpload]
    /\ UNCHANGED <<uploadJob, future, callbacks, queue, free, submitted, service, slipped, poolFaults>>

---------------------------------------------------------------------------
(* DocumentIngestionService.shutdown, and the executor's.                  *)

StartStop(s) ==
    /\ stop[s] = "idle"
    /\ closing' = TRUE
    /\ stop' = [stop EXCEPT ![s] = IF closing THEN "wait" ELSE "list"]
    /\ UNCHANGED <<uploadJob, pool, closed, listed, slipped, poolFaults>>

ListSubmitted(s) ==
    /\ stop[s] = "list"
    /\ listed' = [listed EXCEPT ![s] = submitted]
    /\ stop' = [stop EXCEPT ![s] = "cancel"]
    /\ UNCHANGED <<uploadJob, pool, closing, closed, slipped, poolFaults>>

\* cancel_futures: the queue is emptied, and each future is cancelled with its callbacks.
Owing == {u \in Uploads : future[u] = "cancelled" /\ callbacks[u] # {}}

Cancel(s) ==
    /\ stop[s] = "cancel"
    /\ \/ /\ Owing # {}
          /\ \E u \in Owing : CallBack(u)
          /\ UNCHANGED <<queue, future, stop>>
       \/ /\ Owing = {} /\ queue # <<>>
          /\ future' = [future EXCEPT ![Head(queue)] = "cancelled"]
          /\ queue' = Tail(queue)
          /\ UNCHANGED <<callbacks, free, submitted, stop>>
       \/ /\ Owing = {} /\ queue = <<>>
          /\ stop' = [stop EXCEPT ![s] = "join"]
          /\ UNCHANGED <<queue, future, callbacks, free, submitted>>
    /\ UNCHANGED <<uploadJob, work, closing, closed, listed, slipped, poolFaults>>

\* Variant: wait=False, the shutdown goes on while pool threads work.
JoinAtOnce(s) ==
    /\ stop[s] = "join"
    /\ stop' = [stop EXCEPT ![s] = "fail"]
    /\ UNCHANGED <<uploadJob, pool, closing, closed, listed, slipped, poolFaults>>

\* wait=True: the pool threads end their work.
Join(s) ==
    /\ stop[s] = "join" /\ \A w \in Threads : work[w] = NoUpload
    /\ stop' = [stop EXCEPT ![s] = "fail"]
    /\ UNCHANGED <<uploadJob, pool, closing, closed, listed, slipped, poolFaults>>

\* Variant: the table is read after the executor's shutdown.
CancelledLate(s) == {u \in submitted : future[u] = "cancelled"}

Cancelled(s) == {u \in listed[s] : future[u] = "cancelled"}

\* Variant: the end is reported only when no exception ended the loop.
FailUnreported(s) ==
    /\ stop[s] = "fail"
    /\ \/ /\ \E u \in Cancelled(s) :
                /\ SaveJob(u, "failed")
                /\ listed' = [listed EXCEPT ![s] = @ \ {u}]
          /\ UNCHANGED <<stop, closed, slipped, poolFaults>>
       \/ /\ Cancelled(s) = {} \/ Fault
          /\ poolFaults' = IF Cancelled(s) = {} THEN poolFaults ELSE poolFaults + 1
          /\ closed' = (Cancelled(s) = {})
          /\ stop' = [stop EXCEPT ![s] = "done"]
          /\ slipped' = slipped \cup Cancelled(s)
          /\ UNCHANGED <<uploadJob, listed>>
    /\ UNCHANGED <<pool, closing>>

\* fail_job for each cancelled future; an exception ends the loop; then _shutdown_complete.
FailCancelled(s) ==
    /\ stop[s] = "fail"
    /\ \/ /\ \E u \in Cancelled(s) :
                /\ SaveJob(u, "failed")
                /\ listed' = [listed EXCEPT ![s] = @ \ {u}]
          /\ UNCHANGED <<stop, closed, slipped, poolFaults>>
       \/ /\ Cancelled(s) = {}
          /\ closed' = TRUE
          /\ stop' = [stop EXCEPT ![s] = "done"]
          /\ UNCHANGED <<uploadJob, listed, slipped, poolFaults>>
       \/ /\ Cancelled(s) # {} /\ Fault
          /\ slipped' = slipped \cup Cancelled(s)
          /\ closed' = TRUE
          /\ stop' = [stop EXCEPT ![s] = "done"]
          /\ UNCHANGED <<uploadJob, listed>>
    /\ UNCHANGED <<pool, closing>>

AwaitStop(s) ==
    /\ stop[s] = "wait" /\ closed
    /\ stop' = [stop EXCEPT ![s] = "done"]
    /\ UNCHANGED <<uploadJob, pool, closing, closed, listed, slipped, poolFaults>>

---------------------------------------------------------------------------
Settled(u) == uploadJob[u] \in {"completed", "failed"}

\* The process ends, after a shutdown or without one, and another one starts with an
\* empty pool; it looks at no job of the last one.
PoolRestart ==
    /\ Fault
    /\ slipped' = slipped \cup {u \in Uploads : uploadJob[u] # "none" /\ ~Settled(u)}
    /\ future' = [u \in Uploads |-> "none"]
    /\ callbacks' = [u \in Uploads |-> {}]
    /\ queue' = <<>>
    /\ work' = [w \in Threads |-> NoUpload]
    /\ free' = Capacity
    /\ submitted' = {}
    /\ closing' = FALSE /\ closed' = FALSE
    /\ stop' = [s \in Stoppers |-> "idle"]
    /\ listed' = [s \in Stoppers |-> {}]
    /\ UNCHANGED uploadJob

Thread(w) == Take(w) \/ BeginJob(w) \/ EndJob(w) \/ RunCallback(w) \/ FinishItem(w)
Stopping(s) == ListSubmitted(s) \/ Cancel(s) \/ Join(s) \/ FailCancelled(s) \/ AwaitStop(s)

PoolNext == \/ \E u \in Uploads : CreateJob(u) \/ Submit(u) \/ Refuse(u)
            \/ \E w \in Threads : Thread(w) \/ LoseJob(w)
            \/ \E s \in Stoppers : StartStop(s) \/ Stopping(s)
            \/ PoolRestart

PoolSpec == PoolInit /\ [][PoolNext]_poolVars

\* A handler that created a job hands it in; pool threads and a shutdown that was begun
\* go on.  Nothing makes anybody upload or shut down.
PoolFairSpec == /\ PoolSpec
                /\ \A u \in Uploads : WF_poolVars(Submit(u) \/ Refuse(u))
                /\ \A w \in Threads : WF_poolVars(Thread(w))
                /\ \A s \in Stoppers : WF_poolVars(Stopping(s))

---------------------------------------------------------------------------
(* Properties.                                                             *)

\* A permit is out exactly for each future that is not through with its callbacks, so a
\* full queue refuses no upload that fits and admits none that does not.
PermitsAccounted ==
    free + Cardinality({u \in Uploads : "release" \in callbacks[u]}) = Capacity

\* When the shutdown reports its end, the pool is empty and every job that was handed in
\* has its final status, also the ones that never ran.
StoppedIsSettled ==
    closed => /\ queue = <<>> /\ \A w \in Threads : work[w] = NoUpload
              /\ \A u \in Uploads \ slipped : Handed(u) => Settled(u)

\* A job that was handed in runs at most once, and its final status stays.
SettledIsFinal == [][\A u \in Uploads : Settled(u) => uploadJob'[u] = uploadJob[u]]_poolVars

\* A created job is completed or failed in the end, through a full queue, a shutdown
\* that races with the upload and the cancellation of the queue.
JobSettles == \A u \in Uploads : (uploadJob[u] = "queued") ~> (Settled(u) \/ u \in slipped)

\* A shutdown that was begun ends, for every caller.
StopEnds == \A s \in Stoppers : (stop[s] # "idle") ~> (stop[s] \in {"idle", "done"})

---------------------------------------------------------------------------
(* The pool implements IngestionService.                                   *)

Door == IF closed THEN "closed" ELSE IF closing THEN "closing" ELSE "open"

Promise == INSTANCE IngestionService WITH
    job      <- uploadJob,
    door     <- Door,
    accepted <- {u \in Uploads : Handed(u)},
    lost     <- {u \in slipped : ~Settled(u)}

\* Seen through its jobs, its flags and its futures, the pool with its shutdown is
\* IngestionService: a job is accepted before the shutdown begins or refused, it runs at
\* most once, and the end of the shutdown finds every accepted job ended.
ImplementsService == Promise!Spec
====
