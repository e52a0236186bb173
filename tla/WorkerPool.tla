----------------------------- MODULE WorkerPool -----------------------------
(***************************************************************************)
(* AsyncWorkerPool (worker_pool.py): a queue semaphore for backpressure, a *)
(* work semaphore for concurrency, one task per submitted job.  The pool   *)
(* runs on one event loop, so an action is the code between two awaits;    *)
(* cancellation is delivered at the next await of the cancelled coroutine. *)
(* asyncio's Semaphore, Task and gather are external: a semaphore is its   *)
(* count, a granted waiter takes its permit when it resumes.               *)
(***************************************************************************)
EXTENDS Naturals, FiniteSets

CONSTANTS
  Jobs,        \* calls of submit
  MaxQueue,    \* max_queue
  MaxWorkers   \* max_workers

ASSUME PoolAssumption ==
  /\ IsFiniteSet(Jobs)
  /\ MaxQueue \in Nat
  /\ MaxWorkers \in Nat \ {0}

VARIABLES
  caller,     \* the coroutine in submit: "idle", "queueing", "awaiting", "done"
  task,       \* its task: "none", "created", "gated", "running", "ended", "cleaned"
  cancelled,  \* tasks a cancellation was requested for
  released,   \* jobs that gave their queue permit back (the released flag)
  queueFree,  \* value of _queue_sema
  workFree,   \* value of _sema
  closed,     \* _closed
  closer,     \* the coroutine in close: "idle", "waiting", "expired", "returned"
  snapshot    \* the tasks close waits for

poolVars == <<caller, task, cancelled, released, queueFree, workFree>>
closeVars == <<closed, closer, snapshot>>
vars == <<poolVars, closeVars>>

Unfinished == {j \in Jobs : task[j] \in {"created", "gated", "running"}}
\* _tasks: a task leaves the set in its done callback.
Tasks == {j \in Jobs : task[j] \in {"created", "gated", "running", "ended"}}

Init ==
  /\ caller = [j \in Jobs |-> "idle"]
  /\ task = [j \in Jobs |-> "none"]
  /\ cancelled = {}
  /\ released = {}
  /\ queueFree = MaxQueue
  /\ workFree = MaxWorkers
  /\ closed = FALSE
  /\ closer = "idle"
  /\ snapshot = {}

(***************************************************************************)
(* submit                                                                  *)
(***************************************************************************)
CreateTask(j) ==
  /\ queueFree' = queueFree - 1
  /\ task' = [task EXCEPT ![j] = "created"]
  /\ caller' = [caller EXCEPT ![j] = "awaiting"]
  /\ UNCHANGED <<cancelled, released, workFree, closeVars>>

Reject(j) ==
  /\ caller[j] = "idle"
  /\ closed
  /\ caller' = [caller EXCEPT ![j] = "done"]
  /\ UNCHANGED <<task, cancelled, released, queueFree, workFree, closeVars>>

\* With a permit free and nobody waiting the acquire does not suspend.
SubmitAtOnce(j) ==
  /\ caller[j] = "idle"
  /\ ~closed
  /\ queueFree > 0
  /\ \A k \in Jobs : caller[k] # "queueing"
  /\ CreateTask(j)

SubmitWaits(j) ==
  /\ caller[j] = "idle"
  /\ ~closed
  /\ queueFree = 0 \/ \E k \in Jobs : caller[k] = "queueing"
  /\ caller' = [caller EXCEPT ![j] = "queueing"]
  /\ UNCHANGED <<task, cancelled, released, queueFree, workFree, closeVars>>

\* The acquire returns: the task is created, and _closed not looked at again.
SubmitResumes(j) ==
  /\ caller[j] = "queueing"
  /\ queueFree > 0
  /\ CreateTask(j)

SubmitReturns(j) ==
  /\ caller[j] = "awaiting"
  /\ task[j] = "cleaned"
  /\ caller' = [caller EXCEPT ![j] = "done"]
  /\ UNCHANGED <<task, cancelled, released, queueFree, workFree, closeVars>>

\* Cancelling a submitter withdraws it from the semaphore, or cancels the task
\* it awaits.
CancelSubmitter(j) ==
  \/ /\ caller[j] = "queueing"
     /\ caller' = [caller EXCEPT ![j] = "done"]
     /\ UNCHANGED <<task, cancelled, released, queueFree, workFree, closeVars>>
  \/ /\ caller[j] = "awaiting"
     /\ j \in Unfinished \ cancelled
     /\ cancelled' = cancelled \cup {j}
     /\ UNCHANGED <<caller, task, released, queueFree, workFree, closeVars>>

(***************************************************************************)
(* The tasks: _guarded and its done callback _cleanup.                     *)
(***************************************************************************)
\* Variant: the flag that makes the release idempotent is not looked at.
ReleaseQueueTwice(j) ==
  /\ released' = released \cup {j}
  /\ queueFree' = queueFree + 1

\* Variant: the done callback releases nothing.
CleanupOnly(j) ==
  /\ task[j] = "ended"
  /\ task' = [task EXCEPT ![j] = "cleaned"]
  /\ UNCHANGED <<caller, cancelled, released, queueFree, workFree, closeVars>>

ReleaseQueue(j) ==
  /\ released' = released \cup {j}
  /\ queueFree' = IF j \in released THEN queueFree ELSE queueFree + 1

\* A task cancelled before it started never enters _guarded.
EndBeforeStart(j) ==
  /\ task[j] = "created"
  /\ j \in cancelled
  /\ task' = [task EXCEPT ![j] = "ended"]
  /\ UNCHANGED <<caller, cancelled, released, queueFree, workFree, closeVars>>

StartGated(j) ==
  /\ task[j] = "created"
  /\ j \notin cancelled
  /\ workFree = 0 \/ \E k \in Jobs : task[k] = "gated"
  /\ task' = [task EXCEPT ![j] = "gated"]
  /\ UNCHANGED <<caller, cancelled, released, queueFree, workFree, closeVars>>

\* The work permit is taken, and fn runs.
RunJob(j) ==
  /\ \/ task[j] = "created" /\ \A k \in Jobs : task[k] # "gated"
     \/ task[j] = "gated"
  /\ j \notin cancelled
  /\ workFree > 0
  /\ workFree' = workFree - 1
  /\ task' = [task EXCEPT ![j] = "running"]
  /\ UNCHANGED <<caller, cancelled, released, queueFree, closeVars>>

\* Variant: a task cancelled while it waits releases a permit it never took.
CancelGatedReleasing(j) ==
  /\ task[j] = "gated"
  /\ j \in cancelled
  /\ task' = [task EXCEPT ![j] = "ended"]
  /\ workFree' = workFree + 1
  /\ ReleaseQueue(j)
  /\ UNCHANGED <<caller, cancelled, closeVars>>

CancelGated(j) ==
  /\ task[j] = "gated"
  /\ j \in cancelled
  /\ task' = [task EXCEPT ![j] = "ended"]
  /\ ReleaseQueue(j)
  /\ UNCHANGED <<caller, cancelled, workFree, closeVars>>

\* fn returns, raises or is cancelled (it may also swallow a cancellation).
FinishJob(j) ==
  /\ task[j] = "running"
  /\ task' = [task EXCEPT ![j] = "ended"]
  /\ workFree' = workFree + 1
  /\ ReleaseQueue(j)
  /\ UNCHANGED <<caller, cancelled, closeVars>>

Cleanup(j) ==
  /\ task[j] = "ended"
  /\ task' = [task EXCEPT ![j] = "cleaned"]
  /\ ReleaseQueue(j)
  /\ UNCHANGED <<caller, cancelled, workFree, closeVars>>

(***************************************************************************)
(* cancel_pending and close                                                *)
(***************************************************************************)
CancelPending ==
  /\ ~(Unfinished \subseteq cancelled)
  /\ cancelled' = cancelled \cup Unfinished
  /\ UNCHANGED <<caller, task, released, queueFree, workFree, closeVars>>

Close ==
  /\ closer \notin {"waiting", "expired"}
  /\ closed' = TRUE
  /\ snapshot' = Tasks
  /\ cancelled' = cancelled \cup Unfinished
  /\ closer' = IF Tasks = {} THEN "returned" ELSE "waiting"
  /\ UNCHANGED <<caller, task, released, queueFree, workFree>>

CloseReturns ==
  /\ closer = "waiting"
  /\ snapshot \cap Unfinished = {}
  /\ closer' = "returned"
  /\ UNCHANGED <<poolVars, closed, snapshot>>

\* wait_for cancels the gather, and with it once more the tasks; the gather is
\* only done when they are, so close waits on.
CloseTimesOut ==
  /\ closer = "waiting"
  /\ closer' = "expired"
  /\ cancelled' = cancelled \cup (snapshot \cap Unfinished)
  /\ UNCHANGED <<caller, task, released, queueFree, workFree, closed, snapshot>>

CloseWarns ==
  /\ closer = "expired"
  /\ snapshot \cap Unfinished = {}
  /\ closer' = "returned"
  /\ UNCHANGED <<poolVars, closed, snapshot>>

CallerStep(j) == SubmitResumes(j) \/ SubmitReturns(j)
TaskStep(j) ==
  \/ EndBeforeStart(j) \/ StartGated(j) \/ RunJob(j)
  \/ CancelGated(j) \/ FinishJob(j) \/ Cleanup(j)

Next ==
  \/ \E j \in Jobs :
       \/ Reject(j) \/ SubmitAtOnce(j) \/ SubmitWaits(j) \/ CancelSubmitter(j)
       \/ CallerStep(j) \/ TaskStep(j)
  \/ CancelPending \/ Close \/ CloseReturns \/ CloseTimesOut \/ CloseWarns

Spec == Init /\ [][Next]_vars

\* The event loop runs every ready coroutine, and fn ends.
FairSpec ==
  /\ Spec
  /\ \A j \in Jobs : WF_vars(CallerStep(j)) /\ WF_vars(TaskStep(j))
  /\ WF_vars(CloseReturns) /\ WF_vars(CloseWarns)

-----------------------------------------------------------------------------
TaskState == {"none", "created", "gated", "running", "ended", "cleaned"}

\* Type invariant.
TypeOK ==
  /\ caller \in [Jobs -> {"idle", "queueing", "awaiting", "done"}]
  /\ task \in [Jobs -> TaskState]
  /\ cancelled \subseteq Jobs
  /\ released \subseteq Jobs
  /\ queueFree \in 0 .. MaxQueue
  /\ workFree \in 0 .. MaxWorkers
  /\ closed \in BOOLEAN
  /\ closer \in {"idle", "waiting", "expired", "returned"}
  /\ snapshot \subseteq Jobs

Holders == Tasks \ released
Running == {j \in Jobs : task[j] = "running"}

\* Every permit is either free or held by exactly one job, whatever order
\* finishing, cancelling and the done callback come in: none is lost (the pool
\* would shrink for good) and none is released twice (it would outgrow its bound).
PermitsAccounted ==
  /\ queueFree + Cardinality(Holders) = MaxQueue
  /\ workFree + Cardinality(Running) = MaxWorkers

\* A job stays accepted until its queue permit is back.
JobState(j) ==
  CASE task[j] = "none" -> "new"
    [] task[j] = "running" -> "running"
    [] task[j] \in {"created", "gated", "ended"} /\ j \notin released -> "accepted"
    [] OTHER -> "ended"

Abstract == INSTANCE BoundedPool WITH job <- [j \in Jobs |-> JobState(j)]

\* The two semaphores, the tasks and their callbacks implement a bounded pool:
\* both bounds hold, and no job runs twice or after it ended.
ImplementsBoundedPool == Abstract!Spec

\* Every submit returns or raises in the end: no submitter is left waiting for
\* a permit that a cancelled task took with it, and close does not strand one.
SubmitSettles == \A j \in Jobs : caller[j] # "idle" ~> caller[j] = "done"

=============================================================================
