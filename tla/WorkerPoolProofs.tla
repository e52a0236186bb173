-------------------------- MODULE WorkerPoolProofs --------------------------
(***************************************************************************)
(* Theorems about the worker pool, for every finite set of jobs and every  *)
(* size of the two semaphores.  The argument: a queue permit is held from  *)
(* the creation of a task to its first release, and only a task that has   *)
(* ended was released, so the permits and their holders add up; both       *)
(* bounds of the abstract pool follow from the sums.                       *)
(*                                                                         *)
(* Since no permit gets lost, a submitter that waits has somebody to wait  *)
(* for who can go on, and each step brings a submit closer to its end.     *)
(***************************************************************************)
EXTENDS WorkerPool, FiniteSetTheorems, TLAPS

\* A job has no task while its submitter has not got a permit, its permit is
\* given back when its task has ended, and at the latest by the done callback.
Lifecycle ==
  \A j \in Jobs :
    /\ caller[j] \in {"idle", "queueing"} => task[j] = "none"
    /\ j \in released => task[j] \in {"ended", "cleaned"}
    /\ task[j] = "cleaned" => j \in released

\* The types, without the upper bounds of the semaphores.
Shape ==
  /\ caller \in [Jobs -> {"idle", "queueing", "awaiting", "done"}]
  /\ task \in [Jobs -> TaskState]
  /\ cancelled \subseteq Jobs
  /\ released \subseteq Jobs
  /\ queueFree \in Nat
  /\ workFree \in Nat
  /\ closed \in BOOLEAN
  /\ closer \in {"idle", "waiting", "expired", "returned"}
  /\ snapshot \subseteq Jobs

PoolInv == Shape /\ Lifecycle /\ PermitsAccounted

-----------------------------------------------------------------------------
\* Counting one job in or out of a set of jobs.
LEMMA CountIsNat == ASSUME NEW S \in SUBSET Jobs PROVE IsFiniteSet(S) /\ Cardinality(S) \in Nat
  BY PoolAssumption, FS_Subset, FS_CardinalityType

LEMMA CountIn ==
  ASSUME NEW S \in SUBSET Jobs, NEW j \in Jobs, j \notin S
  PROVE  Cardinality(S \cup {j}) = Cardinality(S) + 1
  BY CountIsNat, FS_AddElement

LEMMA CountOut ==
  ASSUME NEW S \in SUBSET Jobs, NEW j \in S
  PROVE  Cardinality(S \ {j}) = Cardinality(S) - 1
  BY CountIsNat, FS_RemoveElement

LEMMA JobSets == Holders \subseteq Jobs /\ Running \subseteq Jobs
  BY DEF Holders, Tasks, Running

-----------------------------------------------------------------------------
\* What a step of a task does to the holders of the two permits.
LEMMA CreateCounts ==
  ASSUME PoolInv, NEW j \in Jobs, task[j] = "none", CreateTask(j)
  PROVE  /\ Holders' = Holders \cup {j} /\ j \notin Holders
         /\ Running' = Running
  BY DEF PoolInv, Shape, Lifecycle, CreateTask, Holders, Tasks, Running, TaskState

LEMMA RunCounts ==
  ASSUME PoolInv, NEW j \in Jobs, RunJob(j)
  PROVE  /\ Holders' = Holders
         /\ Running' = Running \cup {j} /\ j \notin Running
  BY DEF PoolInv, Shape, Lifecycle, RunJob, Holders, Tasks, Running, TaskState

LEMMA FinishCounts ==
  ASSUME PoolInv, NEW j \in Jobs, FinishJob(j)
  PROVE  /\ j \notin released
         /\ Holders' = Holders \ {j} /\ j \in Holders
         /\ Running' = Running \ {j} /\ j \in Running
  BY DEF PoolInv, Shape, Lifecycle, FinishJob, ReleaseQueue, Holders, Tasks, Running, TaskState

LEMMA CancelGatedCounts ==
  ASSUME PoolInv, NEW j \in Jobs, CancelGated(j)
  PROVE  /\ j \notin released
         /\ Holders' = Holders \ {j} /\ j \in Holders
         /\ Running' = Running
  BY DEF PoolInv, Shape, Lifecycle, CancelGated, ReleaseQueue, Holders, Tasks, Running, TaskState

LEMMA CleanupCounts ==
  ASSUME PoolInv, NEW j \in Jobs, Cleanup(j)
  PROVE  /\ j \in released => Holders' = Holders
         /\ j \notin released => Holders' = Holders \ {j} /\ j \in Holders
         /\ Running' = Running
  BY DEF PoolInv, Shape, Lifecycle, Cleanup, ReleaseQueue, Holders, Tasks, Running, TaskState

\* The steps that move no permit.
Permitless(j) ==
  \/ Reject(j) \/ SubmitWaits(j) \/ SubmitReturns(j) \/ CancelSubmitter(j)
  \/ EndBeforeStart(j) \/ StartGated(j)

Closing == CancelPending \/ Close \/ CloseReturns \/ CloseTimesOut \/ CloseWarns

LEMMA PermitlessCounts ==
  ASSUME PoolInv, NEW j \in Jobs, Permitless(j)
  PROVE  /\ Holders' = Holders /\ Running' = Running
         /\ UNCHANGED <<queueFree, workFree, released>>
  BY DEF PoolInv, Shape, Lifecycle, Permitless, Reject, SubmitWaits, SubmitReturns,
         CancelSubmitter, EndBeforeStart, StartGated, closeVars, Holders, Tasks, Running, TaskState

-----------------------------------------------------------------------------
LEMMA PoolInvInit == Init => PoolInv
<1> SUFFICES ASSUME Init PROVE PoolInv
  OBVIOUS
<1>1. Shape /\ Lifecycle
  BY PoolAssumption DEF Init, Shape, Lifecycle, TaskState
<1>2. Holders = {} /\ Running = {}
  BY DEF Init, Holders, Tasks, Running
<1>3. PermitsAccounted
  BY <1>2, FS_EmptySet, PoolAssumption DEF Init, PermitsAccounted
<1> QED
  BY <1>1, <1>3 DEF PoolInv

LEMMA PoolInvStep == PoolInv /\ [Next]_vars => PoolInv'
<1> SUFFICES ASSUME PoolInv, [Next]_vars PROVE PoolInv'
  OBVIOUS
<1> USE PoolAssumption
<1> USE JobSets, CountIsNat
<1>1. ASSUME NEW j \in Jobs, SubmitAtOnce(j) \/ SubmitResumes(j)
      PROVE  PoolInv'
  <2>1. task[j] = "none" /\ queueFree > 0 /\ CreateTask(j)
    BY <1>1 DEF SubmitAtOnce, SubmitResumes, PoolInv, Lifecycle
  <2>2. Shape' /\ Lifecycle'
    BY <2>1 DEF CreateTask, PoolInv, Shape, Lifecycle, TaskState, closeVars
  <2>3. PermitsAccounted'
    <3>1. Cardinality(Holders') = Cardinality(Holders) + 1 /\ Running' = Running
      BY <2>1, CreateCounts, CountIn
    <3> QED
      BY <2>1, <3>1 DEF CreateTask, PoolInv, Shape, PermitsAccounted
  <2> QED
    BY <2>2, <2>3 DEF PoolInv
<1>2. ASSUME NEW j \in Jobs, RunJob(j)
      PROVE  PoolInv'
  <2>1. Shape' /\ Lifecycle'
    BY <1>2 DEF RunJob, PoolInv, Shape, Lifecycle, TaskState, closeVars
  <2>2. PermitsAccounted'
    <3>1. Cardinality(Running') = Cardinality(Running) + 1 /\ Holders' = Holders
      BY <1>2, RunCounts, CountIn
    <3> QED
      BY <1>2, <3>1 DEF RunJob, PoolInv, Shape, PermitsAccounted
  <2> QED
    BY <2>1, <2>2 DEF PoolInv
<1>3. ASSUME NEW j \in Jobs, FinishJob(j)
      PROVE  PoolInv'
  <2>1. Shape' /\ Lifecycle'
    BY <1>3 DEF FinishJob, ReleaseQueue, PoolInv, Shape, Lifecycle, TaskState, closeVars
  <2>2. PermitsAccounted'
    <3>1. /\ Cardinality(Holders') = Cardinality(Holders) - 1
          /\ Cardinality(Running') = Cardinality(Running) - 1
          /\ j \notin released
      BY <1>3, FinishCounts, CountOut
    <3> QED
      BY <1>3, <3>1 DEF FinishJob, ReleaseQueue, PoolInv, Shape, PermitsAccounted
  <2> QED
    BY <2>1, <2>2 DEF PoolInv
<1>4. ASSUME NEW j \in Jobs, CancelGated(j)
      PROVE  PoolInv'
  <2>1. Shape' /\ Lifecycle'
    BY <1>4 DEF CancelGated, ReleaseQueue, PoolInv, Shape, Lifecycle, TaskState, closeVars
  <2>2. PermitsAccounted'
    <3>1. /\ Cardinality(Holders') = Cardinality(Holders) - 1
          /\ Running' = Running
          /\ j \notin released
      BY <1>4, CancelGatedCounts, CountOut
    <3> QED
      BY <1>4, <3>1 DEF CancelGated, ReleaseQueue, PoolInv, Shape, PermitsAccounted
  <2> QED
    BY <2>1, <2>2 DEF PoolInv
<1>5. ASSUME NEW j \in Jobs, Cleanup(j)
      PROVE  PoolInv'
  <2>1. Shape' /\ Lifecycle'
    BY <1>5 DEF Cleanup, ReleaseQueue, PoolInv, Shape, Lifecycle, TaskState, closeVars
  <2>2. PermitsAccounted'
    <3>1. /\ j \notin released => Cardinality(Holders') = Cardinality(Holders) - 1
          /\ j \in released => Holders' = Holders
          /\ Running' = Running
      BY <1>5, CleanupCounts, CountOut
    <3> QED
      BY <1>5, <3>1 DEF Cleanup, ReleaseQueue, PoolInv, Shape, PermitsAccounted
  <2> QED
    BY <2>1, <2>2 DEF PoolInv
<1>6. ASSUME NEW j \in Jobs, Permitless(j)
      PROVE  PoolInv'
  <2>1. Shape' /\ Lifecycle'
    BY <1>6 DEF Permitless, Reject, SubmitWaits, SubmitReturns, CancelSubmitter, EndBeforeStart,
                StartGated, PoolInv, Shape, Lifecycle, TaskState, closeVars
  <2>2. PermitsAccounted'
    BY <1>6, PermitlessCounts DEF PoolInv, PermitsAccounted
  <2> QED
    BY <2>1, <2>2 DEF PoolInv
<1>7. CASE Closing
  <2>1. Shape' /\ Lifecycle'
    BY <1>7 DEF Closing, CancelPending, Close, CloseReturns, CloseTimesOut, CloseWarns, Unfinished,
                Tasks, PoolInv, Shape, Lifecycle, TaskState, poolVars, closeVars
  <2>2. UNCHANGED <<task, released, queueFree, workFree>>
    BY <1>7 DEF Closing, CancelPending, Close, CloseReturns, CloseTimesOut, CloseWarns, poolVars, closeVars
  <2>3. PermitsAccounted'
    BY <2>2 DEF PoolInv, PermitsAccounted, Holders, Tasks, Running
  <2> QED
    BY <2>1, <2>3 DEF PoolInv
<1>8. CASE UNCHANGED vars
  BY <1>8 DEF vars, poolVars, closeVars, PoolInv, Shape, Lifecycle, PermitsAccounted, Holders, Tasks, Running
<1> QED
  BY <1>1, <1>2, <1>3, <1>4, <1>5, <1>6, <1>7, <1>8
     DEF Next, CallerStep, TaskStep, Permitless, Closing

\* The invariant the other theorems rest on.
THEOREM Accounting == Spec => []PoolInv
<1> QED
  BY PoolInvInit, PoolInvStep, PTL DEF Spec

\* No permit of the two semaphores is ever lost or given back twice.
THEOREM PermitsAreAccounted == Spec => []PermitsAccounted
<1>1. PoolInv => PermitsAccounted
  BY DEF PoolInv
<1> QED
  BY <1>1, Accounting, PTL

\* The types, and that a semaphore never counts more than its size.
THEOREM TypeCorrect == Spec => []TypeOK
<1>1. PoolInv => TypeOK
  BY JobSets, CountIsNat, PoolAssumption DEF PoolInv, Shape, PermitsAccounted, TypeOK
<1> QED
  BY <1>1, Accounting, PTL

-----------------------------------------------------------------------------
abstract == [j \in Jobs |-> JobState(j)]

\* The accepted and the running jobs of the abstract pool hold the permits.
LEMMA AbstractSets ==
  ASSUME PoolInv
  PROVE  /\ Abstract!In("running") = Running
         /\ Abstract!In("accepted") \cup Abstract!In("running") = Holders
  BY DEF Abstract!In, PoolInv, Shape, Lifecycle, JobState, Running, Holders, Tasks, TaskState

\* A step that changes one job at most changes the abstract pool there only.
LEMMA AbstractElsewhere ==
  ASSUME NEW j \in Jobs, Shape, Shape',
         \A k \in Jobs \ {j} : task'[k] = task[k] /\ (k \in released' <=> k \in released)
  PROVE  abstract' = [abstract EXCEPT ![j] = JobState(j)']
<1>1. \A k \in Jobs \ {j} : JobState(k)' = JobState(k)
  BY DEF JobState
<1> QED
  BY <1>1 DEF abstract

LEMMA AbstractUnchanged ==
  ASSUME UNCHANGED <<task, released>>
  PROVE  UNCHANGED abstract
  BY DEF abstract, JobState

\* The cardinality the abstract pool uses is the same operator.
LEMMA SameCount == ASSUME NEW S PROVE Abstract!Cardinality(S) = Cardinality(S)
  BY DEF Abstract!Cardinality, Cardinality

LEMMA StepImplements ==
  ASSUME PoolInv, PoolInv', [Next]_vars
  PROVE  [Abstract!Next]_abstract
<1> USE PoolAssumption
<1> USE JobSets, CountIsNat
<1>0. Shape /\ Shape' /\ Lifecycle /\ PermitsAccounted
  BY DEF PoolInv
<1>1. ASSUME NEW j \in Jobs, SubmitAtOnce(j) \/ SubmitResumes(j)
      PROVE  Abstract!Accept(j)
  <2>1. task[j] = "none" /\ queueFree > 0 /\ CreateTask(j)
    BY <1>0, <1>1 DEF SubmitAtOnce, SubmitResumes, Lifecycle
  <2>2. abstract' = [abstract EXCEPT ![j] = "accepted"]
    BY <1>0, <2>1, AbstractElsewhere DEF CreateTask, JobState, Shape, Lifecycle
  <2>3. abstract[j] = "new"
    BY <2>1 DEF abstract, JobState
  <2>4. Cardinality(Holders) < MaxQueue
    BY <1>0, <2>1 DEF PermitsAccounted, Shape
  <2>5. Abstract!In("accepted") \cup Abstract!In("running") = Holders
    BY AbstractSets
  <2> QED
    BY <2>2, <2>3, <2>4, <2>5, SameCount DEF Abstract!Accept, abstract
<1>2. ASSUME NEW j \in Jobs, RunJob(j)
      PROVE  Abstract!Run(j)
  <2>1. abstract' = [abstract EXCEPT ![j] = "running"]
    BY <1>0, <1>2, AbstractElsewhere DEF RunJob, JobState, Shape
  <2>2. abstract[j] = "accepted"
    BY <1>0, <1>2 DEF RunJob, abstract, JobState, Lifecycle
  <2>3. Cardinality(Running) < MaxWorkers
    BY <1>0, <1>2 DEF RunJob, PermitsAccounted, Shape
  <2>4. Abstract!In("running") = Running
    BY AbstractSets
  <2> QED
    BY <2>1, <2>2, <2>3, <2>4, SameCount DEF Abstract!Run, abstract
<1>3. ASSUME NEW j \in Jobs, FinishJob(j) \/ CancelGated(j) \/ (Cleanup(j) /\ j \notin released)
      PROVE  Abstract!End(j)
  <2>1. abstract' = [abstract EXCEPT ![j] = "ended"]
    BY <1>0, <1>3, AbstractElsewhere DEF FinishJob, CancelGated, Cleanup, ReleaseQueue, JobState, Shape
  <2>2. abstract[j] \in {"accepted", "running"}
    BY <1>0, <1>3 DEF FinishJob, CancelGated, Cleanup, abstract, JobState, Lifecycle
  <2> QED
    BY <2>1, <2>2 DEF Abstract!End, abstract
<1>4. ASSUME NEW j \in Jobs, (Cleanup(j) /\ j \in released) \/ EndBeforeStart(j) \/ StartGated(j)
      PROVE  UNCHANGED abstract
  <2>1. abstract' = [abstract EXCEPT ![j] = JobState(j)']
    BY <1>0, <1>4, AbstractElsewhere DEF Cleanup, ReleaseQueue, EndBeforeStart, StartGated, Shape
  <2>2. JobState(j)' = JobState(j)
    BY <1>0, <1>4 DEF Cleanup, ReleaseQueue, EndBeforeStart, StartGated, JobState, Shape, Lifecycle
  <2> QED
    BY <2>1, <2>2 DEF abstract
<1>5. ASSUME NEW j \in Jobs, Reject(j) \/ SubmitWaits(j) \/ SubmitReturns(j) \/ CancelSubmitter(j)
      PROVE  UNCHANGED abstract
  BY <1>5, AbstractUnchanged DEF Reject, SubmitWaits, SubmitReturns, CancelSubmitter
<1>6. CASE Closing
  BY <1>6, AbstractUnchanged
     DEF Closing, CancelPending, Close, CloseReturns, CloseTimesOut, CloseWarns, poolVars
<1>7. CASE UNCHANGED vars
  BY <1>7, AbstractUnchanged DEF vars, poolVars
<1> QED
  BY <1>1, <1>2, <1>3, <1>4, <1>5, <1>6, <1>7
     DEF Next, CallerStep, TaskStep, Closing, Abstract!Next

\* The pool of semaphores, tasks and callbacks implements the abstract bounded
\* pool: never more than MaxQueue unfinished jobs, never more than MaxWorkers
\* running ones, and no job runs twice or after it ended.
THEOREM Implements == Spec => ImplementsBoundedPool
<1>1. Init => Abstract!Init
  BY DEF Init, Abstract!Init, JobState
<1>2. PoolInv /\ PoolInv' /\ [Next]_vars => [Abstract!Next]_abstract
  BY StepImplements
<1> QED
  BY <1>1, <1>2, Accounting, PTL DEF Spec, ImplementsBoundedPool, Abstract!Spec, abstract

-----------------------------------------------------------------------------
\* Whom a submitter waits for: its task lives until the submitter knows.
Awaited ==
  \A j \in Jobs :
    /\ caller[j] = "awaiting" => task[j] # "none"
    /\ caller[j] = "done" => task[j] \in {"none", "cleaned"}

\* The guards of CallerStep and TaskStep: the event loop can run something of j.
CanGoOn(j) ==
  \/ caller[j] = "queueing" /\ queueFree > 0
  \/ caller[j] = "awaiting" /\ task[j] = "cleaned"
  \/ task[j] \in {"created", "running", "ended"}
  \/ task[j] = "gated" /\ (j \in cancelled \/ workFree > 0)

Waiting == {j \in Jobs : caller[j] \notin {"idle", "done"}}

\* The steps a submit has left.
StepsLeft(c, t) ==
  CASE c = "idle" -> 7
    [] c = "queueing" -> 6
    [] c = "awaiting" -> CASE t = "created" -> 5
                           [] t = "gated" -> 4
                           [] t = "running" -> 3
                           [] t = "ended" -> 2
                           [] OTHER -> 1
    [] c = "done" -> 0

LEMMA StepsLeftNumber ==
  ASSUME NEW c \in {"idle", "queueing", "awaiting", "done"}, NEW t
  PROVE  StepsLeft(c, t) \in 0 .. 7
<1>1. CASE c = "awaiting"
  <2> DEFINE steps == CASE t = "created" -> 5
                        [] t = "gated" -> 4
                        [] t = "running" -> 3
                        [] t = "ended" -> 2
                        [] OTHER -> 1
  <2>1. steps \in 1 .. 5
    OBVIOUS
  <2>2. StepsLeft(c, t) = steps
    BY <1>1 DEF StepsLeft
  <2> QED
    BY <2>1, <2>2
<1>2. CASE c # "awaiting"
  BY <1>2 DEF StepsLeft
<1> QED
  BY <1>1, <1>2

\* Whoever moves, the steps of the other jobs stay.
LEMMA OthersStay ==
  ASSUME PoolInv, [Next]_vars,
         NEW j \in Jobs, caller'[j] # caller[j] \/ task'[j] # task[j]
  PROVE  \/ Reject(j) \/ SubmitAtOnce(j) \/ SubmitWaits(j) \/ CancelSubmitter(j)
         \/ CallerStep(j) \/ TaskStep(j)
<1>1. caller \in [Jobs -> {"idle", "queueing", "awaiting", "done"}] /\ task \in [Jobs -> TaskState]
  BY DEF PoolInv, Shape
<1>2. ASSUME NEW k \in Jobs, k # j,
             \/ Reject(k) \/ SubmitAtOnce(k) \/ SubmitWaits(k) \/ CancelSubmitter(k)
             \/ CallerStep(k) \/ TaskStep(k)
      PROVE  caller'[j] = caller[j] /\ task'[j] = task[j]
  <2>1. CASE Reject(k) \/ SubmitWaits(k) \/ CancelSubmitter(k)
    BY <1>1, <1>2, <2>1 DEF Reject, SubmitWaits, CancelSubmitter
  <2>2. CASE SubmitAtOnce(k) \/ SubmitResumes(k)
    BY <1>1, <1>2, <2>2 DEF SubmitAtOnce, SubmitResumes, CreateTask
  <2>3. CASE SubmitReturns(k)
    BY <1>1, <1>2, <2>3 DEF SubmitReturns
  <2>4. CASE TaskStep(k)
    BY <1>1, <1>2, <2>4
       DEF TaskStep, EndBeforeStart, StartGated, RunJob, CancelGated, FinishJob, Cleanup
  <2> QED
    BY <1>2, <2>1, <2>2, <2>3, <2>4 DEF CallerStep
<1>3. CASE Closing \/ UNCHANGED vars
  BY <1>3 DEF Closing, CancelPending, Close, CloseReturns, CloseTimesOut, CloseWarns, vars, poolVars
<1> QED
  BY <1>2, <1>3 DEF Next, Closing

\* Each step of a job takes one of those it has left.
LEMMA JobAdvances ==
  ASSUME PoolInv, Awaited, NEW j \in Jobs,
         \/ Reject(j) \/ SubmitAtOnce(j) \/ SubmitWaits(j) \/ CancelSubmitter(j)
         \/ CallerStep(j) \/ TaskStep(j)
  PROVE  /\ caller[j] = "awaiting" => caller'[j] \in {"awaiting", "done"}
         /\ StepsLeft(caller'[j], task'[j]) <= StepsLeft(caller[j], task[j])
         /\ CallerStep(j) \/ TaskStep(j) =>
              StepsLeft(caller'[j], task'[j]) < StepsLeft(caller[j], task[j])
         /\ caller'[j] = "awaiting" => task'[j] # "none"
         /\ caller'[j] = "done" => task'[j] \in {"none", "cleaned"}
<1>1. caller \in [Jobs -> {"idle", "queueing", "awaiting", "done"}] /\ task \in [Jobs -> TaskState]
  BY DEF PoolInv, Shape
<1>2. /\ caller[j] \in {"idle", "queueing"} => task[j] = "none"
      /\ caller[j] = "awaiting" => task[j] # "none"
      /\ caller[j] = "done" => task[j] \in {"none", "cleaned"}
  BY DEF PoolInv, Lifecycle, Awaited
<1>3. CASE Reject(j)
  <2>1. caller[j] = "idle" /\ caller'[j] = "done" /\ task' = task
    BY <1>1, <1>3 DEF Reject
  <2>2. ~CallerStep(j) /\ ~TaskStep(j)
    BY <1>2, <2>1 DEF CallerStep, SubmitResumes, SubmitReturns, TaskStep, EndBeforeStart,
                      StartGated, RunJob, CancelGated, FinishJob, Cleanup
  <2> QED
    BY <1>2, <2>1, <2>2 DEF StepsLeft
<1>4. CASE SubmitWaits(j)
  <2>1. caller[j] = "idle" /\ caller'[j] = "queueing" /\ task' = task
    BY <1>1, <1>4 DEF SubmitWaits
  <2> QED
    BY <1>2, <2>1 DEF StepsLeft
<1>5. CASE SubmitAtOnce(j) \/ SubmitResumes(j)
  <2>1. /\ caller[j] \in {"idle", "queueing"}
        /\ caller'[j] = "awaiting" /\ task'[j] = "created"
    BY <1>1, <1>5 DEF SubmitAtOnce, SubmitResumes, CreateTask
  <2> QED
    BY <2>1 DEF StepsLeft
<1>6. CASE SubmitReturns(j)
  <2>1. caller[j] = "awaiting" /\ caller'[j] = "done" /\ task[j] = "cleaned" /\ task' = task
    BY <1>1, <1>6 DEF SubmitReturns
  <2> QED
    BY <2>1 DEF StepsLeft
<1>7. CASE TaskStep(j)
  <2>1. task[j] \in {"created", "gated", "running", "ended"} /\ caller' = caller
    BY <1>7 DEF TaskStep, EndBeforeStart, StartGated, RunJob, CancelGated, FinishJob, Cleanup
  <2>2. caller[j] = "awaiting"
    BY <1>1, <1>2, <2>1
  <2>3. \/ task[j] = "created" /\ task'[j] \in {"ended", "gated", "running"}
        \/ task[j] = "gated" /\ task'[j] \in {"running", "ended"}
        \/ task[j] = "running" /\ task'[j] = "ended"
        \/ task[j] = "ended" /\ task'[j] = "cleaned"
    BY <1>1, <1>7
       DEF TaskStep, EndBeforeStart, StartGated, RunJob, CancelGated, FinishJob, Cleanup
  <2> QED
    BY <2>1, <2>2, <2>3 DEF StepsLeft
<1>8. CASE CancelSubmitter(j)
  <2>1. CASE caller[j] = "queueing"
    <3>1. caller'[j] = "done" /\ task' = task
      BY <1>1, <1>8, <2>1 DEF CancelSubmitter
    <3> QED
      BY <1>2, <2>1, <3>1 DEF StepsLeft
  <2>2. CASE caller[j] = "awaiting"
    <3>1. caller' = caller /\ task' = task
      BY <1>8, <2>2 DEF CancelSubmitter
    <3>2. StepsLeft(caller[j], task[j]) \in 0 .. 7
      BY <1>1, StepsLeftNumber
    <3> QED
      BY <1>2, <1>5, <1>6, <1>7, <2>2, <3>1, <3>2 DEF CallerStep
  <2> QED
    BY <1>8, <2>1, <2>2 DEF CancelSubmitter
<1> QED
  BY <1>3, <1>4, <1>5, <1>6, <1>7, <1>8 DEF CallerStep

LEMMA AwaitedStep == PoolInv /\ Awaited /\ [Next]_vars => Awaited'
<1> SUFFICES ASSUME PoolInv, Awaited, [Next]_vars, NEW j \in Jobs
             PROVE  /\ caller'[j] = "awaiting" => task'[j] # "none"
                    /\ caller'[j] = "done" => task'[j] \in {"none", "cleaned"}
  BY DEF Awaited
<1>1. CASE caller'[j] = caller[j] /\ task'[j] = task[j]
  BY <1>1 DEF Awaited
<1>2. CASE caller'[j] # caller[j] \/ task'[j] # task[j]
  BY <1>2, OthersStay, JobAdvances
<1> QED
  BY <1>1, <1>2

\* A set of jobs whose count is not zero has one.
LEMMA CountedExists ==
  ASSUME NEW S \in SUBSET Jobs, Cardinality(S) > 0
  PROVE  \E j \in Jobs : j \in S
  BY FS_EmptySet

\* The holders of the permits somebody waits for can go on, or wait for those who
\* run; and whoever runs can go on.
LEMMA SomebodyGoesOn ==
  ASSUME PoolInv, Awaited, MaxQueue > 0, Waiting # {}
  PROVE  \E k \in Jobs : CanGoOn(k)
<1>0. /\ caller \in [Jobs -> {"idle", "queueing", "awaiting", "done"}]
      /\ task \in [Jobs -> TaskState]
      /\ queueFree \in Nat /\ workFree \in Nat /\ MaxQueue \in Nat /\ MaxWorkers \in Nat \ {0}
      /\ Holders \in SUBSET Jobs /\ Running \in SUBSET Jobs
  BY PoolAssumption, JobSets DEF PoolInv, Shape
<1>1. ASSUME NEW j \in Jobs, task[j] \notin {"none", "cleaned"}
      PROVE  \E k \in Jobs : CanGoOn(k)
  <2>1. CASE task[j] \in {"created", "running", "ended"}
    BY <2>1 DEF CanGoOn
  <2>2. CASE task[j] = "gated" /\ workFree > 0
    BY <2>2 DEF CanGoOn
  <2>3. CASE task[j] = "gated" /\ ~(workFree > 0)
    <3>1. Cardinality(Running) \in Nat /\ workFree + Cardinality(Running) = MaxWorkers
      BY <1>0, CountIsNat DEF PoolInv, PermitsAccounted
    <3>2. Cardinality(Running) > 0
      BY <1>0, <2>3, <3>1
    <3>3. PICK k \in Jobs : k \in Running
      BY <1>0, <3>2, CountedExists
    <3> QED
      BY <3>3 DEF Running, CanGoOn
  <2> QED
    BY <1>0, <1>1, <2>1, <2>2, <2>3 DEF TaskState
<1>2. PICK j \in Jobs : caller[j] \in {"queueing", "awaiting"}
  BY <1>0 DEF Waiting
<1>3. CASE caller[j] = "awaiting"
  <2>1. CASE task[j] = "cleaned"
    BY <1>3, <2>1 DEF CanGoOn
  <2>2. CASE task[j] # "cleaned"
    BY <1>1, <1>3, <2>2 DEF Awaited
  <2> QED
    BY <2>1, <2>2
<1>4. CASE caller[j] = "queueing"
  <2>1. CASE queueFree > 0
    BY <1>4, <2>1 DEF CanGoOn
  <2>2. CASE ~(queueFree > 0)
    <3>1. Cardinality(Holders) \in Nat /\ queueFree + Cardinality(Holders) = MaxQueue
      BY <1>0, CountIsNat DEF PoolInv, PermitsAccounted
    <3>2. Cardinality(Holders) > 0
      BY <1>0, <2>2, <3>1
    <3>3. PICK k \in Jobs : k \in Holders
      BY <1>0, <3>2, CountedExists
    <3>4. task[k] \notin {"none", "cleaned"}
      BY <3>3 DEF Holders, Tasks
    <3> QED
      BY <1>1, <3>4
  <2> QED
    BY <2>1, <2>2
<1> QED
  BY <1>2, <1>3, <1>4

\* While a submitter waits, the event loop has something to run, in whatever order
\* jobs were cancelled and the pool was closed: no permit is kept by a task that is
\* gone.  A queue without a place, which would never let anybody in, is left out.
THEOREM NobodyIsStranded ==
  ASSUME MaxQueue > 0
  PROVE  Spec => [](Waiting # {} => \E k \in Jobs : CanGoOn(k))
<1>1. Init => Awaited
  BY DEF Init, Awaited
<1>2. PoolInv /\ Awaited => (Waiting # {} => \E k \in Jobs : CanGoOn(k))
  BY SomebodyGoesOn
<1> QED
  BY <1>1, <1>2, AwaitedStep, Accounting, PTL DEF Spec

\* And each thing it runs brings one submit closer to its end, and none farther
\* away: a submit is over after at most six of them.
THEOREM SubmitsAdvance ==
  Spec => [][\A j \in Jobs :
               /\ StepsLeft(caller'[j], task'[j]) <= StepsLeft(caller[j], task[j])
               /\ CallerStep(j) \/ TaskStep(j) =>
                    StepsLeft(caller'[j], task'[j]) < StepsLeft(caller[j], task[j])]_vars
<1>1. Init => Awaited
  BY DEF Init, Awaited
<1>2. ASSUME PoolInv, Awaited, [Next]_vars, NEW j \in Jobs
      PROVE  /\ StepsLeft(caller'[j], task'[j]) <= StepsLeft(caller[j], task[j])
             /\ CallerStep(j) \/ TaskStep(j) =>
                  StepsLeft(caller'[j], task'[j]) < StepsLeft(caller[j], task[j])
  <2>1. CASE CallerStep(j) \/ TaskStep(j)
    BY <1>2, <2>1, JobAdvances
  <2>2. CASE caller'[j] = caller[j] /\ task'[j] = task[j] /\ ~(CallerStep(j) \/ TaskStep(j))
    <3>1. StepsLeft(caller[j], task[j]) \in 0 .. 7
      BY <1>2, StepsLeftNumber DEF PoolInv, Shape
    <3> QED
      BY <2>2, <3>1
  <2>3. CASE caller'[j] # caller[j] \/ task'[j] # task[j]
    BY <1>2, <2>3, OthersStay, JobAdvances
  <2> QED
    BY <2>1, <2>2, <2>3
<1>3. PoolInv /\ Awaited /\ [Next]_vars =>
        [\A j \in Jobs :
           /\ StepsLeft(caller'[j], task'[j]) <= StepsLeft(caller[j], task[j])
           /\ CallerStep(j) \/ TaskStep(j) =>
                StepsLeft(caller'[j], task'[j]) < StepsLeft(caller[j], task[j])]_vars
  BY <1>2
<1> QED
  BY <1>1, <1>3, AwaitedStep, Accounting, PTL DEF Spec
=============================================================================
