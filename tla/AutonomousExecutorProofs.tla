----------------------- MODULE AutonomousExecutorProofs -----------------------
(***************************************************************************)
(* Theorems about the autonomous executor, for every graph, every budget   *)
(* and any recovery.  The argument: a step is queued only after everything *)
(* it waits for completed, and nothing takes that back; when a step raises *)
(* the wave fails it before the loop goes on; and what a pass skips is the *)
(* least set with every step that is blocked, so that each of its members  *)
(* waits for something that did not complete.                              *)
(*                                                                         *)
(* An execution has finitely many steps: a step of the plan goes from one  *)
(* place to the next, and a wave ends what it queued.                      *)
(***************************************************************************)
EXTENDS AutonomousExecutor, FiniteSetTheorems, TLAPS

Shape ==
  /\ deps \in [Steps -> SUBSET (Steps \cup {0})]
  /\ planStatus \in {"draft", "active", "completed", "failed", "cancelled"}
  /\ stepStatus \in [Steps -> {"pending", "ready", "running"} \cup Terminal]
  /\ pc \in {"start", "loop", "gather", "returned", "over"}
  /\ at \in [Steps -> {"none", "queued", "executing", "ended", "raised"}]
  /\ iterations \in 0 .. MaxIterations
  /\ expired \in BOOLEAN /\ closed \in BOOLEAN
  /\ recovered \in Steps \cup {0}

\* Coroutines belong to a wave.
AloneInWave == pc # "gather" => \A s \in Steps : at[s] = "none"

\* RUNNING is a step that executes, or raised while it did.
RunningIsExecuted ==
  \A s \in Steps : /\ at[s] = "executing" => stepStatus[s] = "running"
                   /\ stepStatus[s] = "running" => at[s] \in {"executing", "raised"}

\* What has not begun yet may: it is ready, and what it waits for completed.
QueuedIsMet ==
  \A s \in Steps :
    /\ at[s] \in {"queued", "raised"} => stepStatus[s] \in {"ready", "running"}
    /\ at[s] \in {"queued", "raised"} /\ stepStatus[s] # "running" =>
         deps[s] \subseteq StepsIn("completed")

ReturnedIsOver ==
  pc \in {"returned", "over"} => PlanComplete \/ Exhausted \/ planStatus = "cancelled"

ExecutorInv == Shape /\ AloneInWave /\ RunningIsExecuted /\ QueuedIsMet /\ ReturnedIsOver

-----------------------------------------------------------------------------
(***************************************************************************)
(* What a pass skips                                                       *)
(***************************************************************************)
LEMMA BlockedByGrows ==
  ASSUME NEW status, NEW S, NEW T, S \subseteq T
  PROVE  BlockedBy(status, S) \subseteq BlockedBy(status, T)
  BY DEF BlockedBy

LEMMA BlockedIsPending ==
  ASSUME NEW status
  PROVE  \A s \in Blocked(status) : s \in Steps /\ status[s] \in {"pending", "ready"}
<1> DEFINE P == {s \in Steps : status[s] \in {"pending", "ready"}}
<1>1. P \in SUBSET Steps /\ BlockedBy(status, P) \subseteq P
  BY DEF BlockedBy
<1>2. QED
  BY <1>1 DEF Blocked

\* Each step that is skipped is blocked by what ended and by what is skipped: the
\* steps that are form a set with all they block, and it contains the least one.
LEMMA BlockedIsBlocked ==
  ASSUME NEW status
  PROVE  Blocked(status) \subseteq BlockedBy(status, Blocked(status))
<1> DEFINE B == Blocked(status)
<1>1. BlockedBy(status, B) \in SUBSET Steps
  BY DEF BlockedBy
<1>2. BlockedBy(status, B) \subseteq B
  <2> SUFFICES ASSUME NEW s \in BlockedBy(status, B), NEW S \in SUBSET Steps,
                      BlockedBy(status, S) \subseteq S
               PROVE  s \in S
    BY <1>1 DEF Blocked
  <2>1. B \subseteq S
    BY DEF Blocked
  <2>2. s \in BlockedBy(status, S)
    BY <2>1, BlockedByGrows
  <2>3. QED
    BY <2>2
<1>3. BlockedBy(status, BlockedBy(status, B)) \subseteq BlockedBy(status, B)
  BY <1>2, BlockedByGrows
<1>4. QED
  BY <1>1, <1>3 DEF Blocked

\* After a pass each step is as before, or was pending and waits for what is
\* missing or did not complete.
LEMMA PassSkips ==
  ASSUME NEW status, NEW after, after = Skip(status, Blocked(status)), NEW s \in Steps
  PROVE  \/ after[s] = status[s]
         \/ /\ status[s] \in {"pending", "ready"} /\ after[s] = "skipped"
            /\ \E d \in deps[s] : d \notin Steps \/ after[d] # "completed"
<1>1. CASE s \notin Blocked(status)
  BY <1>1 DEF Skip
<1>2. CASE s \in Blocked(status)
  <2>1. status[s] \in {"pending", "ready"} /\ after[s] = "skipped"
    BY <1>2, BlockedIsPending DEF Skip
  <2>2. s \in BlockedBy(status, Blocked(status))
    BY <1>2, BlockedIsBlocked
  <2>3. PICK d \in deps[s] : \/ d \notin Steps \/ status[d] \in {"failed", "skipped"}
                             \/ d \in Blocked(status)
    BY <2>2 DEF BlockedBy
  <2>4. d \notin Steps \/ after[d] # "completed"
    BY <2>3 DEF Skip
  <2>5. QED
    BY <2>1, <2>4
<1>3. QED
  BY <1>1, <1>2

-----------------------------------------------------------------------------
(***************************************************************************)
(* The invariant                                                           *)
(***************************************************************************)
LEMMA StepsAreNumbers == Steps \subseteq Nat \ {0}
<1>1. Cardinality(Steps) \in Nat
  BY AutonomousAssumption, FS_CardinalityType
<1>2. PICK n \in Nat : n = Cardinality(Steps)
  BY <1>1
<1>3. Steps = 1 .. n
  BY <1>2, AutonomousAssumption
<1>4. QED
  BY <1>3

LEMMA InitInv == Init => ExecutorInv
<1> SUFFICES ASSUME Init PROVE ExecutorInv
  OBVIOUS
<1>1. Shape
  <2>1. deps \in [Steps -> SUBSET (Steps \cup {0})] /\ MaxIterations \in Nat
    BY AutonomousAssumption DEF Init
  <2>2. iterations \in 0 .. MaxIterations
    BY <2>1 DEF Init
  <2>3. QED
    BY <2>1, <2>2 DEF Init, Shape
<1>2. AloneInWave /\ RunningIsExecuted /\ QueuedIsMet /\ ReturnedIsOver
  BY DEF Init, AloneInWave, RunningIsExecuted, QueuedIsMet, ReturnedIsOver
<1>3. QED
  BY <1>1, <1>2 DEF ExecutorInv

LEMMA StartKeeps ==
  ASSUME ExecutorInv, Approve \/ Refuse
  PROVE  ExecutorInv'
<1>1. /\ UNCHANGED <<deps, stepStatus, at, iterations, recovered, closed>> /\ pc = "start"
      /\ expired' = FALSE /\ planStatus' \in {"active", "cancelled"} /\ pc' \in {"loop", "returned"}
      /\ pc' = "returned" => planStatus' = "cancelled"
  BY DEF Approve, Refuse
<1>2. Shape'
  BY <1>1 DEF ExecutorInv, Shape
<1>3. AloneInWave' /\ RunningIsExecuted' /\ QueuedIsMet' /\ ReturnedIsOver'
  BY <1>1 DEF ExecutorInv, AloneInWave, RunningIsExecuted, QueuedIsMet, ReturnedIsOver, StepsIn
<1>4. QED
  BY <1>2, <1>3 DEF ExecutorInv

\* In the loop no step is RUNNING.
LEMMA NoneRuns ==
  ASSUME ExecutorInv, pc # "gather"
  PROVE  \A s \in Steps : at[s] = "none" /\ stepStatus[s] # "running"
  BY DEF ExecutorInv, AloneInWave, RunningIsExecuted

LEMMA LoopKeeps ==
  ASSUME ExecutorInv, Stop \/ SkipBlocked \/ ResolveDeadlock
  PROVE  ExecutorInv'
<1>1. /\ UNCHANGED <<deps, at, iterations, expired, recovered, closed>>
      /\ pc = "loop" /\ pc' \in {"loop", "returned"}
      /\ planStatus' \in {planStatus, "completed", "failed"}
  BY DEF Stop, SkipBlocked, ResolveDeadlock, Stuck, Finish
<1>2. /\ stepStatus' \in [Steps -> {"pending", "ready", "running"} \cup Terminal]
      /\ \A s \in Steps : stepStatus'[s] \in {stepStatus[s], "skipped"}
  BY DEF Stop, SkipBlocked, ResolveDeadlock, Finish, Skip, Terminal, ExecutorInv, Shape
<1>3. \A s \in Steps : at[s] = "none" /\ stepStatus[s] # "running"
  BY <1>1, NoneRuns
<1>4. Shape'
  BY <1>1, <1>2 DEF ExecutorInv, Shape
<1>5. AloneInWave' /\ RunningIsExecuted' /\ QueuedIsMet'
  BY <1>1, <1>2, <1>3 DEF AloneInWave, RunningIsExecuted, QueuedIsMet
<1>6. ReturnedIsOver'
  <2>1. CASE Stop
    BY <2>1 DEF Stop, Finish, ReturnedIsOver, PlanComplete, Exhausted
  <2>2. CASE SkipBlocked
    BY <1>1, <2>2 DEF SkipBlocked, ReturnedIsOver
  <2>3. CASE ResolveDeadlock
    <3>1. \A s \in Steps : stepStatus'[s] \in Terminal
      BY <1>3, <2>3 DEF ResolveDeadlock, Finish, Skip, PendingSteps, StepsIn, Terminal, ExecutorInv,
                        Shape
    <3>2. QED
      BY <3>1 DEF ReturnedIsOver, PlanComplete
  <2>4. QED
    BY <2>1, <2>2, <2>3
<1>7. QED
  BY <1>4, <1>5, <1>6 DEF ExecutorInv

LEMMA ReadyIsMet ==
  ASSUME NEW s \in ReadySteps
  PROVE  /\ s \in Steps /\ stepStatus[s] \in {"pending", "ready"}
         /\ deps[s] \subseteq StepsIn("completed")
  BY DEF ReadySteps, PendingSteps, StepsIn

LEMMA StartWaveKeeps ==
  ASSUME ExecutorInv, StartWave
  PROVE  ExecutorInv'
<1>1. /\ UNCHANGED <<deps, planStatus, iterations, expired, recovered, closed>>
      /\ pc = "loop" /\ pc' = "gather"
      /\ \A s \in Steps : stepStatus'[s] = IF s \in ReadySteps THEN "ready" ELSE stepStatus[s]
      /\ \A s \in Steps \ ReadySteps : at'[s] = at[s]
      /\ \A s \in ReadySteps : at'[s] \in {"queued", "raised"}
  BY ReadyIsMet DEF StartWave
<1>2. \A s \in Steps : at[s] = "none" /\ stepStatus[s] # "running"
  BY <1>1, NoneRuns
<1>3. Shape'
  BY <1>1 DEF StartWave, ExecutorInv, Shape
<1>4. AloneInWave' /\ RunningIsExecuted' /\ ReturnedIsOver'
  BY <1>1, <1>2 DEF AloneInWave, RunningIsExecuted, ReturnedIsOver
<1>5. StepsIn("completed") \subseteq StepsIn("completed")'
  BY <1>1, ReadyIsMet DEF StepsIn
<1>6. QueuedIsMet'
  BY <1>1, <1>2, <1>5, ReadyIsMet DEF QueuedIsMet
<1>7. QED
  BY <1>3, <1>4, <1>6 DEF ExecutorInv

\* What the wave leaves: a step that raised has failed, and the pass has gone over
\* the rest.
GatherStatus == [s \in Steps |-> IF at[s] = "raised" THEN "failed" ELSE stepStatus[s]]

LEMMA GatherEndsKeeps ==
  ASSUME ExecutorInv, GatherEnds
  PROVE  ExecutorInv'
<1>1. /\ UNCHANGED <<deps, planStatus, iterations, expired, recovered, closed>> /\ pc' = "loop"
      /\ at' = [s \in Steps |-> "none"]
      /\ stepStatus' = Skip(GatherStatus, Blocked(GatherStatus))
      /\ \A s \in Steps : at[s] \in {"none", "ended", "raised"}
  BY DEF GatherEnds, GatherStatus
<1>2. \A s \in Steps : stepStatus'[s] \in {GatherStatus[s], "skipped"}
  BY <1>1 DEF Skip
<1>3. \A s \in Steps : GatherStatus[s] \in {"pending", "ready"} \cup Terminal
  BY <1>1 DEF GatherStatus, ExecutorInv, Shape, RunningIsExecuted, Terminal
<1>4. stepStatus' = [s \in Steps |-> stepStatus'[s]]
  BY <1>1 DEF Skip
<1>5. Shape'
  BY <1>1, <1>2, <1>3, <1>4 DEF ExecutorInv, Shape, Terminal
<1>6. \A s \in Steps : stepStatus'[s] # "running" /\ at'[s] = "none"
  BY <1>1, <1>2, <1>3 DEF Terminal
<1>7. AloneInWave' /\ RunningIsExecuted' /\ QueuedIsMet' /\ ReturnedIsOver'
  BY <1>1, <1>6 DEF AloneInWave, RunningIsExecuted, QueuedIsMet, ReturnedIsOver
<1>8. QED
  BY <1>5, <1>7 DEF ExecutorInv

\* How the coroutine of step s may go on: it goes to a with the status st.
Moves(s, a, st) ==
  /\ at' = [at EXCEPT ![s] = a]
  /\ stepStatus' = [stepStatus EXCEPT ![s] = st]
  /\ \/ at[s] = "queued" /\ a = "ended" /\ st = "failed"
     \/ at[s] = "queued" /\ a = "executing" /\ st = "running"
     \/ at[s] = "executing" /\ a = "ended" /\ st \in {"completed", "failed"}

LEMMA StepMoves ==
  ASSUME ExecutorInv, NEW s \in Steps, StepStep(s)
  PROVE  /\ \E a, st : Moves(s, a, st)
         /\ UNCHANGED <<deps, planStatus, pc, expired, recovered, closed>>
         /\ iterations' \in 0 .. MaxIterations
<1>1. iterations \in 0 .. MaxIterations /\ MaxIterations \in Nat
  BY AutonomousAssumption DEF ExecutorInv, Shape
<1>2. ~Exhausted => iterations + 1 \in 0 .. MaxIterations
  BY <1>1 DEF Exhausted
<1>3. CASE FailOverBudget(s) \/ Deny(s)
  <2>1. Moves(s, "ended", "failed")
    BY <1>3 DEF FailOverBudget, Deny, EndStep, Moves
  <2>2. QED
    BY <1>1, <1>2, <1>3, <2>1 DEF FailOverBudget, Deny
<1>4. CASE BeginStep(s)
  <2>1. Moves(s, "executing", "running")
    BY <1>4 DEF BeginStep, Moves
  <2>2. QED
    BY <1>2, <1>4, <2>1 DEF BeginStep
<1>5. CASE EndCommand(s)
  <2>1. \E st \in {"completed", "failed"} : Moves(s, "ended", st)
    BY <1>5 DEF EndCommand, EndStep, Moves
  <2>2. QED
    BY <1>1, <1>5, <2>1 DEF EndCommand
<1>6. QED
  BY <1>3, <1>4, <1>5 DEF StepStep

LEMMA StepKeeps ==
  ASSUME ExecutorInv, NEW s \in Steps, StepStep(s)
  PROVE  ExecutorInv'
<1>1. /\ \E a, st : Moves(s, a, st)
      /\ UNCHANGED <<deps, planStatus, pc, expired, recovered, closed>>
      /\ iterations' \in 0 .. MaxIterations
  BY StepMoves
<1>2. PICK a, st : Moves(s, a, st)
  BY <1>1
<1>3. pc = "gather" /\ stepStatus[s] \in {"ready", "running"}
  BY <1>2 DEF Moves, ExecutorInv, AloneInWave, RunningIsExecuted, QueuedIsMet
<1>4. /\ at'[s] = a /\ stepStatus'[s] = st
      /\ \A x \in Steps \ {s} : at'[x] = at[x] /\ stepStatus'[x] = stepStatus[x]
  BY <1>2 DEF Moves, ExecutorInv, Shape
<1>5. a \in {"ended", "executing"} /\ st \in {"failed", "running", "completed"}
      /\ (a = "executing" <=> st = "running")
  BY <1>2 DEF Moves
<1>6. Shape'
  BY <1>1, <1>2, <1>5 DEF Moves, ExecutorInv, Shape, Terminal
<1>7. AloneInWave' /\ RunningIsExecuted' /\ ReturnedIsOver'
  BY <1>1, <1>3, <1>4, <1>5 DEF ExecutorInv, AloneInWave, RunningIsExecuted, ReturnedIsOver
<1>8. StepsIn("completed") \subseteq StepsIn("completed")'
  BY <1>3, <1>4 DEF StepsIn
<1>9. QueuedIsMet'
  BY <1>1, <1>4, <1>5, <1>8 DEF ExecutorInv, QueuedIsMet
<1>10. QED
  BY <1>6, <1>7, <1>9 DEF ExecutorInv

LEMMA RecoverKeeps ==
  ASSUME ExecutorInv, Recover
  PROVE  ExecutorInv'
<1>1. PICK s \in Steps : /\ stepStatus[s] = "failed" /\ recovered' = s
                         /\ stepStatus' = [stepStatus EXCEPT ![s] = "pending"]
                         /\ deps' = [deps EXCEPT ![s] = {}]
  BY DEF Recover, StepsIn
<1>2. /\ UNCHANGED <<planStatus, at, iterations, expired, closed>>
      /\ pc = "returned" /\ pc' = "start"
  BY DEF Recover
<1>3. \A x \in Steps : at[x] = "none" /\ stepStatus[x] # "running"
  BY <1>2, NoneRuns
<1>4. Shape'
  BY <1>1, <1>2 DEF ExecutorInv, Shape
<1>5. AloneInWave' /\ RunningIsExecuted' /\ QueuedIsMet' /\ ReturnedIsOver'
  BY <1>1, <1>2, <1>3 DEF ExecutorInv, Shape, AloneInWave, RunningIsExecuted, QueuedIsMet,
                          ReturnedIsOver
<1>6. QED
  BY <1>4, <1>5 DEF ExecutorInv

LEMMA OthersKeep ==
  ASSUME ExecutorInv, GiveResult \/ Expire \/ ClosePool \/ UNCHANGED vars
  PROVE  ExecutorInv'
<1>1. CASE GiveResult
  BY <1>1 DEF GiveResult, ExecutorInv, Shape, AloneInWave, RunningIsExecuted, QueuedIsMet,
              ReturnedIsOver, StepsIn, PlanComplete, Exhausted
<1>2. CASE Expire
  BY <1>2 DEF Expire, ExecutorInv, Shape, AloneInWave, RunningIsExecuted, QueuedIsMet,
              ReturnedIsOver, StepsIn
<1>3. CASE ClosePool
  <2>1. /\ UNCHANGED <<deps, planStatus, stepStatus, pc, iterations, expired, recovered>>
        /\ \A s \in Steps : at'[s] = IF at[s] \in {"queued", "executing"} THEN "raised" ELSE at[s]
    BY <1>3 DEF ClosePool
  <2>2. Shape'
    BY <1>3 DEF ClosePool, ExecutorInv, Shape
  <2>3. AloneInWave' /\ RunningIsExecuted' /\ QueuedIsMet'
    BY <2>1 DEF ExecutorInv, AloneInWave, RunningIsExecuted, QueuedIsMet, StepsIn
  <2>4. ReturnedIsOver'
    BY <2>1 DEF ExecutorInv, ReturnedIsOver, PlanComplete, Exhausted
  <2>5. QED
    BY <2>2, <2>3, <2>4 DEF ExecutorInv
<1>4. CASE UNCHANGED vars
  BY <1>4 DEF vars, ExecutorInv, Shape, AloneInWave, RunningIsExecuted, QueuedIsMet,
              ReturnedIsOver, StepsIn, PlanComplete, Exhausted
<1>5. QED
  BY <1>1, <1>2, <1>3, <1>4

LEMMA NextKeeps == ExecutorInv /\ [Next]_vars => ExecutorInv'
  BY StartKeeps, LoopKeeps, StartWaveKeeps, GatherEndsKeeps, StepKeeps, RecoverKeeps, OthersKeep
     DEF Next, LoopStep

\* The invariant holds through the recovery and the second execution.
THEOREM ExecutorInvariance == Spec => []ExecutorInv
  BY InitInv, NextKeeps, PTL DEF Spec

-----------------------------------------------------------------------------
\* The types; the budget is never overdrawn, over both executions of the plan.
THEOREM TypeCorrect == Spec => []TypeOK
<1>1. ExecutorInv => TypeOK
  BY DEF ExecutorInv, Shape, TypeOK
<1>2. QED
  BY <1>1, ExecutorInvariance, PTL

\* Nothing runs on when execute_plan has returned, and all has ended.
THEOREM FinishedIsQuiet == Spec => []FinishedPlanIsQuiet
<1>1. ExecutorInv => FinishedPlanIsQuiet
  BY NoneRuns DEF ExecutorInv, ReturnedIsOver, FinishedPlanIsQuiet
<1>2. QED
  BY <1>1, ExecutorInvariance, PTL

-----------------------------------------------------------------------------
(***************************************************************************)
(* The executor implements DagExecution                                    *)
(***************************************************************************)
\* The statuses and the plan as DagExecution sees them.
St == [s \in Steps |-> IF stepStatus[s] = "ready" THEN "pending" ELSE stepStatus[s]]
PlanShape == [parents |-> deps, conditional |-> {}, refused |-> {}, broken |-> Steps,
              cancellable |-> {}, serial |-> 0,
              renewable |-> IF MayRecover /\ recovered = 0 THEN Steps ELSE {}]

LEMMA PlanProgress ==
  ASSUME UNCHANGED <<deps, recovered>>,
         \A s \in Steps : Dag!Start(s) \/ Dag!PassOver(s) \/ Dag!End(s) \/ St'[s] = St[s]
  PROVE  [Dag!Next]_<<St, PlanShape>>
  BY DEF Dag!Next, Dag!Progress, St, PlanShape

LEMMA PlanStart ==
  ASSUME NEW s \in Steps, stepStatus[s] \in {"pending", "ready"},
         deps[s] \subseteq StepsIn("completed"), stepStatus'[s] \in {"running", "failed"}
  PROVE  Dag!Start(s)
  BY DEF Dag!Start, Dag!Completed, StepsIn

LEMMA PlanPassOver ==
  ASSUME NEW s \in Steps, stepStatus[s] \in {"pending", "ready"}, stepStatus'[s] = "skipped",
         NEW d \in deps[s], d \notin Steps \/ stepStatus'[d] # "completed"
  PROVE  Dag!PassOver(s)
  BY DEF Dag!PassOver, Dag!Completed

LEMMA PlanEnd ==
  ASSUME NEW s \in Steps, stepStatus[s] = "running", stepStatus'[s] \in {"completed", "failed"}
  PROVE  Dag!End(s)
  BY DEF Dag!End

LEMMA StepIsProgress ==
  ASSUME ExecutorInv, NEW s \in Steps, StepStep(s)
  PROVE  [Dag!Next]_<<St, PlanShape>>
<1>1. (\E a, st : Moves(s, a, st)) /\ UNCHANGED <<deps, recovered>>
  BY StepMoves
<1>2. PICK a, st : Moves(s, a, st)
  BY <1>1
<1>3. /\ stepStatus'[s] = st
      /\ \A x \in Steps \ {s} : stepStatus'[x] = stepStatus[x]
  BY <1>2 DEF Moves, ExecutorInv, Shape
<1>4. CASE at[s] = "queued"
  <2>1. st \in {"failed", "running"}
    BY <1>2, <1>4 DEF Moves
  <2>2. /\ stepStatus[s] = "ready" /\ deps[s] \subseteq StepsIn("completed")
    BY <1>4 DEF ExecutorInv, QueuedIsMet, RunningIsExecuted
  <2>3. Dag!Start(s)
    BY <1>3, <2>1, <2>2, PlanStart
  <2>4. QED
    BY <1>1, <1>3, <2>3, PlanProgress DEF St
<1>5. CASE at[s] = "executing"
  <2>1. Dag!End(s)
    BY <1>2, <1>3, <1>5, PlanEnd DEF Moves, ExecutorInv, RunningIsExecuted
  <2>2. QED
    BY <1>1, <1>3, <2>1, PlanProgress DEF St
<1>6. QED
  BY <1>2, <1>4, <1>5 DEF Moves

\* A step that raised fails, before it ran or while it did; what the pass skips
\* waits for something that did not complete.
LEMMA GatherIsProgress ==
  ASSUME ExecutorInv, GatherEnds
  PROVE  [Dag!Next]_<<St, PlanShape>>
<1>1. UNCHANGED <<deps, recovered>> /\ stepStatus' = Skip(GatherStatus, Blocked(GatherStatus))
  BY DEF GatherEnds, GatherStatus
<1>2. SUFFICES ASSUME NEW s \in Steps
               PROVE  Dag!Start(s) \/ Dag!PassOver(s) \/ Dag!End(s) \/ St'[s] = St[s]
  BY <1>1, PlanProgress
<1>3. \/ stepStatus'[s] = GatherStatus[s]
      \/ /\ GatherStatus[s] \in {"pending", "ready"} /\ stepStatus'[s] = "skipped"
         /\ \E d \in deps[s] : d \notin Steps \/ stepStatus'[d] # "completed"
  BY <1>1, PassSkips
<1>4. CASE at[s] # "raised"
  <2>1. GatherStatus[s] = stepStatus[s]
    BY <1>4 DEF GatherStatus
  <2>2. QED
    BY <1>3, <2>1, PlanPassOver DEF St
<1>5. CASE at[s] = "raised"
  <2>1. stepStatus'[s] = "failed"
    BY <1>3, <1>5 DEF GatherStatus
  <2>2. CASE stepStatus[s] = "running"
    BY <2>1, <2>2, PlanEnd
  <2>3. CASE stepStatus[s] # "running"
    BY <1>5, <2>1, <2>3, PlanStart DEF ExecutorInv, QueuedIsMet
  <2>4. QED
    BY <2>2, <2>3
<1>6. QED
  BY <1>4, <1>5

LEMMA LoopIsProgress ==
  ASSUME ExecutorInv, LoopStep
  PROVE  [Dag!Next]_<<St, PlanShape>>
<1>1. CASE SkipBlocked
  <2>1. UNCHANGED <<deps, recovered>> /\ stepStatus' = Skip(stepStatus, Blocked(stepStatus))
    BY <1>1 DEF SkipBlocked
  <2>2. ASSUME NEW s \in Steps PROVE Dag!PassOver(s) \/ St'[s] = St[s]
    <3>1. \/ stepStatus'[s] = stepStatus[s]
          \/ /\ stepStatus[s] \in {"pending", "ready"} /\ stepStatus'[s] = "skipped"
             /\ \E d \in deps[s] : d \notin Steps \/ stepStatus'[d] # "completed"
      BY <2>1, PassSkips
    <3>2. QED
      BY <3>1, PlanPassOver DEF St
  <2>3. QED
    BY <2>1, <2>2, PlanProgress
<1>2. CASE ResolveDeadlock
  <2>1. UNCHANGED <<deps, recovered>> /\ stepStatus' = Skip(stepStatus, PendingSteps)
        /\ ReadySteps = {}
    BY <1>2 DEF ResolveDeadlock, Stuck, Finish
  <2>2. ASSUME NEW s \in Steps PROVE Dag!PassOver(s) \/ St'[s] = St[s]
    <3>1. CASE s \notin PendingSteps
      BY <2>1, <3>1 DEF Skip, St
    <3>2. CASE s \in PendingSteps
      <4>1. stepStatus[s] \in {"pending", "ready"} /\ stepStatus'[s] = "skipped"
        BY <2>1, <3>2 DEF Skip, PendingSteps, StepsIn
      <4>2. PICK d \in deps[s] : d \notin StepsIn("completed")
        BY <2>1, <3>2 DEF ReadySteps
      <4>3. d \notin Steps \/ stepStatus'[d] # "completed"
        BY <2>1, <4>2 DEF Skip, StepsIn
      <4>4. QED
        BY <4>1, <4>2, <4>3, PlanPassOver
    <3>3. QED
      BY <3>1, <3>2
  <2>3. QED
    BY <2>1, <2>2, PlanProgress
<1>3. CASE Stop \/ StartWave
  <2>1. UNCHANGED <<deps, recovered>> /\ \A s \in Steps : St'[s] = St[s]
    BY <1>3, ReadyIsMet DEF Stop, Finish, StartWave, St
  <2>2. QED
    BY <2>1, PlanProgress
<1>4. QED
  BY <1>1, <1>2, <1>3, GatherIsProgress DEF LoopStep

\* A plan as a function of the two fields that a recovery replaces.
Fields(parents, renewable) ==
  [parents |-> parents, conditional |-> {}, refused |-> {}, broken |-> Steps,
   cancellable |-> {}, serial |-> 0, renewable |-> renewable]

LEMMA TwoUpdates ==
  ASSUME NEW x, NEW p, NEW r
  PROVE  [x EXCEPT !.parents = p, !.renewable = r]
           = [[x EXCEPT !.parents = p] EXCEPT !.renewable = r]
  BY Zenon

LEMMA FieldsReplaced ==
  ASSUME NEW p, NEW q, NEW r
  PROVE  [Fields(p, r) EXCEPT !.parents = q, !.renewable = {}] = Fields(q, {})
<1>1. [Fields(p, r) EXCEPT !.parents = q] = Fields(q, r)
  BY DEF Fields
<1>2. [Fields(q, r) EXCEPT !.renewable = {}] = Fields(q, {})
  BY DEF Fields
<1>3. QED
  BY <1>1, <1>2, TwoUpdates

\* The recovery renews one failed step, once.
LEMMA RecoverRenews ==
  ASSUME ExecutorInv, Recover
  PROVE  \E s \in Steps : Dag!Renew(s)
<1>1. PICK s \in Steps : /\ stepStatus[s] = "failed" /\ recovered' = s
                         /\ stepStatus' = [stepStatus EXCEPT ![s] = "pending"]
                         /\ deps' = [deps EXCEPT ![s] = {}]
  BY DEF Recover, StepsIn
<1>2. recovered = 0 /\ recovered' # 0 /\ MayRecover
  BY <1>1, StepsAreNumbers DEF Recover
<1>3. St[s] = "failed" /\ s \in PlanShape.renewable
  BY <1>1, <1>2 DEF St, PlanShape
<1>4. St' = [St EXCEPT ![s] = "pending"]
  BY <1>1 DEF St, ExecutorInv, Shape
<1>5. PlanShape' = Fields(deps', {})
  BY <1>1, <1>2 DEF PlanShape, Fields
<1>6. PlanShape' = [PlanShape EXCEPT !.parents[s] = {}, !.renewable = {}]
  <2> DEFINE r == IF MayRecover /\ recovered = 0 THEN Steps ELSE {}
  <2>1. PlanShape = Fields(deps, r)
    BY DEF PlanShape, Fields
  <2> HIDE DEF r
  <2>2. PlanShape.parents = deps
    BY <2>1 DEF Fields
  <2>3. [PlanShape EXCEPT !.parents[s] = {}, !.renewable = {}]
          = [PlanShape EXCEPT !.parents = deps', !.renewable = {}]
    BY <1>1, <2>2
  <2>4. [PlanShape EXCEPT !.parents = deps', !.renewable = {}] = Fields(deps', {})
    BY <2>1, FieldsReplaced
  <2>5. QED
    BY <1>5, <2>3, <2>4
<1>7. QED
  BY <1>3, <1>4, <1>6 DEF Dag!Renew, St, PlanShape

LEMMA StepIsGraphStep ==
  ASSUME ExecutorInv, [Next]_vars
  PROVE  [Dag!Next]_<<St, PlanShape>>
<1>1. CASE LoopStep
  BY <1>1, LoopIsProgress
<1>2. CASE \E s \in Steps : StepStep(s)
  BY <1>2, StepIsProgress
<1>3. CASE Recover
  BY <1>3, RecoverRenews DEF Dag!Next
<1>4. CASE Approve \/ Refuse \/ GiveResult \/ Expire \/ ClosePool \/ UNCHANGED vars
  BY <1>4 DEF Approve, Refuse, GiveResult, Expire, ClosePool, vars, St, PlanShape
<1>5. QED
  BY <1>1, <1>2, <1>3, <1>4 DEF Next

\* Executing a plan executes its graph, also through the recovery.
THEOREM Implements == Spec => ExecutesPlan
<1>1. Init => Dag!Init
  BY DEF Init, Dag!Init
<1>2. ExecutorInv /\ [Next]_vars => [Dag!Next]_<<St, PlanShape>>
  BY StepIsGraphStep
<1>3. QED
  BY <1>1, <1>2, ExecutorInvariance, PTL DEF Spec, ExecutesPlan, Dag!Spec, St, PlanShape

-----------------------------------------------------------------------------
(***************************************************************************)
(* Progress: what of PlanEnds is safety                                    *)
(***************************************************************************)
\* What is still to do for a step: be started, begin, end, and, if it raised,
\* be failed after the wave.
StepsLeft(s) ==
  CASE at[s] = "none" -> IF stepStatus[s] \in Terminal THEN 0 ELSE 3
    [] at[s] = "queued" -> 2
    [] at[s] \in {"executing", "raised"} -> 1
    [] at[s] = "ended" -> 0

LoopStepsLeft ==
  CASE pc = "start" -> 4 [] pc = "gather" -> 3 [] pc = "loop" -> 2 [] pc = "returned" -> 1
    [] pc = "over" -> 0

\* Only the recovery, which is made once, gives a step back what it has done.
\* Every other step of the executor takes something from a step of the plan or
\* brings the loop closer to its end; the clock and the closing of the pool act
\* once in an execution and give nothing back either.
PlanAdvances ==
  \/ recovered = 0 /\ recovered' # 0
  \/ /\ recovered' = recovered
     /\ \A s \in Steps : StepsLeft(s)' <= StepsLeft(s)
     /\ \/ \E s \in Steps : StepsLeft(s)' < StepsLeft(s)
        \/ LoopStepsLeft' < LoopStepsLeft
        \/ LoopStepsLeft' = LoopStepsLeft /\ ((~expired /\ expired') \/ (~closed /\ closed'))

\* What ended has a status that says so.
EndedIsOver == \A s \in Steps : at[s] = "ended" => stepStatus[s] \in Terminal

ProgressInv == ExecutorInv /\ EndedIsOver

\* One step: what is left of it before and after, as its coroutine and status say.
LEMMA StepTaken ==
  ASSUME ExecutorInv, ExecutorInv', NEW s \in Steps,
         \/ at[s] = "none" /\ at'[s] \in {"queued", "raised"} /\ stepStatus[s] \notin Terminal
         \/ at[s] = "none" /\ at'[s] = "none" /\ stepStatus[s] \notin Terminal
            /\ stepStatus'[s] \in Terminal
         \/ at[s] = "queued" /\ at'[s] \in {"executing", "ended", "raised"}
         \/ at[s] \in {"executing", "raised"} /\ at'[s] = "ended"
         \/ at[s] = "raised" /\ at'[s] = "none" /\ stepStatus'[s] \in Terminal
  PROVE  StepsLeft(s)' <= StepsLeft(s) /\ StepsLeft(s)' < StepsLeft(s)
  BY DEF StepsLeft

LEMMA StepNotTaken ==
  ASSUME ExecutorInv, NEW s \in Steps,
         \/ at'[s] = at[s] /\ stepStatus'[s] = stepStatus[s]
         \/ at[s] = "ended" /\ at'[s] = "none" /\ stepStatus'[s] \in Terminal
         \/ at[s] = "executing" /\ at'[s] = "raised"
         \/ at[s] = "none" /\ at'[s] = "none" /\ stepStatus'[s] \in Terminal
  PROVE  StepsLeft(s)' <= StepsLeft(s)
  BY DEF StepsLeft, ExecutorInv, Shape

LEMMA EndedIsOverKept == ProgressInv /\ [Next]_vars => ProgressInv'
<1> SUFFICES ASSUME ProgressInv, [Next]_vars PROVE EndedIsOver'
  BY NextKeeps DEF ProgressInv
<1>1. CASE Approve \/ Refuse \/ Recover
  <2>1. \A s \in Steps : at'[s] = "none"
    BY <1>1, NoneRuns DEF Approve, Refuse, Recover, ProgressInv
  <2>2. QED
    BY <2>1 DEF EndedIsOver
<1>2. CASE Stop \/ SkipBlocked \/ ResolveDeadlock
  <2>1. \A s \in Steps : at'[s] = "none"
    BY <1>2, NoneRuns DEF Stop, SkipBlocked, ResolveDeadlock, Stuck, Finish, ProgressInv
  <2>2. QED
    BY <2>1 DEF EndedIsOver
<1>3. CASE StartWave
  <2>1. \A s \in Steps : at'[s] # "ended"
    BY <1>3, NoneRuns DEF StartWave, ProgressInv
  <2>2. QED
    BY <2>1 DEF EndedIsOver
<1>4. CASE GatherEnds
  BY <1>4 DEF GatherEnds, EndedIsOver
<1>5. ASSUME NEW s \in Steps, StepStep(s) PROVE EndedIsOver'
  <2>1. PICK a, st : Moves(s, a, st)
    BY <1>5, StepMoves DEF ProgressInv
  <2>2. QED
    BY <2>1 DEF Moves, ProgressInv, EndedIsOver, ExecutorInv, Shape, Terminal
<1>6. CASE GiveResult \/ Expire \/ UNCHANGED vars
  BY <1>6 DEF GiveResult, Expire, vars, ProgressInv, EndedIsOver
<1>7. CASE ClosePool
  BY <1>7 DEF ClosePool, ProgressInv, EndedIsOver
<1>8. QED
  BY <1>1, <1>2, <1>3, <1>4, <1>5, <1>6, <1>7 DEF Next, LoopStep

LEMMA ProgressInvariance == Spec => []ProgressInv
<1>1. Init => ProgressInv
  BY InitInv DEF ProgressInv, Init, EndedIsOver
<1>2. QED
  BY <1>1, EndedIsOverKept, PTL DEF Spec

\* A step the loop takes on its own.
LEMMA LoopAdvances ==
  ASSUME ProgressInv, ProgressInv', LoopStep
  PROVE  PlanAdvances
<1>1. recovered' = recovered
  BY DEF LoopStep, Stop, SkipBlocked, ResolveDeadlock, StartWave, GatherEnds, Finish
<1>2. CASE Stop
  <2>1. \A s \in Steps : StepsLeft(s)' <= StepsLeft(s)
    BY <1>2, StepNotTaken DEF Stop, Finish, ProgressInv
  <2>2. LoopStepsLeft' < LoopStepsLeft
    BY <1>2 DEF Stop, Finish, LoopStepsLeft
  <2>3. QED
    BY <1>1, <2>1, <2>2 DEF PlanAdvances
<1>3. CASE SkipBlocked
  <2>1. /\ at' = at /\ pc = "loop"
        /\ \A s \in Steps : IF s \in Blocked(stepStatus) THEN stepStatus'[s] = "skipped"
                                                         ELSE stepStatus'[s] = stepStatus[s]
    BY <1>3 DEF SkipBlocked, Stuck, Skip
  <2>2. PICK s \in Blocked(stepStatus) : s \in Steps /\ stepStatus[s] \in {"pending", "ready"}
    BY <1>3, BlockedIsPending DEF SkipBlocked
  <2>3. \A x \in Steps : at[x] = "none" /\ at'[x] = "none"
    BY <2>1, NoneRuns DEF ProgressInv
  <2>4. StepsLeft(s)' < StepsLeft(s)
    BY <2>1, <2>2, <2>3, StepTaken DEF ProgressInv, Terminal
  <2>5. \A x \in Steps : StepsLeft(x)' <= StepsLeft(x)
    BY <2>1, <2>3, StepNotTaken DEF ProgressInv, Terminal
  <2>6. QED
    BY <1>1, <2>2, <2>4, <2>5 DEF PlanAdvances
<1>4. CASE ResolveDeadlock
  <2>1. /\ at' = at /\ pc = "loop" /\ pc' = "returned"
        /\ \A s \in Steps : stepStatus'[s] \in {stepStatus[s], "skipped"}
    BY <1>4 DEF ResolveDeadlock, Stuck, Finish, Skip
  <2>2. \A x \in Steps : at[x] = "none" /\ at'[x] = "none"
    BY <2>1, NoneRuns DEF ProgressInv
  <2>3. \A x \in Steps : StepsLeft(x)' <= StepsLeft(x)
    BY <2>1, <2>2, StepNotTaken DEF ProgressInv, Terminal
  <2>4. LoopStepsLeft' < LoopStepsLeft
    BY <2>1 DEF LoopStepsLeft
  <2>5. QED
    BY <1>1, <2>3, <2>4 DEF PlanAdvances
<1>5. CASE StartWave
  <2>1. \A s \in Steps : at[s] = "none"
    BY <1>5, NoneRuns DEF StartWave, ProgressInv
  <2>2. PICK s \in ReadySteps : TRUE
    BY <1>5 DEF StartWave
  <2>3. ASSUME NEW x \in ReadySteps
        PROVE  x \in Steps /\ StepsLeft(x)' <= StepsLeft(x) /\ StepsLeft(x)' < StepsLeft(x)
    <3>1. x \in Steps /\ stepStatus[x] \notin Terminal
      BY ReadyIsMet DEF Terminal
    <3>2. at'[x] \in {"queued", "raised"}
      BY <1>5, <3>1 DEF StartWave
    <3>3. QED
      BY <2>1, <3>1, <3>2, StepTaken DEF ProgressInv
  <2>4. ASSUME NEW x \in Steps \ ReadySteps PROVE StepsLeft(x)' <= StepsLeft(x)
    BY <1>5, StepNotTaken DEF StartWave, ProgressInv
  <2>5. QED
    BY <1>1, <2>2, <2>3, <2>4 DEF PlanAdvances
<1>6. CASE GatherEnds
  <2>1. /\ \A s \in Steps : at[s] \in {"none", "ended", "raised"} /\ at'[s] = "none"
        /\ stepStatus' = Skip(GatherStatus, Blocked(GatherStatus))
        /\ pc = "gather" /\ pc' = "loop"
    BY <1>6 DEF GatherEnds, GatherStatus
  <2>2. \A s \in Steps : stepStatus'[s] \in {GatherStatus[s], "skipped"}
    BY <2>1 DEF Skip
  <2>3. ASSUME NEW s \in Steps PROVE StepsLeft(s)' <= StepsLeft(s)
    <3>1. CASE at[s] = "raised"
      BY <2>1, <2>2, <3>1, StepTaken DEF GatherStatus, ProgressInv, Terminal
    <3>2. CASE at[s] = "ended"
      BY <2>1, <2>2, <3>2, StepNotTaken DEF GatherStatus, ProgressInv, EndedIsOver, Terminal
    <3>3. CASE at[s] = "none"
      BY <2>1, <2>2, <3>3, StepNotTaken DEF GatherStatus, ProgressInv, Terminal
    <3>4. QED
      BY <2>1, <3>1, <3>2, <3>3
  <2>4. LoopStepsLeft' < LoopStepsLeft
    BY <2>1 DEF LoopStepsLeft
  <2>5. QED
    BY <1>1, <2>3, <2>4 DEF PlanAdvances
<1>7. QED
  BY <1>2, <1>3, <1>4, <1>5, <1>6 DEF LoopStep

\* An execution has finitely many steps, also of a closed pool and of a plan that
\* is stuck, and it is made at most twice.
THEOREM PlansAdvance == Spec => [][PlanAdvances]_vars
<1>1. ASSUME ProgressInv, Approve \/ Refuse \/ GiveResult PROVE PlanAdvances
  <2>1. UNCHANGED <<at, stepStatus, recovered>> /\ LoopStepsLeft' < LoopStepsLeft
    BY <1>1 DEF Approve, Refuse, GiveResult, LoopStepsLeft
  <2>2. QED
    BY <1>1, <2>1, StepNotTaken DEF PlanAdvances, ProgressInv
<1>2. ASSUME ProgressInv, ProgressInv', NEW s \in Steps, StepStep(s) PROVE PlanAdvances
  <2>1. PICK a, st : Moves(s, a, st)
    BY <1>2, StepMoves DEF ProgressInv
  <2>2. recovered' = recovered
    BY <1>2, StepMoves DEF ProgressInv
  <2>3. /\ at'[s] = a /\ \A x \in Steps \ {s} : at'[x] = at[x] /\ stepStatus'[x] = stepStatus[x]
    BY <1>2, <2>1 DEF Moves, ProgressInv, ExecutorInv, Shape
  <2>4. StepsLeft(s)' <= StepsLeft(s) /\ StepsLeft(s)' < StepsLeft(s)
    BY <1>2, <2>1, <2>3, StepTaken DEF Moves, ProgressInv
  <2>5. \A x \in Steps : StepsLeft(x)' <= StepsLeft(x)
    BY <1>2, <2>3, <2>4, StepNotTaken DEF ProgressInv
  <2>6. QED
    BY <2>2, <2>4, <2>5 DEF PlanAdvances
<1>3. ASSUME ProgressInv, Recover PROVE PlanAdvances
  <2>1. recovered = 0 /\ \E s \in Steps : recovered' = s
    BY <1>3 DEF Recover, StepsIn
  <2>2. QED
    BY <2>1, StepsAreNumbers DEF PlanAdvances
<1>4. ASSUME ProgressInv, Expire PROVE PlanAdvances
  <2>1. UNCHANGED <<at, stepStatus, recovered, pc>> /\ ~expired /\ expired'
    BY <1>4 DEF Expire
  <2>2. QED
    BY <1>4, <2>1, StepNotTaken DEF PlanAdvances, ProgressInv, LoopStepsLeft
<1>5. ASSUME ProgressInv, ProgressInv', ClosePool PROVE PlanAdvances
  <2>1. /\ UNCHANGED <<stepStatus, recovered, pc>> /\ ~closed /\ closed'
        /\ \A s \in Steps : at'[s] = IF at[s] \in {"queued", "executing"} THEN "raised" ELSE at[s]
    BY <1>5 DEF ClosePool
  <2>2. ASSUME NEW s \in Steps PROVE StepsLeft(s)' <= StepsLeft(s)
    <3>1. CASE at[s] = "queued"
      BY <1>5, <2>1, <3>1, StepTaken DEF ProgressInv
    <3>2. CASE at[s] # "queued"
      BY <1>5, <2>1, <3>2, StepNotTaken DEF ProgressInv
    <3>3. QED
      BY <3>1, <3>2
  <2>3. QED
    BY <2>1, <2>2 DEF PlanAdvances, LoopStepsLeft
<1>6. ProgressInv /\ [Next]_vars => [PlanAdvances]_vars
  BY <1>1, <1>2, <1>3, <1>4, <1>5, LoopAdvances, EndedIsOverKept DEF Next
<1>7. QED
  BY <1>6, ProgressInvariance, PTL DEF Spec
=============================================================================
