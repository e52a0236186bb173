------------------------- MODULE AutonomousExecutor -------------------------
(***************************************************************************)
(* AutonomousExecutor.execute_plan (executor_autonomous.py) and the one    *)
(* recovery AgentCore makes when it failed (core/mixins.py): the shell     *)
(* commands of a plan are reviewed, its steps run wave by wave in the      *)
(* worker pool, dependents of what failed are skipped after each wave, and *)
(* a failed step may be replaced by a modified one and the plan executed   *)
(* once more.  The user, the permission gate and the commands are choices. *)
(***************************************************************************)
EXTENDS Naturals, FiniteSets

CONSTANTS
  Steps,          \* 1 .. n: the steps of the plan, in the order of its list
  Graphs,         \* dependency graphs: step -> ids it depends on (0: unknown id)
  MaxIterations,  \* max_iterations of the budget
  MayRecover,     \* whether AgentCore finds a modified step for a failed one
  MayClose        \* whether somebody closes the pool while the plan runs

ASSUME AutonomousAssumption ==
  /\ IsFiniteSet(Steps) /\ Steps = 1 .. Cardinality(Steps)
  /\ Graphs \subseteq [Steps -> SUBSET (Steps \cup {0})]
  /\ MaxIterations \in Nat
  /\ MayRecover \in BOOLEAN /\ MayClose \in BOOLEAN

VARIABLES
  deps,        \* the dependencies of each step
  planStatus,  \* plan.status: "draft", "active", "completed", "failed", "cancelled"
  stepStatus,  \* step.status
  pc,          \* "start", "loop", "gather", "returned" (from execute_plan), "over"
  at,          \* _exec_one: "none", "queued", "executing", "ended", "raised"
  iterations, expired,  \* the budget
  recovered,   \* the step AgentCore replaced, 0 before it did
  closed       \* the pool is closed

vars == <<deps, planStatus, stepStatus, pc, at, iterations, expired, recovered, closed>>

Terminal == {"completed", "failed", "skipped"}
StepsIn(s) == {x \in Steps : stepStatus[x] = s}
PendingSteps == StepsIn("pending") \cup StepsIn("ready")
PlanComplete == \A s \in Steps : stepStatus[s] \in Terminal
Exhausted == iterations >= MaxIterations \/ expired

ReadySteps == {s \in PendingSteps : deps[s] \subseteq StepsIn("completed")}

\* _skip_blocked_dependents goes through the list once: a step is skipped for what
\* failed, was skipped or is missing, and for what the pass skipped before it.
BlockedBy(status, S) ==
  {s \in Steps : /\ status[s] \in {"pending", "ready"}
                 /\ \E d \in deps[s] : \/ d \notin Steps
                                       \/ status[d] \in {"failed", "skipped"}
                                       \/ d \in S /\ d < s}

\* What one pass skips: the least set of steps that has every step it blocks.
Blocked(status) ==
  {s \in Steps : \A S \in SUBSET Steps : BlockedBy(status, S) \subseteq S => s \in S}

Skip(status, S) == [s \in Steps |-> IF s \in S THEN "skipped" ELSE status[s]]

Init ==
  /\ deps \in Graphs
  /\ planStatus = "draft"
  /\ stepStatus = [s \in Steps |-> "pending"]
  /\ pc = "start"
  /\ at = [s \in Steps |-> "none"]
  /\ iterations = 0
  /\ expired = FALSE
  /\ recovered = 0
  /\ closed = FALSE

(***************************************************************************)
(* execute_plan                                                            *)
(***************************************************************************)
Approve ==
  /\ pc = "start"
  /\ planStatus' = "active"
  /\ pc' = "loop"
  /\ expired' = FALSE
  /\ UNCHANGED <<deps, stepStatus, at, iterations, recovered, closed>>

\* One refused command cancels the plan before anything runs.
Refuse ==
  /\ pc = "start"
  /\ planStatus' = "cancelled"
  /\ pc' = "returned"
  /\ expired' = FALSE
  /\ UNCHANGED <<deps, stepStatus, at, iterations, recovered, closed>>

Finish(status) ==
  /\ stepStatus' = status
  /\ planStatus' = IF \E s \in Steps : status[s] = "failed" THEN "failed" ELSE "completed"
  /\ pc' = "returned"
  /\ UNCHANGED <<deps, at, iterations, expired, recovered, closed>>

Stop == pc = "loop" /\ (PlanComplete \/ Exhausted) /\ Finish(stepStatus)

Stuck == pc = "loop" /\ ~PlanComplete /\ ~Exhausted /\ ReadySteps = {}

SkipBlocked ==
  /\ Stuck
  /\ Blocked(stepStatus) # {}
  /\ stepStatus' = Skip(stepStatus, Blocked(stepStatus))
  /\ UNCHANGED <<deps, planStatus, pc, at, iterations, expired, recovered, closed>>

ResolveDeadlock ==
  /\ Stuck
  /\ Blocked(stepStatus) = {}
  /\ Finish(Skip(stepStatus, PendingSteps))

\* A closed pool raises at once.
StartWave ==
  /\ pc = "loop"
  /\ ~PlanComplete /\ ~Exhausted
  /\ ReadySteps # {}
  /\ pc' = "gather"
  /\ stepStatus' = [s \in Steps |-> IF s \in ReadySteps THEN "ready" ELSE stepStatus[s]]
  /\ at' = [s \in Steps |-> IF s \notin ReadySteps THEN at[s]
                            ELSE IF closed THEN "raised" ELSE "queued"]
  /\ UNCHANGED <<deps, planStatus, iterations, expired, recovered, closed>>

\* Variant: what a step raised is only logged.
GatherEndsLogging ==
  /\ pc = "gather"
  /\ \A s \in Steps : at[s] \in {"none", "ended", "raised"}
  /\ stepStatus' = Skip(stepStatus, Blocked(stepStatus))
  /\ at' = [s \in Steps |-> "none"]
  /\ pc' = "loop"
  /\ UNCHANGED <<deps, planStatus, iterations, expired, recovered, closed>>

\* Variant: the wave is over when one of its steps is.
GatherEndsEarly ==
  /\ pc = "gather"
  /\ \E s \in Steps : at[s] \in {"ended", "raised"}
  /\ stepStatus' = Skip(stepStatus, Blocked(stepStatus))
  /\ pc' = "loop"
  /\ UNCHANGED <<deps, planStatus, at, iterations, expired, recovered, closed>>

\* Steps that raised are failed, then the dependents of what failed are skipped.
GatherEnds ==
  LET status == [s \in Steps |-> IF at[s] = "raised" THEN "failed" ELSE stepStatus[s]]
  IN  /\ pc = "gather"
      /\ \A s \in Steps : at[s] \in {"none", "ended", "raised"}
      /\ stepStatus' = Skip(status, Blocked(status))
      /\ at' = [s \in Steps |-> "none"]
      /\ pc' = "loop"
      /\ UNCHANGED <<deps, planStatus, iterations, expired, recovered, closed>>

(***************************************************************************)
(* _exec_one                                                               *)
(***************************************************************************)
EndStep(s, status) ==
  /\ stepStatus' = [stepStatus EXCEPT ![s] = status]
  /\ at' = [at EXCEPT ![s] = "ended"]

\* Without budget the step fails, unlike in the registry executor.
FailOverBudget(s) ==
  /\ at[s] = "queued"
  /\ Exhausted
  /\ EndStep(s, "failed")
  /\ UNCHANGED <<deps, planStatus, pc, iterations, expired, recovered, closed>>

Deny(s) ==
  /\ at[s] = "queued"
  /\ ~Exhausted
  /\ iterations' = iterations + 1
  /\ EndStep(s, "failed")
  /\ UNCHANGED <<deps, planStatus, pc, expired, recovered, closed>>

\* Variant: the budget is looked at when the wave starts only.
BeginStepAlways(s) ==
  /\ at[s] = "queued"
  /\ iterations' = iterations + 1
  /\ stepStatus' = [stepStatus EXCEPT ![s] = "running"]
  /\ at' = [at EXCEPT ![s] = "executing"]
  /\ UNCHANGED <<deps, planStatus, pc, expired, recovered, closed>>

BeginStep(s) ==
  /\ at[s] = "queued"
  /\ ~Exhausted
  /\ iterations' = iterations + 1
  /\ stepStatus' = [stepStatus EXCEPT ![s] = "running"]
  /\ at' = [at EXCEPT ![s] = "executing"]
  /\ UNCHANGED <<deps, planStatus, pc, expired, recovered, closed>>

EndCommand(s) ==
  /\ at[s] = "executing"
  /\ \E status \in {"completed", "failed"} : EndStep(s, status)
  /\ UNCHANGED <<deps, planStatus, pc, iterations, expired, recovered, closed>>

(***************************************************************************)
(* AgentCore._execute_autonomous, and the rest of the world                *)
(***************************************************************************)
\* Variant: the recovery starts the whole plan over.
RecoverAll ==
  /\ pc = "returned"
  /\ MayRecover
  /\ recovered = 0
  /\ \E s \in StepsIn("failed") : recovered' = s
  /\ stepStatus' = [x \in Steps |-> "pending"]
  /\ pc' = "start"
  /\ UNCHANGED <<deps, planStatus, at, iterations, expired, closed>>

\* The first failed step with a modified version is replaced by it, without the
\* dependencies of the step, and the plan executed again as it stands.
Recover ==
  /\ pc = "returned"
  /\ MayRecover
  /\ recovered = 0
  /\ \E s \in StepsIn("failed") :
       /\ recovered' = s
       /\ stepStatus' = [stepStatus EXCEPT ![s] = "pending"]
       /\ deps' = [deps EXCEPT ![s] = {}]
  /\ pc' = "start"
  /\ UNCHANGED <<planStatus, at, iterations, expired, closed>>

GiveResult ==
  /\ pc = "returned"
  /\ pc' = "over"
  /\ UNCHANGED <<deps, planStatus, stepStatus, at, iterations, expired, recovered, closed>>

Expire ==
  /\ pc \in {"loop", "gather"}
  /\ ~expired
  /\ expired' = TRUE
  /\ UNCHANGED <<deps, planStatus, stepStatus, pc, at, iterations, recovered, closed>>

\* The pool's tasks are cancelled: their coroutines raise CancelledError.
ClosePool ==
  /\ MayClose
  /\ ~closed
  /\ closed' = TRUE
  /\ at' = [s \in Steps |-> IF at[s] \in {"queued", "executing"} THEN "raised" ELSE at[s]]
  /\ UNCHANGED <<deps, planStatus, stepStatus, pc, iterations, expired, recovered>>

LoopStep == Stop \/ SkipBlocked \/ ResolveDeadlock \/ StartWave \/ GatherEnds
StepStep(s) == FailOverBudget(s) \/ Deny(s) \/ BeginStep(s) \/ EndCommand(s)

Next ==
  \/ Approve \/ Refuse \/ LoopStep \/ (\E s \in Steps : StepStep(s))
  \/ Recover \/ GiveResult \/ Expire \/ ClosePool
  \/ pc = "over" /\ UNCHANGED vars

Spec == Init /\ [][Next]_vars

\* The event loop runs what is ready, and a command ends by its timeout at the
\* latest.  Time need not run out.
FairSpec == Spec /\ WF_vars(LoopStep) /\ \A s \in Steps : WF_vars(StepStep(s))

-----------------------------------------------------------------------------
\* Type invariant; the budget is never overdrawn.
TypeOK ==
  /\ deps \in [Steps -> SUBSET (Steps \cup {0})]
  /\ planStatus \in {"draft", "active", "completed", "failed", "cancelled"}
  /\ stepStatus \in [Steps -> {"pending", "ready", "running"} \cup Terminal]
  /\ pc \in {"start", "loop", "gather", "returned", "over"}
  /\ at \in [Steps -> {"none", "queued", "executing", "ended", "raised"}]
  /\ iterations \in 0 .. MaxIterations
  /\ expired \in BOOLEAN /\ closed \in BOOLEAN
  /\ recovered \in Steps \cup {0}

Dag == INSTANCE DagExecution WITH
  Nodes <- Steps,
  st <- [s \in Steps |-> IF stepStatus[s] = "ready" THEN "pending" ELSE stepStatus[s]],
  shape <- [parents |-> deps, conditional |-> {}, refused |-> {}, broken |-> Steps,
            cancellable |-> {}, serial |-> 0,
            renewable |-> IF MayRecover /\ recovered = 0 THEN Steps ELSE {}]

\* Executing a plan executes its graph, as in the registry executor; a step that
\* is denied, comes too late or meets a closed pool fails without running.  The
\* recovery replaces one failed step, once, and executes the plan again: what
\* completed does not run again, and what was skipped stays skipped.
ExecutesPlan == Dag!Spec

\* When execute_plan returns, no step runs on in the background, nothing is left
\* running or raised without being failed, and every step has ended unless the
\* budget cut the plan short or the user refused it.
FinishedPlanIsQuiet ==
  pc \in {"returned", "over"} =>
    /\ \A s \in Steps : at[s] = "none" /\ stepStatus[s] # "running"
    /\ PlanComplete \/ Exhausted \/ planStatus = "cancelled"

\* execute_plan returns: neither a cycle nor an unknown id nor a closed pool
\* keeps the loop going, even if the time of the budget never runs out.
PlanEnds == pc = "loop" ~> pc = "returned"
=============================================================================
