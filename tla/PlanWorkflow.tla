---------------------------- MODULE PlanWorkflow ----------------------------
(***************************************************************************)
(* A DAG plan executed through the workflow engine                         *)
(* (RegistryExecutor._execute_workflow_impl): every step becomes a node    *)
(* whose step function sets the step's own status as it goes, by rules of  *)
(* its own; when the run returns, the plan takes its status from the       *)
(* workflow and each step the result of its node.  This module adds the    *)
(* steps and the plan to WorkflowEngine; a plan builds graphs without      *)
(* conditions and with one attempt per node, and nobody cancels its run.   *)
(* Other workflows are run directly, with all that WorkflowEngine allows.  *)
(***************************************************************************)
EXTENDS WorkflowEngine

VARIABLES
  stepStatus,  \* the status of the plan's steps
  planStatus   \* the status of the plan, "none" when there is no plan

planVars == <<vars, stepStatus, planStatus>>

\* The graphs _execute_workflow_impl builds.
BuiltFromPlan(w) ==
  /\ w.refusing = {} /\ w.gatedOff = {} /\ w.unregistered = {}
  /\ \A e \in w.edges : w.needs[e] = {}
  /\ \A n \in Nodes : w.attempts[n] = 1

PlanInit ==
  /\ Init
  /\ stepStatus = [n \in Nodes |-> "pending"]
  /\ planStatus = IF BuiltFromPlan(workflow) THEN "draft" ELSE "none"

\* A workflow that is run directly takes no part in a plan.
Direct(A) == planStatus = "none" /\ A /\ UNCHANGED <<stepStatus, planStatus>>

\* The step function starts once its node has the permit.
StepStarts(n) ==
  /\ StartNode(n) \/ Acquire(n)
  /\ stepStatus' = [stepStatus EXCEPT ![n] =
                      IF coroutine'[n] = "executing" THEN "running" ELSE @]
  /\ UNCHANGED planStatus

\* The tool returned, and the step function sets the status of its step: failed
\* for exactly "error", completed for anything else.  It then awaits the
\* progress callback, and has not returned to the engine yet.
StepSettles(n) ==
  /\ coroutine[n] = "executing"
  /\ stepStatus[n] = "running"
  /\ \E s \in {"completed", "failed"} : stepStatus' = [stepStatus EXCEPT ![n] = s]
  /\ UNCHANGED <<vars, planStatus>>

\* The engine takes for a success what is none of "error", "failed" and
\* "failure", in any case.
NodeCompletes(n) ==
  /\ stepStatus[n] = "completed"
  /\ StepSucceeds(n)
  /\ UNCHANGED <<stepStatus, planStatus>>

\* The node fails and leaves the step as it stands: running when the permission
\* was denied or the timeout cut it off, failed after an error, completed when
\* the engine knows the result for a failure, or when the progress callback
\* raised or the timeout came after the step was settled.
NodeFails(n) == StepFails(n) /\ UNCHANGED <<stepStatus, planStatus>>

\* A CancelledError leaves the step as it stands too, and its node RUNNING.
NodeIsLeft(n) == StepIsCancelled(n) /\ UNCHANGED <<stepStatus, planStatus>>

\* Variant: the plan completes when no step failed, as in execute_plan.
MapBackFailures ==
  /\ pc = "done"
  /\ planStatus = "draft"
  /\ planStatus' = IF \E n \in Nodes : stepStatus[n] = "failed" THEN "failed" ELSE "completed"
  /\ UNCHANGED <<vars, stepStatus>>

\* The results are copied from the nodes, the statuses are not.
MapBack ==
  /\ pc = "done"
  /\ planStatus = "draft"
  /\ planStatus' = IF wfStatus = "completed" THEN "completed" ELSE "failed"
  /\ UNCHANGED <<vars, stepStatus>>

PlanTerminated == planStatus \notin {"draft", "none"} /\ UNCHANGED planVars

PlanNodeStep(n) ==
  \/ /\ planStatus # "none"
     /\ StepStarts(n) \/ StepSettles(n) \/ NodeCompletes(n) \/ NodeFails(n) \/ NodeIsLeft(n)
  \/ Direct(NodeStep(n))

PlanLoopStep == LoopStep /\ UNCHANGED <<stepStatus, planStatus>>

PlanNext ==
  \/ PlanLoopStep
  \/ \E n \in Nodes : PlanNodeStep(n)
  \/ Direct(Cancel)
  \/ MapBack
  \/ Direct(Terminated)
  \/ PlanTerminated

PlanSpec == PlanInit /\ [][PlanNext]_planVars

\* As in WorkflowEngine.
FairPlanSpec ==
  /\ PlanSpec
  /\ WF_planVars(PlanLoopStep)
  /\ \A n \in Nodes : WF_planVars(PlanNodeStep(n))

-----------------------------------------------------------------------------
\* What a DAG plan reports when it returned: completed only if every step is, and
\* failed only if the engine saw a node fail or a step was never begun.  The
\* graph followed the nodes: a step was begun only if every node it depends on
\* completed, whatever the statuses of the steps say of each other.  A failed
\* plan may show all of its steps completed.
PlanStatusTellsSteps ==
  planStatus \in {"completed", "failed"} =>
    /\ planStatus = "completed" => \A n \in Nodes : stepStatus[n] = "completed"
    /\ planStatus = "failed" => \E n \in Nodes : nodeStatus[n] = "failed" \/ stepStatus[n] = "pending"
    /\ \A e \in workflow.edges : e[1] \notin NodesIn("completed") => stepStatus[e[2]] = "pending"

=============================================================================
