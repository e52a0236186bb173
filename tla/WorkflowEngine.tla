--------------------------- MODULE WorkflowEngine ---------------------------
(***************************************************************************)
(* One run of WorkflowEngine.run_workflow (workflow.py): the loop starts   *)
(* every ready node of the graph as a coroutine, waits for the whole wave, *)
(* skips what can no longer run and goes on.  The node coroutines share a  *)
(* semaphore, retry failed attempts, and cancel_workflow may be called by  *)
(* another coroutine between any two awaits.  asyncio is external; a       *)
(* coroutine granted the semaphore takes its permit when it resumes.       *)
(***************************************************************************)
EXTENDS Naturals, FiniteSets

CONSTANTS
  Nodes,        \* node ids of the workflow
  Workflows,    \* the workflows create_workflow may be given, records of
                \*   edges: pairs <<source, target>>; a source may name no node
                \*   needs: edge -> nodes whose results its condition asks for
                \*   refusing: edges whose condition never holds
                \*   gatedOff: nodes whose own _condition never holds (one that
                \*     asks for results is modelled on the edges only)
                \*   unregistered: nodes whose step_fn is not registered
                \*   attempts: node -> max_retries + 1
  Permits,      \* permits of the shared semaphore (4 in the code)
  MayCancel,    \* whether somebody calls cancel_workflow
  SelfCancelling \* nodes whose step may end in a CancelledError of its own

ASSUME WorkflowAssumption ==
  /\ IsFiniteSet(Nodes)
  /\ \A w \in Workflows :
       /\ \A e \in w.edges : e[2] \in Nodes
       /\ w.needs \in [w.edges -> SUBSET Nodes]
       /\ w.refusing \subseteq w.edges
       /\ w.gatedOff \subseteq Nodes
       /\ w.unregistered \subseteq Nodes
       /\ w.attempts \in [Nodes -> Nat \ {0}]
  /\ Permits \in Nat \ {0}
  /\ MayCancel \in BOOLEAN
  /\ SelfCancelling \subseteq Nodes

VARIABLES
  workflow,    \* the workflow as created; it does not change
  wfStatus,    \* workflow.status
  nodeStatus,  \* node.status of each node
  results,     \* nodes whose result is in workflow.context
  pc,          \* run_workflow: "start", "loop", "gather", "done"
  coroutine,   \* _run_node: "none", "scheduled", "waiting", "executing", "ended"
  attempt,     \* attempt of the node (retry_count)
  permits      \* value of the semaphore

vars == <<workflow, wfStatus, nodeStatus, results, pc, coroutine, attempt, permits>>

Ended == {"completed", "failed", "skipped"}
NodesIn(s) == {n \in Nodes : nodeStatus[n] = s}
Incoming(n) == {e \in workflow.edges : e[2] = n}

Init ==
  /\ workflow \in Workflows
  /\ wfStatus = "idle"
  /\ nodeStatus = [n \in Nodes |-> "pending"]
  /\ results = {}
  /\ pc = "start"
  /\ coroutine = [n \in Nodes |-> "none"]
  /\ attempt = [n \in Nodes |-> 0]
  /\ permits = Permits

(***************************************************************************)
(* What the loop decides from the statuses.                                *)
(***************************************************************************)
\* Variant: a condition does not wait for the results it asks for.
ConditionUnasked(e) == e \notin workflow.refusing

\* condition_passes on the context of the run, and fail-closed.
ConditionPasses(e) ==
  e \notin workflow.refusing /\ workflow.needs[e] \subseteq results \cup {e[1]}

EdgeMet(e) == e[1] \in NodesIn("completed") /\ ConditionPasses(e)

\* Variant: one completed parent is enough.
ReadyAfterOne ==
  {n \in NodesIn("pending") : Incoming(n) = {} \/ \E e \in Incoming(n) : EdgeMet(e)}

Ready == {n \in NodesIn("pending") : \A e \in Incoming(n) : EdgeMet(e)}

\* A pending node is blocked by a parent that failed or was skipped, or, once
\* all its parents ended, by an edge that refuses.  S is what is skipped now.
Blocked(S) ==
  {n \in NodesIn("pending") :
     \/ \E e \in Incoming(n) : e[1] \in NodesIn("failed") \cup NodesIn("skipped") \cup S
     \/ /\ Incoming(n) # {}
        /\ \A e \in Incoming(n) : e[1] \in {m \in Nodes : nodeStatus[m] \in Ended} \cup S
        /\ \E e \in Incoming(n) : ~EdgeMet(e)}

\* _skip_blocked_dependents repeats until nothing changes: it skips the least
\* set of nodes that has every node it blocks.
SkipBlocked == {n \in Nodes : \A S \in SUBSET Nodes : Blocked(S) \subseteq S => n \in S}

Skipping(S) == [n \in Nodes |-> IF n \in S THEN "skipped" ELSE nodeStatus[n]]

(***************************************************************************)
(* run_workflow                                                            *)
(***************************************************************************)
Start ==
  /\ pc = "start"
  /\ pc' = "loop"
  /\ wfStatus' = "running"
  /\ UNCHANGED <<workflow, nodeStatus, results, coroutine, attempt, permits>>

IsComplete == \A n \in Nodes : nodeStatus[n] \in Ended

\* The statuses the loop leaves when it stops with ns, and those of the run.
Finish(ns) ==
  /\ pc' = "done"
  /\ nodeStatus' = ns
  /\ wfStatus' = IF wfStatus = "cancelled" THEN "cancelled"
                 ELSE IF \A n \in Nodes : ns[n] = "completed" THEN "completed"
                 ELSE "failed"
  /\ UNCHANGED <<workflow, results, coroutine, attempt, permits>>

Stop ==
  /\ pc = "loop"
  /\ IsComplete \/ wfStatus = "cancelled"
  /\ Finish(nodeStatus)

\* The ready nodes start together.
StartWave ==
  /\ pc = "loop"
  /\ ~IsComplete /\ wfStatus # "cancelled"
  /\ Ready # {}
  /\ pc' = "gather"
  /\ coroutine' = [n \in Nodes |-> IF n \in Ready THEN "scheduled" ELSE coroutine[n]]
  /\ UNCHANGED <<workflow, wfStatus, nodeStatus, results, attempt, permits>>

\* Variant: a cycle is not recognised.
UnblockOnce ==
  /\ pc = "loop"
  /\ ~IsComplete /\ wfStatus # "cancelled"
  /\ Ready = {}
  /\ NodesIn("running") = {}
  /\ nodeStatus' = Skipping(SkipBlocked)
  /\ UNCHANGED <<workflow, wfStatus, results, pc, coroutine, attempt, permits>>

\* Nothing is ready and nothing runs: skip what is blocked, and if that leaves
\* only a cycle, or a node that waits for an id the graph has not, skip all.
Unblock ==
  LET blocked == Skipping(SkipBlocked)
  IN  /\ pc = "loop"
      /\ ~IsComplete /\ wfStatus # "cancelled"
      /\ Ready = {}
      /\ NodesIn("running") = {}
      /\ Finish([n \in Nodes |-> IF blocked[n] = "pending" THEN "skipped" ELSE blocked[n]])

\* A node that is left RUNNING by a coroutine that ended: the loop sleeps and
\* looks again.
SleepForRunning ==
  /\ pc = "loop"
  /\ ~IsComplete /\ wfStatus # "cancelled"
  /\ Ready = {}
  /\ NodesIn("running") # {}
  /\ UNCHANGED vars

WaveEnds ==
  /\ pc = "gather"
  /\ \A n \in Nodes : coroutine[n] \in {"none", "ended"}
  /\ nodeStatus' = Skipping(SkipBlocked)
  /\ pc' = "loop"
  /\ UNCHANGED <<workflow, wfStatus, results, coroutine, attempt, permits>>

(***************************************************************************)
(* _run_node                                                               *)
(***************************************************************************)
\* The node ends with a status; its coroutine has given its permit back.
EndNode(n, status) ==
  /\ nodeStatus' = [nodeStatus EXCEPT ![n] = status]
  /\ coroutine' = [coroutine EXCEPT ![n] = "ended"]

SemaphoreFree == permits > 0 /\ \A m \in Nodes : coroutine[m] # "waiting"

StartNode(n) ==
  /\ coroutine[n] = "scheduled"
  /\ \/ /\ n \in workflow.unregistered
        /\ EndNode(n, "failed")
        /\ UNCHANGED permits
     \/ /\ n \in workflow.gatedOff \ workflow.unregistered
        /\ EndNode(n, "skipped")
        /\ UNCHANGED permits
     \/ /\ n \notin workflow.gatedOff \cup workflow.unregistered
        /\ nodeStatus' = [nodeStatus EXCEPT ![n] = "running"]
        /\ IF SemaphoreFree
             THEN /\ permits' = permits - 1
                  /\ coroutine' = [coroutine EXCEPT ![n] = "executing"]
             ELSE /\ coroutine' = [coroutine EXCEPT ![n] = "waiting"]
                  /\ UNCHANGED permits
  /\ UNCHANGED <<workflow, wfStatus, results, pc, attempt>>

\* Variant: the permit is not taken.
AcquireUncounted(n) ==
  /\ coroutine[n] = "waiting"
  /\ permits > 0
  /\ coroutine' = [coroutine EXCEPT ![n] = "executing"]
  /\ UNCHANGED <<workflow, wfStatus, nodeStatus, results, pc, attempt, permits>>

Acquire(n) ==
  /\ coroutine[n] = "waiting"
  /\ permits > 0
  /\ permits' = permits - 1
  /\ coroutine' = [coroutine EXCEPT ![n] = "executing"]
  /\ UNCHANGED <<workflow, wfStatus, nodeStatus, results, pc, attempt>>

StepSucceeds(n) ==
  /\ coroutine[n] = "executing"
  /\ EndNode(n, "completed")
  /\ results' = results \cup {n}
  /\ permits' = permits + 1
  /\ UNCHANGED <<workflow, wfStatus, pc, attempt>>

\* A soft error, an exception or a timeout, with attempts left: the permit is
\* given back and taken again, behind whoever waits for it.
RetryStep(n) ==
  /\ coroutine[n] = "executing"
  /\ attempt[n] + 1 < workflow.attempts[n]
  /\ attempt' = [attempt EXCEPT ![n] = @ + 1]
  /\ IF \A m \in Nodes : coroutine[m] # "waiting"
       THEN UNCHANGED <<permits, coroutine>>
       ELSE /\ permits' = permits + 1
            /\ coroutine' = [coroutine EXCEPT ![n] = "waiting"]
  /\ UNCHANGED <<workflow, wfStatus, nodeStatus, results, pc>>

StepFails(n) ==
  /\ coroutine[n] = "executing"
  /\ attempt[n] + 1 = workflow.attempts[n]
  /\ EndNode(n, "failed")
  /\ permits' = permits + 1
  /\ UNCHANGED <<workflow, wfStatus, results, pc, attempt>>

\* Variant: the permit is kept.
CancelledKeepingPermit(n) ==
  /\ n \in SelfCancelling
  /\ coroutine[n] = "executing"
  /\ coroutine' = [coroutine EXCEPT ![n] = "ended"]
  /\ UNCHANGED <<workflow, wfStatus, nodeStatus, results, pc, attempt, permits>>

\* CancelledError is no Exception: it leaves _run_node without a status, and
\* the gather collects it.
StepIsCancelled(n) ==
  /\ n \in SelfCancelling
  /\ coroutine[n] = "executing"
  /\ coroutine' = [coroutine EXCEPT ![n] = "ended"]
  /\ permits' = permits + 1
  /\ UNCHANGED <<workflow, wfStatus, nodeStatus, results, pc, attempt>>

\* cancel_workflow: whatever has not ended is marked skipped; nothing is told
\* to the coroutines of the wave.
Cancel ==
  /\ MayCancel
  /\ wfStatus' = "cancelled"
  /\ nodeStatus' = [n \in Nodes |-> IF nodeStatus[n] \in Ended THEN nodeStatus[n]
                                                             ELSE "skipped"]
  /\ UNCHANGED <<workflow, results, pc, coroutine, attempt, permits>>

NodeStep(n) ==
  \/ StartNode(n) \/ Acquire(n)
  \/ StepSucceeds(n) \/ RetryStep(n) \/ StepFails(n) \/ StepIsCancelled(n)

LoopStep == Start \/ Stop \/ StartWave \/ Unblock \/ SleepForRunning \/ WaveEnds

Terminated == pc = "done" /\ UNCHANGED vars

Next == LoopStep \/ (\E n \in Nodes : NodeStep(n)) \/ Cancel \/ Terminated

Spec == Init /\ [][Next]_vars

\* The event loop runs every ready coroutine, and a step ends: wait_for gives
\* every attempt a timeout.
FairSpec == Spec /\ WF_vars(LoopStep) /\ \A n \in Nodes : WF_vars(NodeStep(n))

-----------------------------------------------------------------------------
\* Type invariant.
TypeOK ==
  /\ wfStatus \in {"idle", "running", "completed", "failed", "cancelled"}
  /\ nodeStatus \in [Nodes -> {"pending", "running"} \cup Ended]
  /\ results \subseteq Nodes
  /\ pc \in {"start", "loop", "gather", "done"}
  /\ coroutine \in [Nodes -> {"none", "scheduled", "waiting", "executing", "ended"}]
  /\ attempt \in [Nodes -> Nat]
  /\ permits \in 0 .. Permits

Dag == INSTANCE DagExecution WITH
  st <- nodeStatus,
  shape <- [parents     |-> [n \in Nodes |-> {e[1] : e \in Incoming(n)}],
            conditional |-> workflow.gatedOff \cup
                            {e[2] : e \in {f \in workflow.edges :
                                              f \in workflow.refusing \/ workflow.needs[f] # {}}},
            refused     |-> (workflow.gatedOff \ workflow.unregistered) \cup
                            {e[2] : e \in workflow.refusing},
            broken      |-> workflow.unregistered,
            cancellable |-> {}, renewable |-> {}, serial |-> 0]

OutcomesStand ==
  \A n \in Nodes : nodeStatus[n] \in {"completed", "failed"} => nodeStatus'[n] = nodeStatus[n]

\* Until it is cancelled, a run executes the graph: waves, retries and skips
\* respect every edge, and no status that ended is written again.  Afterwards a
\* node that had completed or failed still keeps its status.
ExecutesGraph ==
  /\ Dag!Init
  /\ [][IF wfStatus' = "cancelled" THEN OutcomesStand ELSE Dag!Next]_<<nodeStatus, workflow>>

\* Even while a cancel sweeps over the statuses, a step only executes when all
\* its parents completed, every result that the conditions of its edges ask for
\* has arrived, and no condition refuses it.
ExecutesWhenMet ==
  \A n \in Nodes : coroutine[n] = "executing" =>
    /\ \A e \in Incoming(n) : /\ e[1] \in NodesIn("completed")
                              /\ workflow.needs[e] \subseteq results
                              /\ e \notin workflow.refusing
    /\ n \notin workflow.gatedOff

\* When run_workflow returns, cancelled or not, every node has ended, unless its
\* step raised CancelledError, none of its coroutines lives on and the shared
\* semaphore is whole again.
ReturnsQuiet ==
  pc = "done" => /\ \A n \in Nodes \ SelfCancelling : nodeStatus[n] \in Ended
                 /\ \A n \in Nodes : coroutine[n] \in {"none", "ended"}
                 /\ permits = Permits

\* A step that raised CancelledError left its node RUNNING.
LeftRunning == \E n \in SelfCancelling : coroutine[n] = "ended" /\ nodeStatus[n] = "running"

\* run_workflow returns, unless it sleeps for a node that was left RUNNING:
\* cycles, ids the graph has not, conditions, failed waves and cancels never
\* leave it waiting.
RunEnds == pc = "loop" ~> pc = "done" \/ LeftRunning

=============================================================================
