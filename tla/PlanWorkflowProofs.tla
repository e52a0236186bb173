-------------------------- MODULE PlanWorkflowProofs --------------------------
(***************************************************************************)
(* Theorems about the workflow engine and the plans it runs, for every     *)
(* graph: cycles, conditions, retries and cancels included.  The argument: *)
(* a coroutine lives only while the loop gathers, and it was started when  *)
(* every parent had completed, which nothing takes back; until the run is  *)
(* cancelled the status of a node tells where its coroutine stands; and    *)
(* what is skipped is the least set with every node that is blocked, so    *)
(* each of its nodes is blocked by another one of it or by what ended.     *)
(*                                                                         *)
(* A run can go on because permits are held only by what executes, and it  *)
(* has finitely many steps because nothing gives an attempt back.          *)
(***************************************************************************)
EXTENDS PlanWorkflow, FiniteSetTheorems, TLAPS

Living(n) == coroutine[n] \in {"scheduled", "waiting", "executing"}
Executing == {n \in Nodes : coroutine[n] = "executing"}

\* The types, without the upper bound of the semaphore.
Shape ==
  /\ workflow \in Workflows
  /\ wfStatus \in {"idle", "running", "completed", "failed", "cancelled"}
  /\ nodeStatus \in [Nodes -> {"pending", "running"} \cup Ended]
  /\ results \subseteq Nodes
  /\ pc \in {"start", "loop", "gather", "done"}
  /\ coroutine \in [Nodes -> {"none", "scheduled", "waiting", "executing", "ended"}]
  /\ attempt \in [Nodes -> Nat]
  /\ permits \in Nat

\* Coroutines live only while the loop gathers them.
AloneInLoop == pc # "gather" => \A n \in Nodes : ~Living(n)

\* What lives was started when it could run, and has not ended.
StartedWhenMet ==
  \A n \in Nodes : Living(n) =>
    /\ \A e \in Incoming(n) : e[1] \in NodesIn("completed") /\ e \notin workflow.refusing
    /\ nodeStatus[n] \notin {"completed", "failed"}
    /\ coroutine[n] # "scheduled" => n \notin workflow.gatedOff \cup workflow.unregistered

\* Until a run is cancelled, the status of a node follows its coroutine.
StatusFollows ==
  wfStatus # "cancelled" => \A n \in Nodes :
    /\ coroutine[n] = "scheduled" => nodeStatus[n] = "pending"
    /\ coroutine[n] \in {"waiting", "executing"} => nodeStatus[n] = "running"

\* Afterwards what does not live has ended, but for a step that left without a
\* status; and so has everything when the run returns.
CancelledEnds ==
  \A n \in Nodes \ SelfCancelling :
    /\ wfStatus = "cancelled" /\ ~Living(n) => nodeStatus[n] \in Ended
    /\ pc = "done" => nodeStatus[n] \in Ended

\* Every permit is free or held by a step that executes.
PermitsHeld == permits + Cardinality(Executing) = Permits

RunInv ==
  /\ Shape /\ AloneInLoop /\ StartedWhenMet /\ StatusFollows /\ CancelledEnds /\ PermitsHeld

-----------------------------------------------------------------------------
(***************************************************************************)
(* What is skipped                                                         *)
(***************************************************************************)
LEMMA BlockedGrows ==
  ASSUME NEW S, NEW T, S \subseteq T
  PROVE  Blocked(S) \subseteq Blocked(T)
  BY DEF Blocked

\* Only pending nodes are skipped.
LEMMA SkippedPend == SkipBlocked \subseteq NodesIn("pending")
<1>1. NodesIn("pending") \in SUBSET Nodes /\ Blocked(NodesIn("pending")) \subseteq NodesIn("pending")
  BY DEF NodesIn, Blocked
<1>2. QED
  BY <1>1 DEF SkipBlocked

\* Each node that is skipped is blocked by what ended and what is skipped: the
\* nodes that are form a set with all they block, and it contains the least one.
LEMMA SkippedAreBlocked == SkipBlocked \subseteq Blocked(SkipBlocked)
<1>0. Blocked(SkipBlocked) \subseteq Nodes
  BY DEF Blocked, NodesIn
<1>1. Blocked(SkipBlocked) \subseteq SkipBlocked
  <2> SUFFICES ASSUME NEW n \in Blocked(SkipBlocked), NEW S \in SUBSET Nodes, Blocked(S) \subseteq S
               PROVE  n \in S
    BY <1>0 DEF SkipBlocked
  <2>1. SkipBlocked \subseteq S
    BY DEF SkipBlocked
  <2>2. n \in Blocked(S)
    BY <2>1, BlockedGrows
  <2>3. QED
    BY <2>2
<1>2. Blocked(Blocked(SkipBlocked)) \subseteq Blocked(SkipBlocked)
  BY <1>1, BlockedGrows
<1>3. QED
  BY <1>0, <1>2 DEF SkipBlocked

\* The loop changes the status of pending nodes only.
LEMMA LoopSkipsPending ==
  ASSUME Shape, LoopStep, NEW n \in Nodes, nodeStatus'[n] # nodeStatus[n]
  PROVE  nodeStatus[n] = "pending" /\ nodeStatus'[n] = "skipped"
<1>1. SkipBlocked \subseteq NodesIn("pending")
  BY SkippedPend
<1>2. CASE Unblock
  BY <1>1, <1>2 DEF Unblock, Finish, Skipping, NodesIn, Shape
<1>3. CASE WaveEnds
  BY <1>1, <1>3 DEF WaveEnds, Skipping, NodesIn, Shape
<1>4. CASE Start \/ Stop \/ StartWave \/ SleepForRunning
  BY <1>4 DEF Start, Stop, Finish, StartWave, SleepForRunning, vars
<1>5. QED
  BY <1>2, <1>3, <1>4 DEF LoopStep

-----------------------------------------------------------------------------
(***************************************************************************)
(* The permits                                                             *)
(***************************************************************************)
LEMMA CountIsNat ==
  ASSUME NEW S \in SUBSET Nodes
  PROVE  IsFiniteSet(S) /\ Cardinality(S) \in Nat
  BY WorkflowAssumption, FS_Subset, FS_CardinalityType

LEMMA CountIn ==
  ASSUME NEW S \in SUBSET Nodes, NEW n \in Nodes \ S
  PROVE  Cardinality(S \cup {n}) = Cardinality(S) + 1
  BY CountIsNat, FS_AddElement

LEMMA CountOut ==
  ASSUME NEW S \in SUBSET Nodes, NEW n \in S
  PROVE  Cardinality(S \ {n}) = Cardinality(S) - 1
  BY CountIsNat, FS_RemoveElement

\* A step that begins to execute takes a permit, one that stops returns it.
LEMMA PermitTaken ==
  ASSUME RunInv, NEW n \in Nodes, coroutine[n] # "executing",
         coroutine' = [coroutine EXCEPT ![n] = "executing"], permits > 0, permits' = permits - 1
  PROVE  PermitsHeld' /\ permits' \in Nat
<1>1. Executing \in SUBSET Nodes /\ n \notin Executing
  BY DEF Executing
<1>2. Executing' = Executing \cup {n}
  BY DEF RunInv, Shape, Executing
<1>3. Cardinality(Executing') = Cardinality(Executing) + 1 /\ Cardinality(Executing) \in Nat
  BY <1>1, <1>2, CountIn, CountIsNat
<1>4. permits \in Nat /\ Permits \in Nat /\ permits + Cardinality(Executing) = Permits
  BY WorkflowAssumption DEF RunInv, Shape, PermitsHeld
<1>5. PICK k \in Nat : k = Cardinality(Executing)
  BY <1>3
<1>6. QED
  BY <1>3, <1>4, <1>5 DEF PermitsHeld

LEMMA PermitReturned ==
  ASSUME RunInv, NEW n \in Nodes, coroutine[n] = "executing", NEW next \in {"waiting", "ended"},
         coroutine' = [coroutine EXCEPT ![n] = next], permits' = permits + 1
  PROVE  PermitsHeld' /\ permits' \in Nat
<1>1. Executing \in SUBSET Nodes /\ n \in Executing
  BY DEF Executing
<1>2. Executing' = Executing \ {n}
  BY DEF RunInv, Shape, Executing
<1>3. Cardinality(Executing') = Cardinality(Executing) - 1 /\ Cardinality(Executing) \in Nat
  BY <1>1, <1>2, CountOut, CountIsNat
<1>4. permits \in Nat /\ Permits \in Nat /\ permits + Cardinality(Executing) = Permits
  BY WorkflowAssumption DEF RunInv, Shape, PermitsHeld
<1>5. PICK k \in Nat : k = Cardinality(Executing)
  BY <1>3
<1>6. QED
  BY <1>3, <1>4, <1>5 DEF PermitsHeld

LEMMA PermitsStay ==
  ASSUME RunInv, Executing' = Executing, permits' = permits
  PROVE  PermitsHeld' /\ permits' \in Nat
  BY DEF RunInv, Shape, PermitsHeld

-----------------------------------------------------------------------------
(***************************************************************************)
(* The invariant                                                           *)
(***************************************************************************)
LEMMA InitInv == Init => RunInv
<1> SUFFICES ASSUME Init PROVE RunInv
  OBVIOUS
<1>1. Shape
  BY WorkflowAssumption DEF Init, Shape, Ended
<1>2. \A n \in Nodes : ~Living(n)
  BY DEF Init, Living
<1>3. Executing = {} /\ Cardinality({}) = 0
  BY FS_EmptySet DEF Init, Executing
<1>4. PermitsHeld
  BY <1>3, WorkflowAssumption DEF Init, PermitsHeld
<1>5. AloneInLoop /\ StartedWhenMet /\ StatusFollows /\ CancelledEnds
  BY <1>2 DEF Init, AloneInLoop, StartedWhenMet, StatusFollows, CancelledEnds, Living
<1>6. QED
  BY <1>1, <1>4, <1>5 DEF RunInv

\* The loop starts coroutines when none lives, and else changes none.
LEMMA LoopKeeps ==
  ASSUME RunInv, LoopStep
  PROVE  RunInv'
<1>1. /\ workflow' = workflow /\ results' = results /\ attempt' = attempt /\ permits' = permits
      /\ UNCHANGED Executing
  BY DEF RunInv, Shape, LoopStep, Start, Stop, Finish, StartWave, Unblock, SleepForRunning, WaveEnds,
         vars, Executing, Ready, NodesIn, AloneInLoop, Living
<1>2. PermitsHeld' /\ permits' \in Nat
  BY <1>1, PermitsStay
<1>3. Shape'
  BY <1>1, <1>2 DEF RunInv, Shape, LoopStep, Start, Stop, Finish, StartWave, Unblock, SleepForRunning,
                    WaveEnds, vars, Skipping, Ended
<1>4. CASE Start
  BY <1>2, <1>3, <1>4 DEF RunInv, Start, AloneInLoop, StartedWhenMet, StatusFollows, CancelledEnds,
                          Living, Incoming, NodesIn
<1>5. CASE Stop
  <2>1. UNCHANGED <<nodeStatus, coroutine, workflow>> /\ pc' = "done"
        /\ (wfStatus' = "cancelled" <=> wfStatus = "cancelled")
    BY <1>5 DEF Stop, Finish
  <2>2. \A n \in Nodes : ~Living(n)
    BY <1>5 DEF RunInv, AloneInLoop, Stop
  <2>3. CancelledEnds'
    BY <1>5, <2>1, <2>2 DEF RunInv, CancelledEnds, Stop, IsComplete, Living
  <2>4. AloneInLoop' /\ StartedWhenMet' /\ StatusFollows'
    BY <2>1, <2>2 DEF AloneInLoop, StartedWhenMet, StatusFollows, Living
  <2>5. QED
    BY <1>2, <1>3, <2>3, <2>4 DEF RunInv
<1>6. CASE StartWave
  <2>1. /\ UNCHANGED <<nodeStatus, workflow, wfStatus>> /\ pc' = "gather" /\ wfStatus # "cancelled"
        /\ \A n \in Nodes : coroutine'[n] = IF n \in Ready THEN "scheduled" ELSE coroutine[n]
    BY <1>6 DEF StartWave
  <2>2. \A n \in Nodes : ~Living(n)
    BY <1>6 DEF RunInv, AloneInLoop, StartWave
  <2>3. StartedWhenMet'
    BY <2>1, <2>2 DEF StartedWhenMet, Living, Ready, EdgeMet, ConditionPasses, NodesIn, Incoming
  <2>4. AloneInLoop' /\ StatusFollows' /\ CancelledEnds'
    BY <2>1, <2>2 DEF AloneInLoop, StatusFollows, CancelledEnds, Living, Ready, NodesIn
  <2>5. QED
    BY <1>2, <1>3, <2>3, <2>4 DEF RunInv
<1>7. CASE Unblock
  <2>1. /\ UNCHANGED <<coroutine, workflow>> /\ pc' = "done" /\ wfStatus' # "cancelled"
    BY <1>7 DEF Unblock, Finish
  <2>2. \A n \in Nodes : ~Living(n)
    BY <1>7 DEF RunInv, AloneInLoop, Unblock
  <2>3. \A n \in Nodes : nodeStatus'[n] \in Ended
    BY <1>7 DEF RunInv, Shape, Unblock, Finish, Skipping, NodesIn, Ended
  <2>4. AloneInLoop' /\ StartedWhenMet' /\ StatusFollows' /\ CancelledEnds'
    BY <2>1, <2>2, <2>3 DEF AloneInLoop, StartedWhenMet, StatusFollows, CancelledEnds, Living
  <2>5. QED
    BY <1>2, <1>3, <2>4 DEF RunInv
<1>8. CASE SleepForRunning
  BY <1>8 DEF SleepForRunning, vars, RunInv, Shape, AloneInLoop, StartedWhenMet, StatusFollows,
              CancelledEnds, PermitsHeld, Executing, Living, Incoming, NodesIn
<1>9. CASE WaveEnds
  <2>1. /\ UNCHANGED <<coroutine, workflow, wfStatus>> /\ pc' = "loop"
        /\ \A n \in Nodes : ~Living(n)
    BY <1>9 DEF WaveEnds, Living
  <2>2. \A n \in Nodes : nodeStatus'[n] \in {nodeStatus[n], "skipped"}
    BY <1>9 DEF WaveEnds, Skipping
  <2>3. AloneInLoop' /\ StartedWhenMet' /\ StatusFollows' /\ CancelledEnds'
    BY <2>1, <2>2 DEF RunInv, AloneInLoop, StartedWhenMet, StatusFollows, CancelledEnds, Living, Ended
  <2>4. QED
    BY <1>2, <1>3, <2>3 DEF RunInv
<1>10. QED
  BY <1>4, <1>5, <1>6, <1>7, <1>8, <1>9 DEF LoopStep

\* A step of a node that goes on or ends disturbs no other node: those that live
\* wait for parents that completed, and the node had not.
LEMMA NodeKeeps ==
  ASSUME RunInv, NEW n \in Nodes, Living(n), UNCHANGED <<workflow, wfStatus, pc>>,
         NEW st \in {"pending", "running"} \cup Ended,
         NEW co \in {"waiting", "executing", "ended"},
         nodeStatus' = [nodeStatus EXCEPT ![n] = st], coroutine' = [coroutine EXCEPT ![n] = co],
         co = "ended" => st \in Ended \/ (n \in SelfCancelling /\ st = nodeStatus[n]),
         co # "ended" => /\ wfStatus # "cancelled" => st = "running"
                         /\ st \notin {"completed", "failed"}
                         /\ n \notin workflow.gatedOff \cup workflow.unregistered
  PROVE  AloneInLoop' /\ StartedWhenMet' /\ StatusFollows' /\ CancelledEnds'
<1>1. pc = "gather" /\ nodeStatus[n] \notin {"completed", "failed"}
  BY DEF RunInv, AloneInLoop, StartedWhenMet, Shape
<1>2. /\ nodeStatus'[n] = st /\ coroutine'[n] = co
      /\ \A m \in Nodes \ {n} : nodeStatus'[m] = nodeStatus[m] /\ coroutine'[m] = coroutine[m]
  BY DEF RunInv, Shape
<1>3. NodesIn("completed") \subseteq NodesIn("completed")'
  BY <1>1, <1>2 DEF NodesIn
<1>4. StartedWhenMet'
  <2> SUFFICES ASSUME NEW m \in Nodes, Living(m)'
               PROVE  /\ \A e \in Incoming(m) : e[1] \in NodesIn("completed")'
                                                /\ e \notin workflow.refusing
                      /\ nodeStatus'[m] \notin {"completed", "failed"}
                      /\ coroutine'[m] # "scheduled" =>
                           m \notin workflow.gatedOff \cup workflow.unregistered
    BY DEF StartedWhenMet, Incoming
  <2>1. Living(m)
    BY <1>2 DEF Living
  <2>2. \A e \in Incoming(m) : e[1] \in NodesIn("completed")' /\ e \notin workflow.refusing
    BY <1>3, <2>1 DEF RunInv, StartedWhenMet
  <2>3. CASE m = n
    BY <1>2, <2>2, <2>3 DEF Living
  <2>4. CASE m # n
    BY <1>2, <2>1, <2>2, <2>4 DEF RunInv, StartedWhenMet
  <2>5. QED
    BY <2>3, <2>4
<1>5. AloneInLoop' /\ StatusFollows'
  BY <1>1, <1>2 DEF RunInv, AloneInLoop, StatusFollows
<1>6. CancelledEnds'
  BY <1>1, <1>2 DEF RunInv, CancelledEnds, Living
<1>7. QED
  BY <1>4, <1>5, <1>6

LEMMA StartNodeKeeps ==
  ASSUME RunInv, NEW n \in Nodes, StartNode(n)
  PROVE  RunInv'
<1>1. /\ coroutine[n] = "scheduled" /\ Living(n)
      /\ UNCHANGED <<workflow, wfStatus, results, pc, attempt>>
  BY DEF StartNode, Living
<1>2. nodeStatus \in [Nodes -> {"pending", "running"} \cup Ended] /\ coroutine[n] # "executing"
  BY <1>1 DEF RunInv, Shape
<1>3. CASE \E st \in {"failed", "skipped"} : EndNode(n, st) /\ UNCHANGED permits
  <2>1. PICK st \in {"failed", "skipped"} : EndNode(n, st) /\ UNCHANGED permits
    BY <1>3
  <2>2. AloneInLoop' /\ StartedWhenMet' /\ StatusFollows' /\ CancelledEnds'
    BY <1>1, <2>1, NodeKeeps DEF EndNode, Ended
  <2>3. Executing' = Executing
    BY <1>2, <2>1 DEF EndNode, Executing, RunInv, Shape
  <2>4. PermitsHeld' /\ permits' \in Nat
    BY <2>1, <2>3, PermitsStay
  <2>5. Shape'
    BY <1>1, <2>1, <2>4 DEF RunInv, Shape, EndNode, Ended
  <2>6. QED
    BY <2>2, <2>4, <2>5 DEF RunInv
<1>4. CASE /\ n \notin workflow.gatedOff \cup workflow.unregistered
           /\ nodeStatus' = [nodeStatus EXCEPT ![n] = "running"]
           /\ permits > 0 /\ permits' = permits - 1
           /\ coroutine' = [coroutine EXCEPT ![n] = "executing"]
  <2>1. AloneInLoop' /\ StartedWhenMet' /\ StatusFollows' /\ CancelledEnds'
    BY <1>1, <1>4, NodeKeeps
  <2>2. PermitsHeld' /\ permits' \in Nat
    BY <1>2, <1>4, PermitTaken
  <2>3. Shape'
    BY <1>1, <1>4, <2>2 DEF RunInv, Shape
  <2>4. QED
    BY <2>1, <2>2, <2>3 DEF RunInv
<1>5. CASE /\ n \notin workflow.gatedOff \cup workflow.unregistered
           /\ nodeStatus' = [nodeStatus EXCEPT ![n] = "running"]
           /\ coroutine' = [coroutine EXCEPT ![n] = "waiting"]
           /\ UNCHANGED permits
  <2>1. AloneInLoop' /\ StartedWhenMet' /\ StatusFollows' /\ CancelledEnds'
    BY <1>1, <1>5, NodeKeeps
  <2>2. Executing' = Executing
    BY <1>2, <1>5 DEF Executing, RunInv, Shape
  <2>3. PermitsHeld' /\ permits' \in Nat
    BY <1>5, <2>2, PermitsStay
  <2>4. Shape'
    BY <1>1, <1>5, <2>3 DEF RunInv, Shape
  <2>5. QED
    BY <2>1, <2>3, <2>4 DEF RunInv
<1>6. QED
  BY <1>3, <1>4, <1>5 DEF StartNode, SemaphoreFree

\* The steps that leave the status of the node as it is.
LEMMA SameStatusKeeps ==
  ASSUME RunInv, NEW n \in Nodes, coroutine[n] \in {"waiting", "executing"},
         NEW co \in {"waiting", "executing", "ended"},
         coroutine' = [coroutine EXCEPT ![n] = co], co = "ended" => n \in SelfCancelling,
         UNCHANGED <<workflow, wfStatus, nodeStatus, results, pc>>,
         attempt' \in [Nodes -> Nat], PermitsHeld' /\ permits' \in Nat
  PROVE  RunInv'
<1>1. /\ Living(n) /\ nodeStatus[n] \in {"pending", "running"} \cup Ended
      /\ nodeStatus' = [nodeStatus EXCEPT ![n] = nodeStatus[n]]
  BY DEF Living, RunInv, Shape
<1>2. /\ wfStatus # "cancelled" => nodeStatus[n] = "running"
      /\ nodeStatus[n] \notin {"completed", "failed"}
      /\ n \notin workflow.gatedOff \cup workflow.unregistered
  BY <1>1 DEF RunInv, StatusFollows, StartedWhenMet
<1>3. AloneInLoop' /\ StartedWhenMet' /\ StatusFollows' /\ CancelledEnds'
  BY <1>1, <1>2, NodeKeeps
<1>4. Shape'
  BY DEF RunInv, Shape
<1>5. QED
  BY <1>3, <1>4 DEF RunInv

LEMMA EndKeeps ==
  ASSUME RunInv, NEW n \in Nodes, StepSucceeds(n) \/ StepFails(n)
  PROVE  RunInv'
<1>1. /\ coroutine[n] = "executing" /\ Living(n) /\ permits' = permits + 1
      /\ UNCHANGED <<workflow, wfStatus, pc, attempt>> /\ results' \subseteq Nodes
  BY DEF StepSucceeds, StepFails, Living, RunInv, Shape
<1>2. PICK st \in {"completed", "failed"} : EndNode(n, st)
  BY DEF StepSucceeds, StepFails
<1>3. AloneInLoop' /\ StartedWhenMet' /\ StatusFollows' /\ CancelledEnds'
  BY <1>1, <1>2, NodeKeeps DEF EndNode, Ended
<1>4. PermitsHeld' /\ permits' \in Nat
  BY <1>1, <1>2, PermitReturned DEF EndNode
<1>5. Shape'
  BY <1>1, <1>2, <1>4 DEF RunInv, Shape, EndNode, Ended
<1>6. QED
  BY <1>3, <1>4, <1>5 DEF RunInv

LEMMA NodeStepKeeps ==
  ASSUME RunInv, NEW n \in Nodes, NodeStep(n)
  PROVE  RunInv'
<1>1. CASE StartNode(n)
  BY <1>1, StartNodeKeeps
<1>2. CASE Acquire(n)
  <2>1. /\ coroutine[n] = "waiting" /\ coroutine' = [coroutine EXCEPT ![n] = "executing"]
        /\ permits > 0 /\ permits' = permits - 1 /\ attempt' \in [Nodes -> Nat]
        /\ UNCHANGED <<workflow, wfStatus, nodeStatus, results, pc>>
    BY <1>2 DEF Acquire, RunInv, Shape
  <2>2. PermitsHeld' /\ permits' \in Nat
    BY <2>1, PermitTaken
  <2>3. QED
    BY <2>1, <2>2, SameStatusKeeps
<1>3. CASE StepSucceeds(n) \/ StepFails(n)
  BY <1>3, EndKeeps
<1>4. CASE RetryStep(n)
  <2>1. /\ coroutine[n] = "executing" /\ attempt' \in [Nodes -> Nat]
        /\ UNCHANGED <<workflow, wfStatus, nodeStatus, results, pc>>
    BY <1>4 DEF RetryStep, RunInv, Shape
  <2>2. CASE UNCHANGED <<permits, coroutine>>
    <3>1. coroutine' = [coroutine EXCEPT ![n] = "executing"]
      BY <2>1, <2>2 DEF RunInv, Shape
    <3>2. PermitsHeld' /\ permits' \in Nat
      BY <2>2, PermitsStay DEF Executing
    <3>3. QED
      BY <2>1, <3>1, <3>2, SameStatusKeeps
  <2>3. CASE permits' = permits + 1 /\ coroutine' = [coroutine EXCEPT ![n] = "waiting"]
    <3>1. PermitsHeld' /\ permits' \in Nat
      BY <2>1, <2>3, PermitReturned
    <3>2. QED
      BY <2>1, <2>3, <3>1, SameStatusKeeps
  <2>4. QED
    BY <1>4, <2>2, <2>3 DEF RetryStep
<1>5. CASE StepIsCancelled(n)
  <2>1. /\ coroutine[n] = "executing" /\ coroutine' = [coroutine EXCEPT ![n] = "ended"]
        /\ permits' = permits + 1 /\ n \in SelfCancelling /\ attempt' \in [Nodes -> Nat]
        /\ UNCHANGED <<workflow, wfStatus, nodeStatus, results, pc>>
    BY <1>5 DEF StepIsCancelled, RunInv, Shape
  <2>2. PermitsHeld' /\ permits' \in Nat
    BY <2>1, PermitReturned
  <2>3. QED
    BY <2>1, <2>2, SameStatusKeeps
<1>6. QED
  BY <1>1, <1>2, <1>3, <1>4, <1>5 DEF NodeStep

LEMMA CancelKeeps ==
  ASSUME RunInv, Cancel
  PROVE  RunInv'
<1>1. /\ wfStatus' = "cancelled" /\ UNCHANGED <<workflow, results, pc, coroutine, attempt, permits>>
      /\ nodeStatus' \in [Nodes -> Ended]
      /\ \A n \in Nodes : nodeStatus'[n] = IF nodeStatus[n] \in Ended THEN nodeStatus[n]
                                           ELSE "skipped"
  BY DEF Cancel, Ended
<1>2. PermitsHeld' /\ permits' \in Nat
  BY <1>1, PermitsStay DEF Executing
<1>3. Shape'
  BY <1>1, <1>2 DEF RunInv, Shape, Ended
<1>4. AloneInLoop' /\ StatusFollows' /\ CancelledEnds'
  BY <1>1 DEF RunInv, AloneInLoop, StatusFollows, CancelledEnds, Living
<1>5. StartedWhenMet'
  BY <1>1 DEF RunInv, StartedWhenMet, Living, Incoming, NodesIn, Ended
<1>6. QED
  BY <1>2, <1>3, <1>4, <1>5 DEF RunInv

LEMMA StutterKeeps == ASSUME RunInv, UNCHANGED vars PROVE RunInv'
  BY DEF vars, RunInv, Shape, AloneInLoop, StartedWhenMet, StatusFollows, CancelledEnds, PermitsHeld,
         Executing, Living, Incoming, NodesIn

LEMMA NextKeeps == RunInv /\ [Next]_vars => RunInv'
  BY LoopKeeps, NodeStepKeeps, CancelKeeps, StutterKeeps DEF Next, Terminated

\* The invariant holds of a run, and of a plan, which is a run of its graph.
THEOREM RunInvariance == Spec => []RunInv
  BY InitInv, NextKeeps, PTL DEF Spec

LEMMA PlanSteps == [PlanNext]_planVars => [Next]_vars
<1> SUFFICES ASSUME [PlanNext]_planVars PROVE [Next]_vars
  OBVIOUS
<1>1. CASE PlanLoopStep
  BY <1>1 DEF PlanLoopStep, Next
<1>2. CASE \E n \in Nodes : PlanNodeStep(n)
  BY <1>2 DEF PlanNodeStep, Direct, StepStarts, StepSettles, NodeCompletes,
              NodeFails, NodeIsLeft, NodeStep, Next
<1>3. CASE Direct(Cancel) \/ Direct(Terminated)
  BY <1>3 DEF Direct, Next
<1>4. CASE MapBack \/ PlanTerminated \/ UNCHANGED planVars
  BY <1>4 DEF MapBack, PlanTerminated, planVars
<1>5. QED
  BY <1>1, <1>2, <1>3, <1>4 DEF PlanNext

\* A DAG plan is one of the runs of its graph: what holds of every run holds of it.
THEOREM PlansAreRuns == PlanSpec => Spec
<1>1. PlanInit => Init
  BY DEF PlanInit
<1>2. QED
  BY <1>1, PlanSteps, PTL DEF PlanSpec, Spec

-----------------------------------------------------------------------------
\* The types; the semaphore never counts more than it was made with.
THEOREM TypeCorrect == Spec => []TypeOK
<1>1. ASSUME RunInv PROVE TypeOK
  <2>1. Cardinality(Executing) \in Nat
    BY CountIsNat DEF Executing
  <2>2. permits \in Nat /\ Permits \in Nat /\ permits + Cardinality(Executing) = Permits
    BY <1>1, WorkflowAssumption DEF RunInv, Shape, PermitsHeld
  <2>3. PICK k \in Nat : k = Cardinality(Executing)
    BY <2>1
  <2>4. permits \in 0 .. Permits
    BY <2>2, <2>3
  <2>5. QED
    BY <1>1, <2>4 DEF RunInv, Shape, TypeOK
<1>2. QED
  BY <1>1, RunInvariance, PTL

\* A node that completed left its result, and what lives was started when the
\* results that its edges ask for had arrived.
ResultsMet ==
  /\ NodesIn("completed") \subseteq results
  /\ \A n \in Nodes : Living(n) => \A e \in Incoming(n) : workflow.needs[e] \subseteq results

LEMMA ResultsMetInNode ==
  ASSUME RunInv, ResultsMet, NEW n \in Nodes, NodeStep(n)
  PROVE  ResultsMet'
<1>1. workflow' = workflow /\ results \subseteq results' /\ Living(n)
  BY DEF NodeStep, StartNode, Acquire, StepSucceeds, RetryStep, StepFails, StepIsCancelled, Living
<1>2. \A m \in Nodes \ {n} : nodeStatus'[m] = nodeStatus[m] /\ coroutine'[m] = coroutine[m]
  BY DEF NodeStep, StartNode, Acquire, StepSucceeds, RetryStep, StepFails, StepIsCancelled, EndNode,
         RunInv, Shape
<1>3. nodeStatus'[n] = "completed" => nodeStatus[n] = "completed" \/ n \in results'
  BY DEF NodeStep, StartNode, Acquire, StepSucceeds, RetryStep, StepFails, StepIsCancelled, EndNode,
         RunInv, Shape
<1>4. NodesIn("completed")' \subseteq results'
  BY <1>1, <1>2, <1>3 DEF ResultsMet, NodesIn
<1>5. \A m \in Nodes : Living(m)' => Living(m)
  BY <1>1, <1>2 DEF Living
<1>6. QED
  BY <1>1, <1>4, <1>5 DEF ResultsMet, Incoming

LEMMA ResultsMetInLoop ==
  ASSUME RunInv, ResultsMet, LoopStep
  PROVE  ResultsMet'
<1>1. workflow' = workflow /\ results' = results
  BY DEF LoopStep, Start, Stop, Finish, StartWave, Unblock, SleepForRunning, WaveEnds, vars
<1>2. NodesIn("completed")' \subseteq NodesIn("completed")
  BY LoopSkipsPending DEF RunInv, NodesIn
<1>3. ASSUME NEW n \in Nodes, Living(n)', ~Living(n)
      PROVE  \A e \in Incoming(n) : workflow.needs[e] \subseteq results
  <2>1. StartWave /\ n \in Ready
    BY <1>3 DEF LoopStep, Start, Stop, Finish, StartWave, Unblock, SleepForRunning, WaveEnds, vars, Living
  <2>2. QED
    BY <2>1 DEF Ready, EdgeMet, ConditionPasses, ResultsMet
<1>4. QED
  BY <1>1, <1>2, <1>3 DEF ResultsMet, Incoming

LEMMA ResultsMetKept == RunInv /\ ResultsMet /\ [Next]_vars => ResultsMet'
<1> SUFFICES ASSUME RunInv, ResultsMet, [Next]_vars PROVE ResultsMet'
  OBVIOUS
<1>1. CASE Cancel
  BY <1>1 DEF Cancel, ResultsMet, NodesIn, Living, Incoming, Ended
<1>2. CASE Terminated \/ UNCHANGED vars
  BY <1>2 DEF Terminated, vars, ResultsMet, NodesIn, Living, Incoming
<1>3. QED
  BY <1>1, <1>2, ResultsMetInNode, ResultsMetInLoop DEF Next

\* A step executes only where its parents completed, the results its edges ask
\* for have arrived and no condition refuses it, whatever a cancel writes
\* meanwhile.
THEOREM StepsAreMet == Spec => []ExecutesWhenMet
<1>1. Init => ResultsMet
  BY DEF Init, ResultsMet, NodesIn, Living
<1>2. RunInv /\ ResultsMet => ExecutesWhenMet
  BY DEF RunInv, StartedWhenMet, ResultsMet, Living, ExecutesWhenMet
<1>3. QED
  BY <1>1, <1>2, RunInvariance, ResultsMetKept, PTL DEF Spec

\* A run that returned has left nothing behind.
THEOREM RunsReturnQuiet == Spec => []ReturnsQuiet
<1>1. ASSUME RunInv PROVE ReturnsQuiet
  <2> SUFFICES ASSUME pc = "done"
               PROVE  /\ \A n \in Nodes \ SelfCancelling : nodeStatus[n] \in Ended
                      /\ \A n \in Nodes : coroutine[n] \in {"none", "ended"}
                      /\ permits = Permits
    BY DEF ReturnsQuiet
  <2>1. \A n \in Nodes : coroutine[n] \in {"none", "ended"}
    BY <1>1 DEF RunInv, Shape, AloneInLoop, Living
  <2>2. Executing = {} /\ Cardinality({}) = 0
    BY <2>1, FS_EmptySet DEF Executing
  <2>3. permits = Permits
    BY <1>1, <2>2 DEF RunInv, Shape, PermitsHeld
  <2>4. QED
    BY <1>1, <2>1, <2>3 DEF RunInv, CancelledEnds
<1>2. QED
  BY <1>1, RunInvariance, PTL

-----------------------------------------------------------------------------
(***************************************************************************)
(* The run implements DagExecution                                         *)
(***************************************************************************)
Conditional ==
  workflow.gatedOff \cup
  {e[2] : e \in {f \in workflow.edges : f \in workflow.refusing \/ workflow.needs[f] # {}}}

LEMMA GraphStart ==
  ASSUME NEW n \in Nodes, nodeStatus[n] = "pending", n \notin workflow.gatedOff \ workflow.unregistered,
         \A e \in Incoming(n) : e[1] \in NodesIn("completed") /\ e \notin workflow.refusing,
         workflow \in Workflows,
         nodeStatus'[n] = "running" \/ (n \in workflow.unregistered /\ nodeStatus'[n] = "failed")
  PROVE  Dag!Start(n)
<1>1. n \notin {e[2] : e \in workflow.refusing}
  BY WorkflowAssumption DEF Incoming
<1>2. QED
  BY <1>1 DEF Dag!Start, Dag!Completed, NodesIn

LEMMA GraphPassOver ==
  ASSUME NEW n \in Nodes, nodeStatus[n] = "pending", nodeStatus'[n] = "skipped",
         \/ n \in Conditional
         \/ \E e \in Incoming(n) : e[1] \notin Nodes \/ nodeStatus'[e[1]] # "completed"
  PROVE  Dag!PassOver(n)
  BY DEF Dag!PassOver, Dag!Completed, Conditional

LEMMA GraphEnd ==
  ASSUME NEW n \in Nodes, nodeStatus[n] = "running", nodeStatus'[n] \in {"completed", "failed"}
  PROVE  Dag!End(n)
  BY DEF Dag!End

LEMMA GraphProgress ==
  ASSUME workflow' = workflow,
         \A n \in Nodes : Dag!Start(n) \/ Dag!PassOver(n) \/ Dag!End(n)
                          \/ nodeStatus'[n] = nodeStatus[n]
  PROVE  Dag!Next
  BY DEF Dag!Next, Dag!Progress, Incoming

\* A node that no edge refuses and whose sources completed is ready.
LEMMA NotMet ==
  ASSUME NEW n \in Nodes, NEW e \in Incoming(n), ~EdgeMet(e)
  PROVE  n \in Conditional \/ e[1] \notin NodesIn("completed")
  BY DEF EdgeMet, ConditionPasses, Conditional, Incoming

\* What the loop skips is conditional or has a parent that did not complete.
LEMMA LoopIsProgress ==
  ASSUME RunInv, LoopStep
  PROVE  Dag!Next
<1>1. workflow' = workflow
  BY DEF LoopStep, Start, Stop, Finish, StartWave, Unblock, SleepForRunning, WaveEnds, vars
<1>2. SUFFICES ASSUME NEW n \in Nodes, nodeStatus'[n] # nodeStatus[n]
               PROVE  Dag!PassOver(n)
  BY <1>1, GraphProgress
<1>3. /\ nodeStatus[n] = "pending" /\ nodeStatus'[n] = "skipped"
      /\ \A m \in Nodes : nodeStatus'[m] # nodeStatus[m] => nodeStatus'[m] = "skipped"
  BY <1>2, LoopSkipsPending DEF RunInv
<1>4. CASE n \in SkipBlocked
  <2>1. /\ Unblock \/ WaveEnds
        /\ \A m \in SkipBlocked : nodeStatus'[m] = "skipped"
    BY <1>2, <1>4, SkippedPend DEF LoopStep, Start, Stop, Finish, StartWave, SleepForRunning, vars,
       Unblock, WaveEnds, Skipping, NodesIn
  <2>2. n \in Blocked(SkipBlocked)
    BY <1>4, SkippedAreBlocked
  <2>3. CASE \E e \in Incoming(n) :
               e[1] \in NodesIn("failed") \cup NodesIn("skipped") \cup SkipBlocked
    <3>1. PICK e \in Incoming(n) :
               e[1] \in NodesIn("failed") \cup NodesIn("skipped") \cup SkipBlocked
      BY <2>3
    <3>2. nodeStatus'[e[1]] # "completed"
      BY <1>3, <2>1, <3>1 DEF NodesIn
    <3>3. QED
      BY <1>3, <3>2, GraphPassOver
  <2>4. CASE \E e \in Incoming(n) : ~EdgeMet(e)
    <3>1. PICK e \in Incoming(n) : ~EdgeMet(e)
      BY <2>4
    <3>2. n \in Conditional \/ e[1] \notin NodesIn("completed")
      BY <3>1, NotMet
    <3>3. e[1] \notin NodesIn("completed") => e[1] \notin Nodes \/ nodeStatus'[e[1]] # "completed"
      BY <1>3 DEF NodesIn
    <3>4. QED
      BY <1>3, <3>2, <3>3, GraphPassOver
  <2>5. QED
    BY <2>2, <2>3, <2>4 DEF Blocked
<1>5. CASE n \notin SkipBlocked
  <2>1. Unblock
    BY <1>2, <1>5 DEF LoopStep, Start, Stop, Finish, StartWave, SleepForRunning, vars,
       WaveEnds, Skipping, RunInv, Shape
  <2>2. PICK e \in Incoming(n) : ~EdgeMet(e)
    BY <1>3, <2>1 DEF Unblock, Ready, NodesIn
  <2>3. n \in Conditional \/ e[1] \notin NodesIn("completed")
    BY <2>2, NotMet
  <2>4. e[1] \notin NodesIn("completed") => e[1] \notin Nodes \/ nodeStatus'[e[1]] # "completed"
    BY <1>3 DEF NodesIn
  <2>5. QED
    BY <1>3, <2>3, <2>4, GraphPassOver
<1>6. QED
  BY <1>4, <1>5

LEMMA NodeStepIsProgress ==
  ASSUME RunInv, wfStatus # "cancelled", NEW n \in Nodes, NodeStep(n)
  PROVE  Dag!Next
<1>1. workflow' = workflow /\ workflow \in Workflows
  BY DEF NodeStep, StartNode, Acquire, StepSucceeds, RetryStep, StepFails, StepIsCancelled, RunInv, Shape
<1>2. \A m \in Nodes \ {n} : nodeStatus'[m] = nodeStatus[m]
  BY DEF NodeStep, StartNode, Acquire, StepSucceeds, RetryStep, StepFails, StepIsCancelled, EndNode,
         RunInv, Shape
<1>3. SUFFICES ASSUME nodeStatus'[n] # nodeStatus[n]
               PROVE  Dag!Start(n) \/ Dag!PassOver(n) \/ Dag!End(n)
  BY <1>1, <1>2, GraphProgress
<1>4. CASE StartNode(n)
  <2>1. /\ nodeStatus[n] = "pending"
        /\ \A e \in Incoming(n) : e[1] \in NodesIn("completed") /\ e \notin workflow.refusing
    BY <1>4 DEF StartNode, RunInv, StatusFollows, StartedWhenMet, Living
  <2>2. CASE n \in workflow.unregistered /\ nodeStatus'[n] = "failed"
    BY <1>1, <2>1, <2>2, GraphStart
  <2>3. CASE n \in workflow.gatedOff \ workflow.unregistered /\ nodeStatus'[n] = "skipped"
    BY <2>1, <2>3, GraphPassOver DEF Conditional
  <2>4. CASE n \notin workflow.gatedOff \cup workflow.unregistered /\ nodeStatus'[n] = "running"
    BY <1>1, <2>1, <2>4, GraphStart
  <2>5. QED
    BY <1>4, <2>2, <2>3, <2>4 DEF StartNode, EndNode, RunInv, Shape
<1>5. CASE StepSucceeds(n) \/ StepFails(n)
  <2>1. nodeStatus[n] = "running" /\ nodeStatus'[n] \in {"completed", "failed"}
    BY <1>5 DEF StepSucceeds, StepFails, EndNode, RunInv, Shape, StatusFollows
  <2>2. QED
    BY <2>1, GraphEnd
<1>6. CASE Acquire(n) \/ RetryStep(n) \/ StepIsCancelled(n)
  BY <1>3, <1>6 DEF Acquire, RetryStep, StepIsCancelled
<1>7. QED
  BY <1>4, <1>5, <1>6 DEF NodeStep

\* What a cancelled run still changes had not completed or failed.
LEMMA OutcomesStandStep ==
  ASSUME RunInv, [Next]_vars
  PROVE  OutcomesStand
<1> SUFFICES ASSUME NEW m \in Nodes, nodeStatus[m] \in {"completed", "failed"}
             PROVE  nodeStatus'[m] = nodeStatus[m]
  BY DEF OutcomesStand
<1>1. CASE LoopStep
  BY <1>1, LoopSkipsPending DEF RunInv
<1>2. ASSUME NEW n \in Nodes, NodeStep(n) PROVE nodeStatus'[m] = nodeStatus[m]
  <2>1. m # n \/ ~Living(n)
    BY DEF RunInv, StartedWhenMet
  <2>2. QED
    BY <1>2, <2>1 DEF NodeStep, StartNode, Acquire, StepSucceeds, RetryStep, StepFails, StepIsCancelled,
                      EndNode, Living, RunInv, Shape
<1>3. CASE Cancel \/ Terminated \/ UNCHANGED vars
  BY <1>3 DEF Cancel, Terminated, vars, Ended
<1>4. QED
  BY <1>1, <1>2, <1>3 DEF Next

GraphStep == IF wfStatus' = "cancelled" THEN OutcomesStand ELSE Dag!Next

LEMMA StepIsGraphStep ==
  ASSUME RunInv, [Next]_vars
  PROVE  [GraphStep]_<<nodeStatus, workflow>>
<1>1. CASE wfStatus' = "cancelled"
  BY <1>1, OutcomesStandStep DEF GraphStep
<1>2. CASE wfStatus' # "cancelled" /\ LoopStep
  BY <1>2, LoopIsProgress DEF GraphStep
<1>3. ASSUME wfStatus' # "cancelled", NEW n \in Nodes, NodeStep(n)
      PROVE  GraphStep
  <2>1. wfStatus # "cancelled"
    BY <1>3 DEF NodeStep, StartNode, Acquire, StepSucceeds, RetryStep, StepFails, StepIsCancelled
  <2>2. QED
    BY <1>3, <2>1, NodeStepIsProgress DEF GraphStep
<1>4. CASE wfStatus' # "cancelled" /\ Cancel
  BY <1>4 DEF Cancel
<1>5. CASE Terminated \/ UNCHANGED vars
  BY <1>5 DEF Terminated, vars
<1>6. QED
  BY <1>1, <1>2, <1>3, <1>4, <1>5 DEF Next

\* A run implements the execution of its graph, until it is cancelled; then at
\* least outcomes stand.
THEOREM Implements == Spec => ExecutesGraph
<1>1. Init => Dag!Init
  BY DEF Init, Dag!Init
<1>2. RunInv /\ [Next]_vars => [GraphStep]_<<nodeStatus, workflow>>
  BY StepIsGraphStep
<1>3. QED
  BY <1>1, <1>2, RunInvariance, PTL DEF Spec, ExecutesGraph, GraphStep

-----------------------------------------------------------------------------
(***************************************************************************)
(* Progress: what of RunEnds is safety                                     *)
(***************************************************************************)
\* What a coroutine may still do: each attempt left is one execution and one
\* wait for the permit.
AttemptsLeft(n) == workflow.attempts[n] - attempt[n]

StepsLeft(n) ==
  CASE coroutine[n] = "ended" -> 0
    [] coroutine[n] = "executing" -> 2 * AttemptsLeft(n)
    [] coroutine[n] = "waiting" -> 2 * AttemptsLeft(n) + 1
    [] coroutine[n] = "scheduled" -> 2 * AttemptsLeft(n) + 2
    [] coroutine[n] = "none" -> 2 * AttemptsLeft(n) + 3

LoopStepsLeft ==
  CASE pc = "start" -> 3 [] pc = "gather" -> 2 [] pc = "loop" -> 1 [] OTHER -> 0

\* Nothing gives a coroutine a step back, and each step of the run but a call
\* of cancel_workflow takes one from a coroutine or brings the loop closer to
\* its end; the loop goes round only by starting a wave.
RunAdvances ==
  /\ \A n \in Nodes : StepsLeft(n)' <= StepsLeft(n)
  /\ Cancel \/ LoopStepsLeft' < LoopStepsLeft \/ \E n \in Nodes : StepsLeft(n)' < StepsLeft(n)

\* A coroutine can go on, unless it waits for a permit.
NodeCanStep(n) ==
  coroutine[n] \in {"scheduled", "executing"} \/ (coroutine[n] = "waiting" /\ permits > 0)

\* The loop can go on, unless it waits for its wave or sleeps for a RUNNING node.
LoopCanStep ==
  \/ pc = "start"
  \/ pc = "gather" /\ \A n \in Nodes : coroutine[n] \in {"none", "ended"}
  \/ pc = "loop" /\ (IsComplete \/ wfStatus = "cancelled" \/ Ready # {} \/ NodesIn("running") = {})

\* A run that has not returned can go on: the loop never waits for coroutines
\* that all wait, and it sleeps only for a step that left its node RUNNING.
RunGoesOn == pc = "done" \/ LeftRunning \/ LoopCanStep \/ \E n \in Nodes : NodeCanStep(n)

\* A node has an attempt left, one whose coroutine started has a status, and a
\* RUNNING node has a coroutine, or had one that left it so.
StepsRemain ==
  \A n \in Nodes :
    /\ attempt[n] < workflow.attempts[n]
    /\ coroutine[n] \in {"waiting", "executing", "ended"} => nodeStatus[n] # "pending"
    /\ nodeStatus[n] = "running" => Living(n) \/ (n \in SelfCancelling /\ coroutine[n] = "ended")

ProgressInv == RunInv /\ StepsRemain

LEMMA StepsRemainInit == Init => StepsRemain
<1> SUFFICES ASSUME Init PROVE StepsRemain
  OBVIOUS
<1>1. \A n \in Nodes : workflow.attempts[n] \in Nat \ {0}
  BY WorkflowAssumption DEF Init
<1>2. \A n \in Nodes : attempt[n] = 0 /\ coroutine[n] = "none" /\ nodeStatus[n] = "pending"
  BY DEF Init
<1>3. QED
  BY <1>1, <1>2 DEF StepsRemain

LEMMA AttemptsAreNat ==
  ASSUME RunInv, NEW n \in Nodes
  PROVE  attempt[n] \in Nat /\ workflow.attempts[n] \in Nat
  BY WorkflowAssumption DEF RunInv, Shape

\* A node changes in its own steps only, with an attempt left as long as it goes on.
LEMMA OwnSteps ==
  ASSUME ProgressInv, NEW n \in Nodes, NodeStep(n)
  PROVE  /\ UNCHANGED <<workflow, pc>>
         /\ \A m \in Nodes \ {n} : /\ coroutine'[m] = coroutine[m] /\ attempt'[m] = attempt[m]
                                   /\ nodeStatus'[m] = nodeStatus[m]
         /\ \/ /\ coroutine[n] \in {"scheduled", "waiting"} /\ coroutine'[n] = "executing"
               /\ attempt'[n] = attempt[n] /\ nodeStatus'[n] \in {"running", nodeStatus[n]}
               /\ coroutine[n] = "scheduled" => nodeStatus'[n] = "running"
            \/ /\ coroutine[n] = "scheduled" /\ coroutine'[n] = "waiting"
               /\ attempt'[n] = attempt[n] /\ nodeStatus'[n] = "running"
            \/ /\ coroutine[n] = "executing" /\ coroutine'[n] \in {"waiting", "executing"}
               /\ attempt'[n] = attempt[n] + 1 /\ attempt[n] + 1 < workflow.attempts[n]
               /\ nodeStatus'[n] = nodeStatus[n]
            \/ /\ coroutine[n] \in {"scheduled", "executing"} /\ coroutine'[n] = "ended"
               /\ attempt'[n] = attempt[n]
               /\ \/ nodeStatus'[n] \in Ended
                  \/ coroutine[n] = "executing" /\ n \in SelfCancelling /\ nodeStatus'[n] = nodeStatus[n]
<1> USE DEF ProgressInv, RunInv, Shape
<1>1. CASE StartNode(n)
  BY <1>1 DEF StartNode, EndNode, Ended
<1>2. CASE Acquire(n)
  BY <1>2 DEF Acquire
<1>3. CASE StepSucceeds(n)
  BY <1>3 DEF StepSucceeds, EndNode, Ended
<1>4. CASE RetryStep(n)
  BY <1>4 DEF RetryStep
<1>5. CASE StepFails(n)
  BY <1>5 DEF StepFails, EndNode, Ended
<1>6. CASE StepIsCancelled(n)
  BY <1>6 DEF StepIsCancelled
<1>7. QED
  BY <1>1, <1>2, <1>3, <1>4, <1>5, <1>6 DEF NodeStep

LEMMA StepsRemainInNode ==
  ASSUME ProgressInv, NEW n \in Nodes, NodeStep(n)
  PROVE  StepsRemain'
<1>1. \A m \in Nodes \ {n} :
        /\ attempt'[m] < workflow'.attempts[m]
        /\ coroutine'[m] \in {"waiting", "executing", "ended"} => nodeStatus'[m] # "pending"
        /\ nodeStatus'[m] = "running" =>
             Living(m)' \/ (m \in SelfCancelling /\ coroutine'[m] = "ended")
  BY OwnSteps DEF ProgressInv, StepsRemain, Living
<1>2. attempt'[n] < workflow'.attempts[n]
  BY OwnSteps DEF ProgressInv, StepsRemain
<1>3. coroutine'[n] \in {"waiting", "executing", "ended"} => nodeStatus'[n] # "pending"
  BY OwnSteps DEF ProgressInv, StepsRemain, Ended
<1>4. nodeStatus'[n] = "running" =>
        Living(n)' \/ (n \in SelfCancelling /\ coroutine'[n] = "ended")
  BY OwnSteps DEF Living, Ended
<1>5. QED
  BY <1>1, <1>2, <1>3, <1>4 DEF StepsRemain

\* The loop starts nodes that had no coroutine yet.
LEMMA LoopStarts ==
  ASSUME ProgressInv, LoopStep, NEW n \in Nodes
  PROVE  /\ UNCHANGED <<workflow, attempt>>
         /\ \/ coroutine'[n] = coroutine[n]
            \/ /\ StartWave /\ n \in Ready /\ coroutine[n] = "none" /\ coroutine'[n] = "scheduled"
               /\ nodeStatus'[n] = "pending"
<1>1. UNCHANGED <<workflow, attempt>>
  BY DEF LoopStep, Start, Stop, Finish, StartWave, Unblock, SleepForRunning, WaveEnds, vars
<1>2. CASE ~StartWave
  BY <1>1, <1>2 DEF LoopStep, Start, Stop, Finish, Unblock, SleepForRunning, WaveEnds, vars
<1>3. CASE StartWave /\ n \in Ready
  <2>1. nodeStatus[n] = "pending" /\ nodeStatus'[n] = "pending" /\ ~Living(n)
    BY <1>3 DEF StartWave, Ready, NodesIn, ProgressInv, RunInv, AloneInLoop
  <2>2. coroutine[n] = "none"
    BY <2>1 DEF ProgressInv, RunInv, Shape, StepsRemain, Living
  <2>3. QED
    BY <1>1, <1>3, <2>1, <2>2 DEF StartWave
<1>4. CASE StartWave /\ n \notin Ready
  BY <1>1, <1>4 DEF StartWave
<1>5. QED
  BY <1>2, <1>3, <1>4

LEMMA StepsRemainInLoop ==
  ASSUME ProgressInv, LoopStep
  PROVE  StepsRemain'
<1> SUFFICES ASSUME NEW n \in Nodes
             PROVE  /\ attempt'[n] < workflow'.attempts[n]
                    /\ coroutine'[n] \in {"waiting", "executing", "ended"} =>
                         nodeStatus'[n] # "pending"
                    /\ nodeStatus'[n] = "running" =>
                         Living(n)' \/ (n \in SelfCancelling /\ coroutine'[n] = "ended")
  BY DEF StepsRemain
<1>1. nodeStatus'[n] = nodeStatus[n] \/ nodeStatus'[n] = "skipped"
  BY LoopSkipsPending DEF ProgressInv, RunInv
<1>2. QED
  BY <1>1, LoopStarts DEF ProgressInv, StepsRemain, Living

LEMMA StepsRemainKept == ProgressInv /\ [Next]_vars => ProgressInv'
<1> SUFFICES ASSUME ProgressInv, [Next]_vars PROVE StepsRemain'
  BY NextKeeps DEF ProgressInv
<1>1. CASE Cancel
  BY <1>1 DEF Cancel, ProgressInv, StepsRemain, RunInv, Shape, Living, Ended
<1>2. CASE Terminated \/ UNCHANGED vars
  BY <1>2 DEF Terminated, vars, ProgressInv, StepsRemain, Living
<1>3. QED
  BY <1>1, <1>2, StepsRemainInNode, StepsRemainInLoop DEF Next

LEMMA ProgressInvariance == Spec => []ProgressInv
<1>1. Init => ProgressInv
  BY InitInv, StepsRemainInit DEF ProgressInv
<1>2. QED
  BY <1>1, StepsRemainKept, PTL DEF Spec

\* The loop waits for a wave of which some coroutine can go on.
THEOREM RunsGoOn == Spec => []RunGoesOn
<1>1. ASSUME ProgressInv, pc = "gather" PROVE LoopCanStep \/ \E n \in Nodes : NodeCanStep(n)
  <2>1. CASE \A n \in Nodes : coroutine[n] \in {"none", "ended"}
    BY <1>1, <2>1 DEF LoopCanStep
  <2>2. CASE \E n \in Nodes : coroutine[n] \in {"scheduled", "executing"}
    BY <2>2 DEF NodeCanStep
  <2>3. CASE /\ \A n \in Nodes : coroutine[n] \notin {"scheduled", "executing"}
             /\ \E n \in Nodes : coroutine[n] = "waiting"
    <3>1. Executing = {} /\ Cardinality({}) = 0
      BY <2>3, FS_EmptySet DEF Executing
    <3>2. permits > 0
      BY <1>1, <3>1, WorkflowAssumption DEF ProgressInv, RunInv, Shape, PermitsHeld
    <3>3. QED
      BY <2>3, <3>2 DEF NodeCanStep
  <2>4. QED
    BY <1>1, <2>1, <2>2, <2>3 DEF ProgressInv, RunInv, Shape
<1>2. ASSUME ProgressInv, pc = "loop" PROVE LoopCanStep \/ LeftRunning
  <2>1. ASSUME NEW n \in Nodes, nodeStatus[n] = "running" PROVE LeftRunning
    BY <1>2, <2>1 DEF ProgressInv, StepsRemain, RunInv, AloneInLoop, LeftRunning
  <2>2. QED
    BY <1>2, <2>1 DEF LoopCanStep, NodesIn
<1>3. ProgressInv => RunGoesOn
  BY <1>1, <1>2 DEF RunGoesOn, LoopCanStep, ProgressInv, RunInv, Shape
<1>4. QED
  BY <1>3, ProgressInvariance, PTL

\* What is left of a node is at most twice its attempts and three, and falls
\* with each of its own steps and when the loop starts it.
LEMMA StepsLeftBound ==
  ASSUME ProgressInv, NEW n \in Nodes
  PROVE  StepsLeft(n) \in 0 .. (2 * workflow.attempts[n] + 3)
<1>1. attempt[n] \in Nat /\ workflow.attempts[n] \in Nat /\ attempt[n] < workflow.attempts[n]
  BY AttemptsAreNat DEF ProgressInv, StepsRemain
<1>2. coroutine[n] \in {"none", "scheduled", "waiting", "executing", "ended"}
  BY DEF ProgressInv, RunInv, Shape
<1>3. QED
  BY <1>1, <1>2 DEF StepsLeft, AttemptsLeft

LEMMA NodeStepTakes ==
  ASSUME ProgressInv, NEW n \in Nodes, NodeStep(n)
  PROVE  StepsLeft(n)' <= StepsLeft(n) /\ StepsLeft(n)' < StepsLeft(n)
<1>1. attempt[n] \in Nat /\ workflow.attempts[n] \in Nat /\ attempt[n] < workflow.attempts[n]
  BY AttemptsAreNat DEF ProgressInv, StepsRemain
<1>2. workflow'.attempts[n] = workflow.attempts[n]
  BY OwnSteps
<1>3. CASE coroutine[n] \in {"scheduled", "waiting"} /\ coroutine'[n] = "executing"
           /\ attempt'[n] = attempt[n]
  BY <1>1, <1>2, <1>3 DEF StepsLeft, AttemptsLeft
<1>4. CASE coroutine[n] = "scheduled" /\ coroutine'[n] = "waiting" /\ attempt'[n] = attempt[n]
  BY <1>1, <1>2, <1>4 DEF StepsLeft, AttemptsLeft
<1>5. CASE coroutine[n] = "executing" /\ coroutine'[n] \in {"waiting", "executing"}
           /\ attempt'[n] = attempt[n] + 1
  BY <1>1, <1>2, <1>5 DEF StepsLeft, AttemptsLeft
<1>6. CASE coroutine[n] \in {"scheduled", "executing"} /\ coroutine'[n] = "ended"
  BY <1>1, <1>2, <1>6 DEF StepsLeft, AttemptsLeft
<1>7. QED
  BY <1>3, <1>4, <1>5, <1>6, OwnSteps

LEMMA StartTakes ==
  ASSUME ProgressInv, NEW n \in Nodes, coroutine[n] = "none", coroutine'[n] = "scheduled",
         UNCHANGED <<workflow, attempt>>
  PROVE  StepsLeft(n)' <= StepsLeft(n) /\ StepsLeft(n)' < StepsLeft(n)
<1>1. attempt[n] \in Nat /\ workflow.attempts[n] \in Nat
  BY AttemptsAreNat DEF ProgressInv
<1>2. QED
  BY <1>1 DEF StepsLeft, AttemptsLeft

LEMMA SameStepsLeft ==
  ASSUME ProgressInv, NEW n \in Nodes, coroutine'[n] = coroutine[n], attempt'[n] = attempt[n],
         workflow' = workflow
  PROVE  StepsLeft(n)' <= StepsLeft(n)
<1>1. StepsLeft(n)' = StepsLeft(n)
  BY DEF StepsLeft, AttemptsLeft
<1>2. StepsLeft(n) \in Nat
  BY StepsLeftBound, AttemptsAreNat DEF ProgressInv
<1>3. QED
  BY <1>1, <1>2

\* A run has finitely many steps, but for the sleep for a node left RUNNING and
\* for repeated cancels: what is left of its nodes is bounded, no step raises
\* it, and each takes from it or brings the loop closer to its end.
THEOREM RunsAdvance ==
  /\ Spec => [](\A n \in Nodes : StepsLeft(n) \in 0 .. (2 * workflow.attempts[n] + 3))
  /\ Spec => [][RunAdvances]_vars
<1>1. ASSUME ProgressInv, LoopStep, ~UNCHANGED vars PROVE RunAdvances
  <2>1. ASSUME NEW n \in Nodes PROVE StepsLeft(n)' <= StepsLeft(n)
    <3>1. CASE coroutine'[n] = coroutine[n]
      BY <1>1, <3>1, LoopStarts, SameStepsLeft
    <3>2. CASE coroutine[n] = "none" /\ coroutine'[n] = "scheduled"
      BY <1>1, <3>2, LoopStarts, StartTakes
    <3>3. QED
      BY <1>1, <3>1, <3>2, LoopStarts
  <2>2. CASE StartWave
    <3>1. PICK n \in Ready : n \in Nodes
      BY <2>2 DEF StartWave, Ready, NodesIn
    <3>2. coroutine'[n] = "scheduled" /\ ~Living(n)
      BY <1>1, <2>2, <3>1 DEF StartWave, ProgressInv, RunInv, AloneInLoop
    <3>3. StepsLeft(n)' < StepsLeft(n)
      BY <1>1, <3>1, <3>2, LoopStarts, StartTakes DEF Living
    <3>4. QED
      BY <2>1, <3>1, <3>3 DEF RunAdvances
  <2>3. CASE ~StartWave
    <3>1. LoopStepsLeft' < LoopStepsLeft
      BY <1>1, <2>3 DEF LoopStep, Start, Stop, Finish, Unblock, SleepForRunning, WaveEnds,
                        LoopStepsLeft
    <3>2. QED
      BY <2>1, <3>1 DEF RunAdvances
  <2>4. QED
    BY <2>2, <2>3
<1>2. ASSUME ProgressInv, NEW n \in Nodes, NodeStep(n) PROVE RunAdvances
  <2>1. StepsLeft(n)' < StepsLeft(n)
    BY <1>2, NodeStepTakes
  <2>2. ASSUME NEW m \in Nodes PROVE StepsLeft(m)' <= StepsLeft(m)
    <3>1. CASE m = n
      BY <1>2, <3>1, NodeStepTakes
    <3>2. CASE m # n
      BY <1>2, <3>2, OwnSteps, SameStepsLeft
    <3>3. QED
      BY <3>1, <3>2
  <2>3. QED
    BY <2>1, <2>2 DEF RunAdvances
<1>3. ASSUME ProgressInv, Cancel PROVE RunAdvances
  <2>1. \A n \in Nodes : StepsLeft(n)' <= StepsLeft(n)
    BY <1>3, SameStepsLeft DEF Cancel
  <2>2. QED
    BY <1>3, <2>1 DEF RunAdvances
<1>4. ProgressInv /\ [Next]_vars => [RunAdvances]_vars
  BY <1>1, <1>2, <1>3 DEF Next, Terminated
<1>5. ProgressInv => \A n \in Nodes : StepsLeft(n) \in 0 .. (2 * workflow.attempts[n] + 3)
  BY StepsLeftBound
<1>6. QED
  BY <1>4, <1>5, ProgressInvariance, PTL DEF Spec

-----------------------------------------------------------------------------
(***************************************************************************)
(* Plans                                                                   *)
(***************************************************************************)
\* Where the step of a node stands.  A step that was begun had all its parents
\* completed, and its node is neither pending nor skipped.
StepsFollow ==
  \A n \in Nodes :
    /\ nodeStatus[n] = "completed" => stepStatus[n] = "completed"
    /\ stepStatus[n] # "pending" => /\ nodeStatus[n] \notin {"pending", "skipped"}
                                    /\ \A e \in Incoming(n) : e[1] \in NodesIn("completed")

\* In a plan nothing cancels the run, and the status of a run that returned
\* tells whether all of its nodes, which have ended, completed.
PlanInv ==
  /\ planStatus \in {"none", "draft", "completed", "failed"}
  /\ DOMAIN stepStatus = Nodes
  /\ planStatus # "none" => wfStatus # "cancelled" /\ StepsFollow
  /\ pc = "done" /\ wfStatus # "cancelled" =>
       /\ \A n \in Nodes : nodeStatus[n] \in Ended
       /\ wfStatus = "completed" <=> \A n \in Nodes : nodeStatus[n] = "completed"
  /\ planStatus \in {"completed", "failed"} =>
       pc = "done" /\ (planStatus = "completed" <=> wfStatus = "completed")

LEMMA PlanInitInv == PlanInit => PlanInv
  BY DEF PlanInit, Init, PlanInv, StepsFollow

\* The loop skips nodes whose steps were never begun.
LEMMA LoopKeepsSteps ==
  ASSUME RunInv, StepsFollow, PlanLoopStep
  PROVE  StepsFollow'
<1>1. LoopStep /\ UNCHANGED stepStatus /\ workflow' = workflow
  BY DEF PlanLoopStep, LoopStep, Start, Stop, Finish, StartWave, Unblock, SleepForRunning, WaveEnds, vars
<1>2. \A n \in Nodes : \/ nodeStatus'[n] = nodeStatus[n]
                       \/ nodeStatus[n] = "pending" /\ nodeStatus'[n] = "skipped"
  BY <1>1, LoopSkipsPending DEF RunInv
<1>3. NodesIn("completed") \subseteq NodesIn("completed")'
  BY <1>2 DEF NodesIn
<1>4. QED
  BY <1>1, <1>2, <1>3 DEF StepsFollow, Incoming

LEMMA PlanLoopKeeps ==
  ASSUME RunInv, PlanInv, PlanLoopStep
  PROVE  PlanInv'
<1>1. LoopStep /\ UNCHANGED <<stepStatus, planStatus>>
  BY DEF PlanLoopStep
<1>2. planStatus # "none" => StepsFollow'
  BY LoopKeepsSteps DEF PlanInv
<1>3. CASE Stop \/ Unblock
  <2>1. \E ns : Finish(ns)
    BY <1>3 DEF Stop, Unblock
  <2>2. /\ pc' = "done" /\ pc # "done"
        /\ wfStatus' = "cancelled" <=> wfStatus = "cancelled"
        /\ wfStatus # "cancelled" =>
             (wfStatus' = "completed" <=> \A n \in Nodes : nodeStatus'[n] = "completed")
    BY <1>3, <2>1 DEF Finish, Stop, Unblock
  <2>3. wfStatus # "cancelled" => \A n \in Nodes : nodeStatus'[n] \in Ended
    BY <1>3 DEF Stop, Unblock, Finish, IsComplete, Skipping, NodesIn, Ended, RunInv, Shape
  <2>4. QED
    BY <1>1, <1>2, <2>2, <2>3 DEF PlanInv
<1>4. CASE Start \/ StartWave \/ WaveEnds
  <2>1. pc # "done" /\ pc' # "done" /\ (wfStatus' = wfStatus \/ wfStatus' = "running")
    BY <1>4 DEF Start, StartWave, WaveEnds
  <2>2. QED
    BY <1>1, <1>2, <2>1 DEF PlanInv
<1>5. CASE SleepForRunning
  BY <1>1, <1>2, <1>5 DEF SleepForRunning, vars, PlanInv
<1>6. QED
  BY <1>1, <1>3, <1>4, <1>5 DEF LoopStep

\* A coroutine of a plan begins its step, settles it, or ends the node and
\* leaves the step as it stands; a node completes only after its step did.
LEMMA NodeKeepsSteps ==
  ASSUME RunInv, StepsFollow, DOMAIN stepStatus = Nodes, wfStatus # "cancelled", planStatus # "none",
         NEW n \in Nodes, PlanNodeStep(n)
  PROVE  StepsFollow'
<1>1. /\ Living(n) /\ workflow' = workflow
      /\ \A m \in Nodes \ {n} : nodeStatus'[m] = nodeStatus[m] /\ stepStatus'[m] = stepStatus[m]
  BY DEF PlanNodeStep, Direct, StepStarts, StepSettles, NodeCompletes, NodeFails, NodeIsLeft, StartNode,
         Acquire, StepSucceeds, StepFails, StepIsCancelled, EndNode, Living, vars, RunInv, Shape
<1>2. /\ nodeStatus[n] # "completed" /\ \A e \in Incoming(n) : e[1] \in NodesIn("completed")
      /\ coroutine[n] = "scheduled" => nodeStatus[n] = "pending"
      /\ coroutine[n] \in {"waiting", "executing"} => nodeStatus[n] = "running"
  BY <1>1 DEF RunInv, StartedWhenMet, StatusFollows
<1>3. NodesIn("completed") \subseteq NodesIn("completed")'
  BY <1>1, <1>2 DEF NodesIn
<1>4. /\ nodeStatus'[n] = "completed" => stepStatus'[n] = "completed"
      /\ stepStatus'[n] # "pending" => nodeStatus'[n] \notin {"pending", "skipped"}
  <2> n \in DOMAIN stepStatus /\ n \in DOMAIN nodeStatus /\ n \in DOMAIN coroutine
    BY DEF RunInv, Shape
  <2>1. CASE StepStarts(n)
    BY <1>2, <2>1 DEF StepStarts, StartNode, Acquire, EndNode, StepsFollow
  <2>2. CASE StepSettles(n)
    BY <1>2, <2>2 DEF StepSettles, vars
  <2>3. CASE NodeCompletes(n)
    BY <2>3 DEF NodeCompletes, StepSucceeds, EndNode
  <2>4. CASE NodeFails(n)
    BY <2>4 DEF NodeFails, StepFails, EndNode
  <2>5. CASE NodeIsLeft(n)
    BY <1>2, <2>5 DEF NodeIsLeft, StepIsCancelled
  <2>6. QED
    BY <2>1, <2>2, <2>3, <2>4, <2>5 DEF PlanNodeStep, Direct
<1>5. QED
  BY <1>1, <1>2, <1>3, <1>4 DEF StepsFollow, Incoming

LEMMA PlanNodeKeeps ==
  ASSUME RunInv, PlanInv, NEW n \in Nodes, PlanNodeStep(n)
  PROVE  PlanInv'
<1>1. UNCHANGED <<planStatus, wfStatus, pc>> /\ Living(n)
  BY DEF PlanNodeStep, Direct, StepStarts, StepSettles, NodeCompletes, NodeFails, NodeIsLeft, NodeStep,
         StartNode, Acquire, StepSucceeds, RetryStep, StepFails, StepIsCancelled, Living, vars
<1>2. pc # "done"
  BY <1>1 DEF RunInv, AloneInLoop
<1>3. DOMAIN stepStatus' = Nodes
  BY DEF PlanNodeStep, Direct, StepStarts, StepSettles, NodeCompletes, NodeFails, NodeIsLeft, PlanInv
<1>4. planStatus # "none" => StepsFollow'
  BY NodeKeepsSteps DEF PlanInv
<1>5. QED
  BY <1>1, <1>2, <1>3, <1>4 DEF PlanInv

LEMMA PlanNextKeeps == RunInv /\ PlanInv /\ [PlanNext]_planVars => PlanInv'
<1> SUFFICES ASSUME RunInv, PlanInv, [PlanNext]_planVars PROVE PlanInv'
  OBVIOUS
<1>1. CASE PlanLoopStep
  BY <1>1, PlanLoopKeeps
<1>2. CASE \E n \in Nodes : PlanNodeStep(n)
  BY <1>2, PlanNodeKeeps
<1>3. CASE Direct(Cancel)
  BY <1>3 DEF Direct, Cancel, PlanInv
<1>4. CASE MapBack
  BY <1>4 DEF MapBack, vars, PlanInv, StepsFollow, Incoming, NodesIn
<1>5. CASE Direct(Terminated) \/ PlanTerminated \/ UNCHANGED planVars
  BY <1>5 DEF Direct, Terminated, PlanTerminated, planVars, vars, PlanInv, StepsFollow, Incoming, NodesIn
<1>6. QED
  BY <1>1, <1>2, <1>3, <1>4, <1>5 DEF PlanNext

\* What a plan reports agrees with its steps: completed means all of them, and
\* failed means that a node failed or that a step was never begun; no step was
\* begun before the nodes it depends on completed.
THEOREM PlanStatusIsRight == PlanSpec => []PlanStatusTellsSteps
<1>1. PlanSpec => []RunInv
  BY PlansAreRuns, RunInvariance, PTL
<1>2. ASSUME RunInv, PlanInv PROVE PlanStatusTellsSteps
  <2> SUFFICES ASSUME planStatus \in {"completed", "failed"} PROVE PlanStatusTellsSteps
    BY DEF PlanStatusTellsSteps
  <2>1. /\ StepsFollow
        /\ \A n \in Nodes : nodeStatus[n] \in Ended
        /\ planStatus = "completed" <=> \A n \in Nodes : nodeStatus[n] = "completed"
    BY <1>2 DEF PlanInv
  <2>2. \A e \in workflow.edges : e[2] \in Nodes /\ e \in Incoming(e[2])
    BY <1>2, WorkflowAssumption DEF RunInv, Shape, Incoming
  <2>3. planStatus = "failed" =>
          \E n \in Nodes : nodeStatus[n] = "failed" \/ stepStatus[n] = "pending"
    BY <2>1 DEF StepsFollow, Ended
  <2>4. QED
    BY <2>1, <2>2, <2>3 DEF StepsFollow, PlanStatusTellsSteps
<1>3. QED
  BY <1>1, <1>2, PlanInitInv, PlanNextKeeps, PTL DEF PlanSpec
=============================================================================
