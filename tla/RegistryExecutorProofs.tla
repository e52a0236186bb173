------------------------ MODULE RegistryExecutorProofs ------------------------
(***************************************************************************)
(* Theorems about the registry executor, for every plan, every budget and  *)
(* any number of plans on one executor.  The argument: a step that is      *)
(* queued or waits in a sequence had all its dependencies completed, and   *)
(* nothing takes a completion back before the next plan; RUNNING is what   *)
(* the coroutines between two awaits are; and as long as the pool is open, *)
(* only the end of the loop skips a step.                                  *)
(*                                                                         *)
(* A plan has finitely many steps while its pool is open: calls,           *)
(* corrections and alternatives are taken in order, and a step that was in *)
(* a wave is not pending again.                                            *)
(***************************************************************************)
EXTENDS RegistryExecutor, FiniteSetTheorems, WellFoundedInduction, TLAPS

\* The first member of a set of numbers is one of them.
LEMMA FirstIsIn ==
  ASSUME NEW S \in SUBSET Nat, S # {}
  PROVE  First(S) \in S
<1>1. \E x \in S : \A y \in S : ~(<<y, x>> \in OpToRel(<, Nat))
  BY NatLessThanWellFounded, WFMin
<1>2. PICK x \in S : \A y \in S : ~(<<y, x>> \in OpToRel(<, Nat))
  BY <1>1
<1>3. \A y \in S : ~(y < x)
  BY <1>2 DEF OpToRel
<1>4. \A y \in S : x <= y
  BY <1>3
<1>5. QED
  BY <1>4 DEF First

LEMMA CountIsNat ==
  ASSUME NEW i \in Nat, NEW k \in Nat, NEW S \in SUBSET (i .. k)
  PROVE  Cardinality(S) \in Nat
<1>1. IsFiniteSet(i .. k)
  BY FS_Interval
<1>2. IsFiniteSet(S)
  BY <1>1, FS_Subset
<1>3. QED
  BY <1>2, FS_CardinalityType

LEMMA StepsAreNumbers == Steps \subseteq Nat
<1>1. Cardinality(Steps) \in Nat
  BY ExecutorAssumption, FS_CardinalityType
<1>2. PICK n \in Nat : n = Cardinality(Steps)
  BY <1>1
<1>3. Steps = 1 .. n
  BY <1>2, ExecutorAssumption
<1>4. QED
  BY <1>3

LEMMA BoundsAreNat == /\ MaxIterations \in Nat /\ MaxToolCalls \in Nat
                      /\ Rounds \in Nat /\ Rounds > 0
  BY ExecutorAssumption

-----------------------------------------------------------------------------
(***************************************************************************)
(* The tracker                                                             *)
(***************************************************************************)
IsTracker(tr) ==
  /\ tr = [failures |-> tr.failures, noProgress |-> tr.noProgress, last |-> tr.last]
  /\ tr.failures \in [Tools -> Nat]
  /\ tr.noProgress \in Nat

LEMMA RecordIsTracker ==
  ASSUME NEW tr, IsTracker(tr), NEW t \in Tools, NEW s \in Steps, NEW success \in BOOLEAN
  PROVE  IsTracker(Record(tr, t, s, success))
<1>1. CASE success
  BY <1>1 DEF Record, IsTracker
<1>2. CASE ~success
  <2>1. PICK fs, np, l : /\ fs \in [Tools -> Nat] /\ np \in Nat
                         /\ tr = [failures |-> fs, noProgress |-> np, last |-> l]
    BY DEF IsTracker
  <2>2. PICK mp \in {np, np + 1} : Record(tr, t, s, success) =
               [failures |-> [fs EXCEPT ![t] = @ + 1], noProgress |-> mp, last |-> l]
    BY <1>2, <2>1 DEF Record
  <2>3. QED
    BY <2>1, <2>2 DEF IsTracker
<1>3. QED
  BY <1>1, <1>2

LEMMA RecordAlternativesIsTracker ==
  ASSUME NEW tr, IsTracker(tr), NEW s \in Steps, NEW i \in Nat, NEW k \in Nat
  PROVE  IsTracker(RecordAlternatives(tr, s, i, k))
<1> DEFINE Same(t) == {j \in i .. k : Alternatives[Tool[s]][j] = t}
           Stuck == {j \in i .. k : tr.last = <<Alternatives[Tool[s]][j], Args[s]>>}
<1>1. \A t \in Tools : Cardinality(Same(t)) \in Nat
  BY CountIsNat
<1>2. Cardinality(Stuck) \in Nat
  BY CountIsNat
<1>3. \A t \in Tools : tr.failures[t] + Cardinality(Same(t)) \in Nat
  BY <1>1 DEF IsTracker
<1>4. tr.noProgress + Cardinality(Stuck) \in Nat
  BY <1>2 DEF IsTracker
<1>5. RecordAlternatives(tr, s, i, k) =
        [failures |-> [t \in Tools |-> tr.failures[t] + Cardinality(Same(t))],
         noProgress |-> tr.noProgress + Cardinality(Stuck), last |-> tr.last]
  BY DEF RecordAlternatives
<1> HIDE DEF Same, Stuck
<1>6. QED
  BY <1>3, <1>4, <1>5 DEF IsTracker

\* The alternative that is tried is one of those left.
LEMMA OpenIsLeft ==
  ASSUME NEW s \in Steps, NEW i \in Nat \ {0}, NEW tr, Open(s, i, tr) # {}
  PROVE  First(Open(s, i, tr)) \in i .. Len(Alternatives[Tool[s]])
<1>1. Len(Alternatives[Tool[s]]) \in Nat
  BY ExecutorAssumption
<1>2. Open(s, i, tr) \subseteq i .. Len(Alternatives[Tool[s]])
  BY DEF Open
<1>3. Open(s, i, tr) \in SUBSET Nat
  BY <1>1, <1>2
<1>4. First(Open(s, i, tr)) \in Open(s, i, tr)
  BY <1>3, FirstIsIn
<1>5. QED
  BY <1>2, <1>4

-----------------------------------------------------------------------------
(***************************************************************************)
(* The invariant                                                           *)
(***************************************************************************)
Calling(s) == at[s] \in {"calling", "correcting", "alternative"}
Executing(s) == at[s] = "begun" \/ Calling(s)
Live(s) == at[s] = "queued" \/ Executing(s)

Shape ==
  /\ plan \in Plans
  /\ planStatus \in {"draft", "active", "completed", "failed"}
  /\ stepStatus \in [Steps -> {"pending", "ready", "running"} \cup Terminal]
  /\ pc \in {"idle", "loop", "gather", "sequence"}
  /\ wave \subseteq Steps
  /\ at \in [Steps -> {"none", "queued", "begun", "calling", "correcting", "alternative", "ended"}]
  /\ alt \in [Steps -> Nat]
  /\ \A s \in Steps : at[s] = "alternative" => alt[s] \in 1 .. Len(Alternatives[Tool[s]])
  /\ iterations \in 0 .. MaxIterations
  /\ toolCalls \in 0 .. MaxToolCalls
  /\ expired \in BOOLEAN
  /\ IsTracker(tracker)
  /\ closed \in BOOLEAN
  /\ round \in 1 .. Rounds

\* The plan is active while execute_plan runs, and coroutines live only in a wave.
LoopShape ==
  /\ pc = "idle" <=> planStatus # "active"
  /\ pc \in {"idle", "loop"} => \A s \in Steps : ~Live(s)
  /\ wave # {} => pc = "sequence"
  /\ \A s \in wave : ~Live(s)

\* A step that is about to be executed is ready and may be.
WaitingIsMet ==
  \A s \in Steps : at[s] = "queued" \/ s \in wave =>
    stepStatus[s] = "ready" /\ plan.deps[s] \subseteq StepsIn("completed")

\* RUNNING is what a coroutine executes, unless the pool was closed.
RunningIsExecuted ==
  \A s \in Steps : /\ Executing(s) => stepStatus[s] = "running"
                   /\ stepStatus[s] = "running" => Executing(s) \/ closed

\* Steps marked done are never taken up, and while the pool is open nothing else
\* is skipped before the plan ends.
SkippedIsDone ==
  /\ \A s \in plan.done : stepStatus[s] = "skipped"
  /\ ~closed /\ planStatus \in {"draft", "active"} => StepsIn("skipped") \subseteq plan.done

\* What is true of a plan that ended stays true.
EndedIsTrue ==
  planStatus \in {"completed", "failed"} /\ ~closed =>
    /\ PlanComplete \/ Exhausted
    /\ CompletedMeansDone

ExecutorInv ==
  /\ Shape /\ LoopShape /\ WaitingIsMet /\ RunningIsExecuted /\ SkippedIsDone /\ EndedIsTrue

LEMMA InitInv == Init => ExecutorInv
<1> SUFFICES ASSUME Init PROVE ExecutorInv
  OBVIOUS
<1>1. plan.done \subseteq Steps
  BY ExecutorAssumption DEF Init
<1>2. IsTracker(tracker)
  BY DEF Init, IsTracker
<1>3. Shape
  <2>1. /\ planStatus = "draft" /\ plan \in Plans /\ pc = "idle" /\ wave = {}
        /\ stepStatus \in [Steps -> {"pending", "skipped"}]
        /\ at = [s \in Steps |-> "none"] /\ alt = [s \in Steps |-> 0]
        /\ iterations = 0 /\ toolCalls = 0 /\ expired = FALSE /\ closed = FALSE /\ round = 1
    BY DEF Init
  <2>2. iterations \in 0 .. MaxIterations /\ toolCalls \in 0 .. MaxToolCalls /\ round \in 1 .. Rounds
    BY <2>1, BoundsAreNat
  <2>3. QED
    BY <1>2, <2>1, <2>2 DEF Shape, Terminal
<1>4. \A s \in Steps : ~Live(s)
  BY DEF Init, Live, Executing, Calling
<1>5. LoopShape
  BY <1>4 DEF Init, LoopShape
<1>6. WaitingIsMet /\ RunningIsExecuted
  BY <1>4 DEF Init, WaitingIsMet, RunningIsExecuted, Live
<1>7. SkippedIsDone /\ EndedIsTrue
  BY <1>1 DEF Init, SkippedIsDone, EndedIsTrue, StepsIn
<1>8. QED
  BY <1>3, <1>5, <1>6, <1>7 DEF ExecutorInv

-----------------------------------------------------------------------------
(***************************************************************************)
(* The steps of a coroutine                                                *)
(***************************************************************************)
\* How the coroutine of step s may go on: it goes to a with the status st.
Moves(s, a, st) ==
  /\ at' = [at EXCEPT ![s] = a]
  /\ stepStatus' = [stepStatus EXCEPT ![s] = st]
  /\ \/ /\ at[s] = "queued"
        /\ \/ a = "ended" /\ st = stepStatus[s] /\ Exhausted
           \/ a = "begun" /\ st = "running"
     \/ /\ Executing(s)
        /\ \/ a \in {"calling", "correcting", "alternative"} /\ st = stepStatus[s]
           \/ a = "ended" /\ st \in {"completed", "failed"}

\* What else a step of the coroutine leaves: typed counters and alternatives.
Counts(s) ==
  /\ iterations' \in 0 .. MaxIterations /\ iterations' >= iterations
  /\ toolCalls' \in 0 .. MaxToolCalls /\ toolCalls' >= toolCalls
  /\ IsTracker(tracker')
  /\ alt' \in [Steps -> Nat]
  /\ at'[s] = "alternative" => alt'[s] \in 1 .. Len(Alternatives[Tool[s]])
  /\ \A x \in Steps \ {s} : alt'[x] = alt[x]

LEMMA EndStepMoves ==
  ASSUME Shape, NEW s \in Steps, Executing(s), NEW t \in Tools, NEW tr, IsTracker(tr),
         NEW success \in BOOLEAN, EndStep(s, t, tr, success)
  PROVE  /\ \E a, st : Moves(s, a, st)
         /\ at'[s] = "ended"
         /\ IsTracker(tracker')
<1>1. IsTracker(tracker')
  BY RecordIsTracker DEF EndStep
<1>2. \E st \in {"completed", "failed"} : Moves(s, "ended", st)
  BY DEF EndStep, Moves
<1>3. at'[s] = "ended"
  BY DEF EndStep, Shape
<1>4. QED
  BY <1>1, <1>2, <1>3

LEMMA TryAlternativesMoves ==
  ASSUME Shape, NEW s \in Steps, Calling(s), NEW tr, IsTracker(tr), NEW i \in Nat \ {0},
         TryAlternatives(s, i, tr), UNCHANGED budget
  PROVE  (\E a, st : Moves(s, a, st)) /\ Counts(s)
<1>0. /\ Tool[s] \in Tools /\ Len(Alternatives[Tool[s]]) \in Nat /\ Executing(s)
      /\ iterations \in 0 .. MaxIterations /\ toolCalls \in 0 .. MaxToolCalls
      /\ iterations' = iterations /\ toolCalls' = toolCalls
  BY ExecutorAssumption DEF Shape, budget, Executing
<1>1. CASE Open(s, i, tr) = {}
  <2>1. IsTracker(RecordAlternatives(tr, s, i, Len(Alternatives[Tool[s]])))
    BY <1>0, RecordAlternativesIsTracker
  <2>2. /\ EndStep(s, Tool[s], RecordAlternatives(tr, s, i, Len(Alternatives[Tool[s]])), FALSE)
        /\ alt' = alt
    BY <1>1 DEF TryAlternatives
  <2>3. (\E a, st : Moves(s, a, st)) /\ at'[s] = "ended" /\ IsTracker(tracker')
    BY <1>0, <2>1, <2>2, EndStepMoves
  <2>4. Counts(s)
    BY <1>0, <2>2, <2>3 DEF Counts, Shape
  <2>5. QED
    BY <2>3, <2>4
<1>2. CASE Open(s, i, tr) # {}
  <2> DEFINE next == First(Open(s, i, tr))
  <2>1. next \in i .. Len(Alternatives[Tool[s]])
    BY <1>2, OpenIsLeft
  <2>2. next \in Nat /\ next \in 1 .. Len(Alternatives[Tool[s]])
    BY <1>0, <2>1
  <2>3. IsTracker(RecordAlternatives(tr, s, i, next))
    BY <2>2, RecordAlternativesIsTracker
  <2>4. /\ at' = [at EXCEPT ![s] = "alternative"] /\ alt' = [alt EXCEPT ![s] = next]
        /\ tracker' = RecordAlternatives(tr, s, i, next) /\ stepStatus' = stepStatus
    BY <1>2 DEF TryAlternatives
  <2> HIDE DEF next
  <2>5. stepStatus' = [stepStatus EXCEPT ![s] = stepStatus[s]]
    BY <2>4 DEF Shape
  <2>6. Moves(s, "alternative", stepStatus[s])
    BY <1>0, <2>4, <2>5 DEF Moves
  <2>7. IsTracker(tracker')
    BY <2>3, <2>4
  <2>8. Counts(s)
    BY <1>0, <2>2, <2>4, <2>7 DEF Counts, Shape
  <2>9. QED
    BY <2>6, <2>8
<1>3. QED
  BY <1>1, <1>2

\* Whatever a coroutine does next is such a move, and leaves the plan alone.
LEMMA StepMoves ==
  ASSUME Shape, NEW s \in Steps, StepStep(s)
  PROVE  (\E a, st : Moves(s, a, st)) /\ Counts(s) /\ UNCHANGED <<loop, expired>>
<1>1. /\ Tool[s] \in Tools /\ IsTracker(tracker) /\ alt[s] \in Nat
      /\ Alternatives[Tool[s]] \in Seq(Tools)
      /\ at[s] = "alternative" => /\ alt[s] \in 1 .. Len(Alternatives[Tool[s]])
                                  /\ Alternatives[Tool[s]][alt[s]] \in Tools
  BY ExecutorAssumption DEF Shape
<1>2. /\ IsTracker(Record(tracker, Tool[s], s, TRUE))
      /\ IsTracker(Record(tracker, Tool[s], s, FALSE))
  BY <1>1, RecordIsTracker
<1>3. CASE BeginStep(s)
  <2>1. CASE Exhausted
    <3>1. Moves(s, "ended", stepStatus[s])
      BY <1>3, <2>1 DEF BeginStep, Moves, Shape
    <3>2. Counts(s) /\ UNCHANGED <<loop, expired>>
      BY <1>1, <1>3, <2>1 DEF BeginStep, Counts, Shape
    <3>3. QED
      BY <3>1, <3>2
  <2>2. CASE ~Exhausted
    <3>1. Moves(s, "begun", "running")
      BY <1>3, <2>2 DEF BeginStep, Moves
    <3>2. iterations < MaxIterations /\ iterations' = iterations + 1
      BY <1>3, <2>2, BoundsAreNat DEF BeginStep, Exhausted, Shape
    <3>3. Counts(s) /\ UNCHANGED <<loop, expired>>
      BY <1>1, <1>3, <2>2, <3>2, BoundsAreNat DEF BeginStep, Counts, Shape
    <3>4. QED
      BY <3>1, <3>3
  <2>3. QED
    BY <2>1, <2>2
<1>4. CASE CallTool(s)
  <2>1. /\ at[s] = "begun" /\ at' = [at EXCEPT ![s] = "calling"]
        /\ stepStatus' = [stepStatus EXCEPT ![s] = stepStatus[s]]
    BY <1>4 DEF CallTool, Shape
  <2>2. Moves(s, "calling", stepStatus[s])
    BY <2>1 DEF Moves, Executing
  <2>3. toolCalls < MaxToolCalls /\ toolCalls' = toolCalls + 1
    BY <1>4, BoundsAreNat DEF CallTool, Exhausted, Shape
  <2>4. Counts(s) /\ UNCHANGED <<loop, expired>>
    BY <1>1, <1>4, <2>3, BoundsAreNat DEF CallTool, Counts, Shape
  <2>5. QED
    BY <2>2, <2>4
<1>5. ASSUME NEW t \in Tools, NEW tr, IsTracker(tr), NEW success \in BOOLEAN, Executing(s),
             EndStep(s, t, tr, success), UNCHANGED <<loop, alt, budget>>
      PROVE  (\E a, st : Moves(s, a, st)) /\ Counts(s) /\ UNCHANGED <<loop, expired>>
  <2>1. (\E a, st : Moves(s, a, st)) /\ at'[s] = "ended" /\ IsTracker(tracker')
    BY <1>5, EndStepMoves
  <2>2. Counts(s) /\ UNCHANGED <<loop, expired>>
    BY <1>5, <2>1 DEF Counts, budget, Shape
  <2>3. QED
    BY <2>1, <2>2
<1>6. CASE RefuseCall(s)
  BY <1>1, <1>5, <1>6 DEF RefuseCall, Executing
<1>7. CASE CallSucceeds(s)
  BY <1>1, <1>2, <1>5, <1>7 DEF CallSucceeds, Executing, Calling
<1>8. CASE CorrectionSucceeds(s)
  BY <1>1, <1>5, <1>8 DEF CorrectionSucceeds, Executing, Calling
<1>9. CASE AlternativeSucceeds(s)
  BY <1>1, <1>5, <1>9 DEF AlternativeSucceeds, Executing, Calling
<1>10. CASE StepAborts(s)
  BY <1>1, <1>5, <1>10 DEF StepAborts, Executing, Calling
<1>11. ASSUME NEW tr, IsTracker(tr), NEW i \in Nat \ {0}, Calling(s), TryAlternatives(s, i, tr),
              UNCHANGED <<loop, budget>>
       PROVE  (\E a, st : Moves(s, a, st)) /\ Counts(s) /\ UNCHANGED <<loop, expired>>
  BY <1>11, TryAlternativesMoves DEF budget
<1>12. CASE CallFails(s)
  <2>1. at[s] = "calling" /\ Calling(s) /\ UNCHANGED <<loop, budget>>
    BY <1>12 DEF CallFails, Calling
  <2>2. CASE s \in Corrects
    <3>1. /\ at' = [at EXCEPT ![s] = "correcting"]
          /\ stepStatus' = [stepStatus EXCEPT ![s] = stepStatus[s]]
          /\ tracker' = Record(tracker, Tool[s], s, FALSE) /\ alt' = alt
      BY <1>12, <2>2 DEF CallFails, Shape
    <3>2. Moves(s, "correcting", stepStatus[s])
      BY <2>1, <3>1 DEF Moves, Executing
    <3>3. IsTracker(tracker') /\ at'[s] = "correcting"
      BY <1>2, <3>1 DEF Shape
    <3>4. UNCHANGED <<loop, expired, iterations, toolCalls, alt>>
      BY <2>1, <3>1 DEF budget
    <3>5. Counts(s)
      BY <3>3, <3>4 DEF Counts, Shape
    <3>6. QED
      BY <3>2, <3>4, <3>5
  <2>3. CASE s \notin Corrects
    <3> DEFINE tr == Record(tracker, Tool[s], s, FALSE)
    <3>1. TryAlternatives(s, 1, tr)
      BY <1>12, <2>3 DEF CallFails
    <3>2. IsTracker(tr)
      BY <1>2
    <3> HIDE DEF tr
    <3>3. QED
      BY <1>11, <2>1, <3>1, <3>2
  <2>4. QED
    BY <2>2, <2>3
<1>13. CASE CorrectionFails(s)
  BY <1>1, <1>11, <1>13 DEF CorrectionFails, Calling
<1>14. CASE AlternativeFails(s)
  <2>1. IsTracker(Record(tracker, Alternatives[Tool[s]][alt[s]], s, FALSE))
    BY <1>1, <1>14, RecordIsTracker DEF AlternativeFails
  <2>2. alt[s] + 1 \in Nat \ {0}
    BY <1>1
  <2>3. QED
    BY <1>11, <1>14, <2>1, <2>2 DEF AlternativeFails, Calling
<1>15. QED
  BY <1>3, <1>4, <1>6, <1>7, <1>8, <1>9, <1>10, <1>12, <1>13, <1>14 DEF StepStep

\* A step disturbs no other one: those that wait have dependencies that completed,
\* and the step that moves had not.
LEMMA StepKeeps ==
  ASSUME ExecutorInv, NEW s \in Steps, StepStep(s)
  PROVE  ExecutorInv'
<1>1. /\ \E a, st : Moves(s, a, st)
      /\ Counts(s) /\ UNCHANGED <<loop, expired>>
  BY StepMoves DEF ExecutorInv
<1>2. PICK a, st : Moves(s, a, st)
  BY <1>1
<1>3. UNCHANGED <<plan, planStatus, pc, wave, round, closed, expired>>
  BY <1>1 DEF loop
<1>4. /\ at[s] = "queued" => stepStatus[s] = "ready"
      /\ Executing(s) => stepStatus[s] = "running"
      /\ Live(s)
  BY <1>2 DEF ExecutorInv, WaitingIsMet, RunningIsExecuted, Moves, Live
<1>5. s \notin wave /\ pc \notin {"idle", "loop"} /\ planStatus = "active" /\ s \notin plan.done
  BY <1>4 DEF ExecutorInv, LoopShape, Shape, Live, SkippedIsDone
<1>6. /\ a \in {"begun", "calling", "correcting", "alternative", "ended"}
      /\ st \in {"ready", "running", "completed", "failed"}
      /\ stepStatus[s] \in {"ready", "running"}
      /\ st = "running" <=> a # "ended"
  BY <1>2, <1>4 DEF Moves, Calling, Executing
<1>7. /\ at'[s] = a /\ stepStatus'[s] = st
      /\ \A x \in Steps \ {s} : at'[x] = at[x] /\ stepStatus'[x] = stepStatus[x]
  BY <1>2 DEF Moves, ExecutorInv, Shape
<1>8. Shape'
  <2>1. /\ at' \in [Steps -> {"none", "queued", "begun", "calling", "correcting", "alternative",
                              "ended"}]
        /\ stepStatus' \in [Steps -> {"pending", "ready", "running"} \cup Terminal]
    BY <1>2, <1>6 DEF Moves, ExecutorInv, Shape, Terminal
  <2>2. \A x \in Steps : at'[x] = "alternative" => alt'[x] \in 1 .. Len(Alternatives[Tool[x]])
    BY <1>1, <1>7 DEF Counts, ExecutorInv, Shape
  <2>3. QED
    BY <1>1, <1>3, <2>1, <2>2 DEF Counts, ExecutorInv, Shape
<1>9. LoopShape'
  BY <1>3, <1>5, <1>7 DEF ExecutorInv, LoopShape, Live, Executing, Calling, Shape
<1>10. WaitingIsMet'
  <2>1. StepsIn("completed") \subseteq StepsIn("completed")'
    BY <1>6, <1>7 DEF StepsIn
  <2>2. SUFFICES ASSUME NEW x \in Steps, at'[x] = "queued" \/ x \in wave'
                 PROVE  stepStatus'[x] = "ready" /\ plan'.deps[x] \subseteq StepsIn("completed")'
    BY DEF WaitingIsMet
  <2>3. x # s /\ (at[x] = "queued" \/ x \in wave)
    BY <1>3, <1>5, <1>6, <1>7, <2>2
  <2>4. QED
    BY <1>3, <1>7, <2>1, <2>3 DEF ExecutorInv, WaitingIsMet
<1>11. RunningIsExecuted'
  BY <1>3, <1>6, <1>7 DEF ExecutorInv, RunningIsExecuted, Executing, Calling
<1>12. SkippedIsDone'
  <2>1. StepsIn("skipped")' = StepsIn("skipped")
    BY <1>6, <1>7 DEF StepsIn
  <2>2. \A x \in plan.done : stepStatus'[x] = "skipped"
    BY <1>5, <1>7, ExecutorAssumption DEF ExecutorInv, SkippedIsDone, Shape
  <2>3. QED
    BY <1>3, <2>1, <2>2 DEF ExecutorInv, SkippedIsDone
<1>13. EndedIsTrue'
  BY <1>3, <1>5 DEF EndedIsTrue
<1>14. QED
  BY <1>8, <1>9, <1>10, <1>11, <1>12, <1>13 DEF ExecutorInv

-----------------------------------------------------------------------------
(***************************************************************************)
(* The steps of the loop                                                   *)
(***************************************************************************)
LEMMA StartPlanKeeps ==
  ASSUME ExecutorInv, StartPlan
  PROVE  ExecutorInv'
<1>1. /\ UNCHANGED <<plan, wave, round, closed, stepStatus, at, alt, iterations, toolCalls, tracker>>
      /\ planStatus = "draft" /\ planStatus' = "active" /\ pc = "idle" /\ pc' = "loop"
      /\ expired' = FALSE
  BY DEF StartPlan
<1>2. Shape'
  BY <1>1 DEF ExecutorInv, Shape
<1>3. LoopShape'
  BY <1>1 DEF ExecutorInv, LoopShape, Live, Executing, Calling
<1>4. WaitingIsMet' /\ RunningIsExecuted' /\ SkippedIsDone' /\ EndedIsTrue'
  BY <1>1 DEF ExecutorInv, WaitingIsMet, RunningIsExecuted, SkippedIsDone, EndedIsTrue, StepsIn,
              Executing, Calling
<1>5. QED
  BY <1>2, <1>3, <1>4 DEF ExecutorInv

\* The steps of a plan with dependencies that can be met: if no step is ready,
\* then one failed.
LEMMA UnreachableFailed ==
  ASSUME ExecutorInv, pc = "loop", ~closed, ReadySteps = {}, ~PlanComplete, Executable
  PROVE  \E s \in Steps : stepStatus[s] = "failed"
<1> SUFFICES ASSUME \A s \in Steps : stepStatus[s] # "failed" PROVE FALSE
  OBVIOUS
<1>1. \A s \in Steps : stepStatus[s] # "running" /\ stepStatus[s] # "skipped"
  BY DEF ExecutorInv, LoopShape, Live, RunningIsExecuted, SkippedIsDone, StepsIn, Executable, Shape
<1>2. \A s \in Steps \ PendingSteps : s \in StepsIn("completed")
  BY <1>1 DEF ExecutorInv, Shape, PendingSteps, StepsIn, Terminal
<1>3. PendingSteps # {} /\ PendingSteps \subseteq Steps
  BY <1>2 DEF PlanComplete, StepsIn, Terminal, PendingSteps
<1>4. PICK s \in PendingSteps : plan.deps[s] \subseteq Steps \ PendingSteps
  BY <1>3 DEF Executable
<1>5. s \in ReadySteps
  BY <1>2, <1>4 DEF ReadySteps
<1>6. QED
  BY <1>5

LEMMA FinishKeeps ==
  ASSUME ExecutorInv, pc = "loop", Stop \/ SkipUnreachable
  PROVE  ExecutorInv'
<1>1. /\ UNCHANGED <<plan, wave, round, closed, at, alt, budget, tracker>>
      /\ pc' = "idle" /\ planStatus' \in {"completed", "failed"}
      /\ planStatus' = "completed" => \A s \in Steps : stepStatus'[s] # "failed"
  BY DEF Stop, SkipUnreachable, Finish
<1>2. /\ stepStatus' \in [Steps -> {"pending", "ready", "running"} \cup Terminal]
      /\ \A s \in Steps : \/ stepStatus'[s] = stepStatus[s]
                          \/ stepStatus[s] \in {"pending", "ready"} /\ stepStatus'[s] = "skipped"
  BY DEF Stop, SkipUnreachable, Finish, PendingSteps, StepsIn, Terminal, ExecutorInv, Shape
<1>3. (\A s \in Steps : ~Live(s)) /\ wave = {} /\ (Exhausted' <=> Exhausted)
  BY <1>1 DEF ExecutorInv, LoopShape, budget, Exhausted
<1>4. Shape'
  BY <1>1, <1>2 DEF ExecutorInv, Shape, budget
<1>5. LoopShape' /\ WaitingIsMet'
  BY <1>1, <1>3 DEF LoopShape, WaitingIsMet, Live, Executing, Calling
<1>6. RunningIsExecuted'
  BY <1>1, <1>2 DEF ExecutorInv, RunningIsExecuted, Executing, Calling
<1>7. SkippedIsDone'
  <2>1. plan.done \subseteq Steps
    BY ExecutorAssumption DEF ExecutorInv, Shape
  <2>2. QED
    BY <1>1, <1>2, <2>1 DEF ExecutorInv, SkippedIsDone
<1>8. ASSUME ~closed PROVE (PlanComplete \/ Exhausted)' /\ CompletedMeansDone'
  <2>1. \A s \in Steps : stepStatus[s] # "running"
    BY <1>3, <1>8 DEF ExecutorInv, RunningIsExecuted, Live
  <2>2. StepsIn("skipped") \subseteq plan.done
    BY <1>8 DEF ExecutorInv, LoopShape, SkippedIsDone
  <2>3. CASE Stop
    <3>1. stepStatus' = stepStatus /\ (PlanComplete \/ Exhausted)
      BY <2>3 DEF Stop, Finish
    <3>2. (PlanComplete \/ Exhausted)'
      BY <1>3, <3>1 DEF PlanComplete
    <3>3. CompletedMeansDone'
      BY <1>1, <1>3, <2>2, <3>1 DEF CompletedMeansDone, Executable, PlanComplete, StepsIn, Terminal
    <3>4. QED
      BY <3>2, <3>3
  <2>4. CASE SkipUnreachable
    <3>1. PlanComplete'
      BY <2>1, <2>4 DEF SkipUnreachable, Finish, PlanComplete, PendingSteps, StepsIn, Terminal,
                        ExecutorInv, Shape
    <3>2. ~Executable \/ planStatus' = "failed"
      BY <1>1, <1>2, <1>8, <2>4, UnreachableFailed DEF SkipUnreachable
    <3>3. CompletedMeansDone'
      BY <1>1, <3>2 DEF CompletedMeansDone, Executable
    <3>4. QED
      BY <3>1, <3>3
  <2>5. QED
    BY <2>3, <2>4
<1>9. EndedIsTrue'
  BY <1>1, <1>8 DEF EndedIsTrue
<1>10. QED
  BY <1>4, <1>5, <1>6, <1>7, <1>9 DEF ExecutorInv

LEMMA ReadyIsMet ==
  ASSUME NEW s \in ReadySteps
  PROVE  /\ s \in Steps /\ stepStatus[s] \in {"pending", "ready"}
         /\ plan.deps[s] \subseteq StepsIn("completed")
  BY DEF ReadySteps, PendingSteps, StepsIn

LEMMA StartWaveKeeps ==
  ASSUME ExecutorInv, StartWave
  PROVE  ExecutorInv'
<1>1. /\ UNCHANGED <<plan, planStatus, round, closed, alt, budget, tracker>>
      /\ pc = "loop" /\ pc' \in {"gather", "sequence"} /\ planStatus = "active"
      /\ wave = {} /\ \A s \in Steps : ~Live(s)
  BY DEF StartWave, ExecutorInv, LoopShape, Shape
<1>2. \A s \in Steps : stepStatus'[s] = IF s \in ReadySteps THEN "ready" ELSE stepStatus[s]
  BY DEF StartWave
<1>3. StepsIn("completed") \subseteq StepsIn("completed")' /\ StepsIn("skipped")' \subseteq StepsIn("skipped")
  BY <1>2, ReadyIsMet DEF StepsIn
<1>4. /\ at' \in [Steps -> {"none", "queued", "begun", "calling", "correcting", "alternative",
                            "ended"}]
      /\ wave' \subseteq ReadySteps
      /\ \A s \in Steps : at'[s] = at[s] \/ (at'[s] = "queued" /\ s \in ReadySteps /\ wave' = {})
      /\ wave' # {} => pc' = "sequence" /\ at' = at
  BY <1>1 DEF StartWave, ExecutorInv, Shape
<1>5. Shape'
  <2>1. stepStatus' \in [Steps -> {"pending", "ready", "running"} \cup Terminal]
    BY DEF StartWave, ExecutorInv, Shape
  <2>2. wave' \subseteq Steps
    BY <1>4, ReadyIsMet
  <2>3. \A s \in Steps : at'[s] = "alternative" => at[s] = "alternative"
    BY <1>4
  <2>4. QED
    BY <1>1, <1>4, <2>1, <2>2, <2>3 DEF ExecutorInv, Shape, budget
<1>6. LoopShape'
  BY <1>1, <1>4, ReadyIsMet DEF LoopShape, Live, Executing, Calling
<1>7. WaitingIsMet'
  BY <1>1, <1>2, <1>3, <1>4, ReadyIsMet DEF WaitingIsMet, Live
<1>8. RunningIsExecuted'
  BY <1>1, <1>2, <1>4 DEF ExecutorInv, RunningIsExecuted, Live, Executing, Calling
<1>9. SkippedIsDone'
  <2>1. \A s \in plan.done : s \in Steps /\ s \notin ReadySteps
    BY ReadyIsMet, ExecutorAssumption DEF ExecutorInv, SkippedIsDone, Shape
  <2>2. QED
    BY <1>1, <1>2, <1>3, <2>1 DEF ExecutorInv, SkippedIsDone
<1>10. EndedIsTrue'
  BY <1>1 DEF EndedIsTrue
<1>11. QED
  BY <1>5, <1>6, <1>7, <1>8, <1>9, <1>10 DEF ExecutorInv

LEMMA WaveGoesOn ==
  ASSUME ExecutorInv, GatherEnds \/ NextInSequence
  PROVE  ExecutorInv'
<1>1. /\ UNCHANGED <<plan, planStatus, round, closed, stepStatus, alt, budget, tracker>>
      /\ pc \in {"gather", "sequence"} /\ planStatus = "active"
      /\ \A s \in Steps : at[s] \in {"none", "ended"}
  BY DEF GatherEnds, NextInSequence, ExecutorInv, LoopShape, Shape
<1>2. /\ pc' \in {"loop", pc} /\ wave' \subseteq wave
      /\ wave' # {} => pc' = "sequence"
      /\ \A s \in Steps : at'[s] = at[s] \/ (at'[s] = "queued" /\ s \in wave \ wave' /\ pc' # "loop")
      /\ at' \in [Steps -> {"none", "queued", "begun", "calling", "correcting", "alternative",
                            "ended"}]
  <2>1. wave # {} => First(wave) \in wave
    BY StepsAreNumbers, FirstIsIn DEF ExecutorInv, Shape
  <2>2. CASE GatherEnds
    BY <2>2 DEF GatherEnds, ExecutorInv, Shape, LoopShape
  <2>3. CASE NextInSequence /\ (wave = {} \/ Exhausted)
    BY <2>3 DEF NextInSequence, ExecutorInv, Shape
  <2>4. CASE NextInSequence /\ ~(wave = {} \/ Exhausted)
    BY <2>1, <2>4 DEF NextInSequence, ExecutorInv, Shape
  <2>5. QED
    BY <2>2, <2>3, <2>4
<1>3. Shape'
  BY <1>1, <1>2 DEF ExecutorInv, Shape, budget
<1>4. LoopShape'
  BY <1>1, <1>2 DEF ExecutorInv, Shape, LoopShape, Live, Executing, Calling
<1>5. WaitingIsMet'
  BY <1>1, <1>2 DEF ExecutorInv, WaitingIsMet, StepsIn
<1>6. RunningIsExecuted'
  BY <1>1, <1>2 DEF ExecutorInv, RunningIsExecuted, Executing, Calling
<1>7. SkippedIsDone' /\ EndedIsTrue'
  BY <1>1 DEF ExecutorInv, SkippedIsDone, EndedIsTrue, StepsIn
<1>8. QED
  BY <1>3, <1>4, <1>5, <1>6, <1>7 DEF ExecutorInv

\* A new plan begins with nothing of the one before.
LEMMA NextPlanKeeps ==
  ASSUME ExecutorInv, NextPlan
  PROVE  ExecutorInv'
<1>1. /\ UNCHANGED <<pc, wave, closed, alt, budget, tracker>> /\ pc = "idle" /\ wave = {}
      /\ planStatus' = "draft" /\ plan' \in Plans /\ round' = round + 1 /\ round < Rounds
      /\ stepStatus' = [s \in Steps |-> IF s \in plan'.done THEN "skipped" ELSE "pending"]
      /\ at' = [s \in Steps |-> "none"]
  BY ExecutorAssumption DEF NextPlan, ExecutorInv, LoopShape
<1>2. \A s \in Steps : ~Live(s)'
  BY <1>1 DEF Live, Executing, Calling
<1>3. round' \in 1 .. Rounds
  BY <1>1, BoundsAreNat DEF ExecutorInv, Shape
<1>4. Shape'
  BY <1>1, <1>3 DEF ExecutorInv, Shape, budget, Terminal
<1>5. LoopShape' /\ WaitingIsMet' /\ RunningIsExecuted'
  BY <1>1, <1>2 DEF LoopShape, WaitingIsMet, RunningIsExecuted, Live
<1>6. plan'.done \subseteq Steps
  BY <1>1, ExecutorAssumption
<1>7. SkippedIsDone' /\ EndedIsTrue'
  BY <1>1, <1>6 DEF SkippedIsDone, EndedIsTrue, StepsIn
<1>8. QED
  BY <1>4, <1>5, <1>7 DEF ExecutorInv

LEMMA ClosePoolKeeps ==
  ASSUME ExecutorInv, ClosePool
  PROVE  ExecutorInv'
<1>1. /\ UNCHANGED <<plan, planStatus, pc, wave, round, alt, budget, tracker>> /\ closed' = TRUE
      /\ \/ UNCHANGED <<stepStatus, at>>
         \/ /\ pc = "gather"
            /\ \A s \in Steps :
                 /\ stepStatus'[s] = IF Calling(s) THEN "skipped" ELSE stepStatus[s]
                 /\ at'[s] \in {"none", "ended"}
  BY DEF ClosePool, Calling, ExecutorInv, Shape
<1>2. /\ at' \in [Steps -> {"none", "queued", "begun", "calling", "correcting", "alternative",
                            "ended"}]
      /\ stepStatus' \in [Steps -> {"pending", "ready", "running"} \cup Terminal]
      /\ \A s \in Steps : at'[s] \in {at[s], "none", "ended"}
  BY DEF ClosePool, ExecutorInv, Shape, Terminal
<1>3. StepsIn("completed") \subseteq StepsIn("completed")'
  BY <1>1 DEF ExecutorInv, RunningIsExecuted, Executing, StepsIn
<1>4. Shape'
  BY <1>1, <1>2 DEF ExecutorInv, Shape, budget
<1>5. LoopShape'
  BY <1>1, <1>2 DEF ExecutorInv, LoopShape, Shape, Live, Executing, Calling
<1>6. WaitingIsMet'
  BY <1>1, <1>3 DEF ExecutorInv, LoopShape, WaitingIsMet, StepsIn
<1>7. RunningIsExecuted'
  BY <1>1 DEF ExecutorInv, RunningIsExecuted, Executing, Calling
<1>8. SkippedIsDone' /\ EndedIsTrue'
  <2>1. plan.done \subseteq Steps
    BY ExecutorAssumption DEF ExecutorInv, Shape
  <2>2. QED
    BY <1>1, <2>1 DEF ExecutorInv, SkippedIsDone, EndedIsTrue
<1>9. QED
  BY <1>4, <1>5, <1>6, <1>7, <1>8 DEF ExecutorInv

LEMMA ExpireKeeps ==
  ASSUME ExecutorInv, Expire
  PROVE  ExecutorInv'
<1>1. /\ UNCHANGED <<plan, planStatus, pc, wave, round, closed, stepStatus, at, alt, iterations,
                     toolCalls, tracker>>
      /\ expired' = TRUE /\ planStatus = "active"
  BY DEF Expire, loop, ExecutorInv, LoopShape
<1>2. Shape' /\ LoopShape' /\ EndedIsTrue'
  BY <1>1 DEF ExecutorInv, Shape, LoopShape, EndedIsTrue, Live, Executing, Calling
<1>3. WaitingIsMet' /\ RunningIsExecuted' /\ SkippedIsDone'
  BY <1>1 DEF ExecutorInv, WaitingIsMet, RunningIsExecuted, SkippedIsDone, StepsIn, Executing, Calling
<1>4. QED
  BY <1>2, <1>3 DEF ExecutorInv

LEMMA StutterKeeps == ASSUME ExecutorInv, UNCHANGED vars PROVE ExecutorInv'
<1>1. /\ UNCHANGED <<plan, planStatus, pc, wave, round, closed, stepStatus, at, alt, iterations,
                     toolCalls, expired, tracker>>
  BY DEF vars, loop, budget
<1>2. Shape' /\ LoopShape' /\ WaitingIsMet' /\ RunningIsExecuted' /\ SkippedIsDone'
  BY <1>1 DEF ExecutorInv, Shape, LoopShape, WaitingIsMet, RunningIsExecuted, SkippedIsDone, StepsIn,
              Live, Executing, Calling
<1>3. EndedIsTrue'
  BY <1>1 DEF ExecutorInv, EndedIsTrue, PlanComplete, Exhausted, CompletedMeansDone, Executable, StepsIn
<1>4. QED
  BY <1>2, <1>3 DEF ExecutorInv

LEMMA NextKeeps == ExecutorInv /\ [Next]_vars => ExecutorInv'
<1> SUFFICES ASSUME ExecutorInv, [Next]_vars PROVE ExecutorInv'
  OBVIOUS
<1>1. CASE LoopStep
  <2>1. CASE Stop \/ SkipUnreachable
    BY <2>1, FinishKeeps DEF Stop, SkipUnreachable
  <2>2. QED
    BY <1>1, <2>1, StartPlanKeeps, StartWaveKeeps, WaveGoesOn DEF LoopStep
<1>2. CASE \E s \in Steps : StepStep(s)
  BY <1>2, StepKeeps
<1>3. CASE NextPlan
  BY <1>3, NextPlanKeeps
<1>4. CASE Expire \/ ClosePool
  BY <1>4, ExpireKeeps, ClosePoolKeeps
<1>5. CASE Terminated \/ UNCHANGED vars
  BY <1>5, StutterKeeps DEF Terminated
<1>6. QED
  BY <1>1, <1>2, <1>3, <1>4, <1>5 DEF Next

\* The invariant holds of every plan, whatever came before it.
THEOREM ExecutorInvariance == Spec => []ExecutorInv
  BY InitInv, NextKeeps, PTL DEF Spec

-----------------------------------------------------------------------------
\* The types; the budget of execute_plan is never overdrawn, however many steps
\* run at once.
THEOREM TypeCorrect == Spec => []TypeOK
<1>1. ExecutorInv => TypeOK
  BY DEF ExecutorInv, Shape, TypeOK, IsTracker
<1>2. QED
  BY <1>1, ExecutorInvariance, PTL

\* What execute_plan returns is true: nothing runs on, and a plan reported
\* completed was completed if it could be.
THEOREM ReportsAreTrue == Spec => []ReportIsTrue
<1>1. ASSUME ExecutorInv PROVE ReportIsTrue
  <2>1. CASE pc = "idle" /\ planStatus # "draft"
    <3>1. planStatus \in {"completed", "failed"} /\ \A s \in Steps : ~Live(s)
      BY <1>1, <2>1 DEF ExecutorInv, Shape, LoopShape
    <3>2. \A s \in Steps : at[s] \in {"none", "ended"}
      BY <1>1, <3>1 DEF ExecutorInv, Shape, Live, Executing, Calling
    <3>3. closed \/ StepsIn("running") = {}
      BY <1>1, <3>1 DEF ExecutorInv, RunningIsExecuted, Live, StepsIn
    <3>4. ~closed => (PlanComplete \/ Exhausted) /\ CompletedMeansDone
      BY <1>1, <3>1 DEF ExecutorInv, EndedIsTrue
    <3>5. QED
      BY <3>2, <3>3, <3>4 DEF ReportIsTrue, FinishedPlanIsQuiet, CompletedMeansDone
  <2>2. CASE ~(pc = "idle" /\ planStatus # "draft")
    BY <1>1, <2>2 DEF ExecutorInv, LoopShape, ReportIsTrue, FinishedPlanIsQuiet, CompletedMeansDone
  <2>3. QED
    BY <2>1, <2>2
<1>2. QED
  BY <1>1, ExecutorInvariance, PTL

-----------------------------------------------------------------------------
(***************************************************************************)
(* The executor implements DagExecution                                    *)
(***************************************************************************)
\* The statuses and the plan as DagExecution sees them.
St == [s \in Steps |-> IF stepStatus[s] = "ready" THEN "pending" ELSE stepStatus[s]]
PlanShape == [parents |-> plan.deps, conditional |-> plan.done, refused |-> plan.done,
              broken |-> {}, cancellable |-> Steps, renewable |-> {}, serial |-> round]

LEMMA PlanProgress ==
  ASSUME UNCHANGED <<plan, round>>,
         \A s \in Steps : Dag!Start(s) \/ Dag!PassOver(s) \/ Dag!End(s) \/ St'[s] = St[s]
  PROVE  [Dag!Next]_<<St, PlanShape>>
  BY DEF Dag!Next, Dag!Progress, St, PlanShape

LEMMA PlanStart ==
  ASSUME NEW s \in Steps, stepStatus[s] \in {"pending", "ready"}, s \notin plan.done,
         plan.deps[s] \subseteq StepsIn("completed"), stepStatus'[s] = "running"
  PROVE  Dag!Start(s)
  BY DEF Dag!Start, Dag!Completed, StepsIn

LEMMA PlanPassOver ==
  ASSUME NEW s \in Steps, stepStatus[s] \in {"pending", "ready"}, stepStatus'[s] = "skipped",
         NEW d \in plan.deps[s], d \notin Steps \/ stepStatus'[d] # "completed"
  PROVE  Dag!PassOver(s)
  BY DEF Dag!PassOver, Dag!Completed

LEMMA PlanEnd ==
  ASSUME NEW s \in Steps, stepStatus[s] = "running", stepStatus'[s] \in Terminal
  PROVE  Dag!End(s)
  BY DEF Dag!End, Terminal

LEMMA StepIsProgress ==
  ASSUME ExecutorInv, NEW s \in Steps, StepStep(s)
  PROVE  [Dag!Next]_<<St, PlanShape>>
<1>1. (\E a, st : Moves(s, a, st)) /\ UNCHANGED <<loop, expired>>
  BY StepMoves DEF ExecutorInv
<1>2. PICK a, st : Moves(s, a, st)
  BY <1>1
<1>3. /\ at[s] = "queued" => /\ stepStatus[s] = "ready" /\ plan.deps[s] \subseteq StepsIn("completed")
                             /\ s \notin plan.done
      /\ Executing(s) => stepStatus[s] = "running"
  BY DEF ExecutorInv, WaitingIsMet, RunningIsExecuted, SkippedIsDone
<1>4. /\ stepStatus'[s] = st
      /\ \A x \in Steps \ {s} : stepStatus'[x] = stepStatus[x]
  BY <1>2 DEF Moves, ExecutorInv, Shape
<1>5. Dag!Start(s) \/ Dag!End(s) \/ St'[s] = St[s]
  <2>1. CASE st = stepStatus[s]
    BY <1>4, <2>1 DEF St
  <2>2. CASE at[s] = "queued" /\ st = "running"
    BY <1>3, <1>4, <2>2, PlanStart
  <2>3. CASE Executing(s) /\ st \in {"completed", "failed"}
    BY <1>3, <1>4, <2>3, PlanEnd DEF Terminal
  <2>4. QED
    BY <1>2, <2>1, <2>2, <2>3 DEF Moves
<1>6. \A x \in Steps \ {s} : St'[x] = St[x]
  BY <1>4 DEF St
<1>7. QED
  BY <1>1, <1>5, <1>6, PlanProgress DEF loop

\* What the loop skips waits for something that did not complete.
LEMMA SkipIsProgress ==
  ASSUME ExecutorInv, SkipUnreachable
  PROVE  [Dag!Next]_<<St, PlanShape>>
<1>1. UNCHANGED <<plan, round>>
  BY DEF SkipUnreachable, Finish
<1>2. \A s \in Steps : stepStatus'[s] = IF s \in PendingSteps THEN "skipped" ELSE stepStatus[s]
  BY DEF SkipUnreachable, Finish
<1>3. SUFFICES ASSUME NEW s \in Steps, St'[s] # St[s]
               PROVE  Dag!PassOver(s)
  BY <1>1, PlanProgress
<1>4. s \in PendingSteps /\ stepStatus[s] \in {"pending", "ready"} /\ stepStatus'[s] = "skipped"
  BY <1>2, <1>3 DEF St, PendingSteps, StepsIn
<1>5. PICK d \in plan.deps[s] : d \notin StepsIn("completed")
  BY <1>4 DEF SkipUnreachable, ReadySteps
<1>6. d \notin Steps \/ stepStatus'[d] # "completed"
  BY <1>2, <1>5 DEF StepsIn
<1>7. QED
  BY <1>4, <1>5, <1>6, PlanPassOver

LEMMA ClosePoolIsProgress ==
  ASSUME ExecutorInv, ClosePool
  PROVE  [Dag!Next]_<<St, PlanShape>>
<1>1. UNCHANGED <<plan, round>>
  BY DEF ClosePool
<1>2. SUFFICES ASSUME NEW s \in Steps, St'[s] # St[s]
               PROVE  Dag!End(s)
  BY <1>1, PlanProgress
<1>3. Calling(s) /\ stepStatus'[s] = "skipped"
  BY <1>2 DEF ClosePool, St, Calling, ExecutorInv, Shape
<1>4. QED
  BY <1>3, PlanEnd DEF ExecutorInv, RunningIsExecuted, Executing, Terminal

LEMMA NextPlanIsNextGraph ==
  ASSUME ExecutorInv, NextPlan
  PROVE  Dag!NextGraph
<1>1. \A s \in Steps : St[s] # "running"
  BY DEF NextPlan, ExecutorInv, LoopShape, RunningIsExecuted, Live, St
<1>2. PlanShape'.serial = PlanShape.serial + 1
  BY DEF NextPlan, PlanShape
<1>3. /\ St' \in [Steps -> {"pending", "skipped"}]
      /\ \A s \in Steps : St'[s] = "skipped" => s \in PlanShape'.conditional
  BY DEF NextPlan, St, PlanShape
<1>4. QED
  BY <1>1, <1>2, <1>3 DEF Dag!NextGraph, Dag!Init, St, PlanShape

LEMMA StepIsGraphStep ==
  ASSUME ExecutorInv, [Next]_vars
  PROVE  [Dag!Next]_<<St, PlanShape>>
<1>1. CASE LoopStep
  <2>1. CASE SkipUnreachable
    BY <2>1, SkipIsProgress
  <2>2. CASE StartPlan \/ Stop \/ StartWave \/ GatherEnds \/ NextInSequence
    <3>1. UNCHANGED <<plan, round>>
      BY <2>2 DEF StartPlan, Stop, Finish, StartWave, GatherEnds, NextInSequence
    <3>2. \A s \in Steps : St'[s] = St[s]
      BY <2>2, ReadyIsMet DEF StartPlan, Stop, Finish, StartWave, GatherEnds, NextInSequence, St
    <3>3. QED
      BY <3>1, <3>2, PlanProgress
  <2>3. QED
    BY <1>1, <2>1, <2>2 DEF LoopStep
<1>2. CASE \E s \in Steps : StepStep(s)
  BY <1>2, StepIsProgress
<1>3. CASE NextPlan
  BY <1>3, NextPlanIsNextGraph DEF Dag!Next
<1>4. CASE ClosePool
  BY <1>4, ClosePoolIsProgress
<1>5. CASE Expire \/ Terminated \/ UNCHANGED vars
  BY <1>5 DEF Expire, Terminated, vars, loop, St, PlanShape
<1>6. QED
  BY <1>1, <1>2, <1>3, <1>4, <1>5 DEF Next

\* Executing a plan executes its graph, for every plan, every budget and every
\* end of its steps, and plan after plan.
THEOREM Implements == Spec => ExecutesPlan
<1>1. Init => Dag!Init
  BY DEF Init, Dag!Init
<1>2. ExecutorInv /\ [Next]_vars => [Dag!Next]_<<St, PlanShape>>
  BY StepIsGraphStep
<1>3. QED
  BY <1>1, <1>2, ExecutorInvariance, PTL DEF Spec, ExecutesPlan, Dag!Spec, St, PlanShape

-----------------------------------------------------------------------------
(***************************************************************************)
(* Progress: what of PlanEnds is safety                                    *)
(***************************************************************************)
AlternativesOf(s) == Len(Alternatives[Tool[s]])

\* What is still to do for a step.  Each alternative is tried once; a step that
\* waits for its wave, or in it, waits for nothing when the budget is exhausted.
StepsLeft(s) ==
  CASE at[s] = "alternative" -> AlternativesOf(s) + 1 - alt[s]
    [] at[s] = "correcting" -> AlternativesOf(s) + 1
    [] at[s] = "calling" -> AlternativesOf(s) + 2
    [] at[s] = "begun" -> AlternativesOf(s) + 3
    [] at[s] = "queued" -> AlternativesOf(s) + 4
    [] OTHER -> IF s \notin PendingSteps \/ Exhausted THEN 0
                ELSE IF s \in wave THEN AlternativesOf(s) + 5 ELSE AlternativesOf(s) + 6

LoopStepsLeft == CASE pc \in {"gather", "sequence"} -> 2 [] pc = "loop" -> 1 [] OTHER -> 0

\* A closed pool refuses the wave, and the loop comes round with the same steps.
Spins == closed /\ ~expired /\ pc = "loop" /\ pc' = "gather"

\* Within a plan, and but for a closed pool, every step takes something from a
\* step of the plan and gives nothing back, brings the loop closer to its end,
\* or is the end of the time.
PlanAdvances ==
  \/ round' > round \/ (planStatus = "draft" /\ planStatus' = "active") \/ (~closed /\ closed')
  \/ /\ UNCHANGED <<round, closed>> /\ planStatus' # "draft"
     /\ \A s \in Steps : StepsLeft(s)' <= StepsLeft(s)
     /\ \/ \E s \in Steps : StepsLeft(s)' < StepsLeft(s)
        \/ LoopStepsLeft' < LoopStepsLeft
        \/ LoopStepsLeft' = LoopStepsLeft /\ ~expired /\ expired'
        \/ Spins

LEMMA AlternativesAreNat == \A s \in Steps : AlternativesOf(s) \in Nat
  BY ExecutorAssumption DEF AlternativesOf

LEMMA PendingTells ==
  ASSUME NEW s \in Steps
  PROVE  s \in PendingSteps <=> stepStatus[s] \in {"pending", "ready"}
  BY DEF PendingSteps, StepsIn

\* A step that does not move has no more to do than before.
LEMMA StillLeft ==
  ASSUME Shape, NEW s \in Steps, at'[s] = at[s], at[s] = "alternative" => alt'[s] = alt[s],
         s \in PendingSteps' /\ ~Exhausted' =>
           s \in PendingSteps /\ ~Exhausted /\ (s \in wave => s \in wave')
  PROVE  StepsLeft(s)' <= StepsLeft(s)
<1>1. PICK k \in Nat : k = AlternativesOf(s) /\ AlternativesOf(s)' = k
  BY AlternativesAreNat DEF AlternativesOf
<1>2. CASE at[s] \in {"none", "ended"}
  BY <1>1, <1>2 DEF StepsLeft
<1>3. CASE at[s] = "alternative"
  <2>1. alt[s] \in Nat
    BY DEF Shape
  <2>2. StepsLeft(s)' = k + 1 - alt[s] /\ StepsLeft(s) = k + 1 - alt[s]
    BY <1>1, <1>3 DEF StepsLeft
  <2>3. QED
    BY <2>1, <2>2
<1>4. CASE at[s] \in {"queued", "begun", "calling", "correcting"}
  BY <1>1, <1>4 DEF StepsLeft
<1>5. QED
  BY <1>2, <1>3, <1>4 DEF Shape

\* How a step comes closer to its end.
Forward(s) ==
  \/ /\ at[s] \in {"none", "ended"} /\ s \in PendingSteps /\ ~Exhausted
     /\ \/ at'[s] = "queued"
        \/ at'[s] = at[s] /\ s \notin wave /\ s \in wave'
  \/ at[s] = "queued" /\ at'[s] = "begun"
  \/ at[s] = "queued" /\ at'[s] = "ended" /\ Exhausted'
  \/ at[s] = "begun" /\ at'[s] = "calling"
  \/ at[s] = "calling" /\ at'[s] = "correcting"
  \/ at[s] \in {"calling", "correcting"} /\ at'[s] = "alternative" /\ alt'[s] \in 1 .. AlternativesOf(s)
  \/ at[s] = "alternative" /\ at'[s] = "alternative" /\ alt'[s] \in (alt[s] + 1) .. AlternativesOf(s)
  \/ Executing(s) /\ at'[s] = "ended" /\ s \notin PendingSteps'

LEMMA ForwardTakes ==
  ASSUME Shape, NEW s \in Steps, Forward(s)
  PROVE  StepsLeft(s)' <= StepsLeft(s) /\ StepsLeft(s)' < StepsLeft(s)
<1>1. PICK k \in Nat : k = AlternativesOf(s) /\ AlternativesOf(s)' = k
  BY AlternativesAreNat DEF AlternativesOf
<1>2. alt[s] \in Nat /\ (at[s] = "alternative" => alt[s] \in 1 .. k)
  BY <1>1 DEF Shape, AlternativesOf
<1>3. CASE at[s] \in {"none", "ended"} /\ s \in PendingSteps /\ ~Exhausted
           /\ (at'[s] = "queued" \/ (at'[s] = at[s] /\ s \notin wave /\ s \in wave'))
  <2>1. StepsLeft(s) \in {k + 5, k + 6} /\ (s \notin wave => StepsLeft(s) = k + 6)
    BY <1>1, <1>3 DEF StepsLeft
  <2>2. CASE at'[s] = "queued"
    <3>1. StepsLeft(s)' = k + 4
      BY <1>1, <2>2 DEF StepsLeft
    <3>2. QED
      BY <2>1, <3>1
  <2>3. CASE at'[s] = at[s] /\ s \notin wave /\ s \in wave'
    <3>1. StepsLeft(s)' \in {0, k + 5}
      BY <1>1, <1>3, <2>3 DEF StepsLeft
    <3>2. QED
      BY <2>1, <2>3, <3>1
  <2>4. QED
    BY <1>3, <2>2, <2>3
<1>4. CASE at[s] \in {"queued", "begun", "calling"} /\ at'[s] \in {"begun", "calling", "correcting"}
           /\ (at[s] = "queued" => at'[s] = "begun") /\ (at[s] = "begun" => at'[s] = "calling")
           /\ (at[s] = "calling" => at'[s] = "correcting")
  BY <1>1, <1>4 DEF StepsLeft
<1>5. CASE at[s] = "queued" /\ at'[s] = "ended" /\ Exhausted'
  <2>1. StepsLeft(s) = k + 4 /\ StepsLeft(s)' = 0
    BY <1>1, <1>5 DEF StepsLeft
  <2>2. QED
    BY <2>1
<1>6. CASE at[s] \in {"calling", "correcting"} /\ at'[s] = "alternative" /\ alt'[s] \in 1 .. k
  <2>1. StepsLeft(s) \in {k + 1, k + 2} /\ StepsLeft(s)' = k + 1 - alt'[s]
    BY <1>1, <1>6 DEF StepsLeft
  <2>2. PICK j \in 1 .. k : alt'[s] = j
    BY <1>6
  <2>3. QED
    BY <2>1, <2>2
<1>7. CASE at[s] = "alternative" /\ at'[s] = "alternative" /\ alt'[s] \in (alt[s] + 1) .. k
  <2>1. StepsLeft(s) = k + 1 - alt[s] /\ StepsLeft(s)' = k + 1 - alt'[s]
    BY <1>1, <1>7 DEF StepsLeft
  <2>2. PICK j \in (alt[s] + 1) .. k : alt'[s] = j
    BY <1>7
  <2>3. QED
    BY <1>2, <2>1, <2>2
<1>8. CASE Executing(s) /\ at'[s] = "ended" /\ s \notin PendingSteps'
  <2>1. StepsLeft(s)' = 0
    BY <1>8 DEF StepsLeft
  <2>2. StepsLeft(s) \in {k + 3, k + 2, k + 1, k + 1 - alt[s]}
        /\ (StepsLeft(s) = k + 1 - alt[s] /\ at[s] = "alternative" => alt[s] \in 1 .. k)
        /\ (at[s] # "alternative" => StepsLeft(s) \in {k + 3, k + 2, k + 1})
    BY <1>1, <1>2, <1>8 DEF StepsLeft, Executing, Calling
  <2>3. StepsLeft(s) > 0
    <3>1. CASE at[s] = "alternative"
      <4>1. StepsLeft(s) = k + 1 - alt[s]
        BY <1>1, <3>1 DEF StepsLeft
      <4>2. PICK j \in 1 .. k : alt[s] = j
        BY <1>2, <3>1
      <4>3. QED
        BY <4>1, <4>2
    <3>2. CASE at[s] # "alternative"
      BY <2>2, <3>2
    <3>3. QED
      BY <3>1, <3>2
  <2>4. QED
    BY <2>1, <2>2, <2>3
<1>9. QED
  BY <1>1, <1>3, <1>4, <1>5, <1>6, <1>7, <1>8 DEF Forward

LEMMA EndStepForward ==
  ASSUME Shape, NEW s \in Steps, Executing(s), NEW t, NEW tr, NEW success, EndStep(s, t, tr, success)
  PROVE  Forward(s)
<1>1. at'[s] = "ended" /\ stepStatus'[s] \in {"completed", "failed"}
  BY DEF EndStep, Shape
<1>2. s \notin PendingSteps'
  BY <1>1 DEF PendingSteps, StepsIn
<1>3. QED
  BY <1>1, <1>2 DEF Forward

LEMMA TryAlternativesForward ==
  ASSUME Shape, NEW s \in Steps, Calling(s), NEW tr, NEW i \in Nat \ {0}, TryAlternatives(s, i, tr),
         at[s] = "alternative" => i = alt[s] + 1
  PROVE  Forward(s)
<1>1. CASE Open(s, i, tr) = {}
  BY <1>1, EndStepForward DEF TryAlternatives, Executing
<1>2. CASE Open(s, i, tr) # {}
  <2>1. First(Open(s, i, tr)) \in i .. AlternativesOf(s)
    BY <1>2, OpenIsLeft DEF AlternativesOf
  <2>2. at'[s] = "alternative" /\ alt'[s] = First(Open(s, i, tr))
    BY <1>2 DEF TryAlternatives, Shape
  <2>3. PICK k \in Nat : k = AlternativesOf(s)
    BY AlternativesAreNat
  <2>4. alt'[s] \in 1 .. AlternativesOf(s)
    BY <2>1, <2>2, <2>3
  <2>5. QED
    BY <2>1, <2>2, <2>4 DEF Forward, Calling
<1>3. QED
  BY <1>1, <1>2

LEMMA CoroutineForward ==
  ASSUME Shape, NEW s \in Steps, StepStep(s)
  PROVE  Forward(s)
<1>1. CASE BeginStep(s)
  <2>1. CASE Exhausted
    BY <1>1, <2>1 DEF BeginStep, Forward, Exhausted, Shape
  <2>2. CASE ~Exhausted
    BY <1>1, <2>2 DEF BeginStep, Forward, Shape
  <2>3. QED
    BY <2>1, <2>2
<1>2. CASE CallTool(s)
  BY <1>2 DEF CallTool, Forward, Shape
<1>3. CASE RefuseCall(s)
  BY <1>3, EndStepForward DEF RefuseCall, Executing
<1>4. CASE CallSucceeds(s)
  BY <1>4, EndStepForward DEF CallSucceeds, Executing, Calling
<1>5. CASE CallFails(s)
  <2>1. CASE s \in Corrects
    BY <1>5, <2>1 DEF CallFails, Forward, Shape
  <2>2. CASE s \notin Corrects
    <3>1. at[s] = "calling" /\ 1 \in Nat \ {0}
      BY <1>5 DEF CallFails
    <3>2. TryAlternatives(s, 1, Record(tracker, Tool[s], s, FALSE))
      BY <1>5, <2>2 DEF CallFails
    <3>3. QED
      BY <3>1, <3>2, TryAlternativesForward DEF Calling
  <2>3. QED
    BY <2>1, <2>2
<1>6. CASE CorrectionSucceeds(s)
  BY <1>6, EndStepForward DEF CorrectionSucceeds, Executing, Calling
<1>7. CASE CorrectionFails(s)
  BY <1>7, TryAlternativesForward DEF CorrectionFails, Calling
<1>8. CASE AlternativeSucceeds(s)
  BY <1>8, EndStepForward DEF AlternativeSucceeds, Executing, Calling
<1>9. CASE AlternativeFails(s)
  <2>1. alt[s] + 1 \in Nat \ {0}
    BY DEF Shape
  <2>2. QED
    BY <1>9, <2>1, TryAlternativesForward DEF AlternativeFails, Calling
<1>10. CASE StepAborts(s)
  BY <1>10, EndStepForward DEF StepAborts, Executing, Calling
<1>11. QED
  BY <1>1, <1>2, <1>3, <1>4, <1>5, <1>6, <1>7, <1>8, <1>9, <1>10 DEF StepStep

LEMMA CoroutineAdvances ==
  ASSUME ExecutorInv, NEW s \in Steps, StepStep(s)
  PROVE  PlanAdvances
<1>1. /\ \E a, st : Moves(s, a, st)
      /\ Counts(s) /\ UNCHANGED <<loop, expired>>
  BY StepMoves DEF ExecutorInv
<1>2. /\ \A x \in Steps \ {s} : at'[x] = at[x] /\ stepStatus'[x] = stepStatus[x]
      /\ Live(s)
  BY <1>1 DEF Moves, ExecutorInv, Shape, Live
<1>3. /\ UNCHANGED <<round, closed, wave, planStatus>> /\ planStatus # "draft"
  BY <1>1, <1>2 DEF loop, ExecutorInv, LoopShape
<1>4. Exhausted => Exhausted'
  <2>1. /\ iterations \in Nat /\ toolCalls \in Nat /\ MaxIterations \in Nat /\ MaxToolCalls \in Nat
        /\ iterations' \in Nat /\ toolCalls' \in Nat
        /\ iterations' >= iterations /\ toolCalls' >= toolCalls /\ expired' = expired
    BY <1>1, BoundsAreNat DEF Counts, ExecutorInv, Shape
  <2>2. QED
    BY <2>1 DEF Exhausted
<1>5. StepsLeft(s)' <= StepsLeft(s) /\ StepsLeft(s)' < StepsLeft(s)
  BY CoroutineForward, ForwardTakes DEF ExecutorInv
<1>6. ASSUME NEW x \in Steps \ {s} PROVE StepsLeft(x)' <= StepsLeft(x)
  <2>1. x \in PendingSteps' <=> x \in PendingSteps
    BY <1>2 DEF PendingSteps, StepsIn
  <2>2. alt'[x] = alt[x]
    BY <1>1 DEF Counts
  <2>3. QED
    BY <1>2, <1>3, <1>4, <2>1, <2>2, StillLeft DEF ExecutorInv
<1>7. QED
  BY <1>3, <1>5, <1>6 DEF PlanAdvances

LEMMA StartWaveAdvances ==
  ASSUME ExecutorInv, StartWave
  PROVE  PlanAdvances
<1>1. /\ UNCHANGED <<planStatus, round, closed, alt, budget>> /\ ~Exhausted /\ ReadySteps # {}
      /\ pc = "loop" /\ planStatus = "active" /\ wave = {}
      /\ \A s \in Steps : stepStatus'[s] = IF s \in ReadySteps THEN "ready" ELSE stepStatus[s]
  BY DEF StartWave, ExecutorInv, LoopShape, Shape
<1>2. \A s \in Steps : at[s] \in {"none", "ended"}
  BY <1>1 DEF ExecutorInv, Shape, LoopShape, Live, Executing, Calling
<1>3. \A s \in Steps : s \in PendingSteps' <=> s \in PendingSteps
  BY <1>1, ReadyIsMet DEF PendingSteps, StepsIn
<1>4. Exhausted' <=> Exhausted
  BY <1>1 DEF budget, Exhausted
<1>5. ASSUME NEW s \in Steps, at'[s] = at[s] PROVE StepsLeft(s)' <= StepsLeft(s)
  BY <1>1, <1>2, <1>3, <1>4, <1>5, StillLeft DEF ExecutorInv
<1>6. CASE pc' = "gather" /\ closed
  <2>1. at' = [s \in Steps |-> at[s]]
    BY <1>6 DEF StartWave
  <2>2. Spins
    BY <1>1, <1>6 DEF Spins, Exhausted
  <2>3. QED
    BY <1>1, <1>5, <2>1, <2>2 DEF PlanAdvances
<1>7. CASE (pc' = "gather" /\ ~closed) \/ pc' # "gather"
  <2>1. ASSUME NEW s \in ReadySteps
        PROVE  s \in Steps /\ StepsLeft(s)' <= StepsLeft(s) /\ StepsLeft(s)' < StepsLeft(s)
    <3>1. s \in Steps /\ s \in PendingSteps
      BY ReadyIsMet DEF ReadySteps
    <3>2. at'[s] = "queued" \/ (at'[s] = at[s] /\ s \in wave')
      BY <1>7, <3>1 DEF StartWave
    <3>3. Forward(s)
      BY <1>1, <1>2, <3>1, <3>2 DEF Forward
    <3>4. QED
      BY <3>1, <3>3, ForwardTakes DEF ExecutorInv
  <2>2. ASSUME NEW s \in Steps \ ReadySteps PROVE StepsLeft(s)' <= StepsLeft(s)
    <3>1. at'[s] = at[s]
      BY DEF StartWave
    <3>2. QED
      BY <1>5, <3>1
  <2>3. QED
    BY <1>1, <2>1, <2>2 DEF PlanAdvances
<1>8. QED
  BY <1>6, <1>7

LEMMA WaveAdvances ==
  ASSUME ExecutorInv, GatherEnds \/ NextInSequence
  PROVE  PlanAdvances
<1>1. /\ UNCHANGED <<planStatus, round, closed, stepStatus, alt, budget>> /\ planStatus = "active"
      /\ pc \in {"gather", "sequence"} /\ \A s \in Steps : at[s] \in {"none", "ended"}
  BY DEF GatherEnds, NextInSequence, ExecutorInv, LoopShape, Shape
<1>2. (Exhausted' <=> Exhausted) /\ PendingSteps' = PendingSteps
  BY <1>1 DEF budget, Exhausted, PendingSteps, StepsIn
<1>3. ASSUME NEW s \in Steps, at'[s] = at[s], s \in wave => s \in wave' \/ Exhausted
      PROVE  StepsLeft(s)' <= StepsLeft(s)
  BY <1>1, <1>2, <1>3, StillLeft DEF ExecutorInv
<1>4. CASE GatherEnds \/ (NextInSequence /\ (wave = {} \/ Exhausted))
  <2>1. at' = at /\ pc' = "loop" /\ (wave' = wave \/ wave = {} \/ Exhausted)
    BY <1>4 DEF GatherEnds, NextInSequence
  <2>2. \A s \in Steps : StepsLeft(s)' <= StepsLeft(s)
    BY <1>3, <2>1
  <2>3. LoopStepsLeft' < LoopStepsLeft
    BY <1>1, <2>1 DEF LoopStepsLeft
  <2>4. QED
    BY <1>1, <2>2, <2>3 DEF PlanAdvances
<1>5. CASE NextInSequence /\ ~(wave = {} \/ Exhausted)
  <2>1. First(wave) \in wave /\ First(wave) \in Steps
    BY <1>5, StepsAreNumbers, FirstIsIn DEF ExecutorInv, Shape
  <2>2. PICK s \in wave : s = First(wave) /\ s \in Steps
    BY <2>1
  <2>3. wave' = wave \ {s} /\ at' = [at EXCEPT ![s] = "queued"]
    BY <1>5, <2>2 DEF NextInSequence
  <2>4. s \in PendingSteps
    BY <2>2 DEF ExecutorInv, WaitingIsMet, PendingSteps, StepsIn
  <2>5. Forward(s)
    BY <1>1, <1>5, <2>2, <2>3, <2>4 DEF Forward, ExecutorInv, Shape
  <2>6. StepsLeft(s)' <= StepsLeft(s) /\ StepsLeft(s)' < StepsLeft(s)
    BY <2>2, <2>5, ForwardTakes DEF ExecutorInv
  <2>7. ASSUME NEW x \in Steps \ {s} PROVE StepsLeft(x)' <= StepsLeft(x)
    BY <1>3, <2>3 DEF ExecutorInv, Shape
  <2>8. QED
    BY <1>1, <2>2, <2>6, <2>7 DEF PlanAdvances
<1>6. QED
  BY <1>4, <1>5

LEMMA LoopAdvances ==
  ASSUME ExecutorInv, LoopStep
  PROVE  PlanAdvances
<1>1. CASE StartPlan
  BY <1>1 DEF StartPlan, PlanAdvances
<1>2. CASE Stop \/ SkipUnreachable
  <2>1. /\ UNCHANGED <<round, closed, at, alt, wave, budget>> /\ pc = "loop" /\ pc' = "idle"
        /\ planStatus' # "draft"
        /\ \A s \in Steps : stepStatus'[s] \in {stepStatus[s], "skipped"}
    BY <1>2 DEF Stop, SkipUnreachable, Finish
  <2>2. Exhausted' <=> Exhausted
    BY <2>1 DEF budget, Exhausted
  <2>3. ASSUME NEW s \in Steps PROVE StepsLeft(s)' <= StepsLeft(s)
    <3>1. s \in PendingSteps' => s \in PendingSteps
      BY <2>1 DEF PendingSteps, StepsIn
    <3>2. QED
      BY <2>1, <2>2, <3>1, StillLeft DEF ExecutorInv
  <2>4. LoopStepsLeft' < LoopStepsLeft
    BY <2>1 DEF LoopStepsLeft
  <2>5. QED
    BY <2>1, <2>3, <2>4 DEF PlanAdvances
<1>3. QED
  BY <1>1, <1>2, StartWaveAdvances, WaveAdvances DEF LoopStep

\* What a step of the plan has left to do is bounded by its alternatives, and the
\* executor has finitely many steps before the plan ends or the pool is closed;
\* afterwards only the loop that finds the pool closed goes on, until the time is over.
THEOREM PlansAdvance ==
  /\ Spec => [](\A s \in Steps : StepsLeft(s) \in 0 .. (AlternativesOf(s) + 6))
  /\ Spec => [][PlanAdvances]_vars
<1>1. ASSUME ExecutorInv, NEW s \in Steps PROVE StepsLeft(s) \in 0 .. (AlternativesOf(s) + 6)
  <2>1. PICK k \in Nat : k = AlternativesOf(s)
    BY AlternativesAreNat
  <2>2. CASE at[s] = "alternative"
    <3>1. PICK j \in 1 .. k : alt[s] = j
      BY <1>1, <2>1, <2>2 DEF ExecutorInv, Shape, AlternativesOf
    <3>2. StepsLeft(s) = k + 1 - j
      BY <2>1, <2>2, <3>1 DEF StepsLeft
    <3>3. QED
      BY <2>1, <3>2
  <2>3. CASE at[s] # "alternative"
    <3>1. StepsLeft(s) \in {0, k + 1, k + 2, k + 3, k + 4, k + 5, k + 6}
      BY <1>1, <2>1, <2>3 DEF StepsLeft, ExecutorInv, Shape
    <3>2. QED
      BY <2>1, <3>1
  <2>4. QED
    BY <2>2, <2>3
<1>2. ASSUME ExecutorInv, NextPlan \/ ClosePool PROVE PlanAdvances
  <2>1. round \in Nat
    BY <1>2, BoundsAreNat DEF ExecutorInv, Shape
  <2>2. round' = round + 1 \/ (~closed /\ closed')
    BY <1>2 DEF NextPlan, ClosePool
  <2>3. QED
    BY <2>1, <2>2 DEF PlanAdvances
<1>3. ASSUME ExecutorInv, Expire PROVE PlanAdvances
  <2>1. /\ UNCHANGED <<planStatus, pc, wave, round, closed, stepStatus, at, alt>>
        /\ ~expired /\ expired' /\ planStatus # "draft"
    BY <1>3 DEF Expire, loop, ExecutorInv, LoopShape
  <2>2. Exhausted' /\ LoopStepsLeft' = LoopStepsLeft
    BY <2>1 DEF Exhausted, LoopStepsLeft
  <2>3. \A s \in Steps : StepsLeft(s)' <= StepsLeft(s)
    BY <1>3, <2>1, <2>2, StillLeft DEF ExecutorInv
  <2>4. QED
    BY <2>1, <2>2, <2>3 DEF PlanAdvances
<1>4. ExecutorInv /\ [Next]_vars => [PlanAdvances]_vars
  BY <1>2, <1>3, LoopAdvances, CoroutineAdvances DEF Next, Terminated
<1>5. ExecutorInv => \A s \in Steps : StepsLeft(s) \in 0 .. (AlternativesOf(s) + 6)
  BY <1>1
<1>6. QED
  BY <1>4, <1>5, ExecutorInvariance, PTL DEF Spec
=============================================================================
