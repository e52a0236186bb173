-------------------------- MODULE RegistryExecutor --------------------------
(***************************************************************************)
(* RegistryExecutor.execute_plan (executor_registry.py) with the budget and*)
(* the tool-call tracker of BaseExecutor (executor.py): one executor runs  *)
(* plan after plan, wave by wave, and its step coroutines share counters   *)
(* that are read before an await and written after it.  The awaits are the *)
(* calls of the registry; what the code does between two of them is one    *)
(* action.  The worker pool is modelled in WorkerPool, and the tools, the  *)
(* permission gate and the user that may refuse a call are choices here.   *)
(***************************************************************************)
EXTENDS Naturals, FiniteSets, Sequences

CONSTANTS
  Steps,            \* 1 .. n: the steps of a plan, in the order of its list
  Plans,            \* the plans that may be executed first, records of
                    \*   deps: step -> ids it depends on (0 names no step)
                    \*   parallel: whether plan_type is parallel or dag
                    \*   done: steps the hybrid fallback marked skipped
  LaterPlans,       \* those of them that may be executed after another one
  Tools,
  Tool,             \* Tool[s]: the tool of step s
  Args,             \* Args[s]: what identifies the arguments of step s
  Alternatives,     \* Alternatives[t]: TOOL_ALTERNATIVES that are registered
  MaxIterations,    \* max_iterations (50 in the code)
  MaxToolCalls,     \* max_tool_calls (100 in the code)
  BlockAfter,       \* exact_failure_block_after (5 in the code)
  NoProgressAfter,  \* no_progress_block_after (5 in the code)
  Rounds,           \* bound of the model: plans one executor is given
  MayClose,         \* whether somebody closes the pool while a plan runs
  Corrects          \* steps whose failure self-correction tries again

ASSUME ExecutorAssumption ==
  /\ IsFiniteSet(Steps) /\ Steps = 1 .. Cardinality(Steps)
  /\ \A p \in Plans : /\ p.deps \in [Steps -> SUBSET (Steps \cup {0})]
                      /\ p.parallel \in BOOLEAN
                      /\ p.done \subseteq Steps
  /\ LaterPlans \subseteq Plans
  /\ Tool \in [Steps -> Tools]
  /\ Alternatives \in [Tools -> Seq(Tools)]
  /\ {MaxIterations, MaxToolCalls, BlockAfter, NoProgressAfter, Rounds} \subseteq Nat
  /\ BlockAfter > 0 /\ Rounds > 0
  /\ MayClose \in BOOLEAN
  /\ Corrects \subseteq Steps

VARIABLES
  plan,        \* the plan being executed
  planStatus,  \* plan.status
  stepStatus,  \* step.status
  pc,          \* execute_plan: "idle", "loop", "gather", "sequence"
  wave,        \* ready steps a sequential plan has still to execute
  at,          \* _execute_step of each step: "none", "queued", "begun",
               \* "calling", "correcting", "alternative" or "ended"
  alt,         \* index of the alternative a step tries
  iterations, toolCalls,  \* what the budget counted, over all plans
  expired,     \* the plan ran for max_duration_s
  tracker,     \* failures per tool, noProgress and the last successful call
  closed,      \* the pool is closed
  round        \* plans executed so far

budget == <<iterations, toolCalls, expired>>
loop == <<plan, planStatus, pc, wave, round, closed>>
vars == <<loop, stepStatus, at, alt, budget, tracker>>

First(S) == CHOOSE s \in S : \A t \in S : s <= t

Terminal == {"completed", "failed", "skipped"}
StepsIn(s) == {x \in Steps : stepStatus[x] = s}
PendingSteps == StepsIn("pending") \cup StepsIn("ready")
PlanComplete == \A s \in Steps : stepStatus[s] \in Terminal
\* Variant: a dependency that ended in any way counts.
ReadyWhenEnded ==
  {s \in PendingSteps : \A d \in plan.deps[s] : d \in Steps /\ stepStatus[d] \in Terminal}

ReadySteps == {s \in PendingSteps : plan.deps[s] \subseteq StepsIn("completed")}
Exhausted == iterations >= MaxIterations \/ toolCalls >= MaxToolCalls \/ expired

Init ==
  /\ plan \in Plans
  /\ planStatus = "draft"
  /\ stepStatus = [s \in Steps |-> IF s \in plan.done THEN "skipped" ELSE "pending"]
  /\ pc = "idle"
  /\ wave = {}
  /\ at = [s \in Steps |-> "none"]
  /\ alt = [s \in Steps |-> 0]
  /\ iterations = 0
  /\ toolCalls = 0
  /\ expired = FALSE
  /\ tracker = [failures |-> [t \in Tools |-> 0], noProgress |-> 0, last |-> <<>>]
  /\ closed = FALSE
  /\ round = 1

(***************************************************************************)
(* The tracker.  _failure_counts and _consecutive_same are always written  *)
(* together with the same values, so one function stands for both.         *)
(***************************************************************************)
\* record(tool, args, success), as a function of the tracker.
Record(tr, t, s, success) ==
  IF success
    THEN [failures |-> [tr.failures EXCEPT ![t] = 0], noProgress |-> 0,
          last |-> <<t, Args[s]>>]
    ELSE [tr EXCEPT !.failures[t] = @ + 1,
                    !.noProgress = IF tr.last = <<t, Args[s]>> THEN @ + 1 ELSE @]

Blocked(tr, t) == tr.failures[t] >= BlockAfter \/ tr.noProgress >= NoProgressAfter

(***************************************************************************)
(* execute_plan: the loop                                                  *)
(***************************************************************************)
StartPlan ==
  /\ pc = "idle"
  /\ planStatus = "draft"
  /\ planStatus' = "active"
  /\ pc' = "loop"
  /\ expired' = FALSE
  /\ UNCHANGED <<plan, wave, round, closed, stepStatus, at, alt, iterations, toolCalls, tracker>>

\* The caller hands the next plan to the same executor; the counters of the
\* budget and the tracker stay.  Whoever closes the pool has no more plans.
NextPlan ==
  /\ pc = "idle"
  /\ ~closed
  /\ planStatus \in {"completed", "failed"}
  /\ round < Rounds
  /\ round' = round + 1
  /\ plan' \in LaterPlans
  /\ planStatus' = "draft"
  /\ stepStatus' = [s \in Steps |-> IF s \in plan'.done THEN "skipped" ELSE "pending"]
  /\ at' = [s \in Steps |-> "none"]
  /\ UNCHANGED <<pc, wave, closed, alt, budget, tracker>>

\* The loop stops with these statuses of the steps.
Finish(statuses) ==
  /\ stepStatus' = statuses
  /\ planStatus' = IF \E s \in Steps : statuses[s] = "failed" THEN "failed" ELSE "completed"
  /\ pc' = "idle"
  /\ UNCHANGED <<plan, wave, round, closed, at, alt, budget, tracker>>

Stop ==
  /\ pc = "loop"
  /\ PlanComplete \/ Exhausted
  /\ Finish(stepStatus)

\* No step is ready: the rest waits for a cycle, for an id the plan has not or
\* for a step that did not complete, and is skipped.
SkipUnreachable ==
  /\ pc = "loop"
  /\ ~PlanComplete /\ ~Exhausted
  /\ ReadySteps = {}
  /\ Finish([s \in Steps |-> IF s \in PendingSteps THEN "skipped" ELSE stepStatus[s]])

\* A sequential plan with several independent ready steps runs them in parallel.
CanParallel ==
  plan.parallel \/ (Cardinality(ReadySteps) > 1 /\ \A s \in ReadySteps : plan.deps[s] = {})

\* The ready steps are submitted to the pool together; a closed pool refuses
\* them all, and the loop comes round with the same steps ready.
StartWave ==
  /\ pc = "loop"
  /\ ~PlanComplete /\ ~Exhausted
  /\ ReadySteps # {}
  /\ stepStatus' = [s \in Steps |-> IF s \in ReadySteps THEN "ready" ELSE stepStatus[s]]
  /\ IF CanParallel
       THEN /\ pc' = "gather"
            /\ at' = [s \in Steps |-> IF s \in ReadySteps /\ ~closed THEN "queued" ELSE at[s]]
            /\ UNCHANGED wave
       ELSE /\ pc' = "sequence"
            /\ wave' = ReadySteps
            /\ UNCHANGED at
  /\ UNCHANGED <<plan, planStatus, round, closed, alt, budget, tracker>>

\* Variant: the timer of the budget starts again with every wave.
GatherEndsResetting ==
  /\ pc = "gather"
  /\ \A s \in Steps : at[s] \in {"none", "ended"}
  /\ pc' = "loop"
  /\ expired' = FALSE
  /\ UNCHANGED <<plan, planStatus, wave, round, closed, stepStatus, at, alt, iterations,
                 toolCalls, tracker>>

GatherEnds ==
  /\ pc = "gather"
  /\ \A s \in Steps : at[s] \in {"none", "ended"}
  /\ pc' = "loop"
  /\ UNCHANGED <<plan, planStatus, wave, round, closed, stepStatus, at, alt, budget, tracker>>

NextInSequence ==
  /\ pc = "sequence"
  /\ \A s \in Steps : at[s] \in {"none", "ended"}
  /\ IF wave = {} \/ Exhausted
       THEN pc' = "loop" /\ wave' = {} /\ UNCHANGED at
       ELSE /\ wave' = wave \ {First(wave)}
            /\ at' = [at EXCEPT ![First(wave)] = "queued"]
            /\ UNCHANGED pc
  /\ UNCHANGED <<plan, planStatus, round, closed, stepStatus, alt, budget, tracker>>

(***************************************************************************)
(* _execute_step and _try_execute                                          *)
(***************************************************************************)
\* The step ends; t is its tool now, and tr the tracker so far.
EndStep(s, t, tr, success) ==
  /\ stepStatus' = [stepStatus EXCEPT ![s] = IF success THEN "completed" ELSE "failed"]
  /\ tracker' = Record(tr, t, s, success)
  /\ at' = [at EXCEPT ![s] = "ended"]

\* Variant: the iteration is counted without a look at the budget.
BeginStepAlways(s) ==
  /\ at[s] = "queued"
  /\ iterations' = iterations + 1
  /\ stepStatus' = [stepStatus EXCEPT ![s] = "running"]
  /\ at' = [at EXCEPT ![s] = "begun"]
  /\ UNCHANGED <<loop, alt, toolCalls, expired, tracker>>

\* consume_iteration, and the announcement of the step.
BeginStep(s) ==
  /\ at[s] = "queued"
  /\ IF Exhausted
       THEN /\ at' = [at EXCEPT ![s] = "ended"]
            /\ UNCHANGED <<iterations, stepStatus>>
       ELSE /\ iterations' = iterations + 1
            /\ stepStatus' = [stepStatus EXCEPT ![s] = "running"]
            /\ at' = [at EXCEPT ![s] = "begun"]
  /\ UNCHANGED <<loop, alt, toolCalls, expired, tracker>>

\* The guardrails, the permission and consume_tool_call let the call through.
CallTool(s) ==
  /\ at[s] = "begun"
  /\ ~Blocked(tracker, Tool[s])
  /\ ~Exhausted
  /\ toolCalls' = toolCalls + 1
  /\ at' = [at EXCEPT ![s] = "calling"]
  /\ UNCHANGED <<loop, stepStatus, alt, iterations, expired, tracker>>

\* The tool is blocked, the permission denied or the budget spent: the step
\* fails, and that is recorded as one more failure of the tool.
RefuseCall(s) ==
  /\ at[s] = "begun"
  /\ EndStep(s, Tool[s], tracker, FALSE)
  /\ UNCHANGED <<loop, alt, budget>>

CallSucceeds(s) ==
  /\ at[s] = "calling"
  /\ EndStep(s, Tool[s], Record(tracker, Tool[s], s, TRUE), TRUE)
  /\ UNCHANGED <<loop, alt, budget>>

\* The tracker after the alternatives i .. k of step s were recorded as failed.
RecordAlternatives(tr, s, i, k) ==
  LET alts == Alternatives[Tool[s]]
  IN  [failures |-> [t \in Tools |-> tr.failures[t] + Cardinality({j \in i .. k : alts[j] = t})],
       noProgress |-> tr.noProgress +
                        Cardinality({j \in i .. k : tr.last = <<alts[j], Args[s]>>}),
       last |-> tr.last]

\* The alternatives of step s from the i-th on: each is recorded as failed before
\* it is tried, and passed over if that blocks it.
Open(s, i, tr) ==
  LET alts == Alternatives[Tool[s]]
  IN  {k \in i .. Len(alts) : ~Blocked(RecordAlternatives(tr, s, i, k), alts[k])}

\* The step tries the first of them, or fails when there is none.
TryAlternatives(s, i, tr) ==
  LET open == Open(s, i, tr)
      next == First(open)
  IN  IF open = {}
        THEN /\ EndStep(s, Tool[s],
                        RecordAlternatives(tr, s, i, Len(Alternatives[Tool[s]])), FALSE)
             /\ UNCHANGED alt
        ELSE /\ at' = [at EXCEPT ![s] = "alternative"]
             /\ alt' = [alt EXCEPT ![s] = next]
             /\ tracker' = RecordAlternatives(tr, s, i, next)
             /\ UNCHANGED stepStatus

\* The call fails; _handle_tool_error may strip a flag and call once more, and
\* otherwise the alternatives are tried.
CallFails(s) ==
  LET tr == Record(tracker, Tool[s], s, FALSE)
  IN  /\ at[s] = "calling"
      /\ IF s \in Corrects
           THEN /\ at' = [at EXCEPT ![s] = "correcting"]
                /\ tracker' = tr
                /\ UNCHANGED <<stepStatus, alt>>
           ELSE TryAlternatives(s, 1, tr)
      /\ UNCHANGED <<loop, budget>>

CorrectionSucceeds(s) ==
  /\ at[s] = "correcting"
  /\ EndStep(s, Tool[s], tracker, TRUE)
  /\ UNCHANGED <<loop, alt, budget>>

CorrectionFails(s) ==
  /\ at[s] = "correcting"
  /\ TryAlternatives(s, 1, tracker)
  /\ UNCHANGED <<loop, budget>>

AlternativeSucceeds(s) ==
  /\ at[s] = "alternative"
  /\ EndStep(s, Alternatives[Tool[s]][alt[s]], tracker, TRUE)
  /\ UNCHANGED <<loop, alt, budget>>

AlternativeFails(s) ==
  LET t == Alternatives[Tool[s]][alt[s]]
  IN  /\ at[s] = "alternative"
      /\ TryAlternatives(s, alt[s] + 1, Record(tracker, t, s, FALSE))
      /\ UNCHANGED <<loop, budget>>

\* Variant: a timed out step is skipped.
StepAbortsSkipped(s) ==
  /\ at[s] \in {"calling", "correcting", "alternative"}
  /\ stepStatus' = [stepStatus EXCEPT ![s] = "skipped"]
  /\ at' = [at EXCEPT ![s] = "ended"]
  /\ UNCHANGED <<loop, alt, budget, tracker>>

\* The step times out, or the tool raises what _try_execute does not catch.
StepAborts(s) ==
  /\ at[s] \in {"calling", "correcting", "alternative"}
  /\ EndStep(s, Tool[s], tracker, FALSE)
  /\ UNCHANGED <<loop, alt, budget>>

(***************************************************************************)
(* The rest of the world                                                   *)
(***************************************************************************)
Expire ==
  /\ pc # "idle"
  /\ ~expired
  /\ expired' = TRUE
  /\ UNCHANGED <<loop, stepStatus, at, alt, iterations, toolCalls, tracker>>

\* The pool is closed and its tasks are cancelled: a step whose tool is called is
\* skipped, one cancelled while it is announced stays running.
ClosePool ==
  /\ MayClose
  /\ ~closed
  /\ closed' = TRUE
  /\ IF pc = "gather"
       THEN /\ stepStatus' = [s \in Steps |-> IF at[s] \in {"none", "queued", "begun", "ended"}
                                                THEN stepStatus[s] ELSE "skipped"]
            /\ at' = [s \in Steps |-> IF at[s] = "none" THEN "none" ELSE "ended"]
       ELSE UNCHANGED <<stepStatus, at>>
  /\ UNCHANGED <<plan, planStatus, pc, wave, round, alt, budget, tracker>>

LoopStep ==
  StartPlan \/ Stop \/ SkipUnreachable \/ StartWave \/ GatherEnds \/ NextInSequence

StepStep(s) ==
  \/ BeginStep(s) \/ CallTool(s) \/ RefuseCall(s)
  \/ CallSucceeds(s) \/ CallFails(s)
  \/ CorrectionSucceeds(s) \/ CorrectionFails(s)
  \/ AlternativeSucceeds(s) \/ AlternativeFails(s) \/ StepAborts(s)

Terminated ==
  pc = "idle" /\ planStatus # "draft" /\ (round = Rounds \/ closed) /\ UNCHANGED vars

Next == LoopStep \/ NextPlan \/ (\E s \in Steps : StepStep(s)) \/ Expire \/ ClosePool
        \/ Terminated

Spec == Init /\ [][Next]_vars

\* The event loop runs what is ready, a step ends by its timeout at the latest,
\* and time passes.
FairSpec ==
  Spec /\ WF_vars(LoopStep) /\ WF_vars(Expire) /\ \A s \in Steps : WF_vars(StepStep(s))

-----------------------------------------------------------------------------
\* Type invariant; the budget is never overdrawn.
TypeOK ==
  /\ plan \in Plans
  /\ planStatus \in {"draft", "active", "completed", "failed"}
  /\ stepStatus \in [Steps -> {"pending", "ready", "running"} \cup Terminal]
  /\ pc \in {"idle", "loop", "gather", "sequence"}
  /\ wave \subseteq Steps
  /\ at \in [Steps -> {"none", "queued", "begun", "calling", "correcting", "alternative",
                       "ended"}]
  /\ alt \in [Steps -> Nat]
  /\ iterations \in 0 .. MaxIterations
  /\ toolCalls \in 0 .. MaxToolCalls
  /\ expired \in BOOLEAN
  /\ tracker.failures \in [Tools -> Nat] /\ tracker.noProgress \in Nat
  /\ closed \in BOOLEAN
  /\ round \in 1 .. Rounds

Dag == INSTANCE DagExecution WITH
  Nodes <- Steps,
  st <- [s \in Steps |-> IF stepStatus[s] = "ready" THEN "pending" ELSE stepStatus[s]],
  shape <- [parents |-> plan.deps, conditional |-> plan.done, refused |-> plan.done,
            broken |-> {}, cancellable |-> Steps, renewable |-> {}, serial |-> round]

\* Executing a plan executes its graph: waves, sequences, budget stops, retries
\* and skips respect every dependency, no step runs twice, and no step of one
\* plan runs into the next plan.
ExecutesPlan == Dag!Spec

\* Nothing of the plan runs on, and every step has ended unless the budget cut
\* the plan short.  (A step that was being announced when the pool was closed
\* stays RUNNING for ever.)
FinishedPlanIsQuiet ==
  (pc = "idle" /\ planStatus # "draft") =>
    /\ \A s \in Steps : at[s] \in {"none", "ended"}
    /\ closed \/ StepsIn("running") = {}
    /\ closed \/ PlanComplete \/ Exhausted

\* A set of steps that wait for each other, for an unknown id or for a step
\* marked done is not executable.
Executable ==
  /\ plan.done = {}
  /\ \A S \in SUBSET Steps \ {{}} : \E s \in S : plan.deps[s] \subseteq Steps \ S

CompletedMeansDone ==
  (planStatus = "completed" /\ Executable /\ ~Exhausted /\ ~closed)
    => StepsIn("completed") = Steps

\* What execute_plan returns is final and true.  Nothing of the plan runs on in
\* the background.  A plan whose dependencies can be met is reported completed
\* only if every step completed, or the budget ran out, or the pool was closed,
\* whatever the plans before it left in the counters: a refused, failed, timed
\* out or blocked step never ends in success.  (Of the plans in general this is
\* not true, see FailsClosed; a step cancelled by the closing of the pool is
\* skipped or left running, and neither makes the plan fail.)
ReportIsTrue == FinishedPlanIsQuiet /\ CompletedMeansDone

\* execute_plan returns, also when the pool is closed under it: the loop then
\* spins with the same ready steps until the budget's time is over.
PlanEnds == pc = "loop" ~> pc = "idle"

\* The comment on the branch that skips unreachable steps: "Fail-closed on
\* cycles / unreachable deps".
FailsClosed == planStatus = "completed" => StepsIn("skipped") \subseteq plan.done
=============================================================================
