# Siyarix in TLA+

Siyarix is an asyncio program that turns instructions into plans, executes the
steps of a plan with security tools, keeps what could not be executed in a
queue, and logs what it does. This directory models the parts that carry its
control: who may execute what, when, how often, and what is left behind when
something fails, is cancelled or crashes. TLC checks the models on small
instances; TLAPS proves every safety property the runs check, that the pool and
the three executors implement their abstract specifications, and what of the
liveness properties does not depend on fairness, for every instance. Source
paths below are relative to `src/siyarix/`.

## 1. Inventory

| Part | State it keeps | Operations | Shares state with | Hard behaviours |
|---|---|---|---|---|
| Offline queue (`offline_queue.py`) | one SQLite table: status, attempts, dependencies, claim time | enqueue, dequeue, mark_processing, mark_completed, mark_failed, retry_failed, clear_completed, reclaim_stale_processing, replay_all | every session opens the same file; `/queue` commands and the engine's requeue (`chat/handlers.py`, `chat/engine.py`) | two drains at once, crash between claim and report, late reports, retries, dependencies |
| Worker pool (`worker_pool.py`) | two semaphores, a set of tasks, the closed flag | submit, the guarded task, its done callback, close | the executors submit to it | cancellation at each await, close racing with submit, permits lost or returned twice |
| Workflow engine (`workflow.py`) | nodes, edges, results, statuses, a semaphore per run | run_workflow, _run_node, _skip_blocked_dependents, cancel_workflow | registry executor (DAG plans), playbooks | waves, retries with timeouts, conditions, cancel at any await, cycles |
| Registry executor (`executor_registry.py`, `executor.py`) | plan, step statuses, budget counters, tool-call tracker | execute_plan, _execute_step, alternatives, self-correction, execute_workflow | worker pool, workflow engine, AgentCore | steps of a wave share counters across awaits, cancellation, exhausted budget, closed pool, cycles |
| Autonomous executor (`executor_autonomous.py`) | plan, step statuses, budget | review, execute_plan, _execute_step | worker pool, permission gate, AgentCore | deadlocked graphs, denied steps, closed pool, recovery and a second execution of the same plan |
| Recovery (`core/mixins.py`, `validators.py`) | the failed step and its replacement | recover and run again, hybrid fallback | both executors | which steps may run a second time |
| Chat request loop (`chat/engine.py`) | the session's mode and provider, the commands executed so far, counters of the loop | _execute_instruction, _execute_agent: probe, plan, waves, analysis, synthesis | monitor (mode), subagents (findings), providers, autonomous executor | commands proposed twice, rewritten or edited, failures at each call to the LLM, the mode switched between two awaits, several ways to end |
| Providers (`providers/state.py`) | cooldowns and failure counts in memory and in `provider_state.json` | record_failure, record_success, is_disabled, load, save | two managers in each process, of which one hears of failures and the other of successes | each rewrites the whole file from its own memory; expiry; half-written files |
| Subagents (`chat/subagents.py`) | registry, focus, a task for each record | spawn, run_foreground, cancel, clear, switch, cycle_active | chat (findings, focus) | a cancellation against an answer, clear of a running record |
| Permission gate (`permission_gate.py`) | window of the calls that passed its limit, `rate_limit.json` | check, load, save, flush at exit | executors, several gates in a process, later processes | last writer wins, saved now and then, crash |
| Tool-call tracker (`executor.py`) | failure counts, `tool_failures.json` | record, reset, load, save | one tracker in each executor | saved at every tenth record, last writer wins |
| Connectivity (`connectivity.py`) | state, two counters over all checks | check_once, _update_state, start, stop | mode of the chat | several targets, failures that count neither way, commands between two tries |
| Audit log (`audit_log.py`, `opsec.py`) | `audit.jsonl`, events in memory, unflushed events, last hash | log, _save_events, start, exit, cleanup_old_events, verify_chain | two objects or two processes on one file | failed and interrupted appends, memory-only phases, partial loading, crash, rewriting the file |
| Session branching (`session_branching.py`) | entries of a session file | branch, append, save | chat sessions, which never make one | — |
| Event bus (`events.py`) | handlers | subscribe, emit | executors, chat | emit is synchronous and swallows what a handler raises |
| Caches and stores (`cache_manager.py`, `campaign.py`, `offline_store.py`) | entries in memory and files | get, set, evict, mark_run | sessions | read-modify-write without a lock |

Planners, parsers, reports, the clients of providers, the chat's terminal
interface, configuration, plugins, memory compaction and the detection of tools
are text transformation, I/O or rankings; they choose what the parts above are
given. `PROJECT.json` lists every part with its status and every hazard with
its line.

How the parts interact. The chat routes a request by the mode of its session:
to the registry's pipeline or to the agent loop, which asks a provider for a
plan and hands wave after wave to an executor. AgentCore does the same for a
single goal, in the foreground or as a subagent. An executor runs its plan in
waves: it submits the ready steps to the worker pool and awaits all of them;
each step consumes budget, asks the permission gate, announces itself on the
event bus, calls a tool, tells the tracker, and writes its status. DAG plans are
given to the workflow engine as a graph. When the plan failed, AgentCore may
replace a step and execute the same plan object again, or hand the plan to the
other executor with the steps that completed marked skipped. When the chat's
execution fails in the registry or offline mode, the instruction goes into the
offline queue, from which `/queue flush` takes it later. Meanwhile the monitor
may switch the session to the offline mode, and subagents add findings to it.
Everything but the files lives on one event loop, so what is between two awaits
is one action of a model; the queue's transactions are `BEGIN IMMEDIATE`, so
each method is one action too.

What makes each part correct:

- queue: no two drains hold one command, a dependent is taken up only after its
  dependencies were reported, attempts stay within their limit, retries and
  clears leave what is completed alone, a drain ends and leaves nothing ready
  behind;
- pool: both bounds hold, every permit comes back once, every submit settles;
- workflow engine and executors: a step runs only when its dependencies are
  completed and at most once, what ended is not written again, nothing runs on
  when the plan returns, the reported status tells what happened, the loop ends;
- chat loop: nothing is executed for a proposal of what an earlier wave
  executed, waves are paid for by discoveries, nobody asks an LLM that failed,
  one synthesis, every request ends;
- providers, gates, trackers: nobody is refused by a cooldown, a limit or a
  count without the failures or the counted calls for it, whoever wrote the
  shared file last;
- subagents: a cancellation stands, a record tells what its task did, the focus
  is on a record that exists, every task ends;
- monitor: a network that is lost or back is noticed, and the session follows;
- audit log: the chain verifies unless something was lost, a gap in the file
  stays noticeable, and no event in memory disappears unless it was dropped on
  purpose.

## 2. Modules and the code they model

| Module | Code | Role |
|---|---|---|
| `OfflineQueue` | `offline_queue.py`, the flush and requeue of `chat/` | the table and any number of draining workers |
| `OfflineReplay` | `OfflineCommandReplay.replay_all` | a drain nothing disturbs (extends `OfflineQueue`) |
| `BoundedPool` | what `worker_pool.py` promises | abstract specification |
| `WorkerPool` | `worker_pool.py` | semaphores, tasks and callbacks; implements `BoundedPool` |
| `DagExecution` | what executing a graph promises | abstract specification of the three executors |
| `WorkflowEngine` | `workflow.py` | waves, nodes, retries, conditions, cancel |
| `PlanWorkflow` | `execute_workflow` in `executor_registry.py` | composes a plan with `WorkflowEngine` |
| `RegistryExecutor` | `executor_registry.py`, budget and tracker of `executor.py` | plans one after the other on one executor |
| `AutonomousExecutor` | `executor_autonomous.py`, recovery of `core/mixins.py` | a plan, its recovery and second execution |
| `AuditLog` | `audit_log.py`, memory_only of `opsec.py` | loggers, the file, and what is lost |
| `ChatAgent` | `_execute_agent` of `chat/engine.py`, the mode commands of `chat/handlers.py` | a request and the session around it |
| `Connectivity` | `connectivity.py` | the monitor's checks and the mode they set (extends `ChatAgent`) |
| `ProviderState` | `providers/state.py` | two managers of a process, the file, and time |
| `Subagents` | `chat/subagents.py` | registry, focus and tasks |
| `PermissionGate` | the rate limit of `permission_gate.py` | the gates of a process, the file, and time |
| `ToolFailures` | `ToolCallTracker` of `executor.py` | the trackers of a process and their file |
| `ChatServices` | | the parts of a chat session side by side |
| `OfflineQueueProofs`, `WorkerPoolProofs`, `AuditLogProofs`, `PlanWorkflowProofs`, `RegistryExecutorProofs`, `AutonomousExecutorProofs`, `ChatAgentProofs`, `ChatServicesProofs` | | theorems about the modules they extend |
| `MC...` | | the small instances TLC checks |

**OfflineQueue.** The variables of the table are its columns; `created` is the
rank of `created_at`, `stale` stands for claims older than the cutoff of the
reclaim. A worker is a session inside a flush or a replay: `pc`, the claimed
`batch`, and the command it awaits (`running`). `Dequeue` claims the oldest
rows whose dependencies are completed, as the SELECT and the filter do
(`Claimable`); `ExecutorSucceeds`, `ExecutorRaises`, `EngineSwallowsFailure`
and `EngineRequeuesFailure` are the four ways an awaited execution ends,
each with the report that follows it. `Crash` forgets the worker and leaves
the table. `reclaimed`, `reported` and `succeeded` are history.

**OfflineReplay.** The same tables and workers, with users who act only between
two drains, no crash and no reclaim. `ReplayDrains` says what a replay leaves:
no ready row, but those `dequeue` cannot see because older rows that wait for a
dependency fill the window of `batch_size * 5` it looks through
(`HiddenByBlocked`). `MaxCycles` is the bound of `replay_all`, with `MinCycles`
for its constant part: 32, which `batch_size * 8` = 24 never exceeds.

**WorkerPool.** A job is one call of `submit`. `caller` is the coroutine of
the submitter, `task` that of `_guarded`; `cancelled` are the requests of
cancellation, delivered at the next await. asyncio's semaphores are external
and modelled by their counts and the rule that a waiter which is woken takes
its permit when it resumes. `JobState` maps these to the states of
`BoundedPool`: a job is accepted until its queue permit is back.

**DagExecution.** A graph of steps with their states, and what each `shape`
allows: which steps may be passed over without a failed parent, fail without
running, be cut off, or be replaced once; a next graph (`serial`) may come when
nothing runs. That one abstract specification fits three executors is a result
in itself: their differences are exactly the fields of `shape`.

**WorkflowEngine.** `pc` is the loop of `run_workflow`, `coroutine[n]` the
task of `_run_node`. `WaveEnds` gathers the wave; what
`_skip_blocked_dependents` marks, round after round, is stated as the least set
that is closed under its rule. Conditions are data of the graph: an edge
refuses, a node is gated off, or an edge needs the result of another node.
`PlanWorkflow` adds the statuses the step functions write (`stepStatus`) and the
mapping back; workflows with conditions, retries or a cancel are run directly,
outside any plan. The two statuses are kept apart, as in the code: `StepSettles`
is the assignment in `_run_step`, which fails a step for exactly "error", and
comes before the progress callback and before the engine sees the result;
`NodeCompletes`, `NodeFails` and `NodeIsLeft` are what the engine makes of it,
which takes "failed", "failure" and any case of "error" for a failure too, as it
does an exception and a timeout. So a node may have failed whose step is
completed, or still running, and `PlanStatusTellsSteps` says what the plan's
status does tell.

**RegistryExecutor.** `pc` and `wave` are `execute_plan`; `at[s]` says between
which two awaits the coroutine of step s stands. Budget and tracker are read
before a call and written after it, so that concurrent steps pass a limit
together as they do in the code. What a tool, the gate or the user answers is
a choice. `Expire` is `max_duration_s`, `ClosePool` a closed worker pool.

**AutonomousExecutor.** The same with the permission check inside the step,
the resolution of deadlocked graphs, and `Recover`: AgentCore replaces one
failed step, which loses its dependencies, and executes the plan again.

**AuditLog.** An event is its hash, an identity; `prev` is the link. `Save`
has the outcomes of `_save_events`: dropped (memory_only), appended, failed, or
broken off inside a line. `torn` tells how many lines follow the one that was
cut: it keeps the verification from reading the file, and the loader as long as
it is among the last lines. `Open` is the constructor, which loads the last
`Window` lines and logs its own start. `Cleanup`, `CleanupFails` and
`CleanupBreaksOff` are `cleanup_old_events`. `discarded` and `lost` are history.
`lost` becomes "gap" when a line is lost from the middle of the file, and when a
logger writes a line behind events it dropped; a logger that ends before it has
written one leaves no gap, and `GapIsNoticed` does not claim one;
`lost = "broken"` is never left: nothing is claimed of a file that was cut
except what `audit_torn_line` shows.

**ChatAgent.** `pc` says between which two awaits a request stands; the local
variables of `_execute_agent` keep their names or are named in a comment. What
the LLM proposes is any set of commands. A wave changes each of them as it likes
(`StepsOf`): the code rewrites one whose tool is missing, and lets the user edit
each in the command review; a command that one plan proposes twice may be
changed in two ways. What is executed is any part of that, and what it finds is
at most one finding and one port. Proposals are filtered before they are
changed, and what they were changed to is remembered. Commands of the user are
read between two requests; the monitor and the subagents act at any moment.
`ran`, `again`, `discoveries`, `failed` and `syntheses` are history; `again` are
the commands an earlier wave executed for which a later one executed a proposal.

**Connectivity.** The monitor alone with the user: a check is one action for
each target, since each try is an await, and the two counters go on over checks
as in the code. `Update` is `_update_state` with the callback, which has no
await. The network answers everywhere, nowhere, or as it likes. `chosen` is
history.

**ProviderState.** A process has the `ProviderManager` singleton, told of failed
attempts by the adapter, and the manager of the chat, told of plans that
succeeded. An entry is kept as the ticks left until it expires. Every write may
succeed, fail, or be left half-done. `quiet` is history: the ticks since the
last recorded failure.

**Subagents.** A record and its task are apart, as in the code: `ClearOne`
removes a record whose task goes on. A cancellation is acknowledged at once and
reaches the task at its next await.

**PermissionGate.** A gate's window is the sequence of the ages of its calls,
oldest first, as the code keeps their times; `Tick` ages all windows and drops
what has left the period, which the code does at the next `check`, before it
counts. `Admit` and `Refuse` are `check` with its saves, on the two sides of the
limit; a call that is admitted is counted before the checks of its text, and
stays counted when one of them refuses it. `ProcessEnds` is the flush at exit or
a kill. `counted` is history.

**ToolFailures.** A tracker is what it would save and its debounce counter.
`Succeeded`, `Failed` and `Reset` are the three changes of `record` and `reset`;
`SaveState` follows each, as in the code. The counts inside one execution, with
the thresholds they are compared to, are part of `RegistryExecutor`; this module
is about what the file makes of them. `recorded` is history.

**ChatServices.** The six parts above and the log, of which one moves in each
behaviour. What the parts tell each other is in each of them a choice of its
environment (`ChatServices.tla` lists them), and only the monitor and the
requests share variables, the mode; `ChatAgent` has the switch at any moment,
and `Connectivity` all commands that change the mode. So nothing is lost by not
interleaving them, and the runs stay small.

Each mapped definition and its lines are in `PROJECT.json` under `map`. A
definition marked "Variant" is a plausible mistake in the definition that
follows it; putting it in its place makes the named property fail, which shows
that the property depends on the code.

## 3. Runs

| Run | Question | Instance and why it is enough |
|---|---|---|
| `queue_chain` | Are claims exclusive, dependencies respected, attempts bounded, completed rows left alone by retries and clears, and do drains end, under crashes, reclaims, retries and clears? | Two rows, the second depending on the first, two workers that flush or replay, two attempts per row. Two rows make a batch, a dependency and a requeued copy (the copy of a failed command is the other row); two workers make every race of claims and late reports; two attempts separate "one left" from "none left". `ReclaimCap` 2 lets a claim be reclaimed and its successor too. |
| `replay_undisturbed` | Does a healthy replay drain the queue and leave nothing claimed (`DrainLeavesNothing`)? | Four rows, two of which wait for a third, batch and window of two: a batch holds a row and an unrelated one while dependents wait, and once the third was given up its dependents fill the window and hide the fourth. `CycleFactor` 2 (8 in the code) is as many cycles as a row has attempts, the least for which the property holds, and `MinCycles` 2 (32) does not cover for it. |
| `flush_reports_failures_completed` | Does completed mean executed? | Violated, see section 7. |
| `pool` | Do the semaphores implement a bounded pool, and does every submit settle? | Three jobs, two places, one worker: one runs, one is accepted and waits, one waits for a place; with cancellation of each and a close at any time. |
| `workflows` | Does the workflow engine execute the graph it is given, execute a step only when the results its edges ask for have arrived, end, return with everything settled, and does the status of a plan tell what became of its nodes and steps? | All graphs on three nodes without self-loops, with an unknown id, as DAG plans; and, run directly, all forward graphs with refusing edges, gated and unregistered nodes and conditions on any set of results, a cycle, a retry, a step that raises CancelledError, and a cancel at any await. Two permits for three nodes. |
| `registry_plan` | Does the registry executor implement `DagExecution`, end, and report a plan completed only if it was, also after another plan? | All graphs on three steps without self-loops, sequential and parallel, steps marked skipped beforehand; then a chain or three parallel steps on the same executor. Four iterations and four tool calls are enough for the first plan and a part of the second; thresholds of three failures; two steps share a tool that has an alternative, step 2 is corrected; the pool may close. |
| `registry_fails_closed` | Does the executor fail closed on unreachable steps? | Violated, see section 7. |
| `autonomous` | Does the autonomous executor implement `DagExecution` through a recovery, and end without the clock? | Graphs on three steps with an unknown id, three iterations, one recovery, a close at any time. |
| `chat` | Do the parts of a chat session keep what section 1 asks of them? | *Requests:* two of them, two commands, each of which may be rewritten or edited to the other, four waves with a plateau of two, so that a plateau is reached before and after a discovery. *Monitor:* the code's three targets and thresholds. *Providers:* two, cooldown steps of one, two and three ticks, two managers. *Subagents:* three, so that the focus moves between two that remain. *Gates:* two, a limit of four calls in two ticks, a save at every second call. *Trackers:* two, two tools with two failures each; a save at every record, since a save that fails is a record that is not saved. *Log:* one logger at a time, four events, a window of two: write, fail, restart with a partial window, drop, expire and clean. |
| `chat_autonomous_fallback` | Does the autonomous mode do without heuristics? | Violated, see section 7. |
| `audit_two_loggers` | Does the chain survive two loggers? | Violated, see section 7. |
| `audit_torn_line` | Does verify_chain verify the whole file? | Violated, see section 7. |

Every passing run of a stateful module checks its type invariant (`ChatTypeOK`
is that of all parts of `chat`). The runs of the chat set `CHECK_DEADLOCK
FALSE`: a chat that waits for its user, or a bound that is used up, is a
behaviour that may stop. In all others deadlock is checked, with an explicit
stuttering step where the program is over.

The refinements are checked as properties, and proved: `ImplementsBoundedPool`
(`WorkerPool` implements `BoundedPool`), `ExecutesPlan` and `ExecutesGraph` (the
three executors implement `DagExecution`).

## 4. Fairness

- Coroutines: weak fairness of each worker's, task's, step's or loop's next
  step. asyncio runs every ready coroutine, and an awaited execution ends: the
  workflow engine, the registry executor and the autonomous executor put a
  timeout on it, and a job given to the pool is such a step.
- `WF(Expire)` in the registry executor only: time passes. It is needed there,
  because with a closed pool the loop has nothing to wait for and only the time
  budget ends it. The autonomous executor ends without it, and the run shows so.
- `WF(Progress)` in the chat: every await of a request has a timeout (5 s for
  the probe, 120 s for a call to the LLM, that of the steps), every try of the
  monitor has one (5 s) and its sleep ends, and a subagent is made of the same
  calls.
- Nobody is obliged to start a drain, cancel, close, crash, reclaim or recover;
  commands, findings, failures, the switch by the monitor and changes of the
  network need not happen.

## 5. Theorems

Every module of proofs extends the component it is about; no bound of a run
appears in it. The assumptions are those of the component's `ASSUME`.

**OfflineQueueProofs**: `TypeCorrect`, `ExclusiveClaims`, `AttemptsBounded`,
`DependenciesFirst`, `CompletedStays`; `DrainsLeaveNothing`, `ReplaysExecute`;
`DrainsComeCloser`, `DrainsBounded`. `ClaimIsExclusive` is not inductive: a
second worker could claim a row someone holds if the row were pending. `IInv`
adds that a row no reclaim touched is processing as long as it is held
(`HeldIsProcessing`), that an id that was never enqueued has no row
(`UnbornAbsent`, or an enqueue could overwrite a held row), that a worker's
claims fit where it stands (`WorkerShape`), and, for the attempts, that a
pending row has one left (`PendingHasAttemptLeft`), and that a completed row was
reported (`CompletedWasReported`). `Invariance` proves `IInv` action by action,
the first five theorems follow from it; the last of them is an action property.
`DrainsLeaveNothing` is about the undisturbed drain, where `SoloInv` adds that
the cycles that are left are at least as many as the attempts that are left of
the rows a drain may claim (`CyclesSuffice`): each dequeue costs one cycle and
at least one attempt, so a replay that is out of cycles has no pending row. It
needs `ReplayAssumption`, that a row's attempts do not exceed `CycleFactor`
(2 or 3 of 8 in the code). The other way a replay ends is that it can claim
nothing; then the oldest ready row would be claimed if the window showed it
(`NothingClaimable`). `ReplaysExecute` assumes that no session flushes, and then
proves what `flush_reports_failures_completed` refutes.

**WorkerPoolProofs**: `TypeCorrect`, `PermitsAreAccounted`, `Implements`. A
queue permit is held from the creation of the task to its first release, and a
released task has ended (`Lifecycle`); so free permits and holders add up
(`Accounting`). The bounds of `BoundedPool` follow from the sums, and each
action maps to one abstract action or to none (`StepImplements`).

**PlanWorkflowProofs**: `TypeCorrect`, `StepsAreMet`, `RunsReturnQuiet`,
`Implements` (`Spec => ExecutesGraph`), `PlanStatusIsRight`. `RunInv` says that
coroutines live only while the loop gathers them (`AloneInLoop`), that a node
that was started was met when it was and stays met (`StartedWhenMet`, since what
completed does not change, and `ResultsMet`, since results only arrive), that
statuses follow coroutines (`StatusFollows`), that a cancelled run has no node
left to start (`CancelledEnds`), and that the permits add up (`PermitsHeld`). The skips of a wave are handled as the least set
closed under the rule: membership is used only through closure and minimality,
which needs no induction over the rounds. `PlansAreRuns` carries the results
over to plans. `PlanInv` then says what ties a step to its node (`StepsFollow`):
a node completed only if its step did, and a step was begun only if its node was
and the nodes it depends on completed; that a step completed or failed tells no
more of its node.

**RegistryExecutorProofs**: `TypeCorrect`, `ReportsAreTrue`, `Implements`
(`Spec => ExecutesPlan`). `ExecutorInv` relates where a step's coroutine stands
to its status and to the loop (`Shape`, `LoopShape`), says that what waits has
its parents completed (`WaitingIsMet`), that what runs is what was announced
(`RunningIsExecuted`), and what a skipped step and an ended plan tell
(`SkippedIsDone`, `EndedIsTrue`). The refinement is shown step by step: `Moves`
describes how an action changes one step, and lemmas map each move to `Start`,
`PassOver` or `End`; a next plan maps to `NextGraph`.

**AutonomousExecutorProofs**: `TypeCorrect`, `FinishedIsQuiet`, `Implements`.
The same argument with `AloneInWave`, `QueuedIsMet` and `ReturnedIsOver`; the
steps a pass gives up are a least set as above, and a recovery maps to `Renew`.

**AuditLogProofs**: `TypeCorrect` for any loggers; `ChainStaysIntact`,
`NothingSlipsAway` and `GapStaysNoticed` for loggers that do not overlap
(`~Sharing`). What a logger writes next is linked to the last line of the file
or to an event that was dropped on purpose (`GoesOn`); in the second case the
write itself makes the gap visible. `ChainInv` says this of every logger, and
that those that do not exist hold nothing. For the gap, `GapInv` adds that file
and memory are ordered by id (`Linear`), and that ids that were dropped stay
apart from the file (`Apart`): so a link to an event that is missing can never
be met by a later one, and a gap stays. The lemmas on appending, concatenating
and cutting logs carry the work.

**ChatAgentProofs**: `AgentTypes`, `CommandsRunOnce`, `WavesAreBounded`,
`AsksAreOver`, for every set of commands, whatever they are changed to, and
every limit. `AgentInv`
says that a request starts with clean locals (`StartsClean`), that its counters
stay below their limits (`BelowLimits`), that a failed call disconnects
(`FailureDisconnects`), that nothing follows a synthesis (`SynthesisIsLast`),
that what ran is remembered as it was executed (`RunsAreRemembered`), and that
waves are earned by discoveries (`WavesAreEarned`): a wave that is not stagnant
took a discovery that no earlier one took, and `Taken` counts them.

**ChatServicesProofs**: `ProviderTypes`, `CooldownsAreEarned`; `SubagentTypes`,
`FocusStaysRegistered`, `RecordsStayTrue`; `FailureTypes`, `RefusalsAreEarned`;
`GateTypes`, `RefusalsAreDue`; `NetworkTypes`, `LossIsFollowed`. The invariants
on shared files are stated of every copy, of each memory and of the file, so
that loading and overwriting exchange one copy for another: what is left of a
cooldown and what has passed since the last failure never exceed the step that
failure earned (`Within`), and no count exceeds the failures recorded
(`EarnedBy`). The registry needs that ids are fresh (`IdsAreFresh`) and that a
task reports once (`ReportsOnce`). The windows of the gates are compared with
the calls that passed a limit age by age (`NothingOvercounted`); the theorem needs that
they are ordered (`OldestFirst`), since what a tick drops from the front must be
what is too old, and the lemmas on `Older` and `Count` say what a tick does to a
window and to its counts.

The composition: `SessionServesRequests`, `SessionServesTheRest` and
`SessionServesTheMonitor` prove that `ChatSpec` implies the specification of each
part, by a step that is one of its steps, a choice of its environment, or none.
`SessionIsSafe` and `SessionIsAudited` carry the theorems about the parts over to
the session, and `ChatTypes` their types.

**Progress.** No prover here reasons about fairness, but most of a liveness
argument is about single steps, and that is proved. For each liveness property a
measure says what is left to do; an action property of every behaviour says that
each step of the component takes from it and that no step of anybody else adds
to it. So fairness has nothing left to do but to let the component move:

| Property | Theorems | Measure, and what may give something back |
|---|---|---|
| `DrainEnds` | `DrainsComeCloser`, `DrainsBounded` | cycles left, then twice the batch; nothing that users, other workers or reclaims do |
| `SubmitSettles` | `SubmitsAdvance`, `NobodyIsStranded` | the stations of a job; nothing. Somebody can go on while a submitter waits, if the queue has a place |
| `RunEnds`, also of DAG plans | `RunsAdvance`, `RunsGoOn` | attempts left of each node; nothing. Some coroutine or the loop can go on, unless a step left its node RUNNING |
| `PlanEnds` of the registry executor | `PlansAdvance` | stations and alternatives left of each step; a next plan only. With the pool closed the loop spins until the time is over |
| `PlanEnds` of the autonomous executor | `PlansAdvance` | stations of each step; the recovery, once |
| `SessionSettles` | `RequestsAreShort`, `SubagentsAdvance` | `3 * MaxWaves + 4` steps of a request, three awaits of a subagent; nothing, and the chat never waits for a subagent that is over |
| `NetworkIsNoticed` | `ChangesComeCloser` | answers missing to the threshold, and the rest of the check; no command of the user |

The measures were checked by TLC on the runs' instances before they were proved.
In a DAG plan each node has one step more than `RunsAdvance` counts, the one that
settles the status of its plan's step, at most once.

## 6. What is only model-checked

Every invariant, action property and refinement of the passing runs is proved,
those of the audit log for loggers that do not overlap.
What is left to TLC is the liveness (`DrainEnds`, `SubmitSettles`, `RunEnds`,
`PlanEnds`, `SessionSettles`, `NetworkIsNoticed`): that the steps counted in
section 5 are taken follows from fairness and from ENABLED, about which the
prover does not reason. The five properties that are violated are refuted by
counterexamples, which need no proof.

## 7. Where the program does not do what it says

Shown by a run:

- `/queue flush` reports a failed command as completed
  (`flush_reports_failures_completed`, `chat/handlers.py:3222`): the engine
  swallows the failure and enqueues a copy (`chat/engine.py:323`), the flush
  then marks the original completed and its dependents become claimable.
- The registry executor does not fail closed on unreachable steps
  (`registry_fails_closed`, `executor_registry.py:183`): they are skipped and
  the plan is completed. The hybrid fallback reaches this without a cycle.
- The autonomous mode falls back to heuristics (`chat_autonomous_fallback`,
  `chat/engine.py:1211`, against the docstring at `:799`): when the provider
  answers the probe and planning then fails, the local planner's plan is
  executed.
- Two loggers on one file break the hash chain (`audit_two_loggers`,
  `compliance.py:106`), and the compliance probe makes a second one.
- A line that was cut hides the file from its own verification
  (`audit_torn_line`, `audit_log.py:529`, against the docstrings at `:501` and
  `:534`): the next logger loads nothing, and verify_chain answers for its
  memory, says "disk", and reports a valid chain.

Part of the models, without a run of their own:

- Queue: `mark_processing` leaves a row alone that was settled since it was
  claimed, and its command is executed again (`offline_queue.py:216`); the late
  failure of a worker whose claim was reclaimed opens a row again that another
  one completed, since mark_failed does not look at the status (`:255`); nothing
  in the program calls `reclaim_stale_processing` or `replay_all`, so claims of
  a crashed session stay; a dependency that failed for good or was cleared
  blocks its dependents for ever; rows blocked on dependencies can fill the
  window of `batch_size * 5` that dequeue looks through; a flush gives a failed
  command a fresh copy with fresh attempts.
- Pool: a submitter that waits for room does not look at the closed flag again
  and starts its job after close (`worker_pool.py:65`); close may wait longer
  than its timeout (`:112`).
- Workflow engine: the wave overwrites the statuses cancel_workflow wrote, and
  a cancel before the run is overwritten by RUNNING (`workflow.py:193`,
  `:229-277`); a step that raises CancelledError leaves its node RUNNING and
  the loop asleep (`:200-202`). The runs check what remains true: nothing that
  ended is reopened, and nothing outlives the run; `IsComplete` on return is
  asked only where no step raises CancelledError.
- DAG plans: a result with the status "failed", "failure" or "ERROR" fails its
  node (`workflow.py:252-253`) and completes its step
  (`executor_registry.py:505-509`), and so do a progress callback that raises
  and a timeout that hits in it (`:511-514`); the comment "Map statuses back"
  (`:535`) stands before a loop that copies the results only. A failed plan may
  therefore show all of its steps completed.
- Registry executor: tool calls of corrections and alternatives are not counted
  against the budget (`executor_registry.py:352`, `:423`), failures are
  recorded twice on some paths, so that a tool is blocked earlier than its
  setting says; the counters of the budget outlive a plan (`executor.py:169`),
  so that a later plan on the same executor is reported completed without being
  executed; with a closed pool the loop spins until its time is over, and a pool
  closed while a step is announced leaves the step RUNNING in a completed plan.
- Autonomous executor: a replaced step loses its dependencies
  (`validators.py:659-685`), the dependents that were skipped stay skipped, and
  plain retries and alternatives that recovery decides on are not executed.
- Chat loop: the planner turns a timeout into a RuntimeError
  (`planner_autonomous.py:601-604`), so `except TimeoutError`
  (`chat/engine.py:1537`) is never reached and a failed analysis ends the
  request with nothing of its outputs saved; commands are filtered as they were
  proposed (`:1305-1312`) and remembered as they were executed (`:1361-1365`),
  while a missing tool rewrites them (`:1325`) and the user may edit them in the
  review (`executor_autonomous.py:121-138`) in between: a proposal that is
  changed is not recognised when it comes again, and what it is changed to may
  run twice; so may a command that one plan contains twice, and one that a
  replayed skill executed before the first wave; steps that were refused are
  remembered as executed; a cancelled
  review loses the outputs of the earlier waves; a loop that used up max_waves
  gets no synthesis; `/reset` and `/load` change the mode and not the provider.
- Providers: the documentation says cooldowns "persist even if you restart
  Siyarix, preventing endless retry loops" (`docs/ai/multi-provider-routing.md:82`,
  and `:304`); a save of the chat's manager rewrites the file from its own
  dictionaries and erases what the singleton stored, and a cooldown recorded in
  a session is not honoured by the chat until it is restarted. The count is one
  of failures since the file was last cleared, not "consecutive" ones: no
  success reaches the singleton. `AgentCore.shutdown` looks for `_state`, but
  the attribute is `_state_manager`.
- Subagents: `/agent clear <id>` removes a running record, whose task runs on
  with nobody able to cancel it ("Clear completed or cancelled subagents from
  registry." says the docstring); findings go to the session the subagent was
  spawned from, also after `/load`; an id that matches partly may pick another
  subagent.
- Permission gate: the limit of 100 calls in 60 s
  (`docs/ai/safety-and-hallucination.md:138`) is one of each gate; the gates of
  a process overwrite each other's file, and a crash may forget the window. A
  call is counted (`permission_gate.py:260`) before it is refused as encoded
  (`:264-271`) or destructive (`:273-281`), so that refused calls use the limit
  up.
- Tool-call tracker: the documentation says failure states are persisted "across
  different sessions" (`docs/architecture/execution-engine.md:126`); they are
  written at every tenth record of a tracker and never at exit, so that a
  session with fewer records leaves nothing, and the trackers of two executors
  overwrite each other. A tool that was saved as blocked stays so:
  `BaseExecutor.reset` (`executor.py:428`) has no caller. `_consecutive_same`
  always equals `_failure_counts`, so that HALTED (8) is never reached before
  BLOCKED (5). An alternative is recorded as failed before it runs and never as
  succeeded (`executor_registry.py:417`), so one that always succeeds gets
  blocked.
- Connectivity: "three failures" are three targets, so one check may suffice,
  and a first target that does not answer keeps a working network DEGRADED for
  ever, since each check starts with a failure; server errors count neither
  way; `/mode offline` does not stop the probes (`chat/repl.py:324-325`); the
  documentation has the offline queue dispatch "the moment connectivity is
  restored" (`docs/architecture/overview.md:513`), the monitor prints a hint.
- Audit log: cleanup_old_events drops unexpired events beyond the window it had
  loaded, writes the file in memory_only mode too, and a rewrite that fails
  after memory was emptied starts a new chain in the same file; it has no
  caller in the program. A loss at either end of the file is not noticed by
  verify_chain. Neither is what a logger dropped in the memory_only mode
  (`:327`), or could not write at all, when it ends before it writes behind it:
  the next logger goes on from the last line of the file, and the chain
  verifies. In the chat, `/audit verify` reports a valid chain whatever
  verify_chain finds (`chat/handlers.py:3134-3139`).

## 8. Not modelled

- In the modelled parts: migration of old databases, get_all and statistics of
  the queue; redaction, sessions and export of the log, and an event logged
  between the snapshot of a cleanup and its rewrite (the method has no caller);
  the choice among providers; a subagent that swallows its cancellation; the
  stop of the monitor when the chat exits; the registry's pipeline of a request
  (one step of `ChatAgent`); text of commands and results; the permission
  gate's and destructive patterns (a check allows or denies).
- Hazards that no property of the code could cover, and are described in section
  7 instead: `mark_processing` on a settled row, guardrails that are read before
  a call and written after it.
- Session branching is not reached: a chat session makes its branches in the
  property `branching` (`chat/session.py:50`), which only tests read, and AgentCore
  names a class that does not exist (`core/__init__.py:324`) and swallows the
  error. The event bus is synchronous
  and keeps nothing. In its memory-only mode the cache returns the first hundred
  characters of an entry that was stored on disk (`cache_manager.py:165`); it
  and the campaigns are planned below.
- Swarm, pipeline, planners, playbook parsing, plugins, memory, learning,
  configuration, provider clients, subprocesses, parsers, reports, health and
  the user interface: pure I/O, text or ranking, with no state that two actors
  share in an order that matters beyond the parts above. They are most of the
  program's lines: its concurrent core is a small part of it, and the map covers
  a few per cent of all lines.

## 9. Plan

Done, in this order: the queue and its replay; the pool with its abstract
specification; the workflow engine, `DagExecution` and the DAG plans; the
registry and the autonomous executor; the audit log with cut lines; the chat:
requests, monitor, providers, subagents, gates, trackers; the proofs about all
of them, about their composition in a session, and of the safety part of every
liveness property.

What is left, in the order of what it would show:

1. `HybridAgent`: both executors composed through AgentCore's fallback, and the
   waves of `AgentCore.execute_multi_wave`.
2. `CacheManager`: entries under the lock and files outside it, eviction against
   a concurrent set; campaigns, which read, modify and write a file.
3. Swarms, once `HybridAgent` exists.
