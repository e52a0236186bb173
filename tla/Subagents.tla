------------------------------ MODULE Subagents ------------------------------
(***************************************************************************)
(* The subagents of a chat (SubagentManager of chat/subagents.py and the   *)
(* /agent command of chat/handlers.py): records in a registry with one     *)
(* focus, each run by a task that shares the event loop with the user's    *)
(* commands.  A task lives on when its record is removed.  An id counts    *)
(* the spawns, as in the code, and is not given twice.  The goal itself    *)
(* (AgentCore.execute_goal) is modelled by how it ends; a cancellation is  *)
(* raised at its next await.                                               *)
(***************************************************************************)
EXTENDS Naturals

CONSTANT MaxAgents  \* bound of the model: subagents spawned

ASSUME SubagentAssumption == MaxAgents \in Nat

VARIABLES
  registry,    \* _subagents: ids; their order is that of the spawns
  active,      \* _active_id; 0 is None
  counter,     \* _counter
  status,      \* status of the record of each id; "none" before it is spawned
  task,        \* its task: "none", "created", "starting" (AgentCore.initialize),
               \* "working", "cancelling" or "done"
  foreground,  \* the id the chat waits for, or 0
  merged,      \* history: ids whose findings were merged into the session
  cancelled    \* history: ids whose cancellation was acknowledged

subagentVars ==
  <<registry, active, counter, status, task, foreground, merged, cancelled>>

Agents == 1 .. MaxAgents
Ended == {"completed", "failed", "cancelled"}
Unfinished == {"created", "starting", "working", "cancelling"}
\* The first id of a dict, None when it is empty.
First(ids) == IF ids = {} THEN 0 ELSE CHOOSE a \in ids : \A b \in ids : a <= b

SubagentInit ==
  /\ registry = {} /\ active = 0 /\ counter = 0
  /\ status = [a \in Agents |-> "none"]
  /\ task = [a \in Agents |-> "none"]
  /\ foreground = 0
  /\ merged = {} /\ cancelled = {}

(***************************************************************************)
(* Commands; none is read while the chat waits for a foreground subagent   *)
(***************************************************************************)
\* Variant: the counter is not advanced.
SpawnUncounted ==
  /\ foreground = 0
  /\ counter < MaxAgents
  /\ registry' = registry \cup {counter + 1}
  /\ active' = IF active = 0 THEN counter + 1 ELSE active
  /\ status' = [status EXCEPT ![counter + 1] = "idle"]
  /\ task' = [task EXCEPT ![counter + 1] = "created"]
  /\ UNCHANGED <<counter, foreground, merged, cancelled>>

\* spawn in the background.
SpawnInBackground ==
  /\ foreground = 0
  /\ counter < MaxAgents
  /\ counter' = counter + 1
  /\ registry' = registry \cup {counter'}
  /\ active' = IF active = 0 THEN counter' ELSE active
  /\ status' = [status EXCEPT ![counter'] = "idle"]
  /\ task' = [task EXCEPT ![counter'] = "created"]
  /\ UNCHANGED <<foreground, merged, cancelled>>

\* spawn and run_foreground, up to the first await of the run.
RunInForeground ==
  /\ foreground = 0
  /\ counter < MaxAgents
  /\ counter' = counter + 1
  /\ registry' = registry \cup {counter'}
  /\ active' = IF active = 0 THEN counter' ELSE active
  /\ status' = [status EXCEPT ![counter'] = "planning"]
  /\ task' = [task EXCEPT ![counter'] = "starting"]
  /\ foreground' = counter'
  /\ UNCHANGED <<merged, cancelled>>

\* /agent kill: the record is marked at once, the task ends later.  A record that
\* is running without a task of its own is in the foreground, where nobody kills it.
Cancel(a) ==
  /\ foreground = 0
  /\ a \in registry
  /\ task[a] \in Unfinished
  /\ status' = [status EXCEPT ![a] = "cancelled"]
  /\ task' = [task EXCEPT ![a] = "cancelling"]
  /\ cancelled' = cancelled \cup {a}
  /\ UNCHANGED <<registry, active, counter, foreground, merged>>

\* What is left of the registry, and the focus on it.
Keep(kept) ==
  /\ registry' = kept
  /\ active' = IF active \in kept THEN active ELSE First(kept)

\* /agent clear <id>, whatever the subagent is doing.
ClearOne(a) ==
  /\ foreground = 0
  /\ a \in registry
  /\ Keep(registry \ {a})
  /\ UNCHANGED <<counter, status, task, foreground, merged, cancelled>>

\* Variant: the focus stays on a record that was removed.
ClearEndedKeepsFocus ==
  /\ foreground = 0
  /\ registry' = {a \in registry : status[a] \notin Ended}
  /\ UNCHANGED <<active, counter, status, task, foreground, merged, cancelled>>

\* /agent clear
ClearEnded ==
  /\ foreground = 0
  /\ Keep({a \in registry : status[a] \notin Ended})
  /\ UNCHANGED <<counter, status, task, foreground, merged, cancelled>>

Switch(a) ==
  /\ foreground = 0
  /\ a \in registry
  /\ active' = a
  /\ UNCHANGED <<registry, counter, status, task, foreground, merged, cancelled>>

\* cycle_active, with the focus on a registered record or on none.
Cycle ==
  /\ foreground = 0
  /\ active' = LET later == {a \in registry : a > active}
               IN IF later = {} THEN First(registry) ELSE First(later)
  /\ UNCHANGED <<registry, counter, status, task, foreground, merged, cancelled>>

(***************************************************************************)
(* _run_subagent                                                           *)
(***************************************************************************)
Released(a) == IF foreground = a THEN 0 ELSE foreground

\* The task begins, and waits for AgentCore.initialize.
Begin(a) ==
  /\ task[a] = "created"
  /\ task' = [task EXCEPT ![a] = "starting"]
  /\ status' = [status EXCEPT ![a] = "planning"]
  /\ UNCHANGED <<registry, active, counter, foreground, merged, cancelled>>

Execute(a) ==
  /\ task[a] = "starting"
  /\ task' = [task EXCEPT ![a] = "working"]
  /\ status' = [status EXCEPT ![a] = "running"]
  /\ UNCHANGED <<registry, active, counter, foreground, merged, cancelled>>

\* Variant: a result is reported although the task is being cancelled.
EndLate(a) ==
  /\ task[a] \in {"working", "cancelling"}
  /\ task' = [task EXCEPT ![a] = "done"]
  /\ status' = [status EXCEPT ![a] = "completed"]
  /\ merged' \in {merged, merged \cup {a}}
  /\ foreground' = Released(a)
  /\ UNCHANGED <<registry, active, counter, cancelled>>

\* The goal was executed: the outcome is recorded and the findings, if any, are
\* merged.  No job of the core is left, so its shutdown does not wait; it may
\* raise, and the record is then a failed one whose findings were merged.
End(a) ==
  /\ task[a] = "working"
  /\ task' = [task EXCEPT ![a] = "done"]
  /\ status' \in {[status EXCEPT ![a] = s] : s \in {"completed", "failed"}}
  /\ merged' \in {merged, merged \cup {a}}
  /\ foreground' = Released(a)
  /\ UNCHANGED <<registry, active, counter, cancelled>>

\* The core raised before it returned a result.
Raise(a) ==
  /\ task[a] \in {"starting", "working"}
  /\ task' = [task EXCEPT ![a] = "done"]
  /\ status' = [status EXCEPT ![a] = "failed"]
  /\ foreground' = Released(a)
  /\ UNCHANGED <<registry, active, counter, merged, cancelled>>

\* Variant: only while the record is registered.
StopRegistered(a) ==
  /\ a \in registry
  /\ task[a] = "cancelling"
  /\ task' = [task EXCEPT ![a] = "done"]
  /\ status' = [status EXCEPT ![a] = "cancelled"]
  /\ UNCHANGED <<registry, active, counter, foreground, merged, cancelled>>

\* The cancellation is raised inside the run, or before the run began.
Stop(a) ==
  /\ task[a] = "cancelling"
  /\ task' = [task EXCEPT ![a] = "done"]
  /\ status' = [status EXCEPT ![a] = "cancelled"]
  /\ UNCHANGED <<registry, active, counter, foreground, merged, cancelled>>

-----------------------------------------------------------------------------
TaskStep(a) == Begin(a) \/ Execute(a) \/ End(a) \/ Raise(a) \/ Stop(a)

SubagentNext ==
  \/ SpawnInBackground \/ RunInForeground
  \/ ClearEnded \/ Cycle
  \/ \E a \in Agents : Cancel(a) \/ ClearOne(a) \/ Switch(a) \/ TaskStep(a)

SubagentSpec == SubagentInit /\ [][SubagentNext]_subagentVars

-----------------------------------------------------------------------------
\* Type invariant.
SubagentTypeOK ==
  /\ counter \in 0 .. MaxAgents
  /\ registry \subseteq 1 .. counter
  /\ active \in 0 .. counter /\ foreground \in 0 .. counter
  /\ status \in [Agents -> Ended \cup {"none", "idle", "planning", "running"}]
  /\ task \in [Agents -> Unfinished \cup {"none", "done"}]
  /\ merged \subseteq Agents /\ cancelled \subseteq Agents

\* /agent kill without an id acts on the focus: it is on a registered record
\* whenever there is one, and on none otherwise, whatever was cleared meanwhile.
FocusIsRegistered == IF registry = {} THEN active = 0 ELSE active \in registry

CancelIsKept ==
  \A a \in cancelled : status[a] = "cancelled" /\ a \notin merged

StatusTellsTask ==
  \A a \in Agents :
    /\ task[a] = "done" => status[a] \in Ended
    /\ status[a] \in {"completed", "failed"} => task[a] = "done"

\* What a record says is true of its task.  A cancellation that was acknowledged
\* is not taken back: no result of the subagent is reported afterwards, and its
\* findings do not reach the session, whatever the task was waiting for.  A task
\* that is over left its record with an outcome, so that the registry can be
\* cleared of it, and a record with a result has no task that would report
\* another one.
RecordsAreTrue == CancelIsKept /\ StatusTellsTask

\* Every subagent ends, also one whose record was removed.
SubagentsEnd == \A a \in Agents : task[a] \in Unfinished ~> task[a] = "done"
=============================================================================
