----------------------------- MODULE ChatServices -----------------------------
(***************************************************************************)
(* The parts of a chat session: its requests, its connectivity monitor,    *)
(* its subagents, the cooldowns of the providers, the rate limit of the    *)
(* permission gates, the failures of the tools and the audit log.  What    *)
(* they tell each other is in each of them a choice of its environment:    *)
(* the findings of a subagent, the provider that is found and the switch   *)
(* by the monitor in ChatAgent, the calls that succeed or fail in          *)
(* ProviderState and ToolFailures, those to check in PermissionGate, the   *)
(* events to log in AuditLog.  Only the monitor and the requests share     *)
(* variables, the mode; requests only ever switch it as the monitor does.  *)
(* So it is enough to let one part move at a time.                         *)
(***************************************************************************)
EXTENDS Connectivity, ProviderState, Subagents, PermissionGate, ToolFailures, AuditLog

VARIABLE part  \* the part that moves in this behaviour

sessionVars == <<agentVars, networkVars>>
chatVars == <<part, sessionVars, providerVars, subagentVars, gateVars, failureVars, vars>>

ChatInit ==
  /\ part \in {"requests", "network", "providers", "subagents", "gates", "failures", "audit"}
  /\ AgentInit /\ NetworkInit /\ ProviderInit /\ SubagentInit /\ GateInit /\ FailuresInit /\ Init
  \* A part that does not move starts in one of its initial states.
  /\ part \notin {"requests", "network"} => mode = "offline" /\ provider = "registry"
  /\ part # "network" => network = "mixed"

\* One part moves by an action of its own, the others stay.
Only(name, action, others) == part = name /\ action /\ UNCHANGED <<part, others>>

Requests(action) ==
  Only("requests", action, <<networkVars, providerVars, subagentVars, gateVars, failureVars, vars>>)
Monitor(action) ==
  Only("network", action, <<providerVars, subagentVars, gateVars, failureVars, vars>>)
Spawned(action) ==
  Only("subagents", action, <<sessionVars, providerVars, gateVars, failureVars, vars>>)

ChatNext ==
  \/ Requests(AgentNext) \/ Monitor(NetworkNext) \/ Spawned(SubagentNext)
  \/ Only("providers", ProviderNext, <<sessionVars, subagentVars, gateVars, failureVars, vars>>)
  \/ Only("gates", GateNext, <<sessionVars, providerVars, subagentVars, failureVars, vars>>)
  \/ Only("failures", FailuresNext, <<sessionVars, providerVars, subagentVars, gateVars, vars>>)
  \/ Only("audit", Next, <<sessionVars, providerVars, subagentVars, gateVars, failureVars>>)

\* What the code may rely on.  Every await of a request has a timeout: 5 s for the
\* probe, 120 s for a call to the LLM, and that of each step.  So has every try of
\* the monitor, and its sleep ends.  A subagent's task that can go on is scheduled
\* by the event loop, and its goal ends, being made of such calls.  Commands,
\* failures and changes of the network need not happen.
Progress ==
  Requests(RequestStep) \/ Monitor(MonitorStep) \/ Spawned(\E a \in Agents : TaskStep(a))

ChatSpec == ChatInit /\ [][ChatNext]_chatVars

ChatFairSpec == ChatSpec /\ WF_chatVars(Progress)

-----------------------------------------------------------------------------
\* Type invariant of all parts.
ChatTypeOK ==
  /\ AgentTypeOK /\ NetworkTypeOK /\ ProviderTypeOK /\ SubagentTypeOK
  /\ GateTypeOK /\ FailuresTypeOK /\ TypeOK

\* Nothing a session began stays open: every request and every subagent ends.
SessionSettles == RequestEnds /\ SubagentsEnd
=============================================================================
