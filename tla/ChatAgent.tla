------------------------------ MODULE ChatAgent ------------------------------
(***************************************************************************)
(* A request of the chat (_execute_instruction and _execute_agent of       *)
(* chat/engine.py): it is routed by the mode of the session, finds a       *)
(* provider, plans, executes waves of commands and asks the LLM between    *)
(* the waves whether to go on.  Meanwhile the connectivity monitor may     *)
(* switch the session to the offline mode, and subagents add findings to   *)
(* the same session.  What the LLM answers, what the commands find and how *)
(* a probe ends are choices; executing one wave is AutonomousExecutor.     *)
(* Commands are meant up to case and spaces.                               *)
(***************************************************************************)
EXTENDS Naturals, FiniteSets

CONSTANTS
  Commands,       \* what the planners propose and what it is changed to
  MaxWaves,       \* max_waves (12 or the setting in the code)
  PlateauAfter,   \* waves without a discovery that end the loop (2 in the code)
  MaxRequests,    \* bound of the model: requests of the session
  MaxDiscoveries  \* bound of the model: findings of the session, and what is
                  \* discovered during one request

ASSUME AgentAssumption ==
  /\ IsFiniteSet(Commands)
  /\ {MaxWaves, PlateauAfter} \subseteq Nat \ {0}
  /\ {MaxRequests, MaxDiscoveries} \subseteq Nat

VARIABLES
  mode,        \* _mode and session.mode; "other" are the persona and output modes
  provider,    \* the model_provider setting: "auto", "named" or "registry"
  monitored,   \* the connectivity monitor was started
  findings,    \* findings in the context of the session
  requests,    \* requests so far
  pc,          \* the request: "idle", "probing", "planning", "answering", "wave",
               \* "executing", "analysing", "concluding" or "registry"
  required,    \* require_llm: the request was made in the autonomous mode
  known,       \* a provider was resolved
  connected,   \* llm_connected
  planner,     \* who made the plan: "none", "llm" or "registry"
  plan,        \* commands of the steps of the plan, as they were proposed
  wave,        \* waves begun before this one
  executed,    \* executed_cmd_signatures
  stagnant,    \* consecutive_stagnant_waves
  seen,        \* prev_findings_count
  guarded,     \* loop_ended_by_guard
  ran,         \* history: commands the waves of this request executed
  again,       \* history: those for which a later wave executed a proposal
  discoveries, \* history: findings and ports discovered during the request
  failed,      \* history: a call to the LLM failed in this request
  syntheses    \* history: final syntheses recorded in this request

session == <<mode, provider, monitored>>
loop == <<plan, wave, executed, stagnant, seen, guarded>>
caller == <<required, known, connected, planner, failed, ran, discoveries>>
locals == <<caller, loop>>
tally == <<again, syntheses>>
agentVars == <<session, findings, requests, pc, locals, tally>>

Modes == {"autonomous", "integrated", "offline", "other"}

\* What becomes of the proposed commands, as pairs: each is executed as it is,
\* rewritten when its tool is missing, or edited by the user in the review.  A
\* plan may propose a command twice, and the two be changed differently.
StepsOf(cs) == {steps \in SUBSET (cs \X Commands) : {s[1] : s \in steps} = cs}
CommandsOf(steps) == {s[2] : s \in steps}

AgentInit ==
  /\ mode \in Modes
  /\ provider \in {"auto", "named", "registry"}
  /\ mode \in {"autonomous", "other"} => provider # "registry"
  /\ monitored = (mode # "offline")
  /\ findings = 0 /\ requests = 0 /\ again = {} /\ syntheses = 0
  /\ pc = "idle"
  /\ required = FALSE /\ known = FALSE /\ connected = FALSE /\ planner = "none"
  /\ plan = {} /\ wave = 0 /\ executed = {} /\ stagnant = 0 /\ seen = 0 /\ guarded = FALSE
  /\ ran = {} /\ discoveries = 0 /\ failed = FALSE

\* A request is over, and its local variables are gone.
Return ==
  /\ pc' = "idle"
  /\ required' = FALSE /\ known' = FALSE /\ connected' = FALSE /\ planner' = "none"
  /\ plan' = {} /\ wave' = 0 /\ executed' = {} /\ stagnant' = 0 /\ seen' = 0 /\ guarded' = FALSE
  /\ ran' = {} /\ discoveries' = 0 /\ failed' = FALSE

(***************************************************************************)
(* The user and the rest of the session                                    *)
(***************************************************************************)
\* /mode, /redteam and /blueteam.  Only some of the other modes take the
\* registry back.
ModeCommand ==
  /\ pc = "idle"
  /\ mode' \in Modes
  /\ provider' \in CASE mode' = "offline" -> {"registry"}
                     [] mode' = "integrated" \/ provider # "registry" -> {provider}
                     [] mode' = "autonomous" -> {"auto"}
                     [] OTHER -> {"auto", "registry"}
  /\ UNCHANGED <<monitored, findings, requests, pc, locals, tally>>

\* /model.
ModelCommand ==
  /\ pc = "idle"
  /\ mode # "offline"
  /\ provider' \in {"auto", "named"} \cup (IF mode = "autonomous" THEN {} ELSE {"registry"})
  /\ mode' = IF provider' = "registry" THEN "offline" ELSE mode
  /\ UNCHANGED <<monitored, findings, requests, pc, locals, tally>>

\* /reset goes back to the default mode, /load to the mode and the findings of
\* another session; the provider stays.
ResetCommand ==
  /\ pc = "idle"
  /\ mode' \in Modes
  /\ findings' \in {findings} \cup 0 .. MaxDiscoveries
  /\ UNCHANGED <<provider, monitored, requests, pc, locals, tally>>

\* _set_mode_internal, called by the monitor when the network is lost.
MonitorSwitches ==
  /\ monitored
  /\ mode # "offline"
  /\ mode' = "offline"
  /\ provider' = "registry"
  /\ UNCHANGED <<monitored, findings, requests, pc, locals, tally>>

\* A background subagent that was spawned from the session ends.
SubagentReports ==
  /\ findings < MaxDiscoveries /\ discoveries < MaxDiscoveries
  /\ findings' = findings + 1
  /\ discoveries' = IF pc = "idle" THEN discoveries ELSE discoveries + 1
  /\ UNCHANGED <<session, requests, pc, required, known, connected, planner, failed, loop, ran,
                 tally>>

(***************************************************************************)
(* Routing, provider and plan                                              *)
(***************************************************************************)
\* "auto" finds no provider when none has a key or all are in their cooldown.
\* Without one, the autonomous mode refuses the request, the integrated mode
\* leaves it to the registry, and the others go on with the local planner.
StartRequest ==
  /\ pc = "idle"
  /\ requests < MaxRequests
  /\ requests' = requests + 1
  /\ again' = {} /\ syntheses' = 0
  /\ \E found \in IF provider = "auto" THEN BOOLEAN ELSE {provider = "named"} :
       IF mode = "autonomous" /\ ~found
         THEN UNCHANGED <<pc, locals>>
         ELSE /\ pc' = IF mode = "offline" \/ (mode = "integrated" /\ ~found)
                         THEN "registry" ELSE "probing"
              /\ required' = (mode = "autonomous")
              /\ known' = found
              /\ UNCHANGED <<connected, planner, failed, loop, ran, discoveries>>
  /\ UNCHANGED <<session, findings>>

\* The rest of _execute_instruction: the registry's own pipeline.
RegistryPipeline ==
  /\ pc = "registry"
  /\ Return
  /\ UNCHANGED <<session, findings, requests, tally>>

\* A plan was made; one without steps is answered with text.
Planned(who) ==
  /\ planner' = who
  /\ plan' \in SUBSET Commands
  /\ pc' = IF plan' = {} THEN "answering" ELSE "wave"
  /\ UNCHANGED <<wave, executed, stagnant, seen, guarded>>

ProbeAnswers ==
  /\ pc = "probing"
  /\ known
  /\ connected' = TRUE
  /\ pc' = "planning"
  /\ UNCHANGED <<session, findings, requests, required, known, planner, failed, loop, ran,
                 discoveries, tally>>

GoOffline == mode' = "offline" /\ provider' = "registry" /\ UNCHANGED monitored

\* No answer, no key, or no provider at all.
ProbeFails ==
  /\ pc = "probing"
  /\ CASE required -> Return /\ UNCHANGED session
       [] ~required /\ mode = "integrated" /\ known ->
            pc' = "registry" /\ GoOffline /\ UNCHANGED locals
       [] ~required /\ ~(mode = "integrated" /\ known) ->
            /\ Planned("registry")
            /\ UNCHANGED <<session, required, known, connected, failed, ran, discoveries>>
  /\ UNCHANGED <<findings, requests, tally>>

\* A learned skill may be replayed first; its commands are not remembered.
LLMPlans ==
  /\ pc = "planning"
  /\ Planned("llm")
  /\ UNCHANGED <<session, findings, requests, required, known, connected, failed, ran,
                 discoveries, tally>>

\* The local planner makes the plan, in every mode.
LLMPlanningFails ==
  /\ pc = "planning"
  /\ failed' = TRUE
  /\ connected' = FALSE
  /\ IF mode = "integrated" THEN GoOffline ELSE UNCHANGED session
  /\ Planned("registry")
  /\ UNCHANGED <<findings, requests, required, known, ran, discoveries, tally>>

\* The plan carries a text, or the LLM streams one, or a local one is made.
Answer ==
  /\ pc = "answering"
  /\ Return
  /\ UNCHANGED <<session, findings, requests, tally>>

(***************************************************************************)
(* The waves                                                               *)
(***************************************************************************)
\* Variant: commands of earlier waves are not filtered.
BeginWaveUnfiltered ==
  /\ pc = "wave"
  /\ plan # {} /\ wave < MaxWaves
  /\ pc' = "executing"
  /\ UNCHANGED <<session, findings, requests, locals, tally>>

\* What earlier waves executed is left out, and nothing else is a reason to stop.
BeginWave ==
  /\ pc = "wave"
  /\ plan # {} /\ wave < MaxWaves
  /\ plan' = plan \ executed
  /\ guarded' = (plan' = {})
  /\ pc' = IF plan' = {} THEN "concluding" ELSE "executing"
  /\ UNCHANGED <<session, findings, requests, caller, wave, executed, stagnant, seen, tally>>

NoMoreWaves ==
  /\ pc = "wave"
  /\ plan = {} \/ wave = MaxWaves
  /\ pc' = "concluding"
  /\ UNCHANGED <<session, findings, requests, locals, tally>>

\* What an earlier wave executed is proposed again, and done as it is or changed.
Repeats(done) == {s[1] : s \in done} \cap ran

\* The waves without a discovery end the loop.
Plateau(waves) == waves >= PlateauAfter

\* Variant: the count of findings is not carried to the next wave.
SeenForgotten(n) == 0

\* prev_findings_count = current_findings_count
SeenAfter(n) == n

\* The executor returns: some steps were executed, failed or not, the others
\* refused or over the budget; all are remembered, as they were executed.
WaveEnds ==
  /\ pc = "executing"
  /\ \E steps \in StepsOf(plan), found \in 0 .. 1, port \in 0 .. 1 : \E done \in SUBSET steps :
       /\ executed' = executed \cup CommandsOf(steps)
       /\ ran' = ran \cup CommandsOf(done)
       /\ again' = again \cup Repeats(done)
       /\ found + port > 0 => done # {}
       /\ findings' = findings + found
       /\ discoveries' = discoveries + found + port
       /\ findings' <= MaxDiscoveries /\ discoveries' <= MaxDiscoveries
       /\ stagnant' = IF port = 0 /\ findings' <= seen /\ wave > 0 THEN stagnant + 1 ELSE 0
  /\ seen' = SeenAfter(findings')
  /\ guarded' = Plateau(stagnant')
  /\ pc' = CASE guarded' -> "concluding"
             [] ~guarded' /\ connected -> "analysing"
             [] ~guarded' /\ ~connected -> "wave"
  /\ IF pc' = "wave" THEN plan' = {} /\ wave' = wave + 1 ELSE UNCHANGED <<plan, wave>>
  /\ UNCHANGED <<session, requests, required, known, connected, planner, failed, syntheses>>

\* The review of a command was refused before any of the wave was executed: the
\* request ends at once.
WaveCancelled ==
  /\ pc = "executing"
  /\ Return
  /\ UNCHANGED <<session, findings, requests, tally>>

AnalysisProposes ==
  /\ pc = "analysing"
  /\ plan' \in SUBSET Commands \ {{}}
  /\ wave' = wave + 1
  /\ pc' = "wave"
  /\ UNCHANGED <<session, findings, requests, caller, executed, stagnant, seen, guarded, tally>>

\* Variant: the end of the loop is taken for the guard's.
AnalysisCompletesGuarded ==
  /\ pc = "analysing"
  /\ plan' = {}
  /\ wave' = wave + 1
  /\ guarded' = TRUE
  /\ syntheses' = syntheses + 1
  /\ pc' = "concluding"
  /\ UNCHANGED <<session, findings, requests, caller, executed, stagnant, seen, again>>

\* The LLM is satisfied: its answer is the final synthesis.
AnalysisCompletes ==
  /\ pc = "analysing"
  /\ plan' = {}
  /\ wave' = wave + 1
  /\ syntheses' = syntheses + 1
  /\ pc' = "wave"
  /\ UNCHANGED <<session, findings, requests, caller, executed, stagnant, seen, guarded, again>>

\* The planner raises RuntimeError, after a timeout too, and nobody in the
\* request catches it.
AnalysisFails ==
  /\ pc = "analysing"
  /\ Return
  /\ UNCHANGED <<session, findings, requests, tally>>

\* A guard that ended the loop asks for a synthesis, which may fail.
Conclude ==
  /\ pc = "concluding"
  /\ syntheses' \in {syntheses} \cup (IF guarded /\ connected THEN {syntheses + 1} ELSE {})
  /\ Return
  /\ UNCHANGED <<session, findings, requests, again>>

-----------------------------------------------------------------------------
RequestStep ==
  \/ RegistryPipeline
  \/ ProbeAnswers \/ ProbeFails \/ LLMPlans \/ LLMPlanningFails \/ Answer
  \/ BeginWave \/ NoMoreWaves \/ WaveEnds \/ WaveCancelled
  \/ AnalysisProposes \/ AnalysisCompletes \/ AnalysisFails \/ Conclude

Surroundings ==
  ModeCommand \/ ModelCommand \/ ResetCommand \/ MonitorSwitches \/ SubagentReports

AgentNext == StartRequest \/ RequestStep \/ Surroundings

AgentSpec == AgentInit /\ [][AgentNext]_agentVars

-----------------------------------------------------------------------------
\* Type invariant; the hard limit of waves holds.
AgentTypeOK ==
  /\ mode \in Modes /\ provider \in {"auto", "named", "registry"} /\ monitored \in BOOLEAN
  /\ findings \in 0 .. MaxDiscoveries /\ discoveries \in 0 .. MaxDiscoveries
  /\ requests \in 0 .. MaxRequests
  /\ pc \in {"idle", "probing", "planning", "answering", "wave", "executing", "analysing",
             "concluding", "registry"}
  /\ required \in BOOLEAN /\ known \in BOOLEAN /\ connected \in BOOLEAN
  /\ failed \in BOOLEAN /\ guarded \in BOOLEAN
  /\ planner \in {"none", "llm", "registry"}
  /\ plan \subseteq Commands /\ executed \subseteq Commands
  /\ wave \in 0 .. MaxWaves
  /\ stagnant \in 0 .. PlateauAfter
  /\ seen \in 0 .. MaxDiscoveries
  /\ again \subseteq Commands /\ ran \subseteq Commands
  /\ syntheses \in Nat

\* However often the LLM proposes a command that an earlier wave of the request
\* executed, proposed so or made of another one, no later wave executes anything
\* on that proposal.  It says nothing of what others are changed to: commands are
\* filtered as they are proposed and remembered as they are executed, so that
\* one which is rewritten or edited may run twice, and so may one that a plan
\* proposes twice.
NothingRunsAgain == again = {}

\* The plateau bounds a request by what is discovered: at most one wave without
\* a discovery before each one that made one, and PlateauAfter at the end.
\* Findings of earlier requests and of other sessions do not prolong it; those
\* that subagents add while it runs do.
WavesPayOff == wave + 1 <= (PlateauAfter + 1) + PlateauAfter * discoveries

\* After a call that failed, and after its synthesis, a request does not ask the
\* LLM how to go on: a failed call leaves the waves of the local planner, which
\* nobody analyses, and a request gets one synthesis at most, whether the LLM is
\* satisfied, a guard ends the loop or the waves are used up.
AsksNoMore ==
  /\ syntheses <= 1
  /\ failed /\ pc # "idle" => ~connected
  /\ failed \/ syntheses > 0 => pc \notin {"planning", "analysing"}

\* Every request ends, whatever the LLM proposes, also when the session is
\* switched to the offline mode meanwhile.
RequestEnds == pc # "idle" ~> pc = "idle"

\* _execute_agent on require_llm: "When *require_llm* is True (autonomous mode),
\* the method returns False if no LLM is available -- no heuristic fallback."
NoHeuristicFallback == (required /\ pc = "executing") => planner = "llm"
=============================================================================
