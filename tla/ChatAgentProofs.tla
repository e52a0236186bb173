--------------------------- MODULE ChatAgentProofs ---------------------------
(***************************************************************************)
(* Theorems about a request of the chat, for every set of commands,        *)
(* whatever they are changed to, and every bound.  The argument: a request *)
(* starts clean, a guard is set in the step that ends the loop, what was   *)
(* run is among what is filtered, and each wave that does not count as     *)
(* stagnant takes one of the discoveries that no earlier wave took.        *)
(*                                                                         *)
(* A request has finitely many steps, since a wave is counted before the   *)
(* next is made.                                                           *)
(***************************************************************************)
EXTENDS ChatAgent, FiniteSetTheorems, TLAPS

Looping == pc \in {"wave", "executing", "analysing"}

\* Nothing of an earlier request is left when one starts.
StartsClean ==
  pc \in {"idle", "probing", "planning", "registry"} =>
    /\ wave = 0 /\ stagnant = 0 /\ executed = {} /\ ran = {}
    /\ guarded = FALSE /\ failed = FALSE

\* A wave that may be executed is below the limits, and a guard ends the loop.
BelowLimits ==
  /\ pc \in {"executing", "analysing"} => wave < MaxWaves
  /\ Looping => stagnant < PlateauAfter /\ guarded = FALSE

\* The LLM is connected while it is asked, and a failure disconnects it.
FailureDisconnects ==
  /\ failed => connected = FALSE
  /\ pc = "analysing" => connected

\* A synthesis leaves the loop no other wave and no other synthesis.
SynthesisIsLast ==
  /\ syntheses \in 0 .. 1
  /\ pc \notin {"idle", "wave", "concluding"} => syntheses = 0
  /\ pc = "wave" => syntheses = 0 \/ plan = {}
  /\ pc = "concluding" /\ guarded => syntheses = 0

\* What was run is remembered, and what is proposed to a wave was not.
RunsAreRemembered ==
  /\ ran \subseteq executed
  /\ pc = "executing" => plan \cap executed = {}

\* The waves that have ended, and the discoveries they took for theirs: those
\* before the count of findings they saw last.
Waves == IF pc = "analysing" THEN wave + 1 ELSE wave
Taken == discoveries - (findings - seen)

WavesAreEarned ==
  Looping /\ Waves > 0 =>
    /\ seen <= findings
    /\ Waves <= 1 + stagnant + PlateauAfter * Taken

AgentInv ==
  /\ AgentTypeOK /\ StartsClean /\ BelowLimits /\ FailureDisconnects /\ SynthesisIsLast
  /\ RunsAreRemembered /\ NothingRunsAgain /\ WavesAreEarned /\ WavesPayOff

-----------------------------------------------------------------------------
LEMMA Bounds ==
  /\ MaxWaves \in Nat /\ MaxWaves > 0 /\ PlateauAfter \in Nat /\ PlateauAfter > 0
  /\ MaxRequests \in Nat /\ MaxDiscoveries \in Nat
  BY AgentAssumption

\* What is executed and remembered are commands, and what is executed is
\* remembered.
LEMMA StepsAreCommands ==
  ASSUME NEW cs \in SUBSET Commands, NEW steps \in StepsOf(cs), NEW done \in SUBSET steps
  PROVE  /\ CommandsOf(steps) \subseteq Commands
         /\ CommandsOf(done) \subseteq CommandsOf(steps)
         /\ {s[1] : s \in done} \subseteq cs
<1>1. /\ steps \subseteq cs \X Commands
      /\ {s[1] : s \in steps} = cs
  BY DEF StepsOf
<1>2. {s[1] : s \in done} \subseteq cs
  BY <1>1
<1>3. ASSUME NEW c \in CommandsOf(steps) PROVE c \in Commands
  <2>1. PICK s \in cs \X Commands : c = s[2]
    BY <1>1 DEF CommandsOf
  <2>2. QED
    BY <2>1
<1>4. QED
  BY <1>2, <1>3 DEF CommandsOf

\* The steps of a wave, and what is left of them.
LEMMA StepsOfWave ==
  ASSUME AgentTypeOK, RunsAreRemembered, WaveEnds
  PROVE  /\ executed' \subseteq Commands /\ ran' \subseteq executed'
         /\ again' = again
<1>1. PICK steps \in StepsOf(plan) : \E done \in SUBSET steps :
        /\ executed' = executed \cup CommandsOf(steps)
        /\ ran' = ran \cup CommandsOf(done)
        /\ again' = again \cup Repeats(done)
  BY DEF WaveEnds
<1>2. PICK done \in SUBSET steps :
        /\ executed' = executed \cup CommandsOf(steps)
        /\ ran' = ran \cup CommandsOf(done)
        /\ again' = again \cup Repeats(done)
  BY <1>1
<1>3. /\ plan \subseteq Commands /\ executed \subseteq Commands
      /\ ran \subseteq executed /\ plan \cap executed = {}
  BY DEF AgentTypeOK, RunsAreRemembered, WaveEnds
<1>4. /\ CommandsOf(steps) \subseteq Commands
      /\ CommandsOf(done) \subseteq CommandsOf(steps)
      /\ {s[1] : s \in done} \subseteq plan
  BY <1>3, StepsAreCommands
<1>5. Repeats(done) = {}
  BY <1>3, <1>4 DEF Repeats
<1>6. QED
  BY <1>2, <1>3, <1>4, <1>5

\* One discovery more pays for PlateauAfter waves.
LEMMA OneMorePays ==
  ASSUME NEW p \in Nat, NEW x \in Int, NEW y \in Int, x + 1 <= y
  PROVE  p * x + p <= p * y
<1>1. p * (x + 1) = p * x + p
  OBVIOUS
<1>2. p * (x + 1) <= p * y
  OBVIOUS
<1>3. p * x \in Int /\ p * y \in Int /\ p * (x + 1) \in Int
  OBVIOUS
<1>4. QED
  BY <1>1, <1>2, <1>3

LEMMA MorePays ==
  ASSUME NEW p \in Nat, NEW x \in Int, NEW y \in Int, x <= y
  PROVE  p * x <= p * y
  OBVIOUS

-----------------------------------------------------------------------------
\* The user and the rest of the session leave a request its variables; findings
\* that are added to it are discovered in it.
LEMMA SurroundingsSpare ==
  ASSUME AgentTypeOK, Surroundings
  PROVE  /\ UNCHANGED <<requests, pc, required, known, connected, planner, failed, ran, again,
                        syntheses, plan, wave, executed, stagnant, seen, guarded>>
         /\ pc # "idle" => /\ discoveries' - discoveries = findings' - findings
                           /\ discoveries' >= discoveries
  BY DEF AgentTypeOK, Surroundings, ModeCommand, ModelCommand, ResetCommand, MonitorSwitches,
         SubagentReports, session, locals, caller, loop, tally

\* The type invariant in three parts.
FlagTypes ==
  /\ mode \in Modes /\ provider \in {"auto", "named", "registry"} /\ monitored \in BOOLEAN
  /\ pc \in {"idle", "probing", "planning", "answering", "wave", "executing", "analysing",
             "concluding", "registry"}
  /\ required \in BOOLEAN /\ known \in BOOLEAN /\ connected \in BOOLEAN
  /\ failed \in BOOLEAN /\ guarded \in BOOLEAN
  /\ planner \in {"none", "llm", "registry"}
SetTypes ==
  /\ plan \subseteq Commands /\ executed \subseteq Commands
  /\ again \subseteq Commands /\ ran \subseteq Commands
CountTypes ==
  /\ findings \in 0 .. MaxDiscoveries /\ discoveries \in 0 .. MaxDiscoveries
  /\ requests \in 0 .. MaxRequests
  /\ wave \in 0 .. MaxWaves /\ stagnant \in 0 .. PlateauAfter
  /\ seen \in 0 .. MaxDiscoveries
  /\ syntheses \in Nat

LEMMA TypesMade ==
  ASSUME FlagTypes', SetTypes', CountTypes'
  PROVE  AgentTypeOK'
  BY DEF FlagTypes, SetTypes, CountTypes, AgentTypeOK

\* How a wave ends.
LEMMA HowWavesEnd ==
  ASSUME AgentTypeOK, BelowLimits, WaveEnds
  PROVE  /\ pc = "executing" /\ wave < MaxWaves /\ stagnant < PlateauAfter
         /\ pc' \in {"concluding", "analysing", "wave"}
         /\ stagnant' \in 0 .. PlateauAfter /\ guarded' \in BOOLEAN
         /\ pc' # "concluding" => stagnant' < PlateauAfter /\ guarded' = FALSE
         /\ pc' = "analysing" => connected
         /\ IF pc' = "wave" THEN plan' = {} /\ wave' = wave + 1 ELSE plan' = plan /\ wave' = wave
         /\ seen' = findings'
         /\ UNCHANGED <<mode, provider, monitored, requests, required, known, connected, planner,
                        failed, syntheses>>
<1> USE Bounds DEF AgentTypeOK, BelowLimits, Looping
<1>1. pc = "executing" /\ wave < MaxWaves /\ stagnant < PlateauAfter
  BY DEF WaveEnds
<1>2. stagnant' \in {0, stagnant + 1}
  BY DEF WaveEnds
<1>3. stagnant' \in 0 .. PlateauAfter
  BY <1>1, <1>2
<1>4. guarded' = (stagnant' >= PlateauAfter)
  BY DEF WaveEnds, Plateau
<1>5. /\ pc' = CASE guarded' -> "concluding"
                 [] ~guarded' /\ connected -> "analysing"
                 [] ~guarded' /\ ~connected -> "wave"
      /\ IF pc' = "wave" THEN plan' = {} /\ wave' = wave + 1 ELSE plan' = plan /\ wave' = wave
      /\ seen' = findings'
      /\ UNCHANGED <<mode, provider, monitored, requests, required, known, connected, planner,
                     failed, syntheses>>
  BY DEF WaveEnds, SeenAfter, session
<1>6. connected \in BOOLEAN /\ guarded' \in BOOLEAN
  BY <1>4
<1>7. /\ pc' \in {"concluding", "analysing", "wave"}
      /\ pc' = "analysing" => connected
  BY <1>5, <1>6
<1>8. ASSUME pc' # "concluding" PROVE stagnant' < PlateauAfter /\ guarded' = FALSE
  <2>1. guarded' = FALSE
    BY <1>5, <1>6, <1>8
  <2>2. ~ (stagnant' >= PlateauAfter)
    BY <1>4, <2>1, Zenon
  <2>3. QED
    BY <1>3, <2>1, <2>2
<1>9. QED
  BY <1>1, <1>3, <1>5, <1>6, <1>7, <1>8

LEMMA CleanStep ==
  ASSUME AgentInv, [AgentNext]_agentVars
  PROVE  StartsClean'
<1> USE Bounds DEF AgentInv, StartsClean
<1>1. CASE StartRequest
  BY <1>1 DEF StartRequest, session, loop, caller, locals, tally
<1>2. CASE RegistryPipeline
  BY <1>2 DEF RegistryPipeline, Return, session, tally
<1>3. CASE ProbeAnswers
  BY <1>3 DEF ProbeAnswers, session, loop, tally
<1>4. CASE ProbeFails
  BY <1>4 DEF ProbeFails, Planned, GoOffline, Return, session, loop, caller, locals, tally
<1>5. CASE LLMPlans
  BY <1>5 DEF LLMPlans, Planned, session, tally
<1>6. CASE LLMPlanningFails
  BY <1>6 DEF LLMPlanningFails, Planned, GoOffline, session, tally
<1>7. CASE Answer
  BY <1>7 DEF Answer, Return, session, tally
<1>8. CASE BeginWave
  BY <1>8 DEF BeginWave, session, caller, tally
<1>9. CASE NoMoreWaves
  BY <1>9 DEF NoMoreWaves, session, loop, caller, locals, tally
<1>10. CASE WaveEnds
  BY <1>10, HowWavesEnd
<1>11. CASE WaveCancelled
  BY <1>11 DEF WaveCancelled, Return, session, tally
<1>12. CASE AnalysisProposes
  BY <1>12 DEF AnalysisProposes, session, caller, tally
<1>13. CASE AnalysisCompletes
  BY <1>13 DEF AnalysisCompletes, session, caller
<1>14. CASE AnalysisFails
  BY <1>14 DEF AnalysisFails, Return, session, tally
<1>15. CASE Conclude
  BY <1>15 DEF Conclude, Return, session
<1>16. CASE Surroundings
  BY <1>16, SurroundingsSpare
<1>17. CASE UNCHANGED agentVars
  BY <1>17 DEF agentVars, session, loop, caller, locals, tally
<1>18. QED
  BY <1>1, <1>2, <1>3, <1>4, <1>5, <1>6, <1>7, <1>8, <1>9, <1>10, <1>11, <1>12, <1>13, <1>14, <1>15, <1>16, <1>17
     DEF AgentNext, RequestStep

LEMMA LimitsStep ==
  ASSUME AgentInv, [AgentNext]_agentVars
  PROVE  BelowLimits'
<1> USE Bounds DEF AgentInv, AgentTypeOK, BelowLimits, StartsClean, Looping
<1>1. CASE StartRequest
  BY <1>1 DEF StartRequest, session, loop, caller, locals, tally
<1>2. CASE RegistryPipeline
  BY <1>2 DEF RegistryPipeline, Return, session, tally
<1>3. CASE ProbeAnswers
  BY <1>3 DEF ProbeAnswers, session, loop, tally
<1>4. CASE ProbeFails
  BY <1>4 DEF ProbeFails, Planned, GoOffline, Return, session, loop, caller, locals, tally
<1>5. CASE LLMPlans
  BY <1>5 DEF LLMPlans, Planned, session, tally
<1>6. CASE LLMPlanningFails
  BY <1>6 DEF LLMPlanningFails, Planned, GoOffline, session, tally
<1>7. CASE Answer
  BY <1>7 DEF Answer, Return, session, tally
<1>8. CASE BeginWave
  BY <1>8 DEF BeginWave, session, caller, tally
<1>9. CASE NoMoreWaves
  BY <1>9 DEF NoMoreWaves, session, loop, caller, locals, tally
<1>10. CASE WaveEnds
  <2>1. pc' = "analysing" => wave' < MaxWaves
    BY <1>10, HowWavesEnd
  <2>2. pc' \in {"wave", "analysing"} => stagnant' < PlateauAfter /\ guarded' = FALSE
    BY <1>10, HowWavesEnd
  <2>3. pc' # "executing"
    BY <1>10, HowWavesEnd
  <2>4. QED
    BY <2>1, <2>2, <2>3
<1>11. CASE WaveCancelled
  BY <1>11 DEF WaveCancelled, Return, session, tally
<1>12. CASE AnalysisProposes
  BY <1>12 DEF AnalysisProposes, session, caller, tally
<1>13. CASE AnalysisCompletes
  BY <1>13 DEF AnalysisCompletes, session, caller
<1>14. CASE AnalysisFails
  BY <1>14 DEF AnalysisFails, Return, session, tally
<1>15. CASE Conclude
  BY <1>15 DEF Conclude, Return, session
<1>16. CASE Surroundings
  BY <1>16, SurroundingsSpare
<1>17. CASE UNCHANGED agentVars
  BY <1>17 DEF agentVars, session, loop, caller, locals, tally
<1>18. QED
  BY <1>1, <1>2, <1>3, <1>4, <1>5, <1>6, <1>7, <1>8, <1>9, <1>10, <1>11, <1>12, <1>13, <1>14, <1>15, <1>16, <1>17
     DEF AgentNext, RequestStep

LEMMA FailureStep ==
  ASSUME AgentInv, [AgentNext]_agentVars
  PROVE  FailureDisconnects'
<1> USE Bounds DEF AgentInv, FailureDisconnects, StartsClean
<1>1. CASE StartRequest
  BY <1>1 DEF StartRequest, session, loop, caller, locals, tally
<1>2. CASE RegistryPipeline
  BY <1>2 DEF RegistryPipeline, Return, session, tally
<1>3. CASE ProbeAnswers
  BY <1>3 DEF ProbeAnswers, session, loop, tally
<1>4. CASE ProbeFails
  BY <1>4 DEF ProbeFails, Planned, GoOffline, Return, session, loop, caller, locals, tally
<1>5. CASE LLMPlans
  BY <1>5 DEF LLMPlans, Planned, session, tally
<1>6. CASE LLMPlanningFails
  BY <1>6 DEF LLMPlanningFails, Planned, GoOffline, session, tally
<1>7. CASE Answer
  BY <1>7 DEF Answer, Return, session, tally
<1>8. CASE BeginWave
  BY <1>8 DEF BeginWave, session, caller, tally
<1>9. CASE NoMoreWaves
  BY <1>9 DEF NoMoreWaves, session, loop, caller, locals, tally
<1>10. CASE WaveEnds
  BY <1>10, HowWavesEnd
<1>11. CASE WaveCancelled
  BY <1>11 DEF WaveCancelled, Return, session, tally
<1>12. CASE AnalysisProposes
  BY <1>12 DEF AnalysisProposes, session, caller, tally
<1>13. CASE AnalysisCompletes
  BY <1>13 DEF AnalysisCompletes, session, caller
<1>14. CASE AnalysisFails
  BY <1>14 DEF AnalysisFails, Return, session, tally
<1>15. CASE Conclude
  BY <1>15 DEF Conclude, Return, session
<1>16. CASE Surroundings
  BY <1>16, SurroundingsSpare
<1>17. CASE UNCHANGED agentVars
  BY <1>17 DEF agentVars, session, loop, caller, locals, tally
<1>18. QED
  BY <1>1, <1>2, <1>3, <1>4, <1>5, <1>6, <1>7, <1>8, <1>9, <1>10, <1>11, <1>12, <1>13, <1>14, <1>15, <1>16, <1>17
     DEF AgentNext, RequestStep

LEMMA SynthesisStep ==
  ASSUME AgentInv, [AgentNext]_agentVars
  PROVE  SynthesisIsLast'
<1> USE Bounds DEF AgentInv, SynthesisIsLast, BelowLimits, Looping
<1>1. CASE StartRequest
  BY <1>1 DEF StartRequest, session, loop, caller, locals, tally
<1>2. CASE RegistryPipeline
  BY <1>2 DEF RegistryPipeline, Return, session, tally
<1>3. CASE ProbeAnswers
  BY <1>3 DEF ProbeAnswers, session, loop, tally
<1>4. CASE ProbeFails
  BY <1>4 DEF ProbeFails, Planned, GoOffline, Return, session, loop, caller, locals, tally
<1>5. CASE LLMPlans
  BY <1>5 DEF LLMPlans, Planned, session, tally
<1>6. CASE LLMPlanningFails
  BY <1>6 DEF LLMPlanningFails, Planned, GoOffline, session, tally
<1>7. CASE Answer
  BY <1>7 DEF Answer, Return, session, tally
<1>8. CASE BeginWave
  BY <1>8 DEF BeginWave, session, caller, tally
<1>9. CASE NoMoreWaves
  BY <1>9 DEF NoMoreWaves, session, loop, caller, locals, tally
<1>10. CASE WaveEnds
  BY <1>10, HowWavesEnd
<1>11. CASE WaveCancelled
  BY <1>11 DEF WaveCancelled, Return, session, tally
<1>12. CASE AnalysisProposes
  BY <1>12 DEF AnalysisProposes, session, caller, tally
<1>13. CASE AnalysisCompletes
  BY <1>13 DEF AnalysisCompletes, session, caller
<1>14. CASE AnalysisFails
  BY <1>14 DEF AnalysisFails, Return, session, tally
<1>15. CASE Conclude
  BY <1>15 DEF Conclude, Return, session
<1>16. CASE Surroundings
  BY <1>16, SurroundingsSpare
<1>17. CASE UNCHANGED agentVars
  BY <1>17 DEF agentVars, session, loop, caller, locals, tally
<1>18. QED
  BY <1>1, <1>2, <1>3, <1>4, <1>5, <1>6, <1>7, <1>8, <1>9, <1>10, <1>11, <1>12, <1>13, <1>14, <1>15, <1>16, <1>17
     DEF AgentNext, RequestStep

LEMMA TypesStep ==
  ASSUME AgentInv, [AgentNext]_agentVars
  PROVE  AgentTypeOK'
<1> USE Bounds DEF AgentInv, AgentTypeOK, BelowLimits, Looping, Modes, FlagTypes, SetTypes, CountTypes
<1>1. CASE StartRequest
  <2>1. FlagTypes'
    BY <1>1 DEF StartRequest, session, loop, caller, locals, tally
  <2>2. SetTypes'
    BY <1>1 DEF StartRequest, session, loop, caller, locals, tally
  <2>3. CountTypes'
    BY <1>1 DEF StartRequest, session, loop, caller, locals, tally
  <2>4. QED
    BY <2>1, <2>2, <2>3, TypesMade
<1>2. CASE RegistryPipeline
  <2>1. FlagTypes'
    BY <1>2 DEF RegistryPipeline, Return, session, tally
  <2>2. SetTypes'
    BY <1>2 DEF RegistryPipeline, Return, session, tally
  <2>3. CountTypes'
    BY <1>2 DEF RegistryPipeline, Return, session, tally
  <2>4. QED
    BY <2>1, <2>2, <2>3, TypesMade
<1>3. CASE ProbeAnswers
  BY <1>3 DEF ProbeAnswers, session, loop, tally
<1>4. CASE ProbeFails
  <2>1. FlagTypes'
    <3>1. pc' \in {"idle", "registry", "answering", "wave"} /\ planner' \in {"none", "llm", "registry"}
      BY <1>4 DEF ProbeFails, Planned, GoOffline, Return, session, loop, caller, locals, tally
    <3>2. /\ required' \in BOOLEAN /\ known' \in BOOLEAN /\ connected' \in BOOLEAN
          /\ failed' \in BOOLEAN /\ guarded' \in BOOLEAN
      BY <1>4 DEF ProbeFails, Planned, GoOffline, Return, session, loop, caller, locals, tally
    <3>3. mode' \in Modes /\ provider' \in {"auto", "named", "registry"} /\ monitored' = monitored
      BY <1>4 DEF ProbeFails, Planned, GoOffline, Return, session, loop, caller, locals, tally
    <3>4. QED
      BY <3>1, <3>2, <3>3
  <2>2. SetTypes'
    BY <1>4 DEF ProbeFails, Planned, GoOffline, Return, session, loop, caller, locals, tally
  <2>3. CountTypes'
    <3>1. /\ wave' \in {wave, 0} /\ stagnant' \in {stagnant, 0} /\ seen' \in {seen, 0}
          /\ discoveries' \in {discoveries, 0} /\ UNCHANGED <<findings, requests, syntheses>>
      BY <1>4 DEF ProbeFails, Planned, GoOffline, Return, session, loop, caller, locals, tally
    <3>2. QED
      BY <3>1
  <2>4. QED
    BY <2>1, <2>2, <2>3, TypesMade
<1>5. CASE LLMPlans
  BY <1>5 DEF LLMPlans, Planned, session, tally
<1>6. CASE LLMPlanningFails
  BY <1>6 DEF LLMPlanningFails, Planned, GoOffline, session, tally
<1>7. CASE Answer
  <2>1. FlagTypes'
    BY <1>7 DEF Answer, Return, session, tally
  <2>2. SetTypes'
    BY <1>7 DEF Answer, Return, session, tally
  <2>3. CountTypes'
    BY <1>7 DEF Answer, Return, session, tally
  <2>4. QED
    BY <2>1, <2>2, <2>3, TypesMade
<1>8. CASE BeginWave
  BY <1>8 DEF BeginWave, session, caller, tally
<1>9. CASE NoMoreWaves
  BY <1>9 DEF NoMoreWaves, session, loop, caller, locals, tally
<1>10. CASE WaveEnds
  <2>1. /\ findings' \in 0 .. MaxDiscoveries /\ discoveries' \in 0 .. MaxDiscoveries
    <3>1. PICK found \in 0 .. 1, port \in 0 .. 1 :
            /\ findings' = findings + found /\ discoveries' = discoveries + found + port
            /\ findings' <= MaxDiscoveries /\ discoveries' <= MaxDiscoveries
      BY <1>10 DEF WaveEnds
    <3>2. QED
      BY <3>1
  <2>2. executed' \subseteq Commands /\ ran' \subseteq Commands /\ again' \subseteq Commands
    BY <1>10, StepsOfWave
  <2>3. wave' \in 0 .. MaxWaves /\ stagnant' \in 0 .. PlateauAfter /\ plan' \subseteq Commands
    <3>1. wave < MaxWaves /\ wave' \in {wave, wave + 1} /\ plan' \in {plan, {}}
      BY <1>10, HowWavesEnd
    <3>2. stagnant' \in 0 .. PlateauAfter
      BY <1>10, HowWavesEnd
    <3>3. QED
      BY <3>1, <3>2
  <2>4. guarded' \in BOOLEAN
    BY <1>10, HowWavesEnd
  <2>5. pc' \in {"concluding", "analysing", "wave"} /\ seen' = findings'
    BY <1>10, HowWavesEnd
  <2>6. UNCHANGED <<mode, provider, monitored, requests, required, known, connected, planner,
                    failed, syntheses>>
    BY <1>10, HowWavesEnd
  <2>7. FlagTypes'
    BY <2>4, <2>5, <2>6
  <2>8. SetTypes' /\ CountTypes'
    BY <2>1, <2>2, <2>3, <2>5, <2>6
  <2>9. QED
    BY <2>7, <2>8, TypesMade
<1>11. CASE WaveCancelled
  <2>1. FlagTypes'
    BY <1>11 DEF WaveCancelled, Return, session, tally
  <2>2. SetTypes'
    BY <1>11 DEF WaveCancelled, Return, session, tally
  <2>3. CountTypes'
    BY <1>11 DEF WaveCancelled, Return, session, tally
  <2>4. QED
    BY <2>1, <2>2, <2>3, TypesMade
<1>12. CASE AnalysisProposes
  <2>1. FlagTypes'
    BY <1>12 DEF AnalysisProposes, session, caller, tally
  <2>2. SetTypes'
    BY <1>12 DEF AnalysisProposes, session, caller, tally
  <2>3. CountTypes'
    BY <1>12 DEF AnalysisProposes, session, caller, tally
  <2>4. QED
    BY <2>1, <2>2, <2>3, TypesMade
<1>13. CASE AnalysisCompletes
  <2>1. FlagTypes'
    BY <1>13 DEF AnalysisCompletes, session, caller
  <2>2. SetTypes'
    BY <1>13 DEF AnalysisCompletes, session, caller
  <2>3. CountTypes'
    BY <1>13 DEF AnalysisCompletes, session, caller
  <2>4. QED
    BY <2>1, <2>2, <2>3, TypesMade
<1>14. CASE AnalysisFails
  <2>1. FlagTypes'
    BY <1>14 DEF AnalysisFails, Return, session, tally
  <2>2. SetTypes'
    BY <1>14 DEF AnalysisFails, Return, session, tally
  <2>3. CountTypes'
    BY <1>14 DEF AnalysisFails, Return, session, tally
  <2>4. QED
    BY <2>1, <2>2, <2>3, TypesMade
<1>15. CASE Conclude
  <2>1. FlagTypes'
    BY <1>15 DEF Conclude, Return, session
  <2>2. SetTypes'
    BY <1>15 DEF Conclude, Return, session
  <2>3. CountTypes'
    BY <1>15 DEF Conclude, Return, session
  <2>4. QED
    BY <2>1, <2>2, <2>3, TypesMade
<1>16. CASE Surroundings
  <2>1. mode' \in Modes /\ provider' \in {"auto", "named", "registry"} /\ monitored' = monitored
    BY <1>16 DEF Surroundings, ModeCommand, ModelCommand, ResetCommand, MonitorSwitches,
                 SubagentReports, session
  <2>2. findings' \in 0 .. MaxDiscoveries /\ discoveries' \in 0 .. MaxDiscoveries
    BY <1>16 DEF Surroundings, ModeCommand, ModelCommand, ResetCommand, MonitorSwitches,
                 SubagentReports, session, locals, caller
  <2>3. QED
    BY <1>16, <2>1, <2>2, SurroundingsSpare
<1>17. CASE UNCHANGED agentVars
  BY <1>17 DEF agentVars, session, loop, caller, locals, tally
<1>18. QED
  BY <1>1, <1>2, <1>3, <1>4, <1>5, <1>6, <1>7, <1>8, <1>9, <1>10, <1>11, <1>12, <1>13, <1>14, <1>15, <1>16, <1>17
     DEF AgentNext, RequestStep

LEMMA RunsStep ==
  ASSUME AgentInv, [AgentNext]_agentVars
  PROVE  RunsAreRemembered' /\ NothingRunsAgain'
<1> USE Bounds DEF AgentInv, AgentTypeOK, RunsAreRemembered, NothingRunsAgain, StartsClean
<1>1. CASE StartRequest
  BY <1>1 DEF StartRequest, session, loop, caller, locals, tally
<1>2. CASE RegistryPipeline
  BY <1>2 DEF RegistryPipeline, Return, session, tally
<1>3. CASE ProbeAnswers
  BY <1>3 DEF ProbeAnswers, session, loop, tally
<1>4. CASE ProbeFails
  BY <1>4 DEF ProbeFails, Planned, GoOffline, Return, session, loop, caller, locals, tally
<1>5. CASE LLMPlans
  BY <1>5 DEF LLMPlans, Planned, session, tally
<1>6. CASE LLMPlanningFails
  BY <1>6 DEF LLMPlanningFails, Planned, GoOffline, session, tally
<1>7. CASE Answer
  BY <1>7 DEF Answer, Return, session, tally
<1>8. CASE BeginWave
  BY <1>8 DEF BeginWave, session, caller, tally
<1>9. CASE NoMoreWaves
  BY <1>9 DEF NoMoreWaves, session, loop, caller, locals, tally
<1>10. CASE WaveEnds
  BY <1>10, StepsOfWave, HowWavesEnd
<1>11. CASE WaveCancelled
  BY <1>11 DEF WaveCancelled, Return, session, tally
<1>12. CASE AnalysisProposes
  BY <1>12 DEF AnalysisProposes, session, caller, tally
<1>13. CASE AnalysisCompletes
  BY <1>13 DEF AnalysisCompletes, session, caller
<1>14. CASE AnalysisFails
  BY <1>14 DEF AnalysisFails, Return, session, tally
<1>15. CASE Conclude
  BY <1>15 DEF Conclude, Return, session
<1>16. CASE Surroundings
  BY <1>16, SurroundingsSpare
<1>17. CASE UNCHANGED agentVars
  BY <1>17 DEF agentVars, session, loop, caller, locals, tally
<1>18. QED
  BY <1>1, <1>2, <1>3, <1>4, <1>5, <1>6, <1>7, <1>8, <1>9, <1>10, <1>11, <1>12, <1>13, <1>14, <1>15, <1>16, <1>17
     DEF AgentNext, RequestStep

\* The arithmetic of one wave: p is PlateauAfter, t and d the discoveries that
\* were taken before it and after it.
LEMMA FirstPays ==
  ASSUME NEW p \in Nat, NEW s \in Nat, NEW d \in Nat
  PROVE  0 + 1 <= 1 + s + p * d
<1>1. p * d \in Nat
  OBVIOUS
<1>2. QED
  BY <1>1

LEMMA StagnantPays ==
  ASSUME NEW p \in Nat, NEW w \in Nat, NEW s \in Nat, NEW d \in Int, w <= 1 + s + p * d
  PROVE  w + 1 <= 1 + (s + 1) + p * d
<1>1. p * d \in Int
  OBVIOUS
<1>2. QED
  BY <1>1

LEMMA DiscoveryPays ==
  ASSUME NEW p \in Nat, NEW w \in Nat, NEW s \in Nat, NEW t \in Int, NEW d \in Int,
         w <= 1 + s + p * t, s < p, t + 1 <= d
  PROVE  w + 1 <= 1 + 0 + p * d
<1>1. p * t \in Int /\ p * d \in Int
  OBVIOUS
<1>2. p * t + p <= p * d
  BY OneMorePays
<1>3. QED
  BY <1>1, <1>2

\* A wave that is stagnant found nothing and nothing was reported since the last
\* one; any other one takes a discovery that no earlier wave took.
LEMMA WaveIsEarned ==
  ASSUME AgentInv, WaveEnds
  PROVE  /\ seen' = findings'
         /\ wave + 1 <= 1 + stagnant' + PlateauAfter * discoveries'
<1>1. /\ wave \in Nat /\ stagnant \in Nat /\ findings \in Nat /\ discoveries \in Nat
      /\ seen \in Nat /\ PlateauAfter \in Nat
  BY Bounds DEF AgentInv, AgentTypeOK
<1>2. stagnant < PlateauAfter /\ seen' = findings'
  BY HowWavesEnd DEF AgentInv
<1>3. PICK found \in 0 .. 1, port \in 0 .. 1 :
        /\ findings' = findings + found /\ discoveries' = discoveries + found + port
        /\ stagnant' = IF port = 0 /\ findings' <= seen /\ wave > 0 THEN stagnant + 1 ELSE 0
  BY DEF WaveEnds
<1>4. CASE wave = 0
  <2>1. stagnant' = 0 /\ discoveries' \in Nat
    BY <1>1, <1>3, <1>4
  <2>2. QED
    BY <1>1, <1>2, <1>4, <2>1, FirstPays
<1>5. CASE wave > 0
  <2>1. seen <= findings /\ wave <= 1 + stagnant + PlateauAfter * Taken
    BY <1>5 DEF AgentInv, WavesAreEarned, Looping, Waves, WaveEnds
  <2>2. Taken \in Int /\ discoveries' \in Int
    BY <1>1, <1>3 DEF Taken
  <2>3. CASE port = 0 /\ findings' <= seen
    <3>1. stagnant' = stagnant + 1 /\ Taken = discoveries'
      BY <1>1, <1>3, <1>5, <2>1, <2>3 DEF Taken
    <3>2. wave + 1 <= 1 + (stagnant + 1) + PlateauAfter * discoveries'
      BY <1>1, <2>1, <2>2, <3>1, StagnantPays
    <3>3. QED
      BY <1>2, <3>1, <3>2
  <2>4. CASE ~ (port = 0 /\ findings' <= seen)
    <3>1. stagnant' = 0 /\ Taken + 1 <= discoveries'
      BY <1>1, <1>3, <2>1, <2>4 DEF Taken
    <3>2. wave + 1 <= 1 + 0 + PlateauAfter * discoveries'
      BY <1>1, <1>2, <2>1, <2>2, <3>1, DiscoveryPays
    <3>3. QED
      BY <1>2, <3>1, <3>2
  <2>5. QED
    BY <2>3, <2>4
<1>6. QED
  BY <1>1, <1>4, <1>5

LEMMA EarnedStep ==
  ASSUME AgentInv, [AgentNext]_agentVars
  PROVE  WavesAreEarned'
<1> USE DEF AgentInv
<1>1. CASE StartRequest
  BY <1>1 DEF StartRequest, session, loop, caller, locals, tally, WavesAreEarned, Looping
<1>2. CASE RegistryPipeline
  BY <1>2 DEF RegistryPipeline, Return, session, tally, WavesAreEarned, Looping
<1>3. CASE ProbeAnswers
  BY <1>3 DEF ProbeAnswers, session, loop, tally, WavesAreEarned, Looping
<1>4. CASE ProbeFails
  <2>1. Looping' => Waves' = 0
    BY <1>4 DEF ProbeFails, Planned, GoOffline, Return, session, loop, caller, locals, tally, StartsClean, Looping, Waves
  <2>2. QED
    BY <2>1 DEF WavesAreEarned
<1>5. CASE LLMPlans
  <2>1. Looping' => Waves' = 0
    BY <1>5 DEF LLMPlans, Planned, session, tally, StartsClean, Looping, Waves
  <2>2. QED
    BY <2>1 DEF WavesAreEarned
<1>6. CASE LLMPlanningFails
  <2>1. Looping' => Waves' = 0
    BY <1>6 DEF LLMPlanningFails, Planned, GoOffline, session, tally, StartsClean, Looping, Waves
  <2>2. QED
    BY <2>1 DEF WavesAreEarned
<1>7. CASE Answer
  BY <1>7 DEF Answer, Return, session, tally, WavesAreEarned, Looping
<1>8. CASE BeginWave
  <2>1. /\ Waves' = Waves /\ Taken' = Taken
        /\ UNCHANGED <<stagnant, seen, findings>>
    BY <1>8 DEF BeginWave, session, caller, loop, tally, Waves, Taken
  <2>2. Looping
    BY <1>8 DEF BeginWave, Looping
  <2>3. QED
    BY <2>1, <2>2 DEF WavesAreEarned
<1>9. CASE NoMoreWaves
  BY <1>9 DEF NoMoreWaves, session, loop, caller, locals, tally, WavesAreEarned, Looping
<1>10. CASE WaveEnds
  <2>1. Looping' => Waves' = wave + 1
    BY <1>10, HowWavesEnd DEF Looping, Waves
  <2>2. Taken' = discoveries' /\ seen' <= findings'
    <3>1. findings' \in Nat /\ discoveries' \in Nat
      BY TypesStep DEF AgentTypeOK
    <3>2. seen' = findings'
      BY <1>10, WaveIsEarned
    <3>3. PICK f \in Nat, d \in Nat : findings' = f /\ discoveries' = d
      BY <3>1
    <3>4. QED
      BY <3>2, <3>3 DEF Taken
  <2>3. QED
    BY <1>10, <2>1, <2>2, WaveIsEarned DEF WavesAreEarned
<1>11. CASE WaveCancelled
  BY <1>11 DEF WaveCancelled, Return, session, tally, WavesAreEarned, Looping
<1>12. CASE AnalysisProposes
  <2>1. /\ Waves' = Waves /\ Taken' = Taken
        /\ UNCHANGED <<stagnant, seen, findings>>
    BY <1>12 DEF AnalysisProposes, session, caller, loop, tally, Waves, Taken
  <2>2. Looping
    BY <1>12 DEF AnalysisProposes, Looping
  <2>3. QED
    BY <2>1, <2>2 DEF WavesAreEarned
<1>13. CASE AnalysisCompletes
  <2>1. /\ Waves' = Waves /\ Taken' = Taken
        /\ UNCHANGED <<stagnant, seen, findings>>
    BY <1>13 DEF AnalysisCompletes, session, caller, loop, Waves, Taken
  <2>2. Looping
    BY <1>13 DEF AnalysisCompletes, Looping
  <2>3. QED
    BY <2>1, <2>2 DEF WavesAreEarned
<1>14. CASE AnalysisFails
  BY <1>14 DEF AnalysisFails, Return, session, tally, WavesAreEarned, Looping
<1>15. CASE Conclude
  BY <1>15 DEF Conclude, Return, session, WavesAreEarned, Looping
<1>16. CASE Surroundings
  <2>1. pc' = pc /\ Waves' = Waves /\ UNCHANGED <<seen, stagnant>>
    BY <1>16, SurroundingsSpare DEF Waves
  <2>2. CASE pc = "idle"
    BY <2>1, <2>2 DEF WavesAreEarned, Looping
  <2>3. CASE pc # "idle"
    <3>1. /\ discoveries' - discoveries = findings' - findings
          /\ discoveries' >= discoveries
      BY <1>16, <2>3, SurroundingsSpare
    <3>2. /\ discoveries \in Nat /\ discoveries' \in Nat /\ findings \in Nat /\ findings' \in Nat
          /\ seen \in Nat
      BY TypesStep DEF AgentTypeOK
    <3>3. Taken' = Taken /\ findings' >= findings
      <4>1. PICK f \in Nat, d \in Nat : findings' = f /\ discoveries' = d
        BY <3>2
      <4>2. seen' = seen
        BY <2>1
      <4>3. QED
        BY <3>1, <3>2, <4>1, <4>2 DEF Taken
    <3>4. seen <= findings => seen' <= findings'
      BY <2>1, <3>2, <3>3
    <3>5. QED
      BY <2>1, <3>3, <3>4 DEF WavesAreEarned, Looping
  <2>4. QED
    BY <2>2, <2>3
<1>17. CASE UNCHANGED agentVars
  BY <1>17 DEF agentVars, session, loop, caller, locals, tally, WavesAreEarned, Looping, Waves, Taken
<1>18. QED
  BY <1>1, <1>2, <1>3, <1>4, <1>5, <1>6, <1>7, <1>8, <1>9, <1>10, <1>11, <1>12, <1>13, <1>14, <1>15, <1>16, <1>17
     DEF AgentNext, RequestStep

\* The arithmetic of WavesPayOff: at the start, in the loop and from then on.
LEMMA ZeroPaysOff ==
  ASSUME NEW p \in Nat, NEW d \in Nat
  PROVE  0 + 1 <= (p + 1) + p * d
<1>1. p * d \in Nat
  OBVIOUS
<1>2. QED
  BY <1>1

LEMMA LoopPaysOff ==
  ASSUME NEW p \in Nat, NEW w \in Nat, NEW s \in Nat, NEW t \in Int, NEW d \in Int,
         w <= 1 + s + p * t, s < p, t <= d
  PROVE  w + 1 <= (p + 1) + p * d
<1>1. p * t \in Int /\ p * d \in Int /\ p * t <= p * d
  BY MorePays
<1>2. QED
  BY <1>1

LEMMA WavePaysOff ==
  ASSUME NEW p \in Nat, NEW w \in Nat, NEW s \in Nat, NEW d \in Int,
         w + 1 <= 1 + s + p * d, s <= p
  PROVE  w + 1 <= (p + 1) + p * d
<1>1. p * d \in Int
  OBVIOUS
<1>2. QED
  BY <1>1

LEMMA StillPaysOff ==
  ASSUME NEW p \in Nat, NEW w \in Nat, NEW d \in Int, NEW e \in Int,
         w + 1 <= (p + 1) + p * d, d <= e
  PROVE  w + 1 <= (p + 1) + p * e
<1>1. p * d \in Int /\ p * e \in Int /\ p * d <= p * e
  BY MorePays
<1>2. QED
  BY <1>1

\* The bound follows from what the waves of the loop took, and holds on after it.
LEMMA PayOffStep ==
  ASSUME AgentInv, [AgentNext]_agentVars
  PROVE  WavesPayOff'
<1>1. /\ wave \in Nat /\ wave' \in Nat /\ stagnant' \in Nat
      /\ discoveries \in Nat /\ discoveries' \in Nat /\ findings' \in Nat /\ seen' \in Nat
  BY TypesStep DEF AgentInv, AgentTypeOK
<1>2. PICK w \in Nat, s \in Nat, d \in Nat, f \in Nat, n \in Nat, p \in Nat :
        /\ wave' = w /\ stagnant' = s /\ discoveries' = d /\ findings' = f /\ seen' = n
        /\ PlateauAfter = p
  BY <1>1, Bounds
<1>3. SUFFICES w + 1 <= (p + 1) + p * d
  BY <1>2 DEF WavesPayOff
<1>4. CASE w = 0
  BY <1>4, ZeroPaysOff
<1>5. CASE Looping' /\ w > 0
  <2>1. PICK k \in Nat : Waves' = k /\ w <= k
    BY <1>2 DEF Waves
  <2>2. k > 0 /\ Taken' = d - (f - n)
    BY <1>2, <1>5, <2>1 DEF Taken
  <2>3. PICK t \in Int : Taken' = t /\ t = d - (f - n)
    BY <2>2
  <2>4. n <= f /\ k <= 1 + s + p * t
    BY <1>2, <1>5, <2>1, <2>2, <2>3, EarnedStep DEF WavesAreEarned
  <2>5. s < p
    BY <1>2, <1>5, LimitsStep DEF BelowLimits
  <2>6. k + 1 <= (p + 1) + p * d
    BY <2>3, <2>4, <2>5, LoopPaysOff
  <2>7. p * d \in Nat
    OBVIOUS
  <2>8. QED
    BY <2>1, <2>6, <2>7
<1>6. CASE WaveEnds /\ ~Looping'
  <2>1. w = wave /\ s <= p
    BY <1>2, <1>6, HowWavesEnd DEF AgentInv, Looping
  <2>2. wave + 1 <= 1 + s + p * d
    BY <1>2, <1>6, WaveIsEarned
  <2>3. QED
    BY <2>1, <2>2, WavePaysOff
<1>7. CASE w = wave /\ d >= discoveries
  <2>1. wave + 1 <= (p + 1) + p * discoveries
    BY <1>2 DEF AgentInv, WavesPayOff
  <2>2. QED
    BY <1>1, <1>7, <2>1, StillPaysOff
<1>8. CASE Surroundings
  <2>1. w = wave /\ (pc # "idle" => d >= discoveries)
    BY <1>2, <1>8, SurroundingsSpare DEF AgentInv
  <2>2. pc = "idle" => wave = 0
    BY DEF AgentInv, StartsClean
  <2>3. QED
    BY <1>4, <1>7, <2>1, <2>2
<1>9. CASE RegistryPipeline \/ Answer \/ WaveCancelled \/ AnalysisFails \/ Conclude
  <2>1. wave' = 0
    BY <1>9 DEF RegistryPipeline, Answer, WaveCancelled, AnalysisFails, Conclude, Return
  <2>2. QED
    BY <1>2, <1>4, <2>1
<1>10. CASE StartRequest \/ ProbeAnswers \/ LLMPlans \/ LLMPlanningFails \/ BeginWave \/ NoMoreWaves
  <2>1. wave' = wave /\ discoveries' = discoveries
    <3>1. CASE StartRequest \/ BeginWave \/ NoMoreWaves
      BY <3>1 DEF StartRequest, BeginWave, NoMoreWaves, locals, caller, loop
    <3>2. CASE ProbeAnswers \/ LLMPlans \/ LLMPlanningFails
      BY <3>2 DEF ProbeAnswers, LLMPlans, LLMPlanningFails, Planned, loop
    <3>3. QED
      BY <1>10, <3>1, <3>2
  <2>2. QED
    BY <1>1, <1>2, <1>7, <2>1
<1>11. CASE AnalysisProposes \/ AnalysisCompletes
  <2>1. Looping'
    BY <1>11 DEF AnalysisProposes, AnalysisCompletes, Looping
  <2>2. QED
    BY <1>4, <1>5, <2>1
<1>12. CASE UNCHANGED agentVars
  BY <1>1, <1>2, <1>7, <1>12 DEF agentVars, locals, caller, loop
<1>13. CASE WaveEnds
  BY <1>4, <1>5, <1>6, <1>13
<1>14. required \in BOOLEAN
  BY DEF AgentInv, AgentTypeOK
<1>15. CASE ProbeFails
  <2>1. CASE required
    BY <1>2, <1>4, <1>15, <2>1 DEF ProbeFails, Return
  <2>2. CASE ~required
    <3>1. wave' = wave /\ discoveries' = discoveries
      BY <1>15, <2>2 DEF ProbeFails, Planned, locals, caller, loop
    <3>2. QED
      BY <1>1, <1>2, <1>7, <3>1
  <2>3. QED
    BY <1>14, <2>1, <2>2
<1>16. CASE RequestStep
  BY <1>9, <1>10, <1>11, <1>13, <1>15, <1>16 DEF RequestStep
<1>17. CASE StartRequest
  BY <1>10, <1>17
<1>18. QED
  BY <1>8, <1>12, <1>16, <1>17 DEF AgentNext

-----------------------------------------------------------------------------
LEMMA AgentInit_Inv == AgentInit => AgentInv
<1> SUFFICES ASSUME AgentInit PROVE AgentInv
  OBVIOUS
<1> USE Bounds DEF AgentInit
<1>1. AgentTypeOK
  <2>1. mode \in Modes /\ provider \in {"auto", "named", "registry"} /\ monitored \in BOOLEAN
    OBVIOUS
  <2>2. FlagTypes
    BY <2>1 DEF FlagTypes
  <2>3. SetTypes
    BY DEF SetTypes
  <2>4. CountTypes
    BY DEF CountTypes
  <2>5. QED
    BY <2>2, <2>3, <2>4 DEF FlagTypes, SetTypes, CountTypes, AgentTypeOK
<1>2. StartsClean /\ BelowLimits /\ FailureDisconnects /\ SynthesisIsLast
  BY DEF StartsClean, BelowLimits, FailureDisconnects, SynthesisIsLast, Looping
<1>3. RunsAreRemembered /\ NothingRunsAgain /\ WavesAreEarned
  BY DEF RunsAreRemembered, NothingRunsAgain, WavesAreEarned, Looping
<1>4. WavesPayOff
  BY ZeroPaysOff DEF WavesPayOff
<1>5. QED
  BY <1>1, <1>2, <1>3, <1>4 DEF AgentInv

LEMMA AgentNext_Inv == AgentInv /\ [AgentNext]_agentVars => AgentInv'
<1> SUFFICES ASSUME AgentInv, [AgentNext]_agentVars PROVE AgentInv'
  OBVIOUS
<1> QED
  BY TypesStep, CleanStep, LimitsStep, FailureStep, SynthesisStep, RunsStep, EarnedStep, PayOffStep
     DEF AgentInv

\* The invariant on which the theorems rest.
THEOREM AgentInvariant == AgentSpec => []AgentInv
  BY AgentInit_Inv, AgentNext_Inv, PTL DEF AgentSpec

\* The types, and with them the hard limit of waves.
THEOREM AgentTypes == AgentSpec => []AgentTypeOK
<1>1. AgentInv => AgentTypeOK
  BY DEF AgentInv
<1>2. QED
  BY <1>1, AgentInvariant, PTL

\* What a wave of a request executed is not executed for a later proposal of it,
\* for every set of commands and whatever the plans and the reviews make of them.
THEOREM CommandsRunOnce == AgentSpec => []NothingRunsAgain
<1>1. AgentInv => NothingRunsAgain
  BY DEF AgentInv
<1>2. QED
  BY <1>1, AgentInvariant, PTL

\* Waves are bounded by what is discovered, for every bound of the plateau.
THEOREM WavesAreBounded == AgentSpec => []WavesPayOff
<1>1. AgentInv => WavesPayOff
  BY DEF AgentInv
<1>2. QED
  BY <1>1, AgentInvariant, PTL

\* After a failed call, and after its synthesis, a request asks no more.
THEOREM AsksAreOver == AgentSpec => []AsksNoMore
<1>1. AgentInv => AsksNoMore
  BY DEF AgentInv, FailureDisconnects, SynthesisIsLast, StartsClean, AsksNoMore
<1>2. QED
  BY <1>1, AgentInvariant, PTL

-----------------------------------------------------------------------------
\* The steps a request may still take: three for each wave that is left.
StepsLeft ==
  CASE pc = "idle" -> 0
    [] pc \in {"registry", "answering", "concluding"} -> 1
    [] pc = "analysing" -> 3 * (MaxWaves - wave)
    [] pc = "executing" -> 3 * (MaxWaves - wave) + 1
    [] pc = "wave" -> 3 * (MaxWaves - wave) + 2
    [] pc = "planning" -> 3 * MaxWaves + 3
    [] pc = "probing" -> 3 * MaxWaves + 4

\* Where a step leads to.
LEMMA ReturnsIdle == ASSUME Return PROVE pc' = "idle"
  BY DEF Return

LEMMA PlannedLeads ==
  ASSUME NEW who, Planned(who)
  PROVE  pc' \in {"answering", "wave"} /\ wave' = wave
  BY DEF Planned

LEMMA RequestStepLeads ==
  ASSUME AgentInv, RequestStep
  PROVE  \/ pc # "idle" /\ pc' = "idle"
         \/ pc = "probing" /\ pc' \in {"planning", "registry", "answering"}
         \/ pc = "probing" /\ pc' = "wave" /\ wave' = wave
         \/ pc = "planning" /\ pc' = "answering"
         \/ pc = "planning" /\ pc' = "wave" /\ wave' = wave
         \/ pc = "wave" /\ pc' = "executing" /\ wave' = wave
         \/ pc \in {"wave", "executing"} /\ pc' = "concluding"
         \/ pc = "executing" /\ pc' = "analysing" /\ wave' = wave
         \/ pc \in {"executing", "analysing"} /\ pc' = "wave" /\ wave' = wave + 1
<1>1. CASE RegistryPipeline \/ Answer \/ WaveCancelled \/ AnalysisFails \/ Conclude
  BY <1>1, ReturnsIdle DEF RegistryPipeline, Answer, WaveCancelled, AnalysisFails, Conclude
<1>2. CASE ProbeAnswers
  BY <1>2 DEF ProbeAnswers
<1>3. CASE ProbeFails
  <2>1. CASE required
    BY <1>3, <2>1, ReturnsIdle DEF ProbeFails
  <2>2. CASE ~required /\ mode = "integrated" /\ known
    BY <1>3, <2>2 DEF ProbeFails
  <2>3. CASE ~required /\ ~(mode = "integrated" /\ known)
    BY <1>3, <2>3, PlannedLeads DEF ProbeFails
  <2> QED
    BY <2>1, <2>2, <2>3
<1>4. CASE LLMPlans \/ LLMPlanningFails
  BY <1>4, PlannedLeads DEF LLMPlans, LLMPlanningFails
<1>5. CASE BeginWave \/ NoMoreWaves
  BY <1>5 DEF BeginWave, NoMoreWaves
<1>6. CASE WaveEnds
  BY <1>6, HowWavesEnd DEF AgentInv
<1>7. CASE AnalysisProposes \/ AnalysisCompletes
  BY <1>7 DEF AnalysisProposes, AnalysisCompletes
<1> QED
  BY <1>1, <1>2, <1>3, <1>4, <1>5, <1>6, <1>7 DEF RequestStep

LEMMA StepsLeftNumber ==
  ASSUME AgentInv
  PROVE  StepsLeft \in 0 .. 3 * MaxWaves + 4 /\ (StepsLeft = 0 <=> pc = "idle")
<1>1. MaxWaves \in Nat /\ wave \in 0 .. MaxWaves
  BY Bounds DEF AgentInv, AgentTypeOK
<1>2. pc \in {"executing", "analysing"} => wave < MaxWaves
  BY DEF AgentInv, BelowLimits
<1>3. pc \in {"idle", "probing", "planning", "answering", "wave", "executing", "analysing",
              "concluding", "registry"}
  BY DEF AgentInv, AgentTypeOK
<1> QED
  BY <1>1, <1>2, <1>3 DEF StepsLeft

LEMMA RequestStepCounts ==
  ASSUME AgentInv, RequestStep
  PROVE  StepsLeft' < StepsLeft
<1>1. MaxWaves \in Nat /\ MaxWaves > 0 /\ wave \in 0 .. MaxWaves
  BY Bounds DEF AgentInv, AgentTypeOK
<1>2. pc \in {"executing", "analysing"} => wave < MaxWaves
  BY DEF AgentInv, BelowLimits
<1>3. pc \in {"probing", "planning"} => wave = 0
  BY DEF AgentInv, StartsClean
<1>4. pc \in {"idle", "probing", "planning", "answering", "wave", "executing", "analysing",
              "concluding", "registry"}
  BY DEF AgentInv, AgentTypeOK
<1>5. CASE pc # "idle" /\ pc' = "idle"
  BY <1>1, <1>2, <1>4, <1>5 DEF StepsLeft
<1>6. CASE pc = "probing" /\ \/ pc' \in {"planning", "registry", "answering"}
                             \/ pc' = "wave" /\ wave' = wave
  BY <1>1, <1>3, <1>6 DEF StepsLeft
<1>7. CASE pc = "planning" /\ \/ pc' = "answering"
                              \/ pc' = "wave" /\ wave' = wave
  BY <1>1, <1>3, <1>7 DEF StepsLeft
<1>8. CASE pc = "wave" /\ pc' = "executing" /\ wave' = wave
  BY <1>1, <1>8 DEF StepsLeft
<1>9. CASE pc \in {"wave", "executing"} /\ pc' = "concluding"
  BY <1>1, <1>2, <1>9 DEF StepsLeft
<1>10. CASE pc = "executing" /\ pc' = "analysing" /\ wave' = wave
  BY <1>1, <1>10 DEF StepsLeft
<1>11. CASE pc \in {"executing", "analysing"} /\ pc' = "wave" /\ wave' = wave + 1
  BY <1>1, <1>2, <1>11 DEF StepsLeft
<1> QED
  BY <1>5, <1>6, <1>7, <1>8, <1>9, <1>10, <1>11, RequestStepLeads

\* Every request is over after at most 3 * MaxWaves + 4 steps of its own, whatever
\* the LLM proposes: each step takes one of those that are left, and neither the
\* user nor the monitor nor a subagent gives one back.
THEOREM RequestsAreShort ==
  AgentSpec => /\ [](StepsLeft \in 0 .. 3 * MaxWaves + 4 /\ (StepsLeft = 0 <=> pc = "idle"))
               /\ [][/\ RequestStep => StepsLeft' < StepsLeft
                     /\ Surroundings => StepsLeft' = StepsLeft]_agentVars
<1>1. AgentInv /\ Surroundings => StepsLeft' = StepsLeft
  BY SurroundingsSpare DEF AgentInv, StepsLeft
<1>2. AgentInv /\ [AgentNext]_agentVars
        => [/\ RequestStep => StepsLeft' < StepsLeft
            /\ Surroundings => StepsLeft' = StepsLeft]_agentVars
  BY <1>1, RequestStepCounts
<1> QED
  BY <1>2, StepsLeftNumber, AgentInvariant, PTL DEF AgentSpec
=============================================================================
