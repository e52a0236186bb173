---------------------------- MODULE Connectivity ----------------------------
(***************************************************************************)
(* The connectivity monitor of a chat (connectivity.py): a task that tries *)
(* its targets in turn until one answers, keeps two counters over all      *)
(* checks, and tells the session when its state changes.  The user's       *)
(* commands change the mode between two tries.  Of a request the mode only *)
(* sees that it may go offline too, so none is made here.                  *)
(***************************************************************************)
EXTENDS ChatAgent

CONSTANTS
  Targets,       \* number of targets (3 in the code)
  OfflineAfter,  \* failures in a row (3 in the code)
  OnlineAfter    \* answers in a row (2 in the code)

ASSUME ConnectivityAssumption == {Targets, OfflineAfter, OnlineAfter} \subseteq Nat \ {0}

VARIABLES
  state,      \* _state
  failures,   \* _consecutive_failures, counted up to OfflineAfter
  successes,  \* _consecutive_successes, counted up to OnlineAfter
  target,     \* the target that is tried; 0 between two checks
  network,    \* "up": the first target answers, "down": none does, "mixed": any may
  chosen      \* history: the user gave a command since the state became "offline"

networkVars == <<state, failures, successes, target, network, chosen>>

NetworkInit ==
  /\ state = "unknown"
  /\ failures = 0 /\ successes = 0
  /\ target = IF monitored THEN 1 ELSE 0
  /\ network \in {"up", "down", "mixed"}
  /\ chosen = FALSE

\* The check interval is over.
Wake ==
  /\ monitored
  /\ target = 0
  /\ target' = 1
  /\ UNCHANGED <<agentVars, state, failures, successes, network, chosen>>

\* Variant: the session is told only when it was online before.
UpdateFromOnline(new) ==
  /\ state' = new
  /\ IF new = "offline" /\ state = "online" /\ mode # "offline"
       THEN MonitorSwitches ELSE UNCHANGED agentVars
  /\ chosen' = IF new = "offline" /\ state # "offline" THEN FALSE ELSE chosen

\* _update_state and its callback, which has no await.
Update(new) ==
  /\ state' = new
  /\ IF new = "offline" /\ state # "offline" /\ mode # "offline"
       THEN MonitorSwitches ELSE UNCHANGED agentVars
  /\ chosen' = IF new = "offline" /\ state # "offline" THEN FALSE ELSE chosen

\* Variant: the answers are counted anew in every check.
AnswerAlone == failures' = 0 /\ successes' = 1

AnswerCounted ==
  /\ failures' = 0
  /\ successes' = IF successes < OnlineAfter THEN successes + 1 ELSE successes

\* An answer below 500 ends the check.
TargetAnswers ==
  /\ target # 0
  /\ network # "down"
  /\ AnswerCounted
  /\ target' = 0
  /\ Update(IF successes' >= OnlineAfter THEN "online" ELSE "degraded")
  /\ UNCHANGED network

\* The next target, or the end of the check.
GoOn ==
  /\ target' = IF target < Targets THEN target + 1 ELSE 0
  /\ IF target < Targets
       THEN UNCHANGED <<agentVars, state, chosen>>
       ELSE Update(IF failures' >= OfflineAfter THEN "offline" ELSE "degraded")
  /\ UNCHANGED network

\* No connection, or no answer in time.
TargetFails ==
  /\ target # 0
  /\ network = "up" => target > 1
  /\ failures' = IF failures < OfflineAfter THEN failures + 1 ELSE failures
  /\ successes' = 0
  /\ GoOn

\* A server error, or any other exception, counts neither way.
TargetSkipped ==
  /\ target # 0
  /\ network = "mixed" \/ (network = "up" /\ target > 1)
  /\ UNCHANGED <<failures, successes>>
  /\ GoOn

\* /mode, /model, /reset and /load.
UserChooses ==
  /\ ModeCommand \/ ModelCommand \/ ResetCommand
  /\ chosen' = TRUE
  /\ UNCHANGED <<state, failures, successes, target, network>>

NetworkChanges ==
  /\ network' \in {"up", "down", "mixed"}
  /\ UNCHANGED <<agentVars, state, failures, successes, target, chosen>>

-----------------------------------------------------------------------------
MonitorStep == Wake \/ TargetAnswers \/ TargetFails \/ TargetSkipped

NetworkNext == MonitorStep \/ UserChooses \/ NetworkChanges

NetworkSpec == AgentInit /\ NetworkInit /\ [][NetworkNext]_<<agentVars, networkVars>>

-----------------------------------------------------------------------------
\* Type invariant.
NetworkTypeOK ==
  /\ state \in {"unknown", "online", "degraded", "offline"}
  /\ failures \in 0 .. OfflineAfter /\ successes \in 0 .. OnlineAfter
  /\ target \in 0 .. Targets
  /\ target # 0 => monitored
  /\ network \in {"up", "down", "mixed"} /\ chosen \in BOOLEAN

\* While the monitor is offline, the session is in the offline mode unless its
\* user chose another one since: no interleaving of commands and tries, and no
\* state the monitor came from, lets the switch slip.
OfflineIsFollowed == state = "offline" => mode = "offline" \/ chosen

\* A network that stays away is noticed, whatever was counted before, and so is
\* one whose first target answers again: the monitor gets there again and again
\* unless the network changes again and again.  One whose first target does not
\* answer may never be called online, since each check starts with a failure.
NetworkIsNoticed ==
  /\ []<>(monitored /\ network = "down" => state = "offline")
  /\ []<>(monitored /\ network = "up" => state = "online")
=============================================================================
