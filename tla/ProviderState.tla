---------------------------- MODULE ProviderState ----------------------------
(***************************************************************************)
(* The cooldowns of the LLM providers (ProviderStateManager of             *)
(* providers/state.py).  A process has two managers on one file,           *)
(* provider_state.json: that of the ProviderManager singleton, which is    *)
(* told of failed calls only (chat/openai_compat.py), and that of the      *)
(* chat, which is told of plans that succeeded and decides which providers *)
(* are skipped (chat/engine.py).  Each reads the file when it is made and  *)
(* rewrites all of it when it changes something.  The time an entry of     *)
(* _disabled expires is kept as the ticks that are left, and a count above *)
(* the number of steps, which selects the last step, as that number.       *)
(***************************************************************************)
EXTENDS Naturals, Sequences

CONSTANTS
  Providers,
  CooldownSteps,  \* COOLDOWN_STEPS in ticks (30, 60 and 300 s in the code)
  MaxCooldown     \* the longest of them

ASSUME CooldownAssumption ==
  /\ CooldownSteps \in Seq(Nat) /\ CooldownSteps # <<>>
  /\ MaxCooldown \in Nat
  /\ \A i \in 1 .. Len(CooldownSteps) : CooldownSteps[i] <= MaxCooldown

Managers == {"singleton", "chat"}

\* What is left of an entry: 0 when it has expired, Absent when there is none.
Absent == MaxCooldown + 1
NoEntries == [left |-> [p \in Providers |-> Absent], count |-> [p \in Providers |-> 0]]

VARIABLES
  loaded,  \* the managers the process has made
  memory,  \* their dictionaries: [left |-> _disabled, count |-> _failure_counts]
  file,    \* provider_state.json
  quiet    \* history: ticks since a failure of each provider was recorded, counted
           \* up to Absent

providerVars == <<loaded, memory, file, quiet>>

ProviderInit ==
  /\ loaded = {}
  /\ memory = [m \in Managers |-> NoEntries]
  /\ file = NoEntries
  /\ quiet = [p \in Providers |-> Absent]

\* __init__ and _load.
Load(m) ==
  /\ m \notin loaded
  /\ loaded' = loaded \cup {m}
  /\ memory' = [memory EXCEPT ![m] = file]
  /\ UNCHANGED <<file, quiet>>

\* save: the file may stay as it was, or be left half-written, which a later load
\* takes for empty.
Store(entries) == file' \in {entries, file, NoEntries}

\* Variant: a further failure adds to the cooldown that is running.
CooldownAdded(entries, p) ==
  LET count == IF entries.count[p] < Len(CooldownSteps) THEN entries.count[p] + 1
               ELSE Len(CooldownSteps)
      running == IF entries.left[p] = Absent THEN 0 ELSE entries.left[p]
  IN [left |-> [entries.left EXCEPT ![p] = running + CooldownSteps[count]],
      count |-> [entries.count EXCEPT ![p] = count]]

\* record_failure on the dictionaries, with _compute_cooldown.
Failure(entries, p) ==
  LET count == IF entries.count[p] < Len(CooldownSteps) THEN entries.count[p] + 1
               ELSE Len(CooldownSteps)
  IN [left |-> [entries.left EXCEPT ![p] = CooldownSteps[count]],
      count |-> [entries.count EXCEPT ![p] = count]]

\* What record_success and an expired entry leave.
Cleared(entries, p) ==
  [left |-> [entries.left EXCEPT ![p] = Absent], count |-> [entries.count EXCEPT ![p] = 0]]

\* The adapter reports each failed attempt of a call.
RecordFailure(p) ==
  /\ "singleton" \in loaded
  /\ memory' = [memory EXCEPT !["singleton"] = Failure(@, p)]
  /\ Store(memory'["singleton"])
  /\ quiet' = [quiet EXCEPT ![p] = 0]
  /\ UNCHANGED loaded

\* A plan of the LLM arrived.
RecordSuccess(p) ==
  /\ "chat" \in loaded
  /\ memory' = [memory EXCEPT !["chat"] = Cleared(@, p)]
  /\ Store(memory'["chat"])
  /\ UNCHANGED <<loaded, quiet>>

\* is_disabled on an entry that has expired; on others it only answers.
LooksAtExpired(p) ==
  /\ "chat" \in loaded
  /\ memory["chat"].left[p] = 0
  /\ memory' = [memory EXCEPT !["chat"] = Cleared(@, p)]
  /\ Store(memory'["chat"])
  /\ UNCHANGED <<loaded, quiet>>

ProcessExits ==
  /\ loaded' = {}
  /\ memory' = [m \in Managers |-> NoEntries]
  /\ UNCHANGED <<file, quiet>>

Aged(entries) ==
  [left |-> [p \in Providers |-> IF entries.left[p] \in 1 .. MaxCooldown THEN entries.left[p] - 1
                                 ELSE entries.left[p]],
   count |-> entries.count]

Elapse ==
  /\ memory' = [m \in Managers |-> Aged(memory[m])]
  /\ file' = Aged(file)
  /\ quiet' = [p \in Providers |-> IF quiet[p] < Absent THEN quiet[p] + 1 ELSE Absent]
  /\ UNCHANGED loaded

-----------------------------------------------------------------------------
ProviderNext ==
  \/ \E m \in Managers : Load(m)
  \/ \E p \in Providers : RecordFailure(p) \/ RecordSuccess(p) \/ LooksAtExpired(p)
  \/ ProcessExits \/ Elapse

ProviderSpec == ProviderInit /\ [][ProviderNext]_providerVars

-----------------------------------------------------------------------------
Entries ==
  [left : [Providers -> 0 .. Absent], count : [Providers -> 0 .. Len(CooldownSteps)]]

\* Type invariant.
ProviderTypeOK ==
  /\ loaded \subseteq Managers
  /\ memory \in [Managers -> Entries]
  /\ file \in Entries
  /\ quiet \in [Providers -> 0 .. Absent]

InCooldown(entries) ==
  \A p \in Providers :
    entries.left[p] \in 1 .. MaxCooldown =>
      /\ entries.count[p] > 0
      /\ entries.left[p] + quiet[p] <= CooldownSteps[entries.count[p]]

\* A provider is skipped only for the step its failures earned, from the last
\* failure that was recorded: neither the manager that knows of successes only,
\* nor a restart, nor a half-written file makes a cooldown longer or gives one to
\* a provider that has none, and an entry and its count stay together.
SkippedOnlyInCooldown ==
  InCooldown(file) /\ \A m \in Managers : InCooldown(memory[m])
=============================================================================
