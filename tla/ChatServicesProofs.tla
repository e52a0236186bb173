-------------------------- MODULE ChatServicesProofs --------------------------
(***************************************************************************)
(* Theorems about the services of a chat, for every number of providers,   *)
(* subagents, tools, trackers and targets and every list of cooldown steps.*)
(*                                                                         *)
(* Providers: what is left of an entry and the time since the last failure *)
(* sum up to the step at most, in each copy of the entries; time keeps the *)
(* sum, a failure makes it the step, and a copy is made of another one or  *)
(* is empty.                                                               *)
(*                                                                         *)
(* Subagents: ids are fresh, an acknowledged cancellation keeps its task   *)
(* from every step that reports, and findings are merged in the step that  *)
(* ends a task.                                                            *)
(*                                                                         *)
(* Tool failures: each copy of the counts stays below what was recorded,   *)
(* which only grows.                                                       *)
(*                                                                         *)
(* Connectivity: the step that makes the monitor offline switches the      *)
(* session, and only a command of the user takes it back.                  *)
(*                                                                         *)
(* Gates: no copy of a window, in a gate or in the file, has more calls of *)
(* an age than passed the limit, and time moves all copies alike.          *)
(*                                                                         *)
(* Session: one part moves in a step, and to the others it is a step of    *)
(* their environment or none; so the session has the behaviours of each,   *)
(* and with them what was proved of each.                                  *)
(***************************************************************************)
EXTENDS ChatServices, ChatAgentProofs, AuditLogProofs, WellFoundedInduction

(***************************************************************************)
(* Providers                                                               *)
(***************************************************************************)
\* InCooldown for any times since the last failures.
Within(entries, elapsed) ==
  \A p \in Providers :
    entries.left[p] \in 1 .. MaxCooldown =>
      /\ entries.count[p] > 0
      /\ entries.left[p] + elapsed[p] <= CooldownSteps[entries.count[p]]

Times == [Providers -> 0 .. Absent]

ProviderInv == ProviderTypeOK /\ SkippedOnlyInCooldown

-----------------------------------------------------------------------------
\* The steps are numbers up to the longest one.
LEMMA StepsAreBounded ==
  /\ MaxCooldown \in Nat /\ Len(CooldownSteps) \in Nat \ {0}
  /\ \A i \in 1 .. Len(CooldownSteps) : CooldownSteps[i] \in 0 .. MaxCooldown
  BY CooldownAssumption

LEMMA EmptyEntries == NoEntries \in Entries /\ \A q \in Times : Within(NoEntries, q)
  BY StepsAreBounded DEF NoEntries, Entries, Within, Absent

\* What a failure makes of a copy: no cooldown is longer than the step of its count.
LEMMA FailureEntries ==
  ASSUME NEW entries \in Entries, NEW p \in Providers
  PROVE  /\ Failure(entries, p) \in Entries
         /\ Failure(entries, p).left[p] = CooldownSteps[Failure(entries, p).count[p]]
         /\ Failure(entries, p).count[p] > 0
         /\ \A q \in Providers \ {p} : /\ Failure(entries, p).left[q] = entries.left[q]
                                       /\ Failure(entries, p).count[q] = entries.count[q]
<1> DEFINE count == IF entries.count[p] < Len(CooldownSteps) THEN entries.count[p] + 1
                    ELSE Len(CooldownSteps)
           new == [left |-> [entries.left EXCEPT ![p] = CooldownSteps[count]],
                   count |-> [entries.count EXCEPT ![p] = count]]
<1>1. Failure(entries, p) = new
  BY DEF Failure
<1>2. /\ entries.left \in [Providers -> 0 .. Absent]
      /\ entries.count \in [Providers -> 0 .. Len(CooldownSteps)]
  BY DEF Entries
<1>3. count \in 1 .. Len(CooldownSteps)
  BY <1>2, StepsAreBounded
<1>4. CooldownSteps[count] \in 0 .. Absent
  BY <1>3, StepsAreBounded DEF Absent
<1> HIDE DEF count
<1>5. new.left \in [Providers -> 0 .. Absent] /\ new.left[p] = CooldownSteps[count]
  BY <1>2, <1>4
<1>6. new.count \in [Providers -> 0 .. Len(CooldownSteps)] /\ new.count[p] = count
  BY <1>2, <1>3
<1>7. \A q \in Providers \ {p} : new.left[q] = entries.left[q] /\ new.count[q] = entries.count[q]
  BY <1>2
<1>8. new \in Entries
  BY <1>5, <1>6 DEF Entries
<1>9. QED
  BY <1>1, <1>3, <1>5, <1>6, <1>7, <1>8

LEMMA ClearedEntries ==
  ASSUME NEW entries \in Entries, NEW p \in Providers, NEW q \in Times, Within(entries, q)
  PROVE  Cleared(entries, p) \in Entries /\ Within(Cleared(entries, p), q)
<1>1. /\ entries.left \in [Providers -> 0 .. Absent]
      /\ entries.count \in [Providers -> 0 .. Len(CooldownSteps)]
  BY DEF Entries
<1>2. Cleared(entries, p) \in Entries
  BY <1>1, StepsAreBounded DEF Cleared, Entries, Absent
<1>3. Within(Cleared(entries, p), q)
  BY <1>1, StepsAreBounded DEF Cleared, Within, Absent
<1>4. QED
  BY <1>2, <1>3

\* A failure of p starts the time of p again, in the copy it is recorded in and
\* for the others.
LEMMA FailureKeeps ==
  ASSUME NEW entries \in Entries, NEW p \in Providers, NEW q \in Times, Within(entries, q)
  PROVE  LET restarted == [q EXCEPT ![p] = 0]
         IN Within(entries, restarted) /\ Within(Failure(entries, p), restarted)
<1> DEFINE restarted == [q EXCEPT ![p] = 0]
<1>1. /\ entries.left \in [Providers -> 0 .. Absent]
      /\ entries.count \in [Providers -> 0 .. Len(CooldownSteps)]
      /\ q \in [Providers -> 0 .. Absent]
  BY DEF Entries, Times
<1>2. restarted[p] = 0 /\ \A r \in Providers \ {p} : restarted[r] = q[r]
  BY <1>1
<1> HIDE DEF restarted
<1>3. Within(entries, restarted)
  <2> SUFFICES ASSUME NEW r \in Providers, entries.left[r] \in 1 .. MaxCooldown
               PROVE  /\ entries.count[r] > 0
                      /\ entries.left[r] + restarted[r] <= CooldownSteps[entries.count[r]]
    BY DEF Within
  <2>1. /\ entries.count[r] > 0
        /\ entries.left[r] + q[r] <= CooldownSteps[entries.count[r]]
    BY DEF Within
  <2>2. CooldownSteps[entries.count[r]] \in Nat /\ q[r] \in Nat
    BY <1>1, <2>1, StepsAreBounded DEF Absent
  <2>3. QED
    BY <1>2, <2>1, <2>2
<1>4. Within(Failure(entries, p), restarted)
  <2> DEFINE new == Failure(entries, p)
  <2>1. /\ new.left[p] = CooldownSteps[new.count[p]] /\ new.count[p] > 0
        /\ \A r \in Providers \ {p} : new.left[r] = entries.left[r] /\ new.count[r] = entries.count[r]
    BY FailureEntries
  <2>2. new.count[p] \in 1 .. Len(CooldownSteps)
    <3>1. new \in Entries
      BY FailureEntries
    <3> HIDE DEF new
    <3>2. new.count[p] \in 0 .. Len(CooldownSteps) /\ Len(CooldownSteps) \in Nat
      BY <3>1, StepsAreBounded DEF Entries
    <3>3. QED
      BY <2>1, <3>2
  <2> HIDE DEF new
  <2>3. new.left[p] + restarted[p] <= CooldownSteps[new.count[p]]
    BY <1>2, <2>1, <2>2, StepsAreBounded
  <2>4. ASSUME NEW r \in Providers \ {p}, new.left[r] \in 1 .. MaxCooldown
        PROVE  new.count[r] > 0 /\ new.left[r] + restarted[r] <= CooldownSteps[new.count[r]]
    BY <1>3, <2>1, <2>4 DEF Within
  <2>5. Within(new, restarted)
    BY <2>1, <2>3, <2>4 DEF Within
  <2>6. QED
    BY <2>5 DEF new
<1>5. QED
  BY <1>3, <1>4 DEF restarted

\* A tick takes from what is left what it adds to the time.
LEMMA AgedKeeps ==
  ASSUME NEW entries \in Entries, NEW q \in Times, Within(entries, q)
  PROVE  LET later == [p \in Providers |-> IF q[p] < Absent THEN q[p] + 1 ELSE Absent]
         IN later \in Times /\ Aged(entries) \in Entries /\ Within(Aged(entries), later)
<1> DEFINE later == [p \in Providers |-> IF q[p] < Absent THEN q[p] + 1 ELSE Absent]
           left == [p \in Providers |-> IF entries.left[p] \in 1 .. MaxCooldown
                                        THEN entries.left[p] - 1 ELSE entries.left[p]]
<1>1. /\ entries.left \in [Providers -> 0 .. Absent]
      /\ entries.count \in [Providers -> 0 .. Len(CooldownSteps)]
      /\ q \in [Providers -> 0 .. Absent]
  BY DEF Entries, Times
<1>2. later \in Times
  BY <1>1, StepsAreBounded DEF Times, Absent
<1>3. left \in [Providers -> 0 .. Absent]
  BY <1>1, StepsAreBounded DEF Absent
<1>4. Aged(entries) = [left |-> left, count |-> entries.count]
  BY DEF Aged
<1>5. Within([left |-> left, count |-> entries.count], later)
  <2> SUFFICES ASSUME NEW p \in Providers, left[p] \in 1 .. MaxCooldown
               PROVE  /\ entries.count[p] > 0
                      /\ left[p] + later[p] <= CooldownSteps[entries.count[p]]
    BY DEF Within
  <2>1. entries.left[p] \in 1 .. MaxCooldown /\ left[p] = entries.left[p] - 1
    BY <1>1, StepsAreBounded DEF Absent
  <2>2. /\ entries.count[p] > 0
        /\ entries.left[p] + q[p] <= CooldownSteps[entries.count[p]]
    BY <2>1 DEF Within
  <2>3. CooldownSteps[entries.count[p]] \in 0 .. MaxCooldown /\ q[p] \in Nat
    BY <1>1, <2>2, StepsAreBounded DEF Absent
  <2>4. q[p] < Absent /\ later[p] = q[p] + 1
    BY <2>1, <2>2, <2>3, StepsAreBounded DEF Absent
  <2>5. QED
    BY <2>1, <2>2, <2>3, <2>4
<1>6. QED
  BY <1>1, <1>2, <1>3, <1>4, <1>5 DEF Entries

-----------------------------------------------------------------------------
LEMMA InvariantParts ==
  ASSUME ProviderInv
  PROVE  /\ quiet \in Times
         /\ file \in Entries /\ Within(file, quiet)
         /\ \A m \in Managers : memory[m] \in Entries /\ Within(memory[m], quiet)
  BY DEF ProviderInv, ProviderTypeOK, SkippedOnlyInCooldown, InCooldown, Within, Times

\* The other way, for the state after a step.
LEMMA InvariantMade ==
  ASSUME loaded' \subseteq Managers, quiet' \in Times,
         file' \in Entries, Within(file', quiet'),
         memory' \in [Managers -> Entries],
         \A m \in Managers : Within(memory'[m], quiet')
  PROVE  ProviderInv'
  BY DEF ProviderInv, ProviderTypeOK, SkippedOnlyInCooldown, InCooldown, Within, Times

LEMMA ProviderInit_Inv == ProviderInit => ProviderInv
<1> SUFFICES ASSUME ProviderInit PROVE ProviderInv
  OBVIOUS
<1>1. quiet \in Times
  BY StepsAreBounded DEF ProviderInit, Times, Absent
<1>2. Within(NoEntries, quiet) /\ NoEntries \in Entries
  BY <1>1, EmptyEntries
<1>3. InCooldown(NoEntries)
  BY <1>2 DEF Within, InCooldown
<1>4. QED
  BY <1>1, <1>2, <1>3 DEF ProviderInit, ProviderInv, ProviderTypeOK, SkippedOnlyInCooldown, Times

\* A manager changes its copy, writes it or not, and the times may start again.
LEMMA SaveKeeps ==
  ASSUME ProviderInv, NEW m \in Managers, NEW entries \in Entries,
         memory' = [memory EXCEPT ![m] = entries], Store(entries),
         UNCHANGED loaded, quiet' \in Times,
         Within(entries, quiet'), Within(file, quiet'),
         \A n \in Managers : Within(memory[n], quiet')
  PROVE  ProviderInv'
<1>1. memory' \in [Managers -> Entries] /\ loaded' \subseteq Managers
  BY DEF ProviderInv, ProviderTypeOK
<1>2. \A n \in Managers : Within(memory'[n], quiet')
  BY DEF ProviderInv, ProviderTypeOK
<1>3. file' \in Entries /\ Within(file', quiet')
  BY EmptyEntries, InvariantParts DEF Store
<1>4. QED
  BY <1>1, <1>2, <1>3, InvariantMade

LEMMA ProviderNext_Inv == ProviderInv /\ [ProviderNext]_providerVars => ProviderInv'
<1> SUFFICES ASSUME ProviderInv, [ProviderNext]_providerVars PROVE ProviderInv'
  OBVIOUS
<1> USE InvariantParts
<1>1. ASSUME NEW m \in Managers, Load(m) PROVE ProviderInv'
  <2>1. /\ loaded' \subseteq Managers /\ quiet' = quiet /\ file' = file
        /\ memory' = [memory EXCEPT ![m] = file]
    BY <1>1 DEF Load, ProviderInv, ProviderTypeOK
  <2>2. memory' \in [Managers -> Entries] /\ \A n \in Managers : Within(memory'[n], quiet')
    BY <2>1 DEF ProviderInv, ProviderTypeOK
  <2>3. QED
    BY <2>1, <2>2, InvariantMade
<1>2. ASSUME NEW p \in Providers, RecordFailure(p) PROVE ProviderInv'
  <2> DEFINE restarted == [quiet EXCEPT ![p] = 0]
             entries == Failure(memory["singleton"], p)
  <2>1. /\ memory' = [memory EXCEPT !["singleton"] = entries]
        /\ memory'["singleton"] = entries /\ Store(entries)
        /\ quiet' = restarted /\ UNCHANGED loaded
    BY <1>2 DEF RecordFailure, ProviderInv, ProviderTypeOK, Managers
  <2>2. restarted \in Times
    BY StepsAreBounded DEF Times, Absent
  <2>3. entries \in Entries /\ Within(entries, restarted) /\ Within(file, restarted)
    BY FailureEntries, FailureKeeps DEF Managers
  <2>4. \A n \in Managers : Within(memory[n], restarted)
    BY FailureKeeps
  <2>5. QED
    BY <2>1, <2>2, <2>3, <2>4, SaveKeeps DEF Managers
<1>3. ASSUME NEW p \in Providers, RecordSuccess(p) \/ LooksAtExpired(p) PROVE ProviderInv'
  <2> DEFINE entries == Cleared(memory["chat"], p)
  <2>1. /\ memory' = [memory EXCEPT !["chat"] = entries] /\ Store(entries)
        /\ UNCHANGED <<loaded, quiet>>
    BY <1>3 DEF RecordSuccess, LooksAtExpired, ProviderInv, ProviderTypeOK, Managers
  <2>2. entries \in Entries /\ Within(entries, quiet)
    BY ClearedEntries DEF Managers
  <2>3. QED
    BY <2>1, <2>2, SaveKeeps DEF Managers
<1>4. CASE ProcessExits
  BY <1>4, EmptyEntries, InvariantMade DEF ProcessExits
<1>5. CASE Elapse
  <2> DEFINE later == [p \in Providers |-> IF quiet[p] < Absent THEN quiet[p] + 1 ELSE Absent]
  <2>1. /\ memory' = [m \in Managers |-> Aged(memory[m])]
        /\ file' = Aged(file) /\ quiet' = later /\ loaded' = loaded
    BY <1>5 DEF Elapse
  <2>2. later \in Times /\ Aged(file) \in Entries /\ Within(Aged(file), later)
    BY AgedKeeps
  <2>3. \A m \in Managers : Aged(memory[m]) \in Entries /\ Within(Aged(memory[m]), later)
    BY AgedKeeps
  <2>4. loaded \subseteq Managers
    BY DEF ProviderInv, ProviderTypeOK
  <2> HIDE DEF later
  <2>5. QED
    BY <2>1, <2>2, <2>3, <2>4, InvariantMade
<1>6. CASE UNCHANGED providerVars
  BY <1>6 DEF providerVars, ProviderInv, ProviderTypeOK, SkippedOnlyInCooldown, InCooldown
<1>7. QED
  BY <1>1, <1>2, <1>3, <1>4, <1>5, <1>6 DEF ProviderNext

\* The types, for every set of providers and every list of steps.
THEOREM ProviderTypes == ProviderSpec => []ProviderTypeOK
<1>1. ProviderInv => ProviderTypeOK
  BY DEF ProviderInv
<1>2. QED
  BY <1>1, ProviderInit_Inv, ProviderNext_Inv, PTL DEF ProviderSpec

\* Nobody is skipped longer than the last recorded failure earned, whatever the
\* two managers write over each other.
THEOREM CooldownsAreEarned == ProviderSpec => []SkippedOnlyInCooldown
<1>1. ProviderInv => SkippedOnlyInCooldown
  BY DEF ProviderInv
<1>2. QED
  BY <1>1, ProviderInit_Inv, ProviderNext_Inv, PTL DEF ProviderSpec

-----------------------------------------------------------------------------
(***************************************************************************)
(* Subagents                                                               *)
(***************************************************************************)
\* Ids that were not given yet have neither a task nor a cancellation.
IdsAreFresh ==
  \A a \in Agents : a > counter => status[a] = "none" /\ task[a] = "none" /\ a \notin cancelled

\* What was acknowledged or merged has a task that reports nothing any more.
ReportsOnce ==
  /\ \A a \in cancelled : task[a] \in {"cancelling", "done"}
  /\ \A a \in merged : task[a] = "done"

SubagentInv ==
  /\ SubagentTypeOK /\ FocusIsRegistered /\ CancelIsKept /\ StatusTellsTask
  /\ IdsAreFresh /\ ReportsOnce

-----------------------------------------------------------------------------
\* A nonempty set of numbers has a least one.
LEMMA LeastNumber ==
  ASSUME NEW ids \in SUBSET Nat, ids # {}
  PROVE  \E a \in ids : \A b \in ids : a <= b
<1>1. \E a \in ids : \A b \in ids : ~(<<b, a>> \in OpToRel(<, Nat))
  BY NatLessThanWellFounded, WFMin
<1>2. PICK a \in ids : \A b \in ids : ~(<<b, a>> \in OpToRel(<, Nat))
  BY <1>1
<1>3. \A b \in ids : ~(b < a)
  BY <1>2 DEF OpToRel
<1>4. QED
  BY <1>3

\* The first id of a registry that is not empty is one of its ids.
LEMMA FirstIsMember ==
  ASSUME NEW ids \in SUBSET Nat, ids # {}
  PROVE  First(ids) \in ids
  BY LeastNumber DEF First

\* Where the focus is after records were removed.
LEMMA KeepFocuses ==
  ASSUME SubagentTypeOK, NEW kept \in SUBSET registry, Keep(kept)
  PROVE  /\ registry' \subseteq registry
         /\ FocusIsRegistered'
         /\ active' \in 0 .. counter
<1> USE SubagentAssumption DEF SubagentTypeOK
<1>1. kept # {} => First(kept) \in kept
  BY FirstIsMember
<1>2. kept = {} => First(kept) = 0
  BY DEF First
<1>3. QED
  BY <1>1, <1>2 DEF Keep, FocusIsRegistered

-----------------------------------------------------------------------------
LEMMA SubagentInit_Inv == SubagentInit => SubagentInv
  BY SubagentAssumption
     DEF SubagentInit, SubagentInv, SubagentTypeOK, FocusIsRegistered, CancelIsKept,
         StatusTellsTask, IdsAreFresh, ReportsOnce, Agents, Ended, Unfinished

\* The commands that make records.
LEMMA SpawnKeeps ==
  ASSUME SubagentInv, SpawnInBackground \/ RunInForeground
  PROVE  SubagentInv'
<1> USE SubagentAssumption
<1> DEFINE new == counter + 1
<1>1. /\ counter' = new /\ new \in Agents
      /\ registry' = registry \cup {new}
      /\ active' = IF active = 0 THEN new ELSE active
      /\ status' \in {[status EXCEPT ![new] = s] : s \in {"idle", "planning"}}
      /\ task' \in {[task EXCEPT ![new] = t] : t \in {"created", "starting"}}
      /\ foreground' \in {foreground, new}
      /\ UNCHANGED <<merged, cancelled>>
  BY DEF SpawnInBackground, RunInForeground, SubagentInv, SubagentTypeOK, Agents
<1>2. task[new] = "none" /\ new \notin cancelled /\ new \notin merged
  BY <1>1 DEF SubagentInv, SubagentTypeOK, IdsAreFresh, ReportsOnce
<1>3. SubagentTypeOK'
  <2>1. /\ counter' \in 0 .. MaxAgents
        /\ registry' \subseteq 1 .. counter'
        /\ active' \in 0 .. counter' /\ foreground' \in 0 .. counter'
        /\ merged' \subseteq Agents /\ cancelled' \subseteq Agents
    BY <1>1 DEF SubagentInv, SubagentTypeOK, Agents
  <2>2. status' \in [Agents -> Ended \cup {"none", "idle", "planning", "running"}]
    BY <1>1 DEF SubagentInv, SubagentTypeOK
  <2>3. task' \in [Agents -> Unfinished \cup {"none", "done"}]
    BY <1>1 DEF SubagentInv, SubagentTypeOK, Unfinished
  <2>4. QED
    BY <2>1, <2>2, <2>3 DEF SubagentTypeOK
<1>4. FocusIsRegistered'
  BY <1>1 DEF SubagentInv, SubagentTypeOK, FocusIsRegistered
<1>5. CancelIsKept' /\ StatusTellsTask' /\ ReportsOnce'
  <2>1. /\ status'[new] \in {"idle", "planning"} /\ task'[new] \in {"created", "starting"}
        /\ \A a \in Agents \ {new} : status'[a] = status[a] /\ task'[a] = task[a]
    BY <1>1 DEF SubagentInv, SubagentTypeOK
  <2> HIDE DEF new
  <2>2. /\ cancelled' = cancelled /\ merged' = merged
        /\ cancelled \subseteq Agents \ {new} /\ merged \subseteq Agents \ {new}
    BY <1>1, <1>2 DEF SubagentInv, SubagentTypeOK
  <2>3. CancelIsKept'
    BY <2>1, <2>2 DEF SubagentInv, CancelIsKept
  <2>4. StatusTellsTask'
    <3> SUFFICES ASSUME NEW a \in Agents
                 PROVE  /\ task'[a] = "done" => status'[a] \in Ended
                        /\ status'[a] \in {"completed", "failed"} => task'[a] = "done"
      BY DEF StatusTellsTask
    <3>1. CASE a = new
      BY <2>1, <3>1
    <3>2. CASE a # new
      BY <2>1, <3>2 DEF SubagentInv, StatusTellsTask
    <3>3. QED
      BY <3>1, <3>2
  <2>5. ReportsOnce'
    BY <2>1, <2>2 DEF SubagentInv, ReportsOnce
  <2>6. QED
    BY <2>3, <2>4, <2>5
<1>6. IdsAreFresh'
  BY <1>1 DEF SubagentInv, SubagentTypeOK, IdsAreFresh, Agents
<1>7. QED
  BY <1>3, <1>4, <1>5, <1>6 DEF SubagentInv

\* The commands that move the focus or remove records.
LEMMA FocusKeeps ==
  ASSUME SubagentInv,
         \/ ClearEnded \/ Cycle
         \/ \E a \in Agents : ClearOne(a) \/ Switch(a)
  PROVE  SubagentInv'
<1> USE SubagentAssumption
<1>1. UNCHANGED <<counter, status, task, foreground, merged, cancelled>>
  BY DEF ClearEnded, Cycle, ClearOne, Switch
<1>2. registry' \subseteq registry /\ FocusIsRegistered' /\ active' \in 0 .. counter
  <2>1. CASE ClearEnded
    BY <2>1, KeepFocuses DEF ClearEnded, SubagentInv
  <2>2. CASE \E a \in Agents : ClearOne(a)
    BY <2>2, KeepFocuses DEF ClearOne, SubagentInv
  <2>3. CASE \E a \in Agents : Switch(a)
    BY <2>3 DEF Switch, SubagentInv, SubagentTypeOK, FocusIsRegistered
  <2>4. CASE Cycle
    <3> DEFINE later == {a \in registry : a > active}
    <3>1. later \subseteq registry /\ registry \subseteq 1 .. counter /\ counter \in Nat
      BY DEF SubagentInv, SubagentTypeOK
    <3>2. later # {} => First(later) \in later
      BY <3>1, FirstIsMember
    <3>3. registry # {} => First(registry) \in registry
      BY <3>1, FirstIsMember
    <3>4. registry = {} => later = {} /\ First(registry) = 0
      BY DEF First
    <3>5. active' = (IF later = {} THEN First(registry) ELSE First(later))
      BY <2>4 DEF Cycle
    <3>6. UNCHANGED registry
      BY <2>4 DEF Cycle
    <3> HIDE DEF later
    <3>7. IF registry = {} THEN active' = 0 ELSE active' \in registry
      BY <3>1, <3>2, <3>3, <3>4, <3>5
    <3>8. QED
      <4>1. FocusIsRegistered'
        BY <3>6, <3>7 DEF FocusIsRegistered
      <4>2. active' = 0 \/ active' \in 1 .. counter
        BY <3>1, <3>7
      <4>3. active' \in 0 .. counter
        BY <3>1, <4>2
      <4>4. QED
        BY <3>6, <4>1, <4>3
  <2>5. QED
    BY <2>1, <2>2, <2>3, <2>4
<1>3. SubagentTypeOK'
  BY <1>1, <1>2 DEF SubagentInv, SubagentTypeOK
<1>4. CancelIsKept' /\ StatusTellsTask' /\ ReportsOnce' /\ IdsAreFresh'
  BY <1>1 DEF SubagentInv, CancelIsKept, StatusTellsTask, ReportsOnce, IdsAreFresh
<1>5. QED
  BY <1>2, <1>3, <1>4 DEF SubagentInv

LEMMA CancelKeeps ==
  ASSUME SubagentInv, NEW a \in Agents, Cancel(a)
  PROVE  SubagentInv'
<1> USE SubagentAssumption DEF Cancel
<1>1. a <= counter /\ a \notin merged
  BY DEF SubagentInv, SubagentTypeOK, ReportsOnce, Unfinished
<1>2. SubagentTypeOK'
  BY DEF SubagentInv, SubagentTypeOK, Ended, Unfinished
<1>3. FocusIsRegistered'
  BY DEF SubagentInv, FocusIsRegistered
<1>4. CancelIsKept' /\ StatusTellsTask' /\ ReportsOnce'
  BY <1>1 DEF SubagentInv, SubagentTypeOK, CancelIsKept, StatusTellsTask, ReportsOnce, Agents, Ended
<1>5. IdsAreFresh'
  BY <1>1 DEF SubagentInv, SubagentTypeOK, IdsAreFresh, Agents
<1>6. QED
  BY <1>2, <1>3, <1>4, <1>5 DEF SubagentInv

\* A task that takes a step was made for an id that was given, and is neither
\* cancelled nor over, unless the step is its cancellation.
LEMMA TaskKeeps ==
  ASSUME SubagentInv, NEW a \in Agents, TaskStep(a)
  PROVE  SubagentInv'
<1> USE SubagentAssumption
<1>1. a \in 1 .. counter
  BY DEF SubagentInv, SubagentTypeOK, IdsAreFresh, TaskStep, Begin, Execute, End, Raise, Stop,
         Agents
<1>2. UNCHANGED <<registry, active, counter, cancelled>> /\ foreground' \in {foreground, 0}
  BY DEF TaskStep, Begin, Execute, End, Raise, Stop, Released
<1>3. SubagentTypeOK'
  <2>1. status' \in [Agents -> Ended \cup {"none", "idle", "planning", "running"}]
    BY DEF SubagentInv, SubagentTypeOK, TaskStep, Begin, Execute, End, Raise, Stop, Ended
  <2>2. task' \in [Agents -> Unfinished \cup {"none", "done"}]
    BY DEF SubagentInv, SubagentTypeOK, TaskStep, Begin, Execute, End, Raise, Stop, Unfinished
  <2>3. merged' \subseteq Agents
    BY DEF SubagentInv, SubagentTypeOK, TaskStep, Begin, Execute, End, Raise, Stop
  <2>4. QED
    BY <1>2, <2>1, <2>2, <2>3 DEF SubagentInv, SubagentTypeOK
<1>4. FocusIsRegistered'
  BY <1>2 DEF SubagentInv, FocusIsRegistered
<1>5. CancelIsKept' /\ StatusTellsTask' /\ ReportsOnce'
  <2> USE <1>2 DEF SubagentInv, SubagentTypeOK, CancelIsKept, StatusTellsTask, ReportsOnce, Agents,
                   Ended, Unfinished
  <2>1. CASE Begin(a)
    BY <2>1 DEF Begin
  <2>2. CASE Execute(a)
    BY <2>2 DEF Execute
  <2>3. CASE End(a)
    BY <2>3 DEF End
  <2>4. CASE Raise(a)
    BY <2>4 DEF Raise
  <2>5. CASE Stop(a)
    BY <2>5 DEF Stop
  <2>6. QED
    BY <2>1, <2>2, <2>3, <2>4, <2>5 DEF TaskStep
<1>6. IdsAreFresh'
  BY <1>1, <1>2
     DEF SubagentInv, SubagentTypeOK, IdsAreFresh, TaskStep, Begin, Execute, End, Raise, Stop, Agents
<1>7. QED
  BY <1>3, <1>4, <1>5, <1>6 DEF SubagentInv

LEMMA SubagentNext_Inv == SubagentInv /\ [SubagentNext]_subagentVars => SubagentInv'
<1> SUFFICES ASSUME SubagentInv, [SubagentNext]_subagentVars PROVE SubagentInv'
  OBVIOUS
<1>1. CASE SpawnInBackground \/ RunInForeground
  BY <1>1, SpawnKeeps
<1>2. CASE ClearEnded \/ Cycle \/ \E a \in Agents : ClearOne(a) \/ Switch(a)
  BY <1>2, FocusKeeps
<1>3. CASE \E a \in Agents : Cancel(a)
  BY <1>3, CancelKeeps
<1>4. CASE \E a \in Agents : TaskStep(a)
  BY <1>4, TaskKeeps
<1>5. CASE UNCHANGED subagentVars
  BY <1>5
     DEF subagentVars, SubagentInv, SubagentTypeOK, FocusIsRegistered, CancelIsKept,
         StatusTellsTask, IdsAreFresh, ReportsOnce
<1>6. QED
  BY <1>1, <1>2, <1>3, <1>4, <1>5 DEF SubagentNext

\* The invariant on which the theorems rest.
THEOREM SubagentInvariant == SubagentSpec => []SubagentInv
  BY SubagentInit_Inv, SubagentNext_Inv, PTL DEF SubagentSpec

\* The types, for every number of subagents.
THEOREM SubagentTypes == SubagentSpec => []SubagentTypeOK
<1>1. SubagentInv => SubagentTypeOK
  BY DEF SubagentInv
<1>2. QED
  BY <1>1, SubagentInvariant, PTL

\* /agent kill without an id never acts on a record that was removed.
THEOREM FocusStaysRegistered == SubagentSpec => []FocusIsRegistered
<1>1. SubagentInv => FocusIsRegistered
  BY DEF SubagentInv
<1>2. QED
  BY <1>1, SubagentInvariant, PTL

\* No result follows a cancellation that was acknowledged, a task that is over
\* left an outcome, and one that reported has no task.
THEOREM RecordsStayTrue == SubagentSpec => []RecordsAreTrue
<1>1. SubagentInv => RecordsAreTrue
  BY DEF SubagentInv, RecordsAreTrue
<1>2. QED
  BY <1>1, SubagentInvariant, PTL
-----------------------------------------------------------------------------
\* The chat waits for nobody who cannot go on.
ForegroundGoesOn == foreground # 0 => task[foreground] \in {"starting", "working"}

\* The awaits a task has left.
AwaitsLeft(t) ==
  CASE t = "created" -> 3
    [] t = "starting" -> 2
    [] t \in {"working", "cancelling"} -> 1
    [] t \in {"none", "done"} -> 0

LEMMA ForegroundStep ==
  ASSUME SubagentInv, ForegroundGoesOn, [SubagentNext]_subagentVars
  PROVE  ForegroundGoesOn'
<1>1. counter \in Nat /\ foreground \in 0 .. counter /\ counter \in 0 .. MaxAgents
  BY SubagentAssumption DEF SubagentInv, SubagentTypeOK
<1>2. task \in [Agents -> Unfinished \cup {"none", "done"}]
  BY DEF SubagentInv, SubagentTypeOK
<1>3. CASE foreground' = 0
  BY <1>3 DEF ForegroundGoesOn
<1>4. CASE RunInForeground
  <2>1. foreground' = counter + 1 /\ task' = [task EXCEPT ![counter + 1] = "starting"]
    BY <1>4 DEF RunInForeground
  <2>2. counter + 1 \in Agents
    BY <1>1, <1>4, SubagentAssumption DEF RunInForeground, Agents
  <2> QED
    BY <1>2, <2>1, <2>2 DEF ForegroundGoesOn
<1>5. CASE \E a \in Agents : TaskStep(a)
  <2>1. PICK a \in Agents : TaskStep(a)
    BY <1>5
  <2>2. CASE foreground = 0
    BY <2>1, <2>2, <1>3 DEF TaskStep, Begin, Execute, End, Raise, Stop, Released
  <2>3. CASE foreground # 0 /\ foreground # a
    <3>1. foreground' = foreground
      BY <2>1, <2>3 DEF TaskStep, Begin, Execute, End, Raise, Stop, Released
    <3>2. task' = [task EXCEPT ![a] = task'[a]]
      BY <1>2, <2>1 DEF TaskStep, Begin, Execute, End, Raise, Stop
    <3>3. foreground \in Agents
      BY <1>1, <2>3, SubagentAssumption DEF Agents
    <3>4. task'[foreground] = task[foreground]
      BY <1>2, <2>3, <3>2, <3>3
    <3> QED
      BY <2>3, <3>1, <3>4 DEF ForegroundGoesOn
  <2>4. CASE foreground # 0 /\ foreground = a
    <3>1. task[a] \in {"starting", "working"}
      BY <2>4 DEF ForegroundGoesOn
    <3>2. CASE Execute(a)
      BY <1>2, <2>4, <3>2 DEF Execute, ForegroundGoesOn
    <3>3. CASE End(a) \/ Raise(a)
      BY <1>3, <2>4, <3>3 DEF End, Raise, Released
    <3> QED
      BY <2>1, <3>1, <3>2, <3>3 DEF TaskStep, Begin, Stop
  <2> QED
    BY <2>2, <2>3, <2>4
<1>6. CASE SpawnInBackground \/ ClearEnded \/ Cycle
           \/ \E a \in Agents : Cancel(a) \/ ClearOne(a) \/ Switch(a)
  BY <1>3, <1>6 DEF SpawnInBackground, ClearEnded, Cycle, Cancel, ClearOne, Switch
<1>7. CASE UNCHANGED subagentVars
  BY <1>7 DEF subagentVars, ForegroundGoesOn
<1> QED
  BY <1>4, <1>5, <1>6, <1>7 DEF SubagentNext

\* A task that was spawned is never set back.
LEMMA TaskAdvances ==
  ASSUME SubagentInv, [SubagentNext]_subagentVars, NEW a \in Agents
  PROVE  /\ TaskStep(a) => AwaitsLeft(task'[a]) < AwaitsLeft(task[a])
         /\ task[a] # "none" => AwaitsLeft(task'[a]) <= AwaitsLeft(task[a])
<1>1. task \in [Agents -> Unfinished \cup {"none", "done"}] /\ counter \in 0 .. MaxAgents
  BY DEF SubagentInv, SubagentTypeOK
<1>2. ASSUME NEW b \in Agents, TaskStep(b)
      PROVE  /\ task' = [task EXCEPT ![b] = task'[b]]
             /\ AwaitsLeft(task'[b]) < AwaitsLeft(task[b])
  <2>1. CASE Begin(b)
    BY <1>1, <2>1 DEF Begin, AwaitsLeft
  <2>2. CASE Execute(b)
    BY <1>1, <2>2 DEF Execute, AwaitsLeft
  <2>3. CASE End(b) \/ Raise(b) \/ Stop(b)
    BY <1>1, <2>3 DEF End, Raise, Stop, AwaitsLeft
  <2> QED
    BY <1>2, <2>1, <2>2, <2>3 DEF TaskStep
<1>3. AwaitsLeft(task[a]) \in 0 .. 3
  BY <1>1 DEF AwaitsLeft, Unfinished
<1>4. ASSUME NEW b \in Agents, TaskStep(b)
      PROVE  AwaitsLeft(task'[a]) <= AwaitsLeft(task[a])
  <2>1. CASE a = b
    <3>1. task'[a] \in Unfinished \cup {"none", "done"}
      BY <1>4, TaskKeeps DEF SubagentInv, SubagentTypeOK
    <3>2. AwaitsLeft(task'[a]) \in 0 .. 3
      BY <3>1 DEF AwaitsLeft, Unfinished
    <3> QED
      BY <1>2, <1>3, <1>4, <2>1, <3>2
  <2>2. CASE a # b
    <3>1. task'[a] = task[a]
      BY <1>1, <1>2, <1>4, <2>2
    <3> QED
      BY <1>3, <3>1
  <2> QED
    BY <2>1, <2>2
<1>5. ASSUME SpawnInBackground \/ RunInForeground, task[a] # "none"
      PROVE  AwaitsLeft(task'[a]) <= AwaitsLeft(task[a])
  <2>1. a # counter + 1
    <3>1. a <= counter
      BY <1>1, <1>5, SubagentAssumption DEF SubagentInv, IdsAreFresh, Agents
    <3> QED
      BY <1>1, <3>1, SubagentAssumption DEF Agents
  <2>2. task'[a] = task[a]
    BY <1>1, <1>5, <2>1 DEF SpawnInBackground, RunInForeground
  <2> QED
    BY <1>3, <2>2
<1>6. ASSUME NEW b \in Agents, Cancel(b)
      PROVE  AwaitsLeft(task'[a]) <= AwaitsLeft(task[a])
  <2>1. task[b] \in Unfinished /\ task' = [task EXCEPT ![b] = "cancelling"]
    BY <1>6 DEF Cancel
  <2>2. CASE a = b
    BY <1>1, <2>1, <2>2 DEF AwaitsLeft, Unfinished
  <2>3. CASE a # b
    BY <1>1, <1>3, <2>1, <2>3
  <2> QED
    BY <2>2, <2>3
<1>7. ASSUME \/ ClearEnded \/ Cycle \/ UNCHANGED subagentVars
             \/ \E b \in Agents : ClearOne(b) \/ Switch(b)
      PROVE  AwaitsLeft(task'[a]) <= AwaitsLeft(task[a])
  <2>1. task' = task
    BY <1>7 DEF ClearEnded, Cycle, ClearOne, Switch, subagentVars
  <2> QED
    BY <1>3, <2>1
<1> QED
  BY <1>2, <1>4, <1>5, <1>6, <1>7 DEF SubagentNext

\* Every subagent ends after at most three awaits, and the chat only ever waits for
\* one that has some left: no command sets a task back, and no subagent that is
\* killed or over keeps the chat.
THEOREM SubagentsAdvance ==
  SubagentSpec =>
    /\ []ForegroundGoesOn
    /\ [][\A a \in Agents :
            /\ TaskStep(a) => AwaitsLeft(task'[a]) < AwaitsLeft(task[a])
            /\ task[a] # "none" => AwaitsLeft(task'[a]) <= AwaitsLeft(task[a])]_subagentVars
<1>1. SubagentInit => ForegroundGoesOn
  BY DEF SubagentInit, ForegroundGoesOn
<1>2. SubagentInv /\ ForegroundGoesOn /\ [SubagentNext]_subagentVars => ForegroundGoesOn'
  BY ForegroundStep
<1>3. SubagentInv /\ [SubagentNext]_subagentVars =>
        [\A a \in Agents :
            /\ TaskStep(a) => AwaitsLeft(task'[a]) < AwaitsLeft(task[a])
            /\ task[a] # "none" => AwaitsLeft(task'[a]) <= AwaitsLeft(task[a])]_subagentVars
  BY TaskAdvances
<1> QED
  BY <1>1, <1>2, <1>3, SubagentInvariant, PTL DEF SubagentSpec

(***************************************************************************)
(* Tool failures                                                           *)
(***************************************************************************)
\* Earned for any records.
EarnedBy(counts, records) ==
  /\ \A t \in Tools : counts.count[t] <= records[t]
  /\ counts.stuck = 0 \/ \E t \in Tools : counts.last = {t} /\ counts.stuck <= counts.count[t]

Records == [Tools -> Nat]

FailuresInv == FailuresTypeOK /\ BlockedJustly

-----------------------------------------------------------------------------
LEMMA NoFailuresEarned ==
  ASSUME NEW records \in Records
  PROVE  NoFailures \in Counts /\ EarnedBy(NoFailures, records)
  BY DEF NoFailures, Counts, EarnedBy, Records

LEMMA SucceededEarned ==
  ASSUME NEW records \in Records, NEW counts \in Counts, EarnedBy(counts, records), NEW t \in Tools
  PROVE  Succeeded(counts, t) \in Counts /\ EarnedBy(Succeeded(counts, t), records)
  BY DEF Succeeded, Counts, EarnedBy, Records

\* A count and its record grow together; a call repeated in vain is one of the
\* tool that succeeded last.
LEMMA FailedEarned ==
  ASSUME NEW records \in Records, NEW counts \in Counts, EarnedBy(counts, records),
         NEW t \in Tools, NEW repeated \in BOOLEAN
  PROVE  LET more == [records EXCEPT ![t] = @ + 1]
         IN  Failed(counts, t, repeated) \in Counts /\ EarnedBy(Failed(counts, t, repeated), more)
<1> DEFINE more == [records EXCEPT ![t] = @ + 1]
           new == Failed(counts, t, repeated)
<1>1. /\ new \in Counts
      /\ new.count = [counts.count EXCEPT ![t] = @ + 1]
      /\ new.last = counts.last
      /\ new.stuck = IF counts.last = {t} /\ repeated THEN counts.stuck + 1 ELSE counts.stuck
  BY DEF Failed, Counts
<1>2. \A u \in Tools : new.count[u] <= more[u] /\ counts.count[u] <= new.count[u]
  BY <1>1 DEF Counts, EarnedBy, Records
<1>3. new.stuck = 0 \/ \E u \in Tools : new.last = {u} /\ new.stuck <= new.count[u]
  <2>1. CASE counts.last = {t} /\ repeated
    BY <1>1, <2>1 DEF Counts, EarnedBy
  <2>2. CASE ~(counts.last = {t} /\ repeated)
    BY <1>1, <1>2, <2>2 DEF Counts, EarnedBy
  <2>3. QED
    BY <2>1, <2>2
<1>4. QED
  BY <1>1, <1>2, <1>3 DEF EarnedBy

LEMMA ResetEarned ==
  ASSUME NEW records \in Records, NEW counts \in Counts
  PROVE  Reset(counts) \in Counts /\ EarnedBy(Reset(counts), records)
  BY DEF Reset, Counts, EarnedBy, Records

LEMMA MoreEarned ==
  ASSUME NEW records \in Records, NEW counts \in Counts, EarnedBy(counts, records), NEW t \in Tools
  PROVE  EarnedBy(counts, [records EXCEPT ![t] = @ + 1])
  BY DEF Counts, EarnedBy, Records

\* What the invariant says, of each copy of the counts.
LEMMA FailuresParts ==
  FailuresInv <=>
    /\ trackers \in Seq([counts : Counts, records : 0 .. RecordsPerSave - 1])
    /\ recorded \in [Tools -> 0 .. MaxFailures]
    /\ saved \in Counts /\ EarnedBy(saved, recorded)
    /\ \A k \in DOMAIN trackers : EarnedBy(trackers[k].counts, recorded)
  BY DEF FailuresInv, FailuresTypeOK, BlockedJustly, Earned, EarnedBy

\* A tracker goes on with counts that are earned, saved or not.
LEMMA SaveStateKeeps ==
  ASSUME FailuresInv, NEW k \in DOMAIN trackers, NEW counts \in Counts, SaveState(k, counts),
         recorded' \in [Tools -> 0 .. MaxFailures], EarnedBy(counts, recorded'),
         \A c \in Counts : EarnedBy(c, recorded) => EarnedBy(c, recorded')
  PROVE  FailuresInv'
<1> DEFINE Tracker == [counts : Counts, records : 0 .. RecordsPerSave - 1]
           new == [counts |-> counts, records |-> (trackers[k].records + 1) % RecordsPerSave]
<1>1. /\ trackers \in Seq(Tracker) /\ saved \in Counts /\ EarnedBy(saved, recorded)
      /\ \A i \in DOMAIN trackers : EarnedBy(trackers[i].counts, recorded)
  BY FailuresParts
<1>2. trackers[k] \in Tracker
  <2> HIDE DEF Tracker
  <2>1. QED
    BY <1>1
<1>3. new \in Tracker
  <2>1. trackers[k].records \in Nat
    BY <1>2
  <2>2. (trackers[k].records + 1) % RecordsPerSave \in 0 .. RecordsPerSave - 1
    BY <2>1, TrackerAssumption
  <2>3. QED
    BY <2>2
<1> HIDE DEF new, Tracker
<1>4. trackers' = [trackers EXCEPT ![k] = new]
  BY DEF SaveState, new
<1>5. trackers' \in Seq(Tracker) /\ DOMAIN trackers' = DOMAIN trackers
  BY <1>1, <1>3, <1>4
<1>6. \A i \in DOMAIN trackers' : EarnedBy(trackers'[i].counts, recorded')
  <2> SUFFICES ASSUME NEW i \in DOMAIN trackers PROVE EarnedBy(trackers'[i].counts, recorded')
    BY <1>5
  <2>1. CASE i = k
    <3>1. trackers'[i].counts = counts
      BY <1>4, <2>1 DEF new
    <3>2. QED
      BY <3>1
  <2>2. CASE i # k
    <3>1. trackers'[i] = trackers[i] /\ trackers[i] \in Tracker
      BY <1>1, <1>4, <2>2
    <3>2. trackers[i].counts \in Counts
      BY <3>1 DEF Tracker
    <3>3. QED
      BY <1>1, <3>1, <3>2
  <2>3. QED
    BY <2>1, <2>2
<1>7. saved' \in Counts /\ EarnedBy(saved', recorded')
  <2>1. recorded' \in Records
    BY TrackerAssumption DEF Records
  <2>2. NoFailures \in Counts /\ EarnedBy(NoFailures, recorded')
    BY <2>1, NoFailuresEarned
  <2>3. saved' \in {counts, saved, NoFailures}
    BY DEF SaveState
  <2>4. QED
    BY <1>1, <2>2, <2>3
<1>8. QED
  <2>1. trackers' \in Seq([counts : Counts, records : 0 .. RecordsPerSave - 1])
    BY <1>5 DEF Tracker
  <2>2. QED
    BY <1>6, <1>7, <2>1
       DEF FailuresInv, FailuresTypeOK, BlockedJustly, Earned, EarnedBy

-----------------------------------------------------------------------------
LEMMA FailuresInit_Inv == FailuresInit => FailuresInv
<1> SUFFICES ASSUME FailuresInit PROVE FailuresInv
  OBVIOUS
<1>1. recorded \in [Tools -> 0 .. MaxFailures] /\ recorded \in Records
  BY TrackerAssumption DEF FailuresInit, Records
<1>2. QED
  BY <1>1, NoFailuresEarned, FailuresParts DEF FailuresInit

LEMMA FailuresNext_Inv == FailuresInv /\ [FailuresNext]_failureVars => FailuresInv'
<1> SUFFICES ASSUME FailuresInv, [FailuresNext]_failureVars PROVE FailuresInv'
  OBVIOUS
<1> DEFINE Tracker == [counts : Counts, records : 0 .. RecordsPerSave - 1]
<1>1. /\ trackers \in Seq(Tracker)
      /\ recorded \in [Tools -> 0 .. MaxFailures] /\ recorded \in Records
      /\ saved \in Counts /\ EarnedBy(saved, recorded)
      /\ \A k \in DOMAIN trackers :
           trackers[k].counts \in Counts /\ EarnedBy(trackers[k].counts, recorded)
  <2>1. /\ trackers \in Seq(Tracker) /\ recorded \in [Tools -> 0 .. MaxFailures]
        /\ saved \in Counts /\ EarnedBy(saved, recorded)
        /\ \A k \in DOMAIN trackers : EarnedBy(trackers[k].counts, recorded)
    BY FailuresParts
  <2>2. recorded \in Records
    BY <2>1, TrackerAssumption DEF Records
  <2>3. \A k \in DOMAIN trackers : trackers[k] \in Tracker
    <3> HIDE DEF Tracker
    <3>1. QED
      BY <2>1
  <2>4. \A k \in DOMAIN trackers : trackers[k].counts \in Counts
    BY <2>3
  <2>5. QED
    BY <2>1, <2>2, <2>4
<1>2. CASE NewTracker
  <2> DEFINE new == [counts |-> saved, records |-> 0]
  <2>1. new \in Tracker
    BY <1>1, TrackerAssumption
  <2> HIDE DEF new, Tracker
  <2>2. trackers' = Append(trackers, new) /\ UNCHANGED <<saved, recorded>>
    BY <1>2 DEF NewTracker, new
  <2>3. /\ trackers' \in Seq(Tracker) /\ DOMAIN trackers' = DOMAIN trackers \cup {Len(trackers) + 1}
        /\ \A k \in DOMAIN trackers : trackers'[k] = trackers[k]
        /\ trackers'[Len(trackers) + 1] = new
    BY <1>1, <2>1, <2>2
  <2>4. \A k \in DOMAIN trackers' : EarnedBy(trackers'[k].counts, recorded)
    BY <1>1, <2>3 DEF new
  <2>5. QED
    BY <1>1, <2>2, <2>3, <2>4
       DEF FailuresInv, FailuresTypeOK, BlockedJustly, Earned, EarnedBy, Tracker
<1>3. CASE TrackersEnd
  BY <1>1, <1>3 DEF TrackersEnd, FailuresInv, FailuresTypeOK, BlockedJustly, Earned, EarnedBy
<1>4. ASSUME NEW k \in DOMAIN trackers, ResetTracker(k)
      PROVE  FailuresInv'
  BY <1>1, <1>4, ResetEarned, SaveStateKeeps DEF ResetTracker
<1>5. ASSUME NEW k \in DOMAIN trackers, NEW t \in Tools, RecordSucceeds(k, t)
      PROVE  FailuresInv'
  BY <1>1, <1>5, SucceededEarned, SaveStateKeeps DEF RecordSucceeds
<1>6. ASSUME NEW k \in DOMAIN trackers, NEW t \in Tools, RecordFails(k, t)
      PROVE  FailuresInv'
  <2>1. PICK repeated \in BOOLEAN : SaveState(k, Failed(trackers[k].counts, t, repeated))
    BY <1>6 DEF RecordFails
  <2>2. /\ recorded' = [recorded EXCEPT ![t] = @ + 1]
        /\ recorded' \in [Tools -> 0 .. MaxFailures]
    BY <1>1, <1>6, TrackerAssumption DEF RecordFails
  <2>3. /\ Failed(trackers[k].counts, t, repeated) \in Counts
        /\ EarnedBy(Failed(trackers[k].counts, t, repeated), recorded')
    BY <1>1, <2>2, FailedEarned
  <2>4. \A c \in Counts : EarnedBy(c, recorded) => EarnedBy(c, recorded')
    BY <1>1, <2>2, MoreEarned
  <2>5. QED
    BY <2>1, <2>2, <2>3, <2>4, SaveStateKeeps
<1>7. CASE UNCHANGED failureVars
  BY <1>7 DEF failureVars, FailuresInv, FailuresTypeOK, BlockedJustly, Earned
<1>8. QED
  BY <1>2, <1>3, <1>4, <1>5, <1>6, <1>7 DEF FailuresNext

\* The types of the trackers and their file.
THEOREM FailureTypes == FailuresSpec => []FailuresTypeOK
<1>1. FailuresInv => FailuresTypeOK
  BY DEF FailuresInv
<1>2. QED
  BY <1>1, FailuresInit_Inv, FailuresNext_Inv, PTL DEF FailuresSpec

\* A tool is not refused for failures nobody recorded, and not all tools for one
\* that has not failed as often.
THEOREM RefusalsAreEarned == FailuresSpec => []BlockedJustly
<1>1. FailuresInv => BlockedJustly
  BY DEF FailuresInv
<1>2. QED
  BY <1>1, FailuresInit_Inv, FailuresNext_Inv, PTL DEF FailuresSpec

(***************************************************************************)
(* Connectivity                                                            *)
(***************************************************************************)
\* The state and the session change together.
LEMMA UpdateFollows ==
  ASSUME OfflineIsFollowed, NEW new, Update(new)
  PROVE  OfflineIsFollowed'
<1>1. state' = new
  BY DEF Update
<1>2. CASE new # "offline"
  BY <1>1, <1>2 DEF OfflineIsFollowed
<1>3. CASE new = "offline" /\ state = "offline"
  BY <1>1, <1>3 DEF Update, OfflineIsFollowed, agentVars, session
<1>4. CASE new = "offline" /\ state # "offline" /\ mode # "offline"
  BY <1>1, <1>4 DEF Update, OfflineIsFollowed, MonitorSwitches
<1>5. CASE new = "offline" /\ state # "offline" /\ mode = "offline"
  BY <1>1, <1>5 DEF Update, OfflineIsFollowed, agentVars, session
<1>6. QED
  BY <1>2, <1>3, <1>4, <1>5

LEMMA NetworkNext_Follows ==
  OfflineIsFollowed /\ [NetworkNext]_<<agentVars, networkVars>> => OfflineIsFollowed'
<1> SUFFICES ASSUME OfflineIsFollowed, [NetworkNext]_<<agentVars, networkVars>>
             PROVE  OfflineIsFollowed'
  OBVIOUS
<1>1. CASE Wake \/ NetworkChanges \/ UNCHANGED <<agentVars, networkVars>>
  BY <1>1 DEF Wake, NetworkChanges, networkVars, agentVars, session, OfflineIsFollowed
<1>2. CASE TargetAnswers
  BY <1>2, UpdateFollows DEF TargetAnswers
<1>3. CASE GoOn
  <2>1. CASE target < Targets
    BY <1>3, <2>1 DEF GoOn, agentVars, session, OfflineIsFollowed
  <2>2. CASE ~(target < Targets)
    BY <1>3, <2>2, UpdateFollows DEF GoOn
  <2>3. QED
    BY <2>1, <2>2
<1>4. CASE UserChooses
  BY <1>4 DEF UserChooses, OfflineIsFollowed
<1>5. QED
  BY <1>1, <1>2, <1>3, <1>4 DEF NetworkNext, MonitorStep, TargetFails, TargetSkipped

\* However tries and commands interleave, and whichever state it was in, a monitor
\* that finds the network lost has switched the session.
THEOREM LossIsFollowed == NetworkSpec => []OfflineIsFollowed
<1>1. AgentInit /\ NetworkInit => OfflineIsFollowed
  BY DEF NetworkInit, OfflineIsFollowed
<1>2. QED
  BY <1>1, NetworkNext_Follows, PTL DEF NetworkSpec

(***************************************************************************)
(* Permission gates                                                        *)
(***************************************************************************)
\* What a gate or the file remembers: calls that passed the limit, oldest first,
\* as many as a gate counts and none twice.
Remembered(calls, counts) ==
  /\ calls \in Seq(Ages) /\ OldestFirst(calls) /\ Len(calls) <= Limit
  /\ \A age \in Ages : Count(calls, age) <= counts[age]

GateRecords == [calls : Seq(Ages), dirty : BOOLEAN]

GateInv ==
  /\ gates \in Seq(GateRecords) /\ Len(gates) <= MaxGates
  /\ counted \in [Ages -> 0 .. Limit]
  /\ Remembered(stored, counted)
  /\ \A g \in DOMAIN gates : Remembered(gates[g].calls, counted)

-----------------------------------------------------------------------------
LEMMA GateNumbers ==
  /\ {Limit, Period, SaveEvery, MaxGates} \subseteq Nat \ {0}
  /\ \A age \in Ages : age \in Nat /\ age <= Period - 1
  /\ Ages \subseteq Nat /\ 0 \in Ages /\ Period - 1 \in Ages
  /\ \A age \in Ages : age # 0 => age - 1 \in Ages
  /\ \A age \in Ages : age # Period - 1 => age + 1 \in Ages
  BY GateAssumption DEF Ages

LEMMA CountIsNumber ==
  ASSUME NEW calls \in Seq(Ages), NEW age
  PROVE  /\ IsFiniteSet({i \in DOMAIN calls : calls[i] = age})
         /\ Count(calls, age) \in Nat /\ Count(calls, age) <= Len(calls)
<1> DEFINE found == {i \in 1 .. Len(calls) : calls[i] = age}
<1>1. Len(calls) \in Nat /\ DOMAIN calls = 1 .. Len(calls)
  OBVIOUS
<1>2. IsFiniteSet(1 .. Len(calls)) /\ Cardinality(1 .. Len(calls)) = Len(calls)
  BY <1>1, FS_Interval
<1>3. found \subseteq 1 .. Len(calls)
  OBVIOUS
<1> HIDE DEF found
<1>4. IsFiniteSet(found) /\ Cardinality(found) <= Len(calls)
  BY <1>2, <1>3, FS_Subset
<1>5. Cardinality(found) \in Nat
  BY <1>4, FS_CardinalityType
<1> QED
  BY <1>1, <1>4, <1>5 DEF Count, found

\* The calls that expire next are the first ones.
LEMMA ExpiredAreFirst ==
  ASSUME NEW calls \in Seq(Ages), OldestFirst(calls)
  PROVE  /\ Count(calls, Period - 1) \in 0 .. Len(calls)
         /\ \A i \in 1 .. Len(calls) : calls[i] = Period - 1 <=> i <= Count(calls, Period - 1)
<1> DEFINE past == {i \in 1 .. Len(calls) : calls[i] = Period - 1}
           others == {j \in 1 .. Len(calls) + 1 : j \notin past}
<1>1. Len(calls) \in Nat /\ DOMAIN calls = 1 .. Len(calls)
  OBVIOUS
<1>2. others \in SUBSET Nat /\ others # {}
  <2>1. Len(calls) + 1 \in others
    BY <1>1
  <2> QED
    BY <1>1, <2>1
<1>3. PICK k \in others : \A j \in others : k <= j
  BY <1>2, LeastNumber
<1>4. \A i \in 1 .. Len(calls) : i < k => i \in past
  BY <1>1, <1>3
<1>5. ASSUME NEW i \in 1 .. Len(calls), i >= k
      PROVE  i \notin past
  <2>1. k \in 1 .. Len(calls) /\ calls[k] # Period - 1
    BY <1>1, <1>3, <1>5
  <2>2. calls[k] \in Ages /\ calls[i] \in Ages
    BY <1>1, <2>1
  <2>3. i # k => calls[k] >= calls[i]
    BY <1>1, <1>5, <2>1 DEF OldestFirst
  <2> QED
    <3>1. calls[k] <= Period - 1 /\ calls[k] \in Nat /\ calls[i] \in Nat
      BY <2>2, GateNumbers
    <3>2. calls[i] # Period - 1
      <4> SUFFICES ASSUME calls[i] = Period - 1 PROVE FALSE
        OBVIOUS
      <4>1. i # k /\ calls[k] >= calls[i]
        BY <2>1, <2>3
      <4> QED
        BY <2>1, <3>1, <4>1
    <3> QED
      BY <3>2
<1>6. k \in 1 .. Len(calls) + 1 /\ k - 1 \in Nat
  BY <1>1, <1>3
<1>7. past = 1 .. k - 1
  BY <1>1, <1>4, <1>5, <1>6
<1>8. Count(calls, Period - 1) = Cardinality(past)
  BY <1>1 DEF Count
<1> HIDE DEF past, others
<1>9. Cardinality(past) = k - 1
  BY <1>6, <1>7, FS_Interval
<1>10. \A i \in 1 .. Len(calls) : calls[i] = Period - 1 <=> i \in past
  BY DEF past
<1> QED
  BY <1>1, <1>6, <1>7, <1>8, <1>9, <1>10

\* A tick forgets what is too old, keeps the order and counts nothing twice.
LEMMA OlderRemembers ==
  ASSUME NEW calls \in Seq(Ages), OldestFirst(calls)
  PROVE  /\ Older(calls) \in Seq(Ages) /\ OldestFirst(Older(calls))
         /\ Len(Older(calls)) <= Len(calls)
         /\ \A age \in Ages :
              Count(Older(calls), age) <= IF age = 0 THEN 0 ELSE Count(calls, age - 1)
<1> DEFINE gone == Count(calls, Period - 1)
           left == Len(calls) - gone
           older == [i \in 1 .. left |-> calls[i + gone] + 1]
<1>1. Older(calls) = older
  BY DEF Older, Count
<1>2. Len(calls) \in Nat /\ DOMAIN calls = 1 .. Len(calls) /\ gone \in 0 .. Len(calls)
  BY ExpiredAreFirst
<1>3. \A i \in 1 .. Len(calls) : calls[i] = Period - 1 <=> i <= gone
  BY ExpiredAreFirst
<1> HIDE DEF gone
<1>4. left \in Nat /\ left <= Len(calls)
  BY <1>2
<1>5. \A i \in 1 .. left : i + gone \in 1 .. Len(calls) /\ ~(i + gone <= gone)
  BY <1>2
<1>6. \A i \in 1 .. left : calls[i + gone] \in Ages /\ calls[i + gone] # Period - 1
  BY <1>2, <1>3, <1>5
<1> HIDE DEF left
<1>7. \A i \in 1 .. left : calls[i + gone] + 1 \in Ages
  BY <1>6, GateNumbers
<1>8. older \in Seq(Ages) /\ Len(older) = left /\ DOMAIN older = 1 .. left
  BY <1>4, <1>7
<1>9. OldestFirst(older)
  <2> SUFFICES ASSUME NEW i \in 1 .. left, NEW j \in 1 .. left, i < j
               PROVE  calls[i + gone] + 1 >= calls[j + gone] + 1
    BY <1>8 DEF OldestFirst
  <2>1. i + gone < j + gone
    BY <1>2, <1>4
  <2>2. calls[i + gone] >= calls[j + gone]
    BY <1>2, <1>5, <2>1 DEF OldestFirst
  <2>3. calls[i + gone] \in Nat /\ calls[j + gone] \in Nat
    BY <1>6, GateNumbers
  <2> QED
    BY <2>2, <2>3
<1>10. ASSUME NEW age \in Ages
       PROVE  Count(older, age) <= IF age = 0 THEN 0 ELSE Count(calls, age - 1)
  <2> DEFINE now == {i \in 1 .. left : older[i] = age}
             before == {i \in 1 .. Len(calls) : calls[i] = age - 1}
             shift == [i \in now |-> i + gone]
  <2>1. Count(older, age) = Cardinality(now) /\ Count(calls, age - 1) = Cardinality(before)
    BY <1>2, <1>8 DEF Count
  <2>2. \A i \in now : i \in 1 .. left /\ calls[i + gone] + 1 = age
    OBVIOUS
  <2>3. CASE age = 0
    <3>1. now = {}
      <4> SUFFICES ASSUME NEW i \in now PROVE FALSE
        OBVIOUS
      <4>1. i \in 1 .. left /\ calls[i + gone] + 1 = 0
        BY <2>2, <2>3
      <4>2. calls[i + gone] \in Nat
        BY <1>6, <4>1, GateNumbers
      <4> QED
        BY <4>1, <4>2
    <3> HIDE DEF now
    <3>2. Cardinality(now) = 0
      BY <3>1, FS_EmptySet
    <3> QED
      BY <2>1, <2>3, <3>2
  <2>4. CASE age # 0
    <3>1. \A i \in now : i + gone \in before
      <4> SUFFICES ASSUME NEW i \in now PROVE i + gone \in before
        OBVIOUS
      <4>1. i \in 1 .. left /\ calls[i + gone] + 1 = age
        BY <2>2
      <4>2. calls[i + gone] \in Nat /\ i + gone \in 1 .. Len(calls)
        BY <1>5, <1>6, <4>1, GateNumbers
      <4>3. calls[i + gone] = age - 1
        BY <4>1, <4>2
      <4> QED
        BY <4>2, <4>3
    <3>2. \A i, j \in now : i + gone = j + gone => i = j
      BY <1>2, <1>4
    <3> HIDE DEF now, before
    <3>3. shift \in Injection(now, before)
      BY <3>1, <3>2 DEF Injection, IsInjective
    <3>4. IsFiniteSet(before)
      BY <1>2, CountIsNumber DEF before
    <3>5. Cardinality(now) <= Cardinality(before)
      BY <3>3, <3>4, FS_Injection
    <3> QED
      BY <2>1, <2>4, <3>5
  <2> QED
    BY <2>3, <2>4
<1> QED
  BY <1>1, <1>4, <1>8, <1>9, <1>10

\* A call that passes the limit is the youngest one, and counts once.
LEMMA OneMoreRemembers ==
  ASSUME NEW calls \in Seq(Ages), OldestFirst(calls)
  PROVE  LET more == Append(calls, 0)
         IN  /\ more \in Seq(Ages) /\ OldestFirst(more) /\ Len(more) = Len(calls) + 1
             /\ \A age \in Ages : Count(more, age)
                                    <= IF age = 0 THEN Count(calls, 0) + 1 ELSE Count(calls, age)
<1> DEFINE n == Len(calls)
           more == Append(calls, 0)
<1>1. n \in Nat /\ DOMAIN calls = 1 .. n /\ \A i \in 1 .. n : calls[i] \in Ages
  OBVIOUS
<1>2. /\ more \in Seq(Ages) /\ Len(more) = n + 1 /\ DOMAIN more = 1 .. n + 1
      /\ \A i \in 1 .. n : more[i] = calls[i]
      /\ more[n + 1] = 0
  BY GateNumbers
<1> HIDE DEF more, n
<1>3. OldestFirst(more)
  <2> SUFFICES ASSUME NEW i \in 1 .. n + 1, NEW j \in 1 .. n + 1, i < j
               PROVE  more[i] >= more[j]
    BY <1>2 DEF OldestFirst
  <2>1. i \in 1 .. n
    BY <1>1
  <2>2. CASE j \in 1 .. n
    BY <1>1, <1>2, <2>1, <2>2 DEF OldestFirst
  <2>3. CASE j = n + 1
    <3>1. calls[i] \in Nat
      BY <1>1, <2>1, GateNumbers
    <3> QED
      BY <1>2, <2>1, <2>3, <3>1
  <2> QED
    BY <1>1, <2>2, <2>3
<1>4. ASSUME NEW age \in Ages
      PROVE  Count(more, age) <= IF age = 0 THEN Count(calls, 0) + 1 ELSE Count(calls, age)
  <2> DEFINE before == {i \in 1 .. n : calls[i] = age}
             now == {i \in 1 .. n + 1 : more[i] = age}
  <2>1. Count(more, age) = Cardinality(now) /\ Count(calls, age) = Cardinality(before)
    BY <1>1, <1>2 DEF Count
  <2>2. IsFiniteSet(before) /\ Cardinality(before) \in Nat
    BY <1>1, <2>1, CountIsNumber DEF before
  <2>3. age = 0 => now = before \cup {n + 1}
    BY <1>1, <1>2
  <2>4. age # 0 => now = before
    BY <1>1, <1>2
  <2>5. n + 1 \notin before
    BY <1>1
  <2> HIDE DEF now, before
  <2>6. Cardinality(before \cup {n + 1}) = Cardinality(before) + 1
    BY <2>2, <2>5, FS_AddElement
  <2> QED
    <3>1. CASE age = 0
      <4>1. Cardinality(now) = Cardinality(before) + 1
        BY <2>3, <2>6, <3>1
      <4> QED
        BY <2>1, <2>2, <3>1, <4>1
    <3>2. CASE age # 0
      <4>1. Cardinality(now) = Cardinality(before)
        BY <2>4, <3>2
      <4> QED
        BY <2>1, <2>2, <3>2, <4>1
    <3> QED
      BY <3>1, <3>2
<1> QED
  BY <1>2, <1>3, <1>4 DEF more, n

LEMMA GateInit_Inv == GateInit => GateInv
<1> SUFFICES ASSUME GateInit PROVE GateInv
  OBVIOUS
<1>1. \A age \in Ages : Count(<<>>, age) = 0
  <2>1. \A age : {i \in DOMAIN <<>> : <<>>[i] = age} = {}
    OBVIOUS
  <2> QED
    BY <2>1, FS_EmptySet DEF Count
<1>2. <<>> \in Seq(Ages) /\ Len(<<>>) = 0 /\ OldestFirst(<<>>)
  BY DEF OldestFirst
<1>3. Limit \in Nat /\ MaxGates \in Nat
  BY GateNumbers
<1>4. Remembered(stored, counted)
  BY <1>1, <1>2, <1>3 DEF GateInit, Remembered
<1>5. gates = <<>> /\ counted \in [Ages -> 0 .. Limit]
  BY <1>3 DEF GateInit
<1> QED
  BY <1>3, <1>4, <1>5 DEF GateInv

\* What was remembered still is when the history grows.
LEMMA StillRemembered ==
  ASSUME NEW calls, NEW counts \in [Ages -> Nat], NEW more \in [Ages -> Nat],
         Remembered(calls, counts), \A age \in Ages : counts[age] <= more[age]
  PROVE  Remembered(calls, more)
<1>1. \A age \in Ages : Count(calls, age) \in Nat /\ Count(calls, age) <= counts[age]
  BY CountIsNumber DEF Remembered
<1>2. ASSUME NEW age \in Ages
      PROVE  Count(calls, age) <= more[age]
  <2>1. counts[age] \in Nat /\ more[age] \in Nat /\ counts[age] <= more[age]
    OBVIOUS
  <2> QED
    BY <1>1, <2>1
<1> QED
  BY <1>2 DEF Remembered

\* A tick makes of what is remembered what is remembered a tick later.
LEMMA TickRemembers ==
  ASSUME NEW calls, NEW counts \in [Ages -> 0 .. Limit], Remembered(calls, counts)
  PROVE  LET older == [age \in Ages |-> IF age = 0 THEN 0 ELSE counts[age - 1]]
         IN  older \in [Ages -> 0 .. Limit] /\ Remembered(Older(calls), older)
<1> DEFINE older == [age \in Ages |-> IF age = 0 THEN 0 ELSE counts[age - 1]]
<1>1. /\ calls \in Seq(Ages) /\ OldestFirst(calls) /\ Len(calls) <= Limit /\ Len(calls) \in Nat
      /\ \A age \in Ages : Count(calls, age) <= counts[age]
  BY DEF Remembered
<1>2. /\ Older(calls) \in Seq(Ages) /\ OldestFirst(Older(calls))
      /\ Len(Older(calls)) <= Len(calls)
      /\ \A age \in Ages :
           Count(Older(calls), age) <= IF age = 0 THEN 0 ELSE Count(calls, age - 1)
  BY <1>1, OlderRemembers
<1>3. Limit \in Nat /\ Len(Older(calls)) \in Nat /\ 0 \in 0 .. Limit
  BY <1>2, GateNumbers
<1>4. \A age \in Ages : age # 0 => age - 1 \in Ages
  BY GateNumbers
<1>5. older \in [Ages -> 0 .. Limit]
  BY <1>3, <1>4
<1>6. ASSUME NEW age \in Ages
      PROVE  Count(Older(calls), age) <= older[age]
  <2>1. Count(Older(calls), age) \in Nat
    BY <1>2, CountIsNumber
  <2>2. CASE age = 0
    BY <1>2, <2>2
  <2>3. CASE age # 0
    <3>1. age - 1 \in Ages
      BY <1>4, <2>3
    <3>2. Count(calls, age - 1) \in Nat /\ Count(calls, age - 1) <= counts[age - 1]
      BY <1>1, <3>1, CountIsNumber
    <3>3. counts[age - 1] \in Nat
      BY <1>3, <3>1
    <3>4. Count(Older(calls), age) <= Count(calls, age - 1) /\ older[age] = counts[age - 1]
      BY <1>2, <2>3
    <3> QED
      BY <2>1, <3>2, <3>3, <3>4
  <2> QED
    BY <2>2, <2>3
<1> HIDE DEF older
<1>7. Len(Older(calls)) <= Limit
  BY <1>1, <1>2, <1>3
<1>8. Remembered(Older(calls), older)
  BY <1>2, <1>6, <1>7 DEF Remembered
<1> QED
  BY <1>5, <1>8 DEF older

\* A call that passes the limit is counted in the history.
LEMMA AdmitRemembers ==
  ASSUME NEW calls, NEW counts \in [Ages -> 0 .. Limit], Remembered(calls, counts),
         Len(calls) < Limit
  PROVE  LET raised == [counts EXCEPT ![0] = IF @ < Limit THEN @ + 1 ELSE @]
         IN  /\ raised \in [Ages -> 0 .. Limit]
             /\ \A age \in Ages : counts[age] <= raised[age]
             /\ Remembered(Append(calls, 0), raised)
<1> DEFINE raised == [counts EXCEPT ![0] = IF @ < Limit THEN @ + 1 ELSE @]
           more == Append(calls, 0)
<1>1. /\ calls \in Seq(Ages) /\ OldestFirst(calls) /\ Len(calls) \in Nat
      /\ \A age \in Ages : Count(calls, age) <= counts[age]
  BY DEF Remembered
<1>2. /\ more \in Seq(Ages) /\ OldestFirst(more) /\ Len(more) = Len(calls) + 1
      /\ \A age \in Ages : Count(more, age)
                             <= IF age = 0 THEN Count(calls, 0) + 1 ELSE Count(calls, age)
  BY <1>1, OneMoreRemembers
<1>3. Limit \in Nat /\ 0 \in Ages
  BY GateNumbers
<1>4. /\ raised \in [Ages -> 0 .. Limit]
      /\ raised[0] = IF counts[0] < Limit THEN counts[0] + 1 ELSE counts[0]
      /\ \A age \in Ages : age # 0 => raised[age] = counts[age]
  BY <1>3
<1> HIDE DEF more, raised
<1>5. Len(more) <= Limit /\ Len(more) \in Nat
  BY <1>1, <1>2, <1>3
<1>6. \A age \in Ages : counts[age] \in Nat /\ counts[age] <= Limit
  BY <1>3
<1>7. \A age \in Ages : counts[age] <= raised[age]
  BY <1>3, <1>4, <1>6
<1>8. ASSUME NEW age \in Ages
      PROVE  Count(more, age) <= raised[age]
  <2>1. Count(more, age) \in Nat /\ Count(more, age) <= Len(more)
    BY <1>2, CountIsNumber
  <2>2. Count(calls, age) \in Nat /\ Count(calls, age) <= counts[age]
    BY <1>1, CountIsNumber
  <2>3. CASE age = 0
    <3>1. Count(more, 0) <= Count(calls, 0) + 1
      BY <1>2, <1>3
    <3>2. /\ counts[0] \in Nat /\ counts[0] <= Limit
          /\ raised[0] = IF counts[0] < Limit THEN counts[0] + 1 ELSE counts[0]
      BY <1>3, <1>4, <1>6
    <3> QED
      BY <1>3, <1>5, <2>1, <2>2, <2>3, <3>1, <3>2
  <2>4. CASE age # 0
    <3>1. Count(more, age) <= Count(calls, age) /\ raised[age] = counts[age]
      BY <1>2, <1>4, <2>4
    <3> QED
      BY <1>6, <2>1, <2>2, <3>1
  <2> QED
    BY <2>3, <2>4
<1>9. Remembered(more, raised)
  BY <1>2, <1>5, <1>8 DEF Remembered
<1> QED
  BY <1>4, <1>7, <1>9 DEF more, raised

\* The gates and what they remember.
LEMMA GateParts ==
  ASSUME GateInv
  PROVE  /\ gates \in Seq(GateRecords) /\ Len(gates) \in Nat /\ DOMAIN gates = 1 .. Len(gates)
         /\ MaxGates \in Nat /\ Len(gates) <= MaxGates
         /\ counted \in [Ages -> 0 .. Limit] /\ counted \in [Ages -> Nat]
         /\ Remembered(stored, counted)
         /\ \A g \in 1 .. Len(gates) :
              gates[g] \in GateRecords /\ Remembered(gates[g].calls, counted)
<1>1. gates \in Seq(GateRecords) /\ Len(gates) \in Nat /\ DOMAIN gates = 1 .. Len(gates)
  BY DEF GateInv
<1>2. MaxGates \in Nat /\ Limit \in Nat
  BY GateNumbers
<1>3. counted \in [Ages -> 0 .. Limit] /\ counted \in [Ages -> Nat]
  BY <1>2 DEF GateInv
<1> QED
  BY <1>1, <1>2, <1>3 DEF GateInv

\* A step that changes what the gates remember, gate by gate.
LEMMA GatesMade ==
  ASSUME GateInv, counted' \in [Ages -> 0 .. Limit], Remembered(stored', counted'),
         gates' \in Seq(GateRecords), Len(gates') = Len(gates),
         \A g \in 1 .. Len(gates) : Remembered(gates'[g].calls, counted')
  PROVE  GateInv'
<1>1. DOMAIN gates' = 1 .. Len(gates)
  OBVIOUS
<1> QED
  BY <1>1, GateParts DEF GateInv

LEMMA GateNext_Inv == GateInv /\ [GateNext]_gateVars => GateInv'
<1> SUFFICES ASSUME GateInv, [GateNext]_gateVars PROVE GateInv'
  OBVIOUS
<1>1. CASE NewGate
  <2> DEFINE new == [calls |-> stored, dirty |-> FALSE]
             n == Len(gates)
  <2>1. Remembered(stored, counted) /\ new \in GateRecords /\ new.calls = stored
    BY GateParts DEF GateRecords, Remembered
  <2>2. gates' = Append(gates, new) /\ n < MaxGates /\ stored' = stored /\ counted' = counted
    BY <1>1 DEF NewGate
  <2> HIDE DEF new
  <2>3. /\ gates' \in Seq(GateRecords) /\ Len(gates') = n + 1 /\ DOMAIN gates' = 1 .. n + 1
        /\ \A g \in 1 .. n : gates'[g] = gates[g]
        /\ gates'[n + 1] = new
    BY <2>1, <2>2, GateParts
  <2>4. n \in Nat /\ MaxGates \in Nat
    BY GateParts
  <2>5. ASSUME NEW g \in 1 .. n + 1
        PROVE  Remembered(gates'[g].calls, counted')
    <3>1. CASE g = n + 1
      BY <2>1, <2>2, <2>3, <3>1
    <3>2. CASE g # n + 1
      <4>1. g \in 1 .. n
        BY <2>4, <3>2
      <4> QED
        BY <2>2, <2>3, <4>1, GateParts
    <3> QED
      BY <3>1, <3>2
  <2>6. Len(gates') <= MaxGates
    BY <2>2, <2>3, <2>4
  <2>7. counted' \in [Ages -> 0 .. Limit] /\ Remembered(stored', counted')
    BY <2>1, <2>2, GateParts
  <2> QED
    BY <2>3, <2>5, <2>6, <2>7 DEF GateInv
<1>2. CASE ProcessEnds
  <2>1. gates' = <<>> /\ counted' = counted
    BY <1>2 DEF ProcessEnds
  <2>2. stored' = stored \/ \E g \in 1 .. Len(gates) : stored' = gates[g].calls
    BY <1>2, GateParts DEF ProcessEnds
  <2>3. Remembered(stored', counted') /\ counted' \in [Ages -> 0 .. Limit]
    BY <2>1, <2>2, GateParts
  <2>4. gates' \in Seq(GateRecords) /\ Len(gates') = 0 /\ DOMAIN gates' = {}
    BY <2>1
  <2>5. Len(gates') <= MaxGates
    BY <2>4, GateParts
  <2> QED
    BY <2>3, <2>4, <2>5 DEF GateInv
<1>3. CASE Tick
  <2>1. /\ gates' = [g \in 1 .. Len(gates) |-> [gates[g] EXCEPT !.calls = Older(@)]]
        /\ stored' = Older(stored)
        /\ counted' = [age \in Ages |-> IF age = 0 THEN 0 ELSE counted[age - 1]]
    BY <1>3, GateParts DEF Tick
  <2>2. counted' \in [Ages -> 0 .. Limit] /\ Remembered(stored', counted')
    BY <2>1, TickRemembers, GateParts
  <2>3. ASSUME NEW g \in 1 .. Len(gates)
        PROVE  gates'[g] \in GateRecords /\ Remembered(gates'[g].calls, counted')
    <3>1. gates[g] \in GateRecords /\ Remembered(gates[g].calls, counted)
      BY GateParts
    <3>2. Remembered(Older(gates[g].calls), counted')
      BY <2>1, <3>1, TickRemembers, GateParts
    <3>3. Older(gates[g].calls) \in Seq(Ages)
      BY <3>2 DEF Remembered
    <3>4. gates'[g] = [gates[g] EXCEPT !.calls = Older(@)]
      BY <2>1
    <3>5. gates'[g] \in GateRecords /\ gates'[g].calls = Older(gates[g].calls)
      BY <3>1, <3>3, <3>4 DEF GateRecords
    <3> QED
      BY <3>2, <3>5
  <2>4. gates' \in Seq(GateRecords) /\ Len(gates') = Len(gates)
    <3>1. Len(gates) \in Nat
      BY GateParts
    <3>2. gates' \in [1 .. Len(gates) -> GateRecords]
      BY <2>1, <2>3
    <3> QED
      BY <3>1, <3>2
  <2> QED
    BY <2>2, <2>3, <2>4, GatesMade
<1>4. ASSUME NEW g \in 1 .. Len(gates), Refuse(g)
      PROVE  GateInv'
  <2>1. /\ counted' = counted
        /\ stored' = stored \/ stored' = gates[g].calls
        /\ gates' = gates \/ gates' = [gates EXCEPT ![g].dirty = FALSE]
    BY <1>4 DEF Refuse
  <2>2. Remembered(stored', counted') /\ counted' \in [Ages -> 0 .. Limit]
    BY <2>1, GateParts
  <2>3. [gates[g] EXCEPT !.dirty = FALSE] \in GateRecords
    <3>1. gates[g] \in GateRecords
      BY GateParts
    <3> QED
      BY <3>1 DEF GateRecords
  <2>4. /\ gates' \in Seq(GateRecords) /\ Len(gates') = Len(gates)
        /\ \A h \in 1 .. Len(gates) : gates'[h].calls = gates[h].calls
    <3>1. CASE gates' = gates
      BY <3>1, GateParts
    <3>2. CASE gates' = [gates EXCEPT ![g].dirty = FALSE]
      <4>1. gates' = [gates EXCEPT ![g] = [gates[g] EXCEPT !.dirty = FALSE]]
        BY <3>2
      <4>2. gates' \in Seq(GateRecords) /\ Len(gates') = Len(gates)
        BY <2>3, <4>1, GateParts
      <4>3. \A h \in 1 .. Len(gates) : gates[h] \in GateRecords
        BY GateParts
      <4>4. \A h \in 1 .. Len(gates) : gates'[h].calls = gates[h].calls
        BY <4>1, <4>3, GateParts DEF GateRecords
      <4> QED
        BY <4>2, <4>4
    <3> QED
      BY <2>1, <3>1, <3>2
  <2>5. \A h \in 1 .. Len(gates) : Remembered(gates'[h].calls, counted')
    BY <2>1, <2>4, GateParts
  <2> QED
    BY <2>2, <2>4, <2>5, GatesMade
<1>5. ASSUME NEW g \in 1 .. Len(gates), Admit(g)
      PROVE  GateInv'
  <2> DEFINE more == Append(gates[g].calls, 0)
  <2>1. /\ Len(gates[g].calls) < Limit /\ (stored' = stored \/ stored' = more)
        /\ counted' = [counted EXCEPT ![0] = IF @ < Limit THEN @ + 1 ELSE @]
        /\ \/ gates' = [gates EXCEPT ![g] = [calls |-> more, dirty |-> FALSE]]
           \/ gates' = [gates EXCEPT ![g] =
                          [calls |-> more,
                           dirty |-> IF Len(more) % SaveEvery = 0 THEN @.dirty ELSE TRUE]]
    BY <1>5 DEF Admit
  <2>2. gates[g] \in GateRecords /\ Remembered(gates[g].calls, counted)
    BY GateParts
  <2>3. /\ counted' \in [Ages -> 0 .. Limit]
        /\ \A age \in Ages : counted[age] <= counted'[age]
        /\ Remembered(more, counted')
    BY <2>1, <2>2, AdmitRemembers, GateParts
  <2> HIDE DEF more
  <2>4. PICK dirty \in BOOLEAN : gates' = [gates EXCEPT ![g] = [calls |-> more, dirty |-> dirty]]
    <3>1. gates[g].dirty \in BOOLEAN
      BY <2>2 DEF GateRecords
    <3>2. (IF Len(more) % SaveEvery = 0 THEN gates[g].dirty ELSE TRUE) \in BOOLEAN
      BY <3>1
    <3> QED
      BY <2>1, <3>2
  <2>5. more \in Seq(Ages)
    BY <2>3 DEF Remembered
  <2> DEFINE new == [calls |-> more, dirty |-> dirty]
  <2>6. new \in GateRecords /\ new.calls = more
    BY <2>5 DEF GateRecords
  <2>7. gates' = [gates EXCEPT ![g] = new]
    BY <2>4
  <2> HIDE DEF new
  <2>8. /\ gates' \in Seq(GateRecords) /\ Len(gates') = Len(gates)
        /\ \A h \in 1 .. Len(gates) : gates'[h] = IF h = g THEN new ELSE gates[h]
    BY <2>6, <2>7, GateParts
  <2>9. counted \in [Ages -> Nat] /\ counted' \in [Ages -> Nat]
    BY <2>3, GateNumbers, GateParts
  <2>10. ASSUME NEW calls, Remembered(calls, counted)
         PROVE  Remembered(calls, counted')
    BY <2>3, <2>9, <2>10, StillRemembered
  <2>11. Remembered(stored', counted')
    BY <2>1, <2>3, <2>10, GateParts
  <2>12. \A h \in 1 .. Len(gates) : Remembered(gates'[h].calls, counted')
    BY <2>3, <2>6, <2>8, <2>10, GateParts
  <2> QED
    BY <2>3, <2>8, <2>11, <2>12, GatesMade
<1>6. CASE UNCHANGED gateVars
  BY <1>6 DEF gateVars, GateInv
<1>7. DOMAIN gates = 1 .. Len(gates)
  BY GateParts
<1> QED
  BY <1>1, <1>2, <1>3, <1>4, <1>5, <1>6, <1>7 DEF GateNext

\* Types of the gates, of the file they share and of the history.
THEOREM GateTypes == GateSpec => []GateTypeOK
<1>1. GateInv => GateTypeOK
  <2> SUFFICES ASSUME GateInv PROVE GateTypeOK
    OBVIOUS
  <2>1. gates \in Seq([calls : Seq(Ages), dirty : BOOLEAN]) /\ Len(gates) \in 0 .. MaxGates
    BY GateParts DEF GateRecords
  <2>2. /\ stored \in Seq(Ages) /\ OldestFirst(stored)
        /\ \A g \in DOMAIN gates : OldestFirst(gates[g].calls)
    BY GateParts DEF Remembered
  <2> QED
    BY <2>1, <2>2, GateParts DEF GateTypeOK
<1> QED
  BY <1>1, GateInit_Inv, GateNext_Inv, PTL DEF GateSpec

\* The rate limit of the gates, for every limit, window and order in which
\* gates and processes write and read the file: no gate counts more calls than
\* its limit, and none that did not pass the limit of some gate within the
\* window, whatever the checks of its text made of it then.
THEOREM RefusalsAreDue == GateSpec => []RefusesJustly
<1>1. GateInv => RefusesJustly
  BY DEF GateInv, Remembered, RefusesJustly, WithinLimit, NothingOvercounted
<1> QED
  BY <1>1, GateInit_Inv, GateNext_Inv, PTL DEF GateSpec

(***************************************************************************)
(* The session                                                             *)
(***************************************************************************)
\* While the monitor does not move it has seen nothing.
ChatNetworkInv ==
  /\ NetworkTypeOK /\ OfflineIsFollowed
  /\ part # "network" => state = "unknown"

-----------------------------------------------------------------------------
\* A step of the session is a step of one part, or none of its own.
LEMMA OnePartMoves ==
  ASSUME [ChatNext]_chatVars
  PROVE  /\ UNCHANGED part
         /\ AgentNext \/ NetworkNext \/ UNCHANGED agentVars
         /\ part = "network" => NetworkNext \/ UNCHANGED <<agentVars, networkVars>>
         /\ part # "network" => UNCHANGED networkVars
         /\ ProviderNext \/ UNCHANGED providerVars
         /\ SubagentNext \/ UNCHANGED subagentVars
         /\ GateNext \/ UNCHANGED gateVars
         /\ FailuresNext \/ UNCHANGED failureVars
         /\ Next \/ UNCHANGED vars
<1>1. CASE Requests(AgentNext)
  BY <1>1 DEF Requests, Only
<1>2. CASE Monitor(NetworkNext)
  BY <1>2 DEF Monitor, Only
<1>3. CASE Spawned(SubagentNext)
  BY <1>3 DEF Spawned, Only, sessionVars
<1>4. CASE Only("providers", ProviderNext, <<sessionVars, subagentVars, gateVars, failureVars, vars>>)
  BY <1>4 DEF Only, sessionVars
<1>5. CASE Only("gates", GateNext, <<sessionVars, providerVars, subagentVars, failureVars, vars>>)
  BY <1>5 DEF Only, sessionVars
<1>6. CASE Only("failures", FailuresNext, <<sessionVars, providerVars, subagentVars, gateVars, vars>>)
  BY <1>6 DEF Only, sessionVars
<1>7. CASE Only("audit", Next, <<sessionVars, providerVars, subagentVars, gateVars, failureVars>>)
  BY <1>7 DEF Only, sessionVars
<1>8. CASE UNCHANGED chatVars
  BY <1>8 DEF chatVars, sessionVars
<1> QED
  BY <1>1, <1>2, <1>3, <1>4, <1>5, <1>6, <1>7, <1>8 DEF ChatNext

\* What the monitor and the user's commands do to the session, a request may see
\* any time.
LEMMA UpdateSwitches ==
  ASSUME NEW new, Update(new)
  PROVE  MonitorSwitches \/ UNCHANGED agentVars
  BY DEF Update

LEMMA GoOnSwitches ==
  ASSUME GoOn
  PROVE  MonitorSwitches \/ UNCHANGED agentVars
<1>1. CASE target < Targets
  BY <1>1 DEF GoOn
<1>2. CASE ~(target < Targets)
  BY <1>2, UpdateSwitches DEF GoOn
<1> QED
  BY <1>1, <1>2

LEMMA NetworkIsSurroundings ==
  ASSUME NetworkNext
  PROVE  Surroundings \/ UNCHANGED agentVars
<1>1. CASE Wake \/ NetworkChanges
  BY <1>1 DEF Wake, NetworkChanges
<1>2. CASE TargetAnswers
  BY <1>2, UpdateSwitches DEF TargetAnswers, Surroundings
<1>3. CASE TargetFails \/ TargetSkipped
  BY <1>3, GoOnSwitches DEF TargetFails, TargetSkipped, Surroundings
<1>4. CASE UserChooses
  BY <1>4 DEF UserChooses, Surroundings
<1> QED
  BY <1>1, <1>2, <1>3, <1>4 DEF NetworkNext, MonitorStep

LEMMA AgentMoves == [ChatNext]_chatVars => [AgentNext]_agentVars
  BY OnePartMoves, NetworkIsSurroundings DEF AgentNext

\* The session as its requests see it: whatever the monitor does is one of the
\* choices of their environment.
THEOREM SessionServesRequests == ChatSpec => AgentSpec
<1>1. ChatInit => AgentInit
  BY DEF ChatInit
<1> QED
  BY <1>1, AgentMoves, PTL DEF ChatSpec, AgentSpec

\* Each of the other services runs in a session as it runs alone.
THEOREM SessionServesTheRest ==
  ChatSpec => ProviderSpec /\ SubagentSpec /\ GateSpec /\ FailuresSpec /\ Spec
<1>1. ChatInit => ProviderInit /\ SubagentInit /\ GateInit /\ FailuresInit /\ Init
  BY DEF ChatInit
<1>2. [ChatNext]_chatVars => [ProviderNext]_providerVars /\ [SubagentNext]_subagentVars
  BY OnePartMoves
<1>3. [ChatNext]_chatVars => [GateNext]_gateVars /\ [FailuresNext]_failureVars /\ [Next]_vars
  BY OnePartMoves
<1> QED
  BY <1>1, <1>2, <1>3, PTL DEF ChatSpec, ProviderSpec, SubagentSpec, GateSpec, FailuresSpec, Spec

\* So does the monitor, in the sessions where it moves.
THEOREM SessionServesTheMonitor == ChatSpec /\ part = "network" => NetworkSpec
<1>1. ChatInit => AgentInit /\ NetworkInit
  BY DEF ChatInit
<1>2. part = "network" /\ [ChatNext]_chatVars
        => (part = "network")' /\ [NetworkNext]_<<agentVars, networkVars>>
  BY OnePartMoves
<1> QED
  BY <1>1, <1>2, PTL DEF ChatSpec, NetworkSpec

-----------------------------------------------------------------------------
\* Nothing starts or stops the monitor.
LEMMA MonitorStays ==
  ASSUME [AgentNext]_agentVars
  PROVE  monitored' = monitored
<1>1. CASE Surroundings
  BY <1>1 DEF Surroundings, ModeCommand, ModelCommand, ResetCommand, MonitorSwitches,
              SubagentReports, session
<1>2. CASE StartRequest \/ UNCHANGED agentVars
  BY <1>2 DEF StartRequest, session, agentVars
<1>3. CASE ProbeFails
  <2>1. UNCHANGED session \/ GoOffline
    <3>1. CASE required
      BY <1>3, <3>1 DEF ProbeFails
    <3>2. CASE ~required /\ mode = "integrated" /\ known
      BY <1>3, <3>2 DEF ProbeFails
    <3>3. CASE ~required /\ ~(mode = "integrated" /\ known)
      BY <1>3, <3>3 DEF ProbeFails
    <3> QED
      BY <3>1, <3>2, <3>3
  <2> QED
    BY <2>1 DEF GoOffline, session
<1>4. CASE LLMPlanningFails
  BY <1>4 DEF LLMPlanningFails, GoOffline, session
<1>5. CASE RequestStep /\ ~ProbeFails /\ ~LLMPlanningFails
  BY <1>5 DEF RequestStep, RegistryPipeline, ProbeAnswers, LLMPlans, Answer, BeginWave, NoMoreWaves,
              WaveEnds, WaveCancelled, AnalysisProposes, AnalysisCompletes, AnalysisFails, Conclude,
              session
<1> QED
  BY <1>1, <1>2, <1>3, <1>4, <1>5 DEF AgentNext

LEMMA UpdateTypes ==
  ASSUME NetworkTypeOK, NEW new \in {"online", "degraded", "offline"}, Update(new)
  PROVE  state' \in {"online", "degraded", "offline"} /\ chosen' \in BOOLEAN
  BY DEF Update, NetworkTypeOK

LEMMA GoOnTypes ==
  ASSUME NetworkTypeOK, GoOn
  PROVE  /\ state' \in {"unknown", "online", "degraded", "offline"} /\ chosen' \in BOOLEAN
         /\ target' \in 0 .. Targets /\ network' = network
<1>1. /\ target \in 0 .. Targets /\ Targets \in Nat \ {0}
      /\ state \in {"unknown", "online", "degraded", "offline"} /\ chosen \in BOOLEAN
  BY ConnectivityAssumption DEF NetworkTypeOK
<1>2. target' \in 0 .. Targets /\ network' = network
  BY <1>1 DEF GoOn
<1>3. CASE target < Targets
  BY <1>1, <1>2, <1>3 DEF GoOn
<1>4. CASE ~(target < Targets)
  BY <1>2, <1>4, UpdateTypes DEF GoOn
<1> QED
  BY <1>3, <1>4, <1>2

\* The counters stay within their thresholds, and only a monitor that was started tries.
LEMMA NetworkTypesStep ==
  ASSUME NetworkTypeOK, [NetworkNext]_<<agentVars, networkVars>>
  PROVE  NetworkTypeOK'
<1>1. /\ {Targets, OfflineAfter, OnlineAfter} \subseteq Nat \ {0}
      /\ failures \in 0 .. OfflineAfter /\ successes \in 0 .. OnlineAfter /\ target \in 0 .. Targets
      /\ state \in {"unknown", "online", "degraded", "offline"} /\ chosen \in BOOLEAN
      /\ network \in {"up", "down", "mixed"} /\ (target # 0 => monitored)
  BY ConnectivityAssumption DEF NetworkTypeOK
<1>2. monitored' = monitored
  BY NetworkIsSurroundings, MonitorStays DEF AgentNext, agentVars
<1>3. CASE Wake
  BY <1>1, <1>2, <1>3 DEF Wake, NetworkTypeOK
<1>4. CASE TargetAnswers
  <2>1. state' \in {"online", "degraded", "offline"} /\ chosen' \in BOOLEAN
    BY <1>4, UpdateTypes DEF TargetAnswers
  <2>2. failures' \in 0 .. OfflineAfter /\ successes' \in 0 .. OnlineAfter
    BY <1>1, <1>4 DEF TargetAnswers, AnswerCounted
  <2>3. target' = 0 /\ network' = network
    BY <1>4 DEF TargetAnswers
  <2> QED
    BY <1>1, <1>2, <2>1, <2>2, <2>3 DEF NetworkTypeOK
<1>5. CASE TargetFails \/ TargetSkipped
  <2>1. failures' \in 0 .. OfflineAfter /\ successes' \in 0 .. OnlineAfter
    BY <1>1, <1>5 DEF TargetFails, TargetSkipped
  <2>2. GoOn /\ target # 0
    BY <1>5 DEF TargetFails, TargetSkipped
  <2>3. /\ state' \in {"unknown", "online", "degraded", "offline"} /\ chosen' \in BOOLEAN
        /\ target' \in 0 .. Targets /\ network' = network
    BY <2>2, GoOnTypes
  <2> QED
    BY <1>1, <1>2, <2>1, <2>2, <2>3 DEF NetworkTypeOK
<1>6. CASE UserChooses
  BY <1>1, <1>2, <1>6 DEF UserChooses, NetworkTypeOK
<1>7. CASE NetworkChanges
  BY <1>1, <1>2, <1>7 DEF NetworkChanges, NetworkTypeOK
<1>8. CASE UNCHANGED <<agentVars, networkVars>>
  BY <1>1, <1>2, <1>8 DEF networkVars, NetworkTypeOK
<1> QED
  BY <1>3, <1>4, <1>5, <1>6, <1>7, <1>8 DEF NetworkNext, MonitorStep

LEMMA NetworkInitTypes == NetworkInit => NetworkTypeOK
<1> SUFFICES ASSUME NetworkInit PROVE NetworkTypeOK
  OBVIOUS
<1>1. Targets \in Nat \ {0} /\ OfflineAfter \in Nat \ {0} /\ OnlineAfter \in Nat \ {0}
  BY ConnectivityAssumption
<1>2. 0 \in 0 .. OfflineAfter /\ 0 \in 0 .. OnlineAfter /\ {0, 1} \subseteq 0 .. Targets
  BY <1>1
<1>3. target \in {0, 1} /\ (target # 0 => monitored)
  BY DEF NetworkInit
<1> QED
  BY <1>2, <1>3 DEF NetworkInit, NetworkTypeOK

\* The counters of a monitor stay within the thresholds they are compared with,
\* whatever it tries, and a session without a monitor is never tried for.
THEOREM NetworkTypes == NetworkSpec => []NetworkTypeOK
  BY NetworkInitTypes, NetworkTypesStep, PTL DEF NetworkSpec

-----------------------------------------------------------------------------
\* The steps of the monitor until a loss is noticed: those left of the check, and
\* a check for each failure that is missing.
StepsToLoss ==
  (Targets + 1) * (OfflineAfter - failures) + Targets + 1 - target

\* And until a network whose first target answers again is: the rest of a check
\* that began before, and two for each answer that is missing.
StepsToReturn ==
  IF target > 1 THEN 2 * OnlineAfter + 2 + Targets - target
  ELSE 2 * (OnlineAfter - successes) + (IF target = 0 THEN 1 ELSE 0)

LEMMA OneFailureLess ==
  ASSUME NEW t \in Nat, NEW n \in Nat, n > 0
  PROVE  (t + 1) * (n - 1) + t + 1 = (t + 1) * n
<1>1. (t + 1) * (n - 1) = (t + 1) * n - (t + 1)
  OBVIOUS
<1> QED
  BY <1>1

\* Each failure of a target brings the monitor closer.
LEMMA LossComesCloser ==
  ASSUME NetworkTypeOK, MonitorStep, network = "down", state' # "offline"
  PROVE  StepsToLoss' < StepsToLoss
<1> DEFINE missing == OfflineAfter - failures
<1>1. /\ Targets \in Nat \ {0} /\ OfflineAfter \in Nat \ {0}
      /\ failures \in 0 .. OfflineAfter /\ target \in 0 .. Targets
  BY ConnectivityAssumption DEF NetworkTypeOK
<1>2. missing \in Nat /\ (Targets + 1) * missing \in Nat
  BY <1>1
<1>3. CASE Wake
  BY <1>1, <1>2, <1>3 DEF Wake, StepsToLoss
<1>4. CASE TargetFails /\ target < Targets
  <2>1. target' = target + 1
    BY <1>1, <1>4 DEF TargetFails, GoOn
  <2>2. CASE failures < OfflineAfter
    <3>1. failures' = failures + 1 /\ missing > 0
      BY <1>1, <1>4, <2>2 DEF TargetFails
    <3>2. (Targets + 1) * (missing - 1) + Targets + 1 = (Targets + 1) * missing
      BY <1>1, <1>2, <3>1, OneFailureLess
    <3>3. OfflineAfter - failures' = missing - 1
      BY <1>1, <3>1
    <3>4. (Targets + 1) * (missing - 1) \in Int
      BY <1>1, <1>2
    <3> HIDE DEF missing
    <3> QED
      BY <1>1, <1>2, <2>1, <3>2, <3>3, <3>4 DEF StepsToLoss, missing
  <2>3. CASE ~(failures < OfflineAfter)
    <3>1. failures' = failures
      BY <1>1, <1>4, <2>3 DEF TargetFails
    <3> QED
      BY <1>1, <1>2, <2>1, <3>1 DEF StepsToLoss
  <2> QED
    BY <2>2, <2>3
<1>5. CASE TargetFails /\ ~(target < Targets)
  <2>1. target' = 0 /\ target = Targets
    BY <1>1, <1>5 DEF TargetFails, GoOn
  <2>2. state' = IF failures' >= OfflineAfter THEN "offline" ELSE "degraded"
    BY <1>5 DEF TargetFails, GoOn, Update
  <2>3. failures < OfflineAfter /\ failures' = failures + 1 /\ missing > 1
    BY <1>1, <1>5, <2>2 DEF TargetFails
  <2>4. (Targets + 1) * (missing - 1) + Targets + 1 = (Targets + 1) * missing
    BY <1>1, <1>2, <2>3, OneFailureLess
  <2>5. OfflineAfter - failures' = missing - 1
    BY <1>1, <2>3
  <2>6. (Targets + 1) * (missing - 1) \in Int
    BY <1>1, <1>2
  <2> HIDE DEF missing
  <2> QED
    BY <1>1, <1>2, <2>1, <2>4, <2>5, <2>6 DEF StepsToLoss, missing
<1> QED
  BY <1>3, <1>4, <1>5 DEF MonitorStep, TargetAnswers, TargetSkipped

LEMMA AnswersAreMissing ==
  ASSUME NEW n \in Nat, NEW s \in 0 .. n
  PROVE  2 * (n - s) + 1 < 2 * n + 2
  OBVIOUS

\* Each step of a check that began before ends it sooner, and each answer of the
\* first target counts.
LEMMA ReturnComesCloser ==
  ASSUME NetworkTypeOK, MonitorStep, network = "up", state' # "online"
  PROVE  StepsToReturn' < StepsToReturn
<1>1. /\ Targets \in Nat \ {0} /\ OnlineAfter \in Nat \ {0}
      /\ successes \in 0 .. OnlineAfter /\ target \in 0 .. Targets
  BY ConnectivityAssumption DEF NetworkTypeOK
<1>2. CASE Wake
  BY <1>1, <1>2 DEF Wake, StepsToReturn
<1>3. CASE TargetAnswers
  <2>1. target' = 0 /\ target # 0
    BY <1>3 DEF TargetAnswers
  <2>2. state' = IF successes' >= OnlineAfter THEN "online" ELSE "degraded"
    BY <1>3 DEF TargetAnswers, Update
  <2>3. successes' = IF successes < OnlineAfter THEN successes + 1 ELSE successes
    BY <1>3 DEF TargetAnswers, AnswerCounted
  <2>4. successes' = successes + 1 /\ successes' < OnlineAfter
    BY <1>1, <2>2, <2>3
  <2> QED
    BY <1>1, <2>1, <2>4 DEF StepsToReturn
<1>4. CASE TargetFails \/ TargetSkipped
  <2>1. target > 1
    BY <1>1, <1>4 DEF TargetFails, TargetSkipped
  <2>2. successes' \in 0 .. OnlineAfter
    BY <1>1, <1>4 DEF TargetFails, TargetSkipped
  <2>3. target' = IF target < Targets THEN target + 1 ELSE 0
    BY <1>4 DEF TargetFails, TargetSkipped, GoOn
  <2>4. StepsToReturn = 2 * OnlineAfter + 2 + Targets - target
    BY <2>1 DEF StepsToReturn
  <2>5. CASE target < Targets
    <3>1. target' = target + 1 /\ target' > 1
      BY <1>1, <2>1, <2>3, <2>5
    <3>2. StepsToReturn' = 2 * OnlineAfter + 2 + Targets - target'
      BY <3>1 DEF StepsToReturn
    <3> QED
      BY <1>1, <2>4, <3>1, <3>2
  <2>6. CASE ~(target < Targets)
    <3>1. target' = 0 /\ target = Targets
      BY <1>1, <2>3, <2>6
    <3>2. StepsToReturn' = 2 * (OnlineAfter - successes') + 1
      BY <3>1 DEF StepsToReturn
    <3>3. StepsToReturn = 2 * OnlineAfter + 2
      BY <1>1, <2>4, <3>1
    <3> QED
      BY <1>1, <2>2, <3>2, <3>3, AnswersAreMissing
  <2> QED
    BY <2>5, <2>6
<1> QED
  BY <1>2, <1>3, <1>4 DEF MonitorStep

LEMMA StepsAreNumbers ==
  ASSUME NetworkTypeOK
  PROVE  StepsToLoss \in Nat /\ StepsToReturn \in 0 .. 2 * OnlineAfter + Targets
<1>1. /\ Targets \in Nat \ {0} /\ OfflineAfter \in Nat \ {0} /\ OnlineAfter \in Nat \ {0}
      /\ failures \in 0 .. OfflineAfter /\ target \in 0 .. Targets
      /\ successes \in 0 .. OnlineAfter
  BY ConnectivityAssumption DEF NetworkTypeOK
<1>2. Targets + 1 \in Nat /\ OfflineAfter - failures \in Nat
  BY <1>1
<1>3. (Targets + 1) * (OfflineAfter - failures) \in Nat
  BY <1>2
<1>4. StepsToReturn \in 0 .. 2 * OnlineAfter + Targets
  BY <1>1 DEF StepsToReturn
<1> QED
  BY <1>1, <1>3, <1>4 DEF StepsToLoss

\* A network that stays away or answers again is noticed after a number of steps
\* of the monitor that depends on what was counted before and on nothing else:
\* each step takes one of them, and no command of the user gives one back.
THEOREM ChangesComeCloser ==
  NetworkSpec =>
    /\ [](StepsToLoss \in Nat /\ StepsToReturn \in 0 .. 2 * OnlineAfter + Targets)
    /\ [][/\ MonitorStep /\ network = "down" => state' = "offline" \/ StepsToLoss' < StepsToLoss
          /\ MonitorStep /\ network = "up" => state' = "online" \/ StepsToReturn' < StepsToReturn
          /\ UserChooses => UNCHANGED <<state, StepsToLoss, StepsToReturn>>]_<<agentVars, networkVars>>
<1>1. UserChooses => UNCHANGED <<state, StepsToLoss, StepsToReturn>>
  BY DEF UserChooses, StepsToLoss, StepsToReturn
<1>2. NetworkTypeOK /\ [NetworkNext]_<<agentVars, networkVars>> =>
        [/\ MonitorStep /\ network = "down" => state' = "offline" \/ StepsToLoss' < StepsToLoss
         /\ MonitorStep /\ network = "up" => state' = "online" \/ StepsToReturn' < StepsToReturn
         /\ UserChooses => UNCHANGED <<state, StepsToLoss, StepsToReturn>>]_<<agentVars, networkVars>>
  BY <1>1, LossComesCloser, ReturnComesCloser
<1> QED
  BY <1>2, StepsAreNumbers, NetworkTypes, PTL DEF NetworkSpec

-----------------------------------------------------------------------------
LEMMA ChatNetworkStep ==
  ASSUME ChatNetworkInv, [ChatNext]_chatVars
  PROVE  ChatNetworkInv'
<1>1. UNCHANGED part
  BY OnePartMoves
<1>2. CASE part = "network"
  BY <1>1, <1>2, OnePartMoves, NetworkTypesStep, NetworkNext_Follows DEF ChatNetworkInv
<1>3. CASE part # "network"
  <2>1. UNCHANGED networkVars /\ state = "unknown"
    BY <1>3, OnePartMoves DEF ChatNetworkInv
  <2>2. monitored' = monitored
    BY AgentMoves, MonitorStays
  <2> QED
    BY <1>1, <1>3, <2>1, <2>2 DEF ChatNetworkInv, NetworkTypeOK, OfflineIsFollowed, networkVars
<1> QED
  BY <1>2, <1>3

LEMMA ChatNetworkInvariance == ChatSpec => []ChatNetworkInv
<1>1. ChatInit => ChatNetworkInv
  BY NetworkInitTypes DEF ChatInit, ChatNetworkInv, OfflineIsFollowed, NetworkInit
<1> QED
  BY <1>1, ChatNetworkStep, PTL DEF ChatSpec

\* The types of all parts of a session.
THEOREM ChatTypes == ChatSpec => []ChatTypeOK
<1>1. ChatNetworkInv => NetworkTypeOK
  BY DEF ChatNetworkInv
<1>2. ChatSpec => [](AgentTypeOK /\ NetworkTypeOK)
  BY <1>1, SessionServesRequests, AgentTypes, ChatNetworkInvariance, PTL
<1>3. ChatSpec => [](ProviderTypeOK /\ SubagentTypeOK /\ GateTypeOK /\ FailuresTypeOK /\ TypeOK)
  BY SessionServesTheRest, ProviderTypes, SubagentTypes, GateTypes, FailureTypes, TypeCorrect, PTL
<1>4. /\ AgentTypeOK /\ NetworkTypeOK
      /\ ProviderTypeOK /\ SubagentTypeOK /\ GateTypeOK /\ FailuresTypeOK /\ TypeOK
      => ChatTypeOK
  BY DEF ChatTypeOK
<1> QED
  BY <1>2, <1>3, <1>4, PTL

\* What each part promises, a session keeps: requests execute nothing for a later
\* proposal of what they executed, end after the waves their discoveries pay for
\* and ask the LLM no more than that, and the monitor, the providers, the
\* subagents, the gates and the trackers do what they do alone.
THEOREM SessionIsSafe ==
  ChatSpec => [](/\ NothingRunsAgain /\ WavesPayOff /\ AsksNoMore
                 /\ OfflineIsFollowed /\ SkippedOnlyInCooldown
                 /\ FocusIsRegistered /\ RecordsAreTrue
                 /\ RefusesJustly /\ BlockedJustly)
<1>1. ChatNetworkInv => OfflineIsFollowed
  BY DEF ChatNetworkInv
<1>2. ChatSpec => [](NothingRunsAgain /\ WavesPayOff /\ AsksNoMore /\ OfflineIsFollowed)
  BY <1>1, SessionServesRequests, CommandsRunOnce, WavesAreBounded, AsksAreOver,
     ChatNetworkInvariance, PTL
<1>3. ChatSpec => [](SkippedOnlyInCooldown /\ FocusIsRegistered /\ RecordsAreTrue
                     /\ RefusesJustly /\ BlockedJustly)
  BY SessionServesTheRest, CooldownsAreEarned, FocusStaysRegistered, RecordsStayTrue,
     RefusalsAreDue, RefusalsAreEarned, PTL
<1> QED
  BY <1>2, <1>3, PTL

\* Its audit log keeps a chain that verifies or has a gap that is noticed, and
\* every event in memory, in the file or waiting unless it was dropped on purpose,
\* as long as no other process has one open.
THEOREM SessionIsAudited ==
  ASSUME ~Sharing
  PROVE  ChatSpec => [](ChainIntact /\ GapIsNoticed /\ NothingSlips)
  BY SessionServesTheRest, ChainStaysIntact, GapStaysNoticed, NothingSlipsAway, PTL
=============================================================================
