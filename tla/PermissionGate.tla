--------------------------- MODULE PermissionGate ---------------------------
(***************************************************************************)
(* The rate limit of PermissionGate (permission_gate.py): each gate keeps  *)
(* the times of the calls that passed its limit, refuses a call when Limit *)
(* of them are younger than Period, and shares the file rate_limit.json    *)
(* with the other gates of its process and with later processes.  It reads *)
(* the file when it is made, and writes it at a refusal, at every          *)
(* SaveEvery-th call of its window and, if it has not since its last call, *)
(* at exit.                                                                *)
(* A time is kept as its age in ticks, oldest first, and what is older     *)
(* than Period is left out: check drops it before it counts.  A call that  *)
(* is refused for its text before the limit is looked at is not counted;   *)
(* one that is counted may still be refused for its text, as an encoded or *)
(* a destructive command, and stays counted.                               *)
(***************************************************************************)
EXTENDS Naturals, Sequences, FiniteSets

CONSTANTS
  Limit,      \* rate_limit_calls (100 in the code)
  Period,     \* rate_limit_period in ticks (60 s in the code)
  SaveEvery,  \* 50 in the code
  MaxGates    \* bound of the model: gates of a process

ASSUME GateAssumption == {Limit, Period, SaveEvery, MaxGates} \subseteq Nat \ {0}

Ages == 0 .. Period - 1

VARIABLES
  gates,   \* gates of the process in the order they were made:
           \* [calls |-> ages of its calls, dirty |-> BOOLEAN]
  stored,  \* rate_limit.json: ages of calls
  counted  \* history: how many calls of each age passed the limit of any gate,
           \* of all processes, whatever became of them; counted up to Limit

gateVars == <<gates, stored, counted>>

GateInit == gates = <<>> /\ stored = <<>> /\ counted = [age \in Ages |-> 0]

\* AgentCore, its registry factory and every subagent make a gate of their own.
NewGate ==
  /\ Len(gates) < MaxGates
  /\ gates' = Append(gates, [calls |-> stored, dirty |-> FALSE])
  /\ UNCHANGED <<stored, counted>>

\* check refuses; the write may fail, which nobody is told.
Refuse(g) ==
  /\ Len(gates[g].calls) >= Limit
  /\ \/ stored' = gates[g].calls /\ gates' = [gates EXCEPT ![g].dirty = FALSE]
     \/ UNCHANGED <<stored, gates>>
  /\ UNCHANGED counted

\* A call passes the limit: check counts it, saves at every SaveEvery-th, and may
\* refuse it afterwards for the text of its command.
Admit(g) ==
  /\ Len(gates[g].calls) < Limit
  /\ LET calls == Append(gates[g].calls, 0)
         mayWrite == Len(calls) % SaveEvery = 0
     IN \/ /\ mayWrite
           /\ stored' = calls
           /\ gates' = [gates EXCEPT ![g] = [calls |-> calls, dirty |-> FALSE]]
        \/ \* not yet, or the write failed
           /\ gates' = [gates EXCEPT ![g] =
                          [calls |-> calls, dirty |-> IF mayWrite THEN @.dirty ELSE TRUE]]
           /\ UNCHANGED stored
  /\ counted' = [counted EXCEPT ![0] = IF @ < Limit THEN @ + 1 ELSE @]

\* The process ends or is killed.  At exit the gates that are dirty write in
\* turn, as far as they can: the file is left as it was or as one of them wrote.
ProcessEnds ==
  /\ gates # <<>>
  /\ gates' = <<>>
  /\ stored' \in {stored} \cup {gates[g].calls : g \in {h \in DOMAIN gates : gates[h].dirty}}
  /\ UNCHANGED counted

\* Variant: what is too old is counted on.
OlderUnfiltered(calls) ==
  [i \in DOMAIN calls |-> IF calls[i] < Period - 1 THEN calls[i] + 1 ELSE calls[i]]

\* A tick later: the oldest calls have left the window, the others aged.
Older(calls) ==
  LET expired == Cardinality({i \in DOMAIN calls : calls[i] = Period - 1})
  IN  [i \in 1 .. Len(calls) - expired |-> calls[i + expired] + 1]

Tick ==
  /\ gates' = [g \in DOMAIN gates |-> [gates[g] EXCEPT !.calls = Older(@)]]
  /\ stored' = Older(stored)
  /\ counted' = [age \in Ages |-> IF age = 0 THEN 0 ELSE counted[age - 1]]

-----------------------------------------------------------------------------
GateNext ==
  \/ NewGate \/ ProcessEnds \/ Tick
  \/ \E g \in DOMAIN gates : Refuse(g) \/ Admit(g)

GateSpec == GateInit /\ [][GateNext]_gateVars

-----------------------------------------------------------------------------
\* Type invariant, with the order of the calls.
OldestFirst(calls) == \A i, j \in DOMAIN calls : i < j => calls[i] >= calls[j]

GateTypeOK ==
  /\ gates \in Seq([calls : Seq(Ages), dirty : BOOLEAN])
  /\ Len(gates) \in 0 .. MaxGates
  /\ stored \in Seq(Ages)
  /\ counted \in [Ages -> 0 .. Limit]
  /\ OldestFirst(stored) /\ \A g \in DOMAIN gates : OldestFirst(gates[g].calls)

WithinLimit == \A g \in DOMAIN gates : Len(gates[g].calls) <= Limit

Count(calls, age) == Cardinality({i \in DOMAIN calls : calls[i] = age})

NothingOvercounted ==
  \A age \in Ages :
    /\ Count(stored, age) <= counted[age]
    /\ \A g \in DOMAIN gates : Count(gates[g].calls, age) <= counted[age]

\* No gate counts more than Limit calls within Period, with those it read from
\* the file of an earlier process, and what it or the file remembers passed the
\* limit of some gate within Period: whoever wrote the file last, in whatever
\* order the gates of a process and later processes wrote and read it, no call
\* is counted twice, and none that the limit refused, so that the limit refuses a
\* call only when Limit others had passed it.  Those need not have been executed:
\* calls that the later checks of the text refuse use up the limit too.
RefusesJustly == WithinLimit /\ NothingOvercounted
=============================================================================
