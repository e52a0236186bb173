------------------------- MODULE MCRegistryExecutor -------------------------
(***************************************************************************)
(* Plans for TLC.                                                          *)
(***************************************************************************)
EXTENDS RegistryExecutor

CONSTANTS nmap, nikto, nuclei

ThreeSteps == 1 .. 3

\* Every dependency graph, cycles and unknown ids included.
Graphs == [Steps -> SUBSET (Steps \cup {0})]
EveryPlan == [deps : Graphs, parallel : BOOLEAN, done : {{}, {1}}]
\* The last step does not depend on itself or on an unknown id.
SomePlans == {p \in EveryPlan : \A s \in Steps : s \notin p.deps[s] /\ (0 \in p.deps[s] => s = 3)}
Chain == [s \in Steps |-> {s - 1} \cap Steps]
NoDeps == [s \in Steps |-> {}]
\* After another plan: a sequence, and steps that run together.
SecondPlans == {[deps |-> Chain, parallel |-> FALSE, done |-> {}],
                [deps |-> NoDeps, parallel |-> TRUE, done |-> {}]}

ChainPlans == [deps : {Chain}, parallel : BOOLEAN,
               done : {{}, {1}}]

\* Two web scanners are alternatives of each other.
TwoScanners == [s \in Steps |-> IF s = 1 THEN nmap ELSE nikto]
SameArgs == [s \in Steps |-> 1]
Scanners == [t \in Tools |-> IF t = nikto THEN <<nuclei>> ELSE <<>>]
=============================================================================
