------------------------ MODULE MCAutonomousExecutor ------------------------
(***************************************************************************)
(* Plans for TLC.                                                          *)
(***************************************************************************)
EXTENDS AutonomousExecutor

ThreeSteps == 1 .. 3

\* Every graph; and those in which no step waits for itself and only the last
\* may wait for an id the plan has not.
EveryGraph == [Steps -> SUBSET (Steps \cup {0})]
SomeGraphs == {g \in EveryGraph : \A s \in Steps : s \notin g[s] /\ (0 \in g[s] => s = 3)}
=============================================================================
