--------------------------- MODULE MCOfflineReplay --------------------------
(***************************************************************************)
(* Small instances of OfflineReplay for TLC.                               *)
(***************************************************************************)
EXTENDS OfflineReplay

CONSTANTS a, b, c, d, w1

\* b and c wait for a, and fill the window when a is given up; d is independent.
TwoWait == [i \in Cmds |-> IF i \in {b, c} THEN {a} ELSE {}]
TwoAttempts == [i \in Cmds |-> 2]
=============================================================================
