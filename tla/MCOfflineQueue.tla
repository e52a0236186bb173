--------------------------- MODULE MCOfflineQueue ---------------------------
(***************************************************************************)
(* Small instances of OfflineQueue for TLC.                                *)
(***************************************************************************)
EXTENDS OfflineQueue

CONSTANTS a, b, c, w1, w2

\* b waits for a; c is independent.
ChainDeps == [i \in Cmds |-> IF i = b THEN {a} ELSE {}]
TwoAttempts == [i \in Cmds |-> 2]
=============================================================================
