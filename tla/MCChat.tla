------------------------------- MODULE MCChat -------------------------------
(***************************************************************************)
(* A small instance of ChatServices for TLC.                               *)
(***************************************************************************)
EXTENDS ChatServices

CONSTANTS dig, nmap, p1, p2

ThreeSteps == <<1, 2, 3>>
=============================================================================
