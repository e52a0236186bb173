---------------------------- MODULE BoundedPool ----------------------------
(***************************************************************************)
(* What a bounded worker pool promises, whatever it is built from: a job   *)
(* is accepted only while fewer than MaxQueue accepted jobs are unfinished,*)
(* runs only while fewer than MaxWorkers jobs run, and runs at most once.  *)
(***************************************************************************)
EXTENDS Naturals, FiniteSets

CONSTANTS Jobs, MaxQueue, MaxWorkers

VARIABLE job  \* job[j]: "new", "accepted", "running" or "ended"

In(s) == {j \in Jobs : job[j] = s}

Init == job = [j \in Jobs |-> "new"]

Accept(j) ==
  /\ job[j] = "new"
  /\ Cardinality(In("accepted") \cup In("running")) < MaxQueue
  /\ job' = [job EXCEPT ![j] = "accepted"]

Run(j) ==
  /\ job[j] = "accepted"
  /\ Cardinality(In("running")) < MaxWorkers
  /\ job' = [job EXCEPT ![j] = "running"]

\* A job ends when its work does, or without having run.
End(j) ==
  /\ job[j] \in {"accepted", "running"}
  /\ job' = [job EXCEPT ![j] = "ended"]

Next == \E j \in Jobs : Accept(j) \/ Run(j) \/ End(j)

Spec == Init /\ [][Next]_job
=============================================================================
