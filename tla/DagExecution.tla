---------------------------- MODULE DagExecution ----------------------------
(***************************************************************************)
(* What executing a graph of steps promises, whoever executes it: a node   *)
(* runs only after all its parents completed, a node is passed over only   *)
(* if it may be (a condition) or a parent did not complete, a node that is *)
(* refused never runs, and what has ended never changes again, except that *)
(* one failed node may be replaced by one that waits for nothing.  Graphs  *)
(* are executed one after the other: the next one comes when none runs.    *)
(***************************************************************************)
EXTENDS Naturals

CONSTANT Nodes

VARIABLES
  st,     \* "pending", "running", "completed", "failed" or "skipped"
  shape   \* the graph: the parents of each node (parents), the nodes with a
          \* condition on themselves or on an edge to them (conditional), those
          \* of them whose condition never holds (refused), the nodes that may
          \* fail without running (broken), those that may be broken off and
          \* passed over while they run (cancellable), those that may be
          \* replaced (renewable), and the number of the graph (serial)

Ended == {"completed", "failed", "skipped"}

Init ==
  /\ st \in [Nodes -> {"pending", "skipped"}]
  /\ \A n \in Nodes : st[n] = "skipped" => n \in shape.conditional

Completed(s, ids) == \A p \in ids : p \in Nodes /\ s[p] = "completed"

Start(n) ==
  /\ st[n] = "pending"
  /\ n \notin shape.refused
  /\ Completed(st, shape.parents[n])
  /\ st'[n] \in {"running"} \cup (IF n \in shape.broken THEN {"failed"} ELSE {})

\* A parent may be passed over in the same step.
PassOver(n) ==
  /\ st[n] = "pending"
  /\ n \in shape.conditional \/ ~Completed(st', shape.parents[n])
  /\ st'[n] = "skipped"

End(n) ==
  /\ st[n] = "running"
  /\ st'[n] \in {"completed", "failed"} \cup
                (IF n \in shape.cancellable THEN {"skipped"} ELSE {})

Progress ==
  /\ \A n \in Nodes : Start(n) \/ PassOver(n) \/ End(n) \/ st'[n] = st[n]
  /\ shape' = shape

Renew(n) ==
  /\ st[n] = "failed"
  /\ n \in shape.renewable
  /\ st' = [st EXCEPT ![n] = "pending"]
  /\ shape' = [shape EXCEPT !.parents[n] = {}, !.renewable = {}]

NextGraph ==
  /\ \A n \in Nodes : st[n] # "running"
  /\ shape'.serial = shape.serial + 1
  /\ Init'

Next == Progress \/ (\E n \in Nodes : Renew(n)) \/ NextGraph

Spec == Init /\ [][Next]_<<st, shape>>
=============================================================================
