--------------------------- MODULE MCPlanWorkflow ---------------------------
(***************************************************************************)
(* Plans, and workflows that are run directly, for TLC.                    *)
(***************************************************************************)
EXTENDS PlanWorkflow

CONSTANTS a, b, c, ghost

\* Every graph without self-loops in which a step may also wait for an id the
\* plan has not.
PlanGraphs ==
  {[edges |-> edges, needs |-> [f \in edges |-> {}], refusing |-> {}, gatedOff |-> {},
    unregistered |-> {}, attempts |-> [n \in Nodes |-> 1]] :
     edges \in {es \in SUBSET ((Nodes \cup {ghost}) \X Nodes) :
                  \A f \in es : f[1] # f[2] /\ (f[1] = ghost => f[2] = c)}}

Workflow(edges, refusing, gated, unregistered) ==
  [edges |-> edges, needs |-> [f \in edges |-> {}], refusing |-> refusing,
   gatedOff |-> gated, unregistered |-> unregistered,
   attempts |-> [n \in Nodes |-> IF n = a THEN 2 ELSE 1]]

\* A cycle behind a, and a node that waits for an id the graph has not.
StuckGraphs == {Workflow({<<a, b>>, <<b, c>>, <<c, b>>}, {}, {}, {}),
                Workflow({<<a, b>>, <<ghost, c>>}, {}, {}, {})}

\* Graphs whose edges go forward, with each edge refusing or not, a condition
\* that asks for another node's result, and nodes that cannot run.
Forward == {<<a, b>>, <<a, c>>, <<b, c>>}
ConditionalGraphs ==
  {Workflow(edges, refusing, gated, unregistered) :
     edges \in SUBSET Forward, refusing \in SUBSET Forward,
     gated \in SUBSET {a, b}, unregistered \in SUBSET {b, c}}
  \cup {[Workflow(Forward, {}, {}, {}) EXCEPT !.needs = [f \in Forward |-> needed]] :
          needed \in SUBSET Nodes}
WellFormed(ws) == {w \in ws : w.refusing \subseteq w.edges}
Conditionals == WellFormed(ConditionalGraphs) \cup StuckGraphs

\* What is run: plans, and workflows with conditions or retries.
EveryWorkflow == PlanGraphs \cup Conditionals
=============================================================================
