----------------------------- MODULE MCPlanGraph -----------------------------
(* Instances of PlanGraph for TLC. *)
EXTENDS PlanGraph

MCRole == {"coder", "review"}
MCReview == "review"

\* Both limits at once: every safety behaviour of the weaker settings is one
\* of these in which a timer never fires.
Bounded == {[deadline |-> TRUE, taskTimeout |-> TRUE]}
=============================================================================
