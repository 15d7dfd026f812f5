------------------------------ MODULE MCSession ------------------------------
(* An instance for TLC of three parts of a turn that do not touch each     *)
(* other: its plan, its session's feed, and its session's approval gate; a *)
(* behaviour is one of the three.  The plan has two tasks, under no limit  *)
(* or one.  The publishers and the connections of a session meet only in   *)
(* the log, so one of each shows what an attachment sees; the gates are    *)
(* those of two sessions, whose requests have the same number.             *)
EXTENDS TurnFeed, Approvals

CONSTANTS turn, conn, here, there, tab, r1, r2

MCTurn == {turn}
MCConn == {conn}

MCSessions == {here, there}
MCClient == {tab}
MCRequest == {r1, r2}
MCHomeOf == [r \in MCRequest |-> IF r = r2 THEN there ELSE here]

AtMostOneLimit ==
  {b \in [deadline : BOOLEAN, taskTimeout : BOOLEAN] : ~(b.deadline /\ b.taskTimeout)}

VARIABLES
  nodes, status, pc, drive, reviewTask, todo, emitter, routed, followups, summary,
  budget, outcome, wrote, artifacts, bounds, clock, cancelled, part

planVars ==
  <<nodes, status, pc, drive, reviewTask, todo, emitter, routed, followups, summary,
    budget, outcome, wrote, artifacts, bounds, clock, cancelled>>

Plan == INSTANCE PlanGraph WITH
  Role <- {"coder", "review"}, Review <- "review", MaxSubtasks <- 2,
  MaxPlanTasks <- 2, FollowupCap <- 1, MaxEmits <- 1, PlanReview <- TRUE,
  BoundsOptions <- AtMostOneLimit

SessionInit ==
  /\ part \in {"plan", "feed", "gate"}
  /\ Init
  /\ ApprovalsInit /\ (part # "gate" => auto)
  /\ Plan!Init
  /\ part # "plan" => /\ nodes = <<[role |-> "review", deps |-> {}, by |-> 0]>>
                      /\ bounds = [deadline |-> FALSE, taskTimeout |-> FALSE]
                      /\ clock = "open" /\ ~cancelled

Planning(step) == part = "plan" /\ step /\ UNCHANGED <<part, vars, approvalsVars>>
Feeding == part = "feed" /\ UNCHANGED <<part, planVars, approvalsVars>>
Gating == part = "gate" /\ UNCHANGED <<part, planVars, vars>>

SessionNext ==
  \/ Planning(Plan!Next)
  \/ \E t \in Turn : TurnStep(t) /\ Feeding
  \/ \E c \in Conn : ConnStep(c) /\ Feeding
  \/ \E r \in Request : GateStep(r) /\ Gating
  \/ \E c \in Client : ClientStep(c) /\ Gating

\* The fairness of each part; no fair action of a feed or a gate that stands
\* still is ever enabled.
SessionSpec ==
  /\ SessionInit
  /\ [][SessionNext]_<<part, planVars, vars, approvalsVars>>
  /\ WF_planVars(Planning(Plan!Scheduler))
  /\ WF_planVars(Planning(Plan!Tick))
  /\ WF_planVars(Planning(\E id \in Plan!TaskIds : Plan!TimeOut(id)))
  /\ Fairness
  /\ \A r \in Request : WF_approvalsVars(TimeOut(r))

-----------------------------------------------------------------------------
\* A turn with a limit ends, and one that is cancelled, whatever its tasks do
\* (plan_graph.rs, run_plan_graph).
TurnEnds == part = "plan" => Plan!TurnEnds
===============================================================================
