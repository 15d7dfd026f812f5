------------------------------ MODULE PlanGraph ------------------------------
(***************************************************************************)
(* The reactive drive of one Prompt turn (crates/corrode-daemon/src/       *)
(* plan_graph.rs, run_reactive_until) and the two drives the daemon makes  *)
(* of it: the planned tasks, then one plan-level review over what settled  *)
(* (daemon.rs, handle, the Prompt arm).                                    *)
(*                                                                         *)
(* A plan is a graph of tasks that a running task can grow.  The drive     *)
(* launches every ready task, waits for one completion or for the cut-off, *)
(* folds the completed task's emissions into the graph and starts over.    *)
(* All of it runs on one async task, so the interleavings are those of the *)
(* select: which running task completes, times out or is cut off, and      *)
(* between any two steps the clock passes the deadline or a client         *)
(* cancels.                                                                *)
(*                                                                         *)
(* A task's prompt, output and tool calls are not in this module; what it  *)
(* wrote is reduced to whether it wrote a file the code graph does not     *)
(* hold yet.                                                               *)
(***************************************************************************)
EXTENDS Integers, Sequences, FiniteSets

CONSTANTS
  Role,           \* the roles a task can have
  Review,         \* the role of the plan-level review task
  MaxSubtasks,    \* planner::MAX_SUBTASKS, the longest plan
  MaxPlanTasks,   \* MAX_PLAN_TASKS, past which emissions are dropped
  FollowupCap,    \* max_followups(), the emissions one drive folds in
  MaxEmits,       \* most emissions one outcome carries (1: emit_followups)
  BoundsOptions,  \* the Bounds a turn may run under: whether it has a
                  \* deadline, whether its tasks have a timeout
  PlanReview      \* CORRODE_PLAN_REVIEW

ASSUME RoleAssumption == Review \in Role
ASSUME BoundAssumption ==
  /\ MaxSubtasks \in Nat \ {0}
  /\ MaxPlanTasks \in Nat
  /\ MaxSubtasks <= MaxPlanTasks
  /\ FollowupCap \in Nat
  /\ MaxEmits \in Nat
ASSUME FlagAssumption ==
  /\ BoundsOptions \subseteq [deadline : BOOLEAN, taskTimeout : BOOLEAN]
  /\ PlanReview \in BOOLEAN

VARIABLES
  nodes,      \* the graph: a sequence of tasks, only ever appended to
  status,     \* the status of each task, in step with nodes
  pc,         \* where the turn is
  drive,      \* 1 for the plan, 2 for the review
  reviewTask, \* the id of the plan-level review task, 0 for none
  todo,       \* emissions of the completed task not looked at yet
  emitter,    \* the completed task they came from
  routed,     \* the roles the plan already hands its output to
  followups,  \* emissions folded in by this drive
  summary,    \* this drive's RunSummary
  budget,     \* the turn's merged RunSummary
  outcome,    \* the status the turn is journaled with
  wrote,      \* tasks whose tools wrote a new file
  artifacts,  \* tasks whose written files the graph records
  bounds,     \* the turn's Bounds
  clock,      \* before the deadline, past it, or past its grace
  cancelled   \* the turn's cancel switch

graphVars == <<nodes, status>>
foldVars == <<todo, emitter, routed>>
turnVars == <<drive, reviewTask, budget, outcome>>
fileVars == <<wrote, artifacts>>
envVars == <<bounds, clock, cancelled>>
vars == <<graphVars, pc, foldVars, followups, summary, turnVars, fileVars,
          envVars>>

-----------------------------------------------------------------------------
Status == {"Pending", "Running", "Done", "Failed"}

TaskIds == 1..Len(nodes)

\* One node of the graph; by is its emitter, 0 for a task nobody emitted.
Node == [role : Role, deps : SUBSET Nat, by : Nat]

NoSummary ==
  [shed |-> 0, capped |-> 0, unlaunched |-> 0, cutOff |-> 0, timedOut |-> {},
   expired |-> FALSE, cancelled |-> FALSE]

RunSummary ==
  [shed : Nat, capped : Nat, unlaunched : Nat, cutOff : Nat,
   timedOut : SUBSET Nat, expired : BOOLEAN, cancelled : BOOLEAN]

\* planner::parse_plan keeps a dependency only on an earlier subtask.
PlanOf(n) ==
  {p \in [1..n -> [role : Role, deps : SUBSET (1..n), by : {0}]] :
     \A i \in 1..n : p[i].deps \subseteq 1..(i - 1)}

Plans == UNION {PlanOf(n) : n \in 1..MaxSubtasks}

\* What one outcome proposes: the roles of its emissions.
Emissions == UNION {[1..n -> Role] : n \in 0..MaxEmits}

PastDeadline == clock # "open"

Expired == PastDeadline \/ cancelled

WithStatus(s) == {i \in TaskIds : status[i] = s}

Running == WithStatus("Running")

TypeOK ==
  /\ nodes \in Seq(Node)
  /\ status \in Seq(Status)
  /\ Len(status) = Len(nodes)
  /\ \A i \in TaskIds : nodes[i].deps \subseteq 1..(i - 1)
  /\ pc \in {"launch", "select", "fold", "tally", "close", "review",
             "report", "done"}
  /\ drive \in {1, 2}
  /\ reviewTask \in 0..Len(nodes)
  /\ todo \in Seq(Role)
  /\ emitter \in Nat
  /\ pc = "fold" => emitter \in TaskIds
  /\ routed \in SUBSET Role
  /\ followups \in Nat
  /\ summary \in RunSummary
  /\ budget \in RunSummary
  /\ outcome \in {"running", "complete", "cancelled", "budget exhausted"}
  /\ wrote \in SUBSET Nat
  /\ artifacts \in SUBSET Nat
  /\ bounds \in BoundsOptions
  /\ clock \in {"open", "past", "overdue"}
  /\ cancelled \in BOOLEAN

-----------------------------------------------------------------------------
(* The graph. *)

\* Tasks in one of states from whose dependencies are all in states met.
Unblocked(from, met) ==
  {i \in TaskIds : /\ status[i] \in from
                   /\ \A d \in nodes[i].deps : status[d] \in met}

\* Faulty: a failed dependency counts as met.
ReadyOnceSettled == Unblocked({"Pending"}, {"Done", "Failed"})

\* Faulty: a failed task is ready again.
ReadyToRetry == Unblocked({"Pending", "Failed"}, {"Done"})

\* Pending tasks whose every dependency is Done.
Ready == Unblocked({"Pending"}, {"Done"})

\* Faulty: the plan's own dependents of id are overlooked.
NoRoutedRoles(id) == {}

\* The roles of the tasks that depend on id.
RoutedRoles(id) ==
  {nodes[j].role : j \in {k \in TaskIds : id \in nodes[k].deps}}

\* add: a new node is Pending and takes the next id.
Add(role, deps, by) ==
  /\ nodes' = Append(nodes, [role |-> role, deps |-> deps, by |-> by])
  /\ status' = Append(status, "Pending")

-----------------------------------------------------------------------------
(* Planning has run and the plan seeds the graph.  Planning is cut off     *)
(* only past the deadline's grace, and its answer may win that race, so    *)
(* the first drive may start at any clock and already cancelled.           *)
Init ==
  /\ nodes \in Plans
  /\ status = [i \in 1..Len(nodes) |-> "Pending"]
  /\ pc = "launch"
  /\ drive = 1
  /\ reviewTask = 0
  /\ todo = <<>>
  /\ emitter = 0
  /\ routed = {}
  /\ followups = 0
  /\ summary = NoSummary
  /\ budget = NoSummary
  /\ outcome = "running"
  /\ wrote = {}
  /\ artifacts = {}
  /\ bounds \in BoundsOptions
  /\ clock \in (IF bounds.deadline THEN {"open", "past", "overdue"}
                ELSE {"open"})
  /\ cancelled \in BOOLEAN

-----------------------------------------------------------------------------
(* The drive. *)

\* Launch every ready task, unless the turn has expired.
Launch ==
  /\ pc = "launch"
  /\ status' = IF Expired THEN status
               ELSE [i \in TaskIds |-> IF i \in Ready THEN "Running"
                                       ELSE status[i]]
  /\ pc' = "select"
  /\ UNCHANGED <<nodes, foldVars, followups, summary, turnVars, fileVars,
                 envVars>>

\* A running task's tools write a new file.  Tasks are polled in the select.
Write(id) ==
  /\ pc = "select"
  /\ id \in Running \ wrote
  /\ wrote' = wrote \union {id}
  /\ UNCHANGED <<graphVars, pc, foldVars, followups, summary, turnVars,
                 artifacts, envVars>>

\* A running task completes: its status and the files it wrote are recorded
\* and its emissions are looked at in turn.
Complete(id, ok, emits) ==
  /\ pc = "select"
  /\ id \in Running
  /\ ~ok => emits = <<>>
  /\ status' = [status EXCEPT ![id] = IF ok THEN "Done" ELSE "Failed"]
  /\ artifacts' = artifacts \union ({id} \cap wrote)
  /\ todo' = emits
  /\ emitter' = id
  /\ routed' = RoutedRoles(id)
  /\ pc' = "fold"
  /\ UNCHANGED <<nodes, followups, summary, turnVars, wrote, envVars>>

\* A running task passes its own ceiling: it fails alone, and
\* Outcome::failed carries neither emissions nor artifacts.
TimeOut(id) ==
  /\ bounds.taskTimeout
  /\ pc = "select"
  /\ id \in Running
  /\ status' = [status EXCEPT ![id] = "Failed"]
  /\ summary' = [summary EXCEPT !.timedOut = @ \union {id}]
  /\ todo' = <<>>
  /\ emitter' = id
  /\ routed' = RoutedRoles(id)
  /\ pc' = "fold"
  /\ UNCHANGED <<nodes, followups, turnVars, fileVars, envVars>>

\* Leave the loop when due, and with it everything still running.
CutOffWhen(due, dropped) ==
  /\ pc = "select"
  /\ due
  /\ status' = [i \in TaskIds |-> IF i \in dropped THEN "Failed"
                                  ELSE status[i]]
  /\ summary' = [summary EXCEPT !.cutOff = @ + Cardinality(dropped)]
  /\ pc' = "tally"
  /\ UNCHANGED <<nodes, foldVars, followups, turnVars, fileVars, envVars>>

\* Faulty: what is cut off stays Running.
CutOffLeavingRunning == CutOffWhen(clock = "overdue" \/ cancelled, {})

\* Faulty: only a cancel cuts running work off, the grace never ends.
CutOffOnlyByCancel == CutOffWhen(cancelled, Running)

\* Faulty: a cancel waits for what runs, only the grace cuts it off.
CutOffOnlyByGrace == CutOffWhen(clock = "overdue", Running)

\* The select takes the cut-off: the grace is up, or the turn was cancelled.
\* Everything still running is dropped and Failed.
CutOff == CutOffWhen(clock = "overdue" \/ cancelled, Running)

\* Nothing is in flight, so nothing was ready either: the drive is over.
Settle ==
  /\ pc = "select"
  /\ Running = {}
  /\ pc' = "tally"
  /\ UNCHANGED <<graphVars, foldVars, followups, summary, turnVars, fileVars,
                 envVars>>

\* The plan already routes this task's output to a task of that role.
SkipRouted ==
  /\ pc = "fold"
  /\ todo # <<>>
  /\ Head(todo) \in routed
  /\ todo' = Tail(todo)
  /\ UNCHANGED <<graphVars, pc, emitter, routed, followups, summary, turnVars,
                 fileVars, envVars>>

\* Past the deadline or a cancel an emission is shed.
ShedEmission ==
  /\ pc = "fold"
  /\ todo # <<>>
  /\ Head(todo) \notin routed
  /\ Expired
  /\ summary' = [summary EXCEPT !.shed = @ + 1]
  /\ todo' = Tail(todo)
  /\ UNCHANGED <<graphVars, pc, emitter, routed, followups, turnVars, fileVars,
                 envVars>>

\* The emission at the head may join the graph if there is room for it.
Foldable ==
  /\ pc = "fold"
  /\ todo # <<>>
  /\ Head(todo) \notin routed
  /\ ~Expired

\* At the task budget this emission and the ones after it are dropped.
DropAtTaskBudget ==
  /\ Foldable
  /\ Len(nodes) >= MaxPlanTasks
  /\ todo' = <<>>
  /\ UNCHANGED <<graphVars, pc, emitter, routed, followups, summary, turnVars,
                 fileVars, envVars>>

\* Past the drive's follow-up cap an emission is dropped and counted.
CapEmission ==
  /\ Foldable
  /\ Len(nodes) < MaxPlanTasks
  /\ followups >= FollowupCap
  /\ summary' = [summary EXCEPT !.capped = @ + 1]
  /\ todo' = Tail(todo)
  /\ UNCHANGED <<graphVars, pc, emitter, routed, followups, turnVars, fileVars,
                 envVars>>

\* The emission joins the graph, waiting on deps.
Fold(deps) ==
  /\ Foldable
  /\ followups < FollowupCap
  /\ Add(Head(todo), deps, emitter)
  /\ followups' = followups + 1
  /\ todo' = Tail(todo)
  /\ UNCHANGED <<pc, emitter, routed, summary, turnVars, fileVars, envVars>>

\* Within both caps it joins the graph, waiting on its emitter.
FoldEmission == Len(nodes) < MaxPlanTasks /\ Fold({emitter})

\* All emissions are dealt with; the loop goes on at next.
EndFoldAt(next) ==
  /\ pc = "fold"
  /\ todo = <<>>
  /\ emitter' = 0
  /\ routed' = {}
  /\ pc' = next
  /\ UNCHANGED <<graphVars, todo, followups, summary, turnVars, fileVars,
                 envVars>>

\* Faulty: what the completion made ready is not derived.
EndFoldWithoutLaunch == EndFoldAt("select")

\* Back to the head of the loop, where the runnable set is derived again.
EndFold == EndFoldAt("launch")

\* After the loop: an expired drive counts every task left Pending.
CountUnlaunched ==
  /\ pc = "tally"
  /\ summary' = IF Expired
                THEN [summary EXCEPT !.unlaunched =
                        Cardinality(WithStatus("Pending"))]
                ELSE summary
  /\ pc' = "close"
  /\ UNCHANGED <<graphVars, foldVars, followups, turnVars, fileVars, envVars>>

\* Faulty: the review drive's summary replaces the plan's.
MergedLosingFirst(b, s) == s

\* The daemon merges the second drive's summary into the first's: capped is
\* dropped, and the second drive has recounted the unlaunched tasks.
Merged(b, s) ==
  [b EXCEPT !.expired = @ \/ s.expired,
            !.cancelled = @ \/ s.cancelled,
            !.shed = @ + s.shed,
            !.unlaunched = s.unlaunched,
            !.cutOff = @ + s.cutOff,
            !.timedOut = @ \union s.timedOut]

\* The drive reads the clock and the switch a last time and returns.
CloseDrive ==
  /\ pc = "close"
  /\ LET s == [summary EXCEPT !.expired = PastDeadline, !.cancelled = cancelled]
     IN budget' = IF drive = 1 THEN s ELSE Merged(budget, s)
  /\ summary' = NoSummary
  /\ pc' = IF drive = 1 THEN "review" ELSE "report"
  /\ UNCHANGED <<graphVars, foldVars, followups, drive, reviewTask, outcome,
                 fileVars, envVars>>

-----------------------------------------------------------------------------
(* The turn around the drives. *)

ReviewDue == PlanReview /\ ~budget.cancelled /\ WithStatus("Done") # {}

\* One review task over the settled work, past every cap, in a drive with a
\* follow-up allowance of its own.
StartReview ==
  /\ pc = "review"
  /\ ReviewDue
  /\ Add(Review, {}, 0)
  /\ reviewTask' = Len(nodes) + 1
  /\ drive' = 2
  /\ followups' = 0
  /\ pc' = "launch"
  /\ UNCHANGED <<foldVars, summary, budget, outcome, fileVars, envVars>>

SkipReview ==
  /\ pc = "review"
  /\ ~ReviewDue
  /\ pc' = "report"
  /\ UNCHANGED <<graphVars, foldVars, followups, summary, turnVars, fileVars,
                 envVars>>

\* The turn's journaled status; TurnEnd then takes it out of the session.
Report ==
  /\ pc = "report"
  /\ outcome' = IF budget.cancelled THEN "cancelled"
                ELSE IF budget.expired THEN "budget exhausted"
                ELSE "complete"
  /\ pc' = "done"
  /\ UNCHANGED <<graphVars, foldVars, followups, summary, drive, reviewTask,
                 budget, fileVars, envVars>>

-----------------------------------------------------------------------------
(* The environment. *)

\* The deadline passes, and later its grace.
Tick ==
  /\ bounds.deadline
  /\ pc # "done"
  /\ clock # "overdue"
  /\ clock' = IF clock = "open" THEN "past" ELSE "overdue"
  /\ UNCHANGED <<graphVars, pc, foldVars, followups, summary, turnVars,
                 fileVars, bounds, cancelled>>

\* CancelTurn finds the turn among the session's running turns until TurnEnd.
CancelTurn ==
  /\ pc # "done"
  /\ ~cancelled
  /\ cancelled' = TRUE
  /\ UNCHANGED <<graphVars, pc, foldVars, followups, summary, turnVars,
                 fileVars, bounds, clock>>

\* The turn is over, and this model with it.
Ended == pc = "done" /\ UNCHANGED vars

-----------------------------------------------------------------------------
\* What the turn's own async task does without waiting on any task.
Scheduler ==
  \/ Launch \/ CutOff \/ Settle
  \/ SkipRouted \/ ShedEmission \/ DropAtTaskBudget \/ CapEmission
  \/ FoldEmission \/ EndFold
  \/ CountUnlaunched \/ CloseDrive
  \/ StartReview \/ SkipReview \/ Report

Tasks ==
  \E id \in TaskIds :
    \/ Write(id)
    \/ \E ok \in BOOLEAN, emits \in Emissions : Complete(id, ok, emits)
    \/ TimeOut(id)

Next == Scheduler \/ Tasks \/ Tick \/ CancelTurn \/ Ended

Spec == Init /\ [][Next]_vars

\* The turn's async task is polled, time passes, and a task's own ceiling is
\* a timer; nothing makes a task complete.
Fairness ==
  /\ WF_vars(Scheduler)
  /\ WF_vars(Tick)
  /\ WF_vars(\E id \in TaskIds : TimeOut(id))

FairSpec == Spec /\ Fairness

-----------------------------------------------------------------------------
(* Safety. *)

\* A task has run only if everything it depends on is Done: no dependent ever
\* works from a failed, running or missing result (ready).
DependenciesDone ==
  \A i \in TaskIds :
    status[i] # "Pending" => \A d \in nodes[i].deps : status[d] = "Done"

\* Task i waits, directly or not, on a failed one: every set of tasks that
\* holds i and whatever its members depend on holds a failed task.
Stranded(i) ==
  \A W \in SUBSET TaskIds :
    i \in W /\ (\A j \in W : nodes[j].deps \subseteq W) =>
      \E a \in W : status[a] = "Failed"

\* When the turn reports neither a cancel nor its budget, what it left
\* Pending really waits on a task that failed: the error "could not be
\* scheduled (a dependency failed)" is true of every task it counts.
OnlyFailureStrands ==
  pc = "report" /\ ~budget.expired /\ ~budget.cancelled =>
    \A i \in WithStatus("Pending") : Stranded(i)

\* A turn journaled "complete" lost nothing on the way: it shed no emission,
\* cut no task off, counts nothing unlaunched, and the graph records the
\* files of every task that wrote one, except a task it says timed out.
CompleteIsHonest ==
  outcome = "complete" =>
    /\ budget.shed = 0 /\ budget.cutOff = 0 /\ budget.unlaunched = 0
    /\ wrote \ artifacts \subseteq budget.timedOut

\* Between drives and after the last one nothing is left Running: a dropped
\* task is Failed, in the digest, in the journal and in the provenance.
NothingRunsOn == pc \in {"review", "report", "done"} => Running = {}

\* With one emission per outcome, a task's output is never handed to two
\* tasks of the same role because one of them was emitted: no second writer
\* of the same deliverable.
OneHandoffPerRole ==
  \A i, j \in TaskIds :
    nodes[i].by # 0 /\ j < i /\ nodes[i].by \in nodes[j].deps =>
      nodes[j].role # nodes[i].role

\* A task starts once and settles once: nothing re-runs, nothing reopens.
SettledForGood ==
  [][\A i \in TaskIds :
       /\ status[i] \in {"Done", "Failed"} => status'[i] = status[i]
       /\ status[i] = "Running" => status'[i] # "Pending"]_vars

\* The review works on settled ground: from the step that adds it on, no
\* earlier task changes, so a task stuck in the first drive does not start
\* behind the reviewer's back in the second.
ReviewSettlesFirst ==
  [][reviewTask # 0 =>
       \A i \in 1..(reviewTask - 1) : status'[i] = status[i]]_vars

-----------------------------------------------------------------------------
(* What makes the safety properties inductive. *)

InBudget == ~budget.expired /\ ~budget.cancelled

\* Once the loop is left nothing runs; while the turn may still launch, the
\* drive never waits or ends with a task ready; and a report made in budget
\* still finds none.
LoopInv ==
  /\ pc \in {"tally", "close", "review", "report", "done"} => Running = {}
  /\ pc \in {"select", "tally", "close", "review"} /\ ~Expired => Ready = {}
  /\ pc \in {"review", "report"} /\ InBudget => Ready = {}

\* In the review drive no earlier task runs or can be launched.
ReviewInv ==
  /\ reviewTask = 0 <=> drive = 1
  /\ pc = "review" => drive = 1
  /\ \A i \in 1..(reviewTask - 1) :
       status[i] # "Running" /\ (~Expired => i \notin Ready)

Clean(s) == s.shed = 0 /\ s.cutOff = 0 /\ s.unlaunched = 0

\* Only an expired turn sheds, cuts off or counts; and until it expires the
\* files of a task are credited, or it runs, or it is on record as timed out.
HonestInv ==
  /\ ~Expired =>
       /\ Clean(summary)
       /\ wrote \ artifacts \subseteq
            Running \union summary.timedOut \union budget.timedOut
  /\ InBudget => Clean(budget)
  /\ pc \in {"review", "report", "done"} /\ InBudget =>
       wrote \ artifacts \subseteq budget.timedOut
  /\ drive = 1 /\ pc \notin {"review", "report", "done"} =>
       budget.timedOut = {}
  /\ outcome = "complete" => pc = "done" /\ InBudget

IInv == TypeOK /\ DependenciesDone /\ LoopInv /\ ReviewInv /\ HonestInv

-----------------------------------------------------------------------------
(* Liveness. *)

\* A turn with a deadline or a task timeout ends though no task ever
\* completes, and a turn that is cancelled ends though no timer runs: liveness
\* is the scheduler's, not each await's.
TurnEnds == (bounds.deadline \/ bounds.taskTimeout \/ cancelled) ~> pc = "done"

-----------------------------------------------------------------------------
(* A claim of the repository that the code does not keep. *)

\* daemon.rs, ingest_written: "Re-ingest every file this turn wrote into the
\* code graph"; a new file is found there only through the artifacts.
EveryWriteIngested == pc = "done" => wrote \subseteq artifacts
=============================================================================
