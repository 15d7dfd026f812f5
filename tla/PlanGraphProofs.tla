--------------------------- MODULE PlanGraphProofs ---------------------------
(***************************************************************************)
(* What holds of every turn of PlanGraph, for every plan, cap, bound and   *)
(* role set: the type invariant, and the safety and action properties that *)
(* follow from the inductive invariant IInv.  Each part of IInv has a      *)
(* lemma for the step (one case per action, grouped where several actions  *)
(* touch a graph in the same way) and a theorem.                           *)
(***************************************************************************)
EXTENDS PlanGraph, SequenceTheorems, FiniteSetTheorems, TLAPS

-----------------------------------------------------------------------------
(* Types. *)

\* A function on 1..n is a sequence of length n.
LEMMA MapIsSeq ==
  ASSUME NEW S, NEW n \in Nat, NEW f \in [1..n -> S]
  PROVE  f \in Seq(S) /\ Len(f) = n
<1>1. f \in Seq(S)
  BY SeqDef
<1>. QED BY <1>1, LenProperties

\* What a sequence is as a function.
LEMMA SeqElements ==
  ASSUME NEW S, NEW s \in Seq(S)
  PROVE  /\ Len(s) \in Nat
         /\ s \in [1..Len(s) -> S]
         /\ \A i \in 1..Len(s) : s[i] \in S
BY LenProperties, ElementOfSeq

\* The plan that seeds the graph is well typed.
LEMMA TypeInit == Init => TypeOK
<1> SUFFICES ASSUME Init PROVE TypeOK
  OBVIOUS
<1>1. PICK n \in 1..MaxSubtasks : nodes \in PlanOf(n)
  BY DEF Init, Plans
<1>2. n \in Nat /\ nodes \in [1..n -> Node]
  BY <1>1, BoundAssumption DEF PlanOf, Node
<1>3. nodes \in Seq(Node) /\ Len(nodes) = n
  BY <1>2, MapIsSeq
<1>4. status \in Seq(Status) /\ Len(status) = Len(nodes)
  <2>1. status \in [1..n -> Status]
    BY <1>3 DEF Init, Status
  <2>. QED BY <2>1, <1>2, <1>3, MapIsSeq
<1>5. \A i \in TaskIds : nodes[i].deps \subseteq 1..(i - 1)
  BY <1>1, <1>3 DEF PlanOf, TaskIds
<1>6. todo \in Seq(Role)
  BY DEF Init
<1>. QED
  BY <1>3, <1>4, <1>5, <1>6, FlagAssumption
     DEF Init, TypeOK, NoSummary, RunSummary

\* PlanGraph::add appends one Pending node and keeps every other.
LEMMA AddEffect ==
  ASSUME TypeOK, NEW r \in Role, NEW D \in SUBSET TaskIds, NEW b \in Nat,
         Add(r, D, b)
  PROVE  /\ nodes' \in Seq(Node) /\ status' \in Seq(Status)
         /\ Len(nodes') = Len(nodes) + 1 /\ Len(status') = Len(nodes) + 1
         /\ TaskIds' = TaskIds \union {Len(nodes) + 1}
         /\ \A i \in TaskIds : nodes'[i] = nodes[i] /\ status'[i] = status[i]
         /\ nodes'[Len(nodes) + 1] = [role |-> r, deps |-> D, by |-> b]
         /\ status'[Len(nodes) + 1] = "Pending"
<1> DEFINE node == [role |-> r, deps |-> D, by |-> b]
<1>1. node \in Node /\ "Pending" \in Status
  BY DEF Node, Status, TaskIds
<1>2. nodes \in Seq(Node) /\ status \in Seq(Status) /\ Len(status) = Len(nodes)
  BY DEF TypeOK
<1>3. nodes' = Append(nodes, node) /\ status' = Append(status, "Pending")
  BY DEF Add
<1>4. Len(nodes) \in Nat
  BY <1>2, LenProperties
<1> HIDE DEF node
<1>5. /\ nodes' \in Seq(Node) /\ Len(nodes') = Len(nodes) + 1
      /\ \A i \in 1..Len(nodes) : nodes'[i] = nodes[i]
      /\ nodes'[Len(nodes) + 1] = node
  BY <1>1, <1>2, <1>3, AppendProperties
<1>6. /\ status' \in Seq(Status) /\ Len(status') = Len(nodes) + 1
      /\ \A i \in 1..Len(nodes) : status'[i] = status[i]
      /\ status'[Len(nodes) + 1] = "Pending"
  BY <1>1, <1>2, <1>3, AppendProperties
<1>. QED BY <1>4, <1>5, <1>6 DEF TaskIds, node

\* Every update of a drive's summary is a summary.
LEMMA SummaryUpdates ==
  ASSUME NEW s \in RunSummary, NEW n \in Nat, NEW T \in SUBSET Nat,
         NEW e \in BOOLEAN, NEW c \in BOOLEAN
  PROVE  /\ [s EXCEPT !.shed = @ + 1] \in RunSummary
         /\ [s EXCEPT !.capped = @ + 1] \in RunSummary
         /\ [s EXCEPT !.cutOff = @ + n] \in RunSummary
         /\ [s EXCEPT !.unlaunched = n] \in RunSummary
         /\ [s EXCEPT !.timedOut = @ \union T] \in RunSummary
         /\ [s EXCEPT !.expired = e, !.cancelled = c] \in RunSummary
<1>1. [s EXCEPT !.shed = @ + 1] \in RunSummary
  BY DEF RunSummary
<1>2. [s EXCEPT !.capped = @ + 1] \in RunSummary
  BY DEF RunSummary
<1>3. [s EXCEPT !.cutOff = @ + n] \in RunSummary
  BY DEF RunSummary
<1>4. [s EXCEPT !.unlaunched = n] \in RunSummary
  BY DEF RunSummary
<1>5. [s EXCEPT !.timedOut = @ \union T] \in RunSummary
  BY DEF RunSummary
<1>6. [s EXCEPT !.expired = e, !.cancelled = c] \in RunSummary
  BY DEF RunSummary
<1>. QED BY <1>1, <1>2, <1>3, <1>4, <1>5, <1>6

\* The two drives' summaries merge into one.
LEMMA MergedType ==
  ASSUME NEW b \in RunSummary, NEW s \in RunSummary
  PROVE  Merged(b, s) \in RunSummary
<1>1. /\ b.expired \in BOOLEAN /\ b.cancelled \in BOOLEAN
      /\ s.expired \in BOOLEAN /\ s.cancelled \in BOOLEAN
  BY DEF RunSummary
<1>2. /\ b.shed + s.shed \in Nat /\ b.cutOff + s.cutOff \in Nat
      /\ s.unlaunched \in Nat
  BY DEF RunSummary
<1>3. b.timedOut \union s.timedOut \in SUBSET Nat
  BY DEF RunSummary
<1>4. (b.expired \/ s.expired) \in BOOLEAN /\ (b.cancelled \/ s.cancelled) \in BOOLEAN
  OBVIOUS
<1> DEFINE e == b.expired \/ s.expired
           c == b.cancelled \/ s.cancelled
           h == b.shed + s.shed
           k == b.cutOff + s.cutOff
           t == b.timedOut \union s.timedOut
<1>5. Merged(b, s) = [b EXCEPT !.expired = e, !.cancelled = c, !.shed = h,
                               !.unlaunched = s.unlaunched, !.cutOff = k,
                               !.timedOut = t]
  BY DEF Merged
<1>6. e \in BOOLEAN /\ c \in BOOLEAN /\ h \in Nat /\ k \in Nat
      /\ t \in SUBSET Nat
  BY <1>2, <1>3, <1>4
<1> HIDE DEF e, c, h, k, t
<1>. QED BY <1>2, <1>5, <1>6 DEF RunSummary

\* A step that keeps the nodes and gives every task a status.
LEMMA StatusEffect ==
  ASSUME TypeOK, UNCHANGED nodes, status' \in [TaskIds -> Status]
  PROVE  status' \in Seq(Status) /\ Len(status') = Len(nodes')
<1>1. Len(nodes) \in Nat
  BY LenProperties DEF TypeOK
<1>. QED BY <1>1, MapIsSeq DEF TaskIds

\* Nodes and statuses as functions of the task ids.
LEMMA StatusIsMap ==
  ASSUME TypeOK
  PROVE  /\ Len(nodes) \in Nat
         /\ status \in [TaskIds -> Status]
         /\ nodes \in [TaskIds -> Node]
BY SeqElements DEF TypeOK, TaskIds

\* A set of tasks can be counted.
LEMMA CountType ==
  ASSUME TypeOK, NEW T \in SUBSET TaskIds
  PROVE  IsFiniteSet(T) /\ Cardinality(T) \in Nat
<1>1. Len(nodes) \in Nat
  BY StatusIsMap
<1>2. IsFiniteSet(TaskIds)
  BY <1>1, FS_Interval DEF TaskIds
<1>3. IsFiniteSet(T)
  BY <1>2, FS_Subset
<1>. QED BY <1>3, FS_CardinalityType

\* Every step keeps the types.
LEMMA TypeNext == TypeOK /\ [Next]_vars => TypeOK'
<1> SUFFICES ASSUME TypeOK, [Next]_vars PROVE TypeOK'
  OBVIOUS
<1> USE DEF graphVars, foldVars, turnVars, fileVars, envVars
<1>0. /\ Len(nodes) \in Nat
      /\ status \in [TaskIds -> Status]
      /\ nodes \in [TaskIds -> Node]
  BY StatusIsMap
<1>a. /\ summary \in RunSummary /\ budget \in RunSummary
      /\ cancelled \in BOOLEAN /\ followups \in Nat
      /\ reviewTask \in 0..Len(nodes) /\ wrote \in SUBSET Nat
  BY DEF TypeOK
<1>b. <<>> \in Seq(Role)
  OBVIOUS
<1>1. CASE Launch
  <2>1. status' \in [TaskIds -> Status]
    BY <1>0, <1>1 DEF Launch, Status
  <2>. QED BY <2>1, <1>1, StatusEffect DEF Launch, TypeOK, TaskIds
<1>2. CASE CutOff
  <2>1. status' \in [TaskIds -> Status]
    BY <1>0, <1>2 DEF CutOff, CutOffWhen, Status
  <2>2. Cardinality(Running) \in Nat
    BY CountType DEF Running, WithStatus
  <2>3. summary' \in RunSummary
    BY <1>2, <1>a, <2>2, SummaryUpdates DEF CutOff, CutOffWhen
  <2>4. status' \in Seq(Status) /\ Len(status') = Len(nodes')
    BY <2>1, <1>2, StatusEffect DEF CutOff, CutOffWhen
  <2>. QED BY <2>3, <2>4, <1>2 DEF CutOff, CutOffWhen, TypeOK, TaskIds
<1>3. CASE Settle
  BY <1>3 DEF Settle, TypeOK, TaskIds
<1>4. CASE SkipRouted
  <2>1. todo' \in Seq(Role)
    BY <1>4, HeadTailProperties DEF SkipRouted, TypeOK
  <2>. QED BY <2>1, <1>4 DEF SkipRouted, TypeOK, TaskIds
<1>5. CASE ShedEmission
  <2>1. todo' \in Seq(Role)
    BY <1>5, HeadTailProperties DEF ShedEmission, TypeOK
  <2>2. summary' \in RunSummary
    BY <1>5, <1>a, SummaryUpdates DEF ShedEmission
  <2>. QED BY <2>1, <2>2, <1>5 DEF ShedEmission, TypeOK, TaskIds
<1>6. CASE DropAtTaskBudget
  BY <1>6, <1>b DEF DropAtTaskBudget, Foldable, TypeOK, TaskIds
<1>7. CASE CapEmission
  <2>1. todo' \in Seq(Role)
    BY <1>7, HeadTailProperties DEF CapEmission, Foldable, TypeOK
  <2>2. summary' \in RunSummary
    BY <1>7, <1>a, SummaryUpdates DEF CapEmission
  <2>. QED BY <2>1, <2>2, <1>7 DEF CapEmission, Foldable, TypeOK, TaskIds
<1>8. CASE FoldEmission
  <2>1. todo' \in Seq(Role) /\ Head(todo) \in Role
    BY <1>8, HeadTailProperties DEF FoldEmission, Fold, Foldable, TypeOK
  <2>2. emitter \in TaskIds
    BY <1>8 DEF FoldEmission, Fold, Foldable, TypeOK
  <2>3. Add(Head(todo), {emitter}, emitter)
    BY <1>8 DEF FoldEmission, Fold
  <2>4. /\ nodes' \in Seq(Node) /\ status' \in Seq(Status)
        /\ Len(nodes') = Len(nodes) + 1 /\ Len(status') = Len(nodes) + 1
        /\ TaskIds' = TaskIds \union {Len(nodes) + 1}
        /\ \A i \in TaskIds : nodes'[i] = nodes[i]
        /\ nodes'[Len(nodes) + 1].deps = {emitter}
    <3>1. emitter \in Nat /\ {emitter} \in SUBSET TaskIds
      BY <1>0, <2>2 DEF TaskIds
    <3>2. nodes'[Len(nodes) + 1]
            = [role |-> Head(todo), deps |-> {emitter}, by |-> emitter]
      BY <3>1, <2>1, <2>3, AddEffect
    <3>3. nodes'[Len(nodes) + 1].deps = {emitter}
      BY <3>2
    <3>. QED BY <3>1, <3>3, <2>1, <2>3, AddEffect
  <2>5. \A i \in TaskIds' : nodes'[i].deps \subseteq 1..(i - 1)
    <3>1. \A i \in TaskIds : nodes[i].deps \subseteq 1..(i - 1)
      BY DEF TypeOK
    <3>. QED BY <3>1, <2>2, <2>4, <1>0 DEF TaskIds
  <2>6. followups' \in Nat
    BY <1>8, <1>a DEF FoldEmission, Fold
  <2>7. reviewTask' \in 0..Len(nodes') /\ emitter' \in TaskIds'
    BY <2>2, <2>4, <1>0, <1>8, <1>a DEF FoldEmission, Fold
  <2>. QED
    BY <2>1, <2>4, <2>5, <2>6, <2>7, <1>8 DEF FoldEmission, Fold, TypeOK
<1>9. CASE EndFold
  BY <1>9, <1>0 DEF EndFold, EndFoldAt, TypeOK, TaskIds
<1>10. CASE CountUnlaunched
  <2>1. Cardinality(WithStatus("Pending")) \in Nat
    BY CountType DEF WithStatus
  <2>2. summary' \in RunSummary
    BY <1>10, <1>a, <2>1, SummaryUpdates DEF CountUnlaunched
  <2>. QED BY <2>2, <1>10 DEF CountUnlaunched, TypeOK, TaskIds
<1>11. CASE CloseDrive
  <2>1. NoSummary \in RunSummary
    BY DEF NoSummary, RunSummary
  <2>2. budget' \in RunSummary
    <3>1. [summary EXCEPT !.expired = PastDeadline, !.cancelled = cancelled]
            \in RunSummary
      BY <1>a, SummaryUpdates DEF PastDeadline
    <3>. QED BY <3>1, <1>11, <1>a, MergedType DEF CloseDrive
  <2>. QED BY <2>1, <2>2, <1>11 DEF CloseDrive, TypeOK, TaskIds
<1>12. CASE StartReview
  <2>1. Add(Review, {}, 0)
    BY <1>12 DEF StartReview
  <2>2. /\ nodes' \in Seq(Node) /\ status' \in Seq(Status)
        /\ Len(nodes') = Len(nodes) + 1 /\ Len(status') = Len(nodes) + 1
        /\ TaskIds' = TaskIds \union {Len(nodes) + 1}
        /\ \A i \in TaskIds : nodes'[i] = nodes[i]
        /\ nodes'[Len(nodes) + 1].deps = {}
    <3>1. {} \in SUBSET TaskIds /\ 0 \in Nat
      OBVIOUS
    <3>2. nodes'[Len(nodes) + 1] = [role |-> Review, deps |-> {}, by |-> 0]
      BY <3>1, <2>1, RoleAssumption, AddEffect
    <3>3. nodes'[Len(nodes) + 1].deps = {}
      BY <3>2
    <3>. QED BY <3>1, <3>3, <2>1, RoleAssumption, AddEffect
  <2>3. \A i \in TaskIds' : nodes'[i].deps \subseteq 1..(i - 1)
    <3>1. \A i \in TaskIds : nodes[i].deps \subseteq 1..(i - 1)
      BY DEF TypeOK
    <3>. QED BY <3>1, <2>2, <1>0 DEF TaskIds
  <2>4. reviewTask' \in 0..Len(nodes')
    BY <2>2, <1>0, <1>12 DEF StartReview
  <2>. QED BY <2>2, <2>3, <2>4, <1>12 DEF StartReview, TypeOK
<1>13. CASE SkipReview
  BY <1>13 DEF SkipReview, TypeOK, TaskIds
<1>14. CASE Report
  BY <1>14 DEF Report, TypeOK, TaskIds
<1>15. ASSUME NEW id \in TaskIds, Write(id) PROVE TypeOK'
  <2>1. wrote' \in SUBSET Nat
    BY <1>15, <1>0, <1>a DEF Write, TaskIds
  <2>. QED BY <2>1, <1>15 DEF Write, TypeOK, TaskIds
<1>16. ASSUME NEW id \in TaskIds, NEW ok \in BOOLEAN, NEW emits \in Emissions,
              Complete(id, ok, emits)
       PROVE  TypeOK'
  <2>1. status' \in [TaskIds -> Status]
    BY <1>0, <1>16 DEF Complete, Status
  <2>2. emits \in Seq(Role)
    BY MapIsSeq, BoundAssumption DEF Emissions
  <2>3. RoutedRoles(id) \in SUBSET Role
    BY <1>0 DEF RoutedRoles, Node
  <2>4. status' \in Seq(Status) /\ Len(status') = Len(nodes')
    BY <2>1, <1>16, StatusEffect DEF Complete
  <2>5. artifacts' \in SUBSET Nat
    BY <1>0, <1>16 DEF Complete, TypeOK, TaskIds
  <2>6. emitter' \in Nat /\ emitter' \in TaskIds'
    BY <1>0, <1>16 DEF Complete, TaskIds
  <2>. QED
    BY <2>2, <2>3, <2>4, <2>5, <2>6, <1>16 DEF Complete, TypeOK, TaskIds
<1>17. ASSUME NEW id \in TaskIds, TimeOut(id) PROVE TypeOK'
  <2>1. status' \in [TaskIds -> Status]
    BY <1>0, <1>17 DEF TimeOut, Status
  <2>2. RoutedRoles(id) \in SUBSET Role
    BY <1>0 DEF RoutedRoles, Node
  <2>3. summary' \in RunSummary
    <3>1. {id} \in SUBSET Nat
      BY <1>0 DEF TaskIds
    <3>. QED BY <3>1, <1>a, <1>17, SummaryUpdates DEF TimeOut
  <2>4. status' \in Seq(Status) /\ Len(status') = Len(nodes')
    BY <2>1, <1>17, StatusEffect DEF TimeOut
  <2>5. emitter' \in Nat /\ emitter' \in TaskIds'
    BY <1>0, <1>17 DEF TimeOut, TaskIds
  <2>. QED
    BY <2>2, <2>3, <2>4, <2>5, <1>17, <1>b DEF TimeOut, TypeOK, TaskIds
<1>18. CASE Tick
  BY <1>18 DEF Tick, TypeOK, TaskIds
<1>19. CASE CancelTurn
  BY <1>19 DEF CancelTurn, TypeOK, TaskIds
<1>20. CASE UNCHANGED vars
  BY <1>20 DEF vars, TypeOK, TaskIds
<1>. QED
  BY <1>1, <1>2, <1>3, <1>4, <1>5, <1>6, <1>7, <1>8, <1>9, <1>10, <1>11,
     <1>12, <1>13, <1>14, <1>15, <1>16, <1>17, <1>18, <1>19, <1>20
     DEF Next, Scheduler, Tasks, Ended

\* Every state of the turn is well typed; in particular the plan only ever
\* holds dependencies on earlier tasks, so it has no cycle.
THEOREM TypeCorrect == Spec => []TypeOK
<1>. QED BY TypeInit, TypeNext, PTL DEF Spec

-----------------------------------------------------------------------------
(* How a step changes the graph. *)

\* Every step keeps the graph, launches, settles one running task, cuts the
\* running ones off, or adds one Pending task.
Keeps == UNCHANGED <<nodes, status>>

SettlesOne ==
  /\ pc = "select" /\ pc' = "fold"
  /\ UNCHANGED nodes
  /\ \E id \in Running :
       \E s \in {"Done", "Failed"} : status' = [status EXCEPT ![id] = s]

AddsOne ==
  /\ pc \in {"fold", "review"}
  /\ pc' = IF pc = "fold" THEN "fold" ELSE "launch"
  /\ TaskIds' = TaskIds \union {Len(nodes) + 1}
  /\ \A i \in TaskIds : nodes'[i] = nodes[i] /\ status'[i] = status[i]
  /\ status'[Len(nodes) + 1] = "Pending"

\* A folded emission adds one node.
LEMMA FoldAdds ==
  ASSUME TypeOK, FoldEmission
  PROVE  AddsOne
<1>1. todo \in Seq(Role) /\ todo # <<>> /\ emitter \in TaskIds
  BY DEF FoldEmission, Fold, Foldable, TypeOK
<1>2. Head(todo) \in Role /\ {emitter} \in SUBSET TaskIds /\ emitter \in Nat
  BY <1>1, HeadTailProperties, StatusIsMap DEF TaskIds
<1>3. /\ Add(Head(todo), {emitter}, emitter)
      /\ pc = "fold" /\ pc' = "fold"
  BY DEF FoldEmission, Fold, Foldable
<1>. QED BY <1>2, <1>3, AddEffect DEF AddsOne

\* What any step does to the graph is one of five things.
LEMMA GraphSteps ==
  ASSUME TypeOK, [Next]_vars
  PROVE  Keeps \/ Launch \/ SettlesOne \/ CutOff \/ AddsOne
<1> USE DEF graphVars
<1>1. CASE \/ Settle \/ SkipRouted \/ ShedEmission \/ DropAtTaskBudget
           \/ CapEmission \/ EndFold \/ CountUnlaunched \/ CloseDrive
           \/ SkipReview \/ Report \/ Tick \/ CancelTurn \/ UNCHANGED vars
  BY <1>1 DEF Settle, SkipRouted, ShedEmission, DropAtTaskBudget, CapEmission,
       EndFold, EndFoldAt, CountUnlaunched, CloseDrive, SkipReview, Report, Tick,
       CancelTurn, vars, Keeps
<1>2. ASSUME NEW id \in TaskIds, Write(id) PROVE Keeps
  BY <1>2 DEF Write, Keeps
<1>3. ASSUME NEW id \in TaskIds, NEW ok \in BOOLEAN, NEW emits \in Emissions,
             Complete(id, ok, emits)
      PROVE  SettlesOne
  BY <1>3 DEF Complete, SettlesOne
<1>4. ASSUME NEW id \in TaskIds, TimeOut(id) PROVE SettlesOne
  BY <1>4 DEF TimeOut, SettlesOne
<1>5. CASE FoldEmission
  BY <1>5, FoldAdds
<1>6. CASE StartReview
  <2>1. /\ Add(Review, {}, 0) /\ {} \in SUBSET TaskIds /\ 0 \in Nat
        /\ pc = "review" /\ pc' = "launch"
    BY <1>6 DEF StartReview
  <2>. QED BY <2>1, RoleAssumption, AddEffect DEF AddsOne
<1>. QED
  BY <1>1, <1>2, <1>3, <1>4, <1>5, <1>6 DEF Next, Scheduler, Tasks, Ended

\* A task depends on earlier tasks only.
LEMMA DepsAreTasks ==
  ASSUME TypeOK, NEW i \in TaskIds, NEW d \in nodes[i].deps
  PROVE  d \in TaskIds /\ d < i
<1>1. d \in 1..(i - 1)
  BY DEF TypeOK
<1>. QED BY <1>1, StatusIsMap DEF TaskIds

-----------------------------------------------------------------------------
(* Dependencies. *)

\* No step starts a task before its dependencies or undoes one of them.
LEMMA DependenciesNext ==
  TypeOK /\ DependenciesDone /\ [Next]_vars => DependenciesDone'
<1> SUFFICES ASSUME TypeOK, DependenciesDone, [Next]_vars
             PROVE  DependenciesDone'
  OBVIOUS
<1>0. Len(nodes) \in Nat /\ status \in [TaskIds -> Status]
  BY StatusIsMap
<1>a. \A i \in TaskIds : \A d \in nodes[i].deps : d \in TaskIds
  BY DepsAreTasks
<1>1. CASE Keeps
  BY <1>1 DEF Keeps, DependenciesDone, TaskIds
<1>2. CASE Launch
  BY <1>2, <1>0, <1>a
     DEF Launch, DependenciesDone, TaskIds, Ready, Unblocked
<1>3. CASE SettlesOne
  BY <1>3, <1>0, <1>a
     DEF SettlesOne, DependenciesDone, TaskIds, Running, WithStatus
<1>4. CASE CutOff
  BY <1>4, <1>0, <1>a
     DEF CutOff, CutOffWhen, DependenciesDone, TaskIds, Running, WithStatus
<1>5. CASE AddsOne
  BY <1>5, <1>0, <1>a DEF AddsOne, DependenciesDone
<1>. QED BY <1>1, <1>2, <1>3, <1>4, <1>5, GraphSteps

\* No task ever runs on a dependency that is not Done.
THEOREM DependenciesHold == Spec => []DependenciesDone
<1>1. Init => DependenciesDone
  BY DEF Init, DependenciesDone, TaskIds
<1>2. TypeOK /\ DependenciesDone /\ [Next]_vars => DependenciesDone'
  BY DependenciesNext
<1>. QED BY <1>1, <1>2, TypeCorrect, PTL DEF Spec

\* A task starts once and settles once.
THEOREM SettledForGoodHolds == Spec => SettledForGood
<1>1. TypeOK /\ [Next]_vars =>
        [\A i \in TaskIds :
           /\ status[i] \in {"Done", "Failed"} => status'[i] = status[i]
           /\ status[i] = "Running" => status'[i] # "Pending"]_vars
  <2> SUFFICES ASSUME TypeOK, [Next]_vars, NEW i \in TaskIds
               PROVE  /\ status[i] \in {"Done", "Failed"} => status'[i] = status[i]
                      /\ status[i] = "Running" => status'[i] # "Pending"
    OBVIOUS
  <2>0. Len(nodes) \in Nat /\ status \in [TaskIds -> Status]
    BY StatusIsMap
  <2>1. CASE Keeps
    BY <2>1 DEF Keeps
  <2>2. CASE Launch
    BY <2>2, <2>0 DEF Launch, Ready, Unblocked
  <2>3. CASE SettlesOne
    BY <2>3, <2>0 DEF SettlesOne, Running, WithStatus
  <2>4. CASE CutOff
    BY <2>4, <2>0 DEF CutOff, CutOffWhen, Running, WithStatus
  <2>5. CASE AddsOne
    BY <2>5 DEF AddsOne
  <2>. QED BY <2>1, <2>2, <2>3, <2>4, <2>5, GraphSteps
<1>. QED BY <1>1, TypeCorrect, PTL DEF Spec, SettledForGood

-----------------------------------------------------------------------------
(* The loop and what it leaves behind. *)

\* A deadline stays past and a cancel stays thrown.
LEMMA ExpiredStays ==
  ASSUME TypeOK, [Next]_vars
  PROVE  Expired => Expired'
<1> USE DEF envVars, Expired, PastDeadline
<1>1. CASE Tick \/ CancelTurn \/ UNCHANGED vars
  BY <1>1 DEF Tick, CancelTurn, vars
<1>2. CASE Scheduler
  BY <1>2 DEF Scheduler, Launch, CutOff, CutOffWhen, Settle, SkipRouted,
       ShedEmission, DropAtTaskBudget, CapEmission, FoldEmission, Fold, EndFold,
       EndFoldAt, CountUnlaunched, CloseDrive, StartReview, SkipReview, Report
<1>3. CASE Tasks
  BY <1>3 DEF Tasks, Write, Complete, TimeOut
<1>. QED BY <1>1, <1>2, <1>3 DEF Next, Ended

\* A step that keeps the graph keeps what is derived from it.
LEMMA KeptSets ==
  ASSUME Keeps
  PROVE  Running' = Running /\ Ready' = Ready /\ TaskIds' = TaskIds
BY DEF Keeps, Running, WithStatus, Ready, Unblocked, TaskIds

\* After a launch in time no task is ready.
LEMMA LaunchEmptiesReady ==
  ASSUME TypeOK, Launch, ~Expired
  PROVE  Ready' = {}
<1>1. Len(nodes) \in Nat /\ status \in [TaskIds -> Status]
  BY StatusIsMap
<1>2. /\ UNCHANGED nodes /\ TaskIds' = TaskIds
      /\ status' = [i \in TaskIds |-> IF i \in Ready THEN "Running" ELSE status[i]]
  BY DEF Launch, TaskIds
<1>3. ASSUME NEW i \in TaskIds, status'[i] = "Pending",
             \A d \in nodes[i].deps : status'[d] = "Done"
      PROVE  FALSE
  <2>1. status[i] = "Pending" /\ i \notin Ready
    BY <1>1, <1>2, <1>3
  <2>2. PICK d \in nodes[i].deps : status[d] # "Done"
    BY <2>1 DEF Ready, Unblocked
  <2>3. d \in TaskIds
    BY DepsAreTasks
  <2>. QED BY <1>2, <1>3, <2>2, <2>3
<1>. QED BY <1>2, <1>3 DEF Ready, Unblocked

\* The loop leaves nothing running, and nothing ready while it may launch.
LEMMA LoopNext == TypeOK /\ LoopInv /\ [Next]_vars => LoopInv'
<1> SUFFICES ASSUME TypeOK, LoopInv, [Next]_vars PROVE LoopInv'
  OBVIOUS
<1> USE DEF graphVars, turnVars, LoopInv
<1>0. Expired => Expired'
  BY ExpiredStays
<1>1. CASE Launch
  BY <1>0, <1>1, LaunchEmptiesReady DEF Launch
<1>2. CASE CutOff
  <2>1. Running' = {}
    <3>1. Len(nodes) \in Nat /\ status \in [TaskIds -> Status]
      BY StatusIsMap
    <3>. QED
      BY <1>2, <3>1 DEF CutOff, CutOffWhen, Running, WithStatus, TaskIds
  <2>2. Expired /\ pc' = "tally"
    BY <1>2 DEF CutOff, CutOffWhen, Expired, PastDeadline
  <2>. QED BY <1>0, <2>1, <2>2
<1>5. ASSUME Keeps, UNCHANGED <<pc, budget>> PROVE LoopInv'
  BY <1>0, <1>5, KeptSets DEF InBudget
<1>6. CASE Settle
  BY <1>0, <1>6, KeptSets DEF Settle, Keeps
<1>7. CASE CountUnlaunched
  BY <1>0, <1>7, KeptSets DEF CountUnlaunched, Keeps
<1>8. CASE CloseDrive
  <2>1. Running' = {} /\ Ready' = Ready
    BY <1>8, KeptSets DEF CloseDrive, Keeps
  <2>2. InBudget' => ~Expired
    BY <1>8 DEF CloseDrive, InBudget, Merged, Expired, TypeOK, RunSummary
  <2>. QED BY <1>0, <1>8, <2>1, <2>2 DEF CloseDrive
<1>9. CASE SkipReview
  BY <1>0, <1>9, KeptSets DEF SkipReview, Keeps, InBudget
<1>10. CASE Report
  BY <1>0, <1>10, KeptSets DEF Report, Keeps
<1>11. CASE EndFold
  BY <1>11 DEF EndFold, EndFoldAt
<1>12. CASE SkipRouted \/ ShedEmission \/ DropAtTaskBudget \/ CapEmission
            \/ Tick \/ CancelTurn \/ UNCHANGED vars
  BY <1>5, <1>12 DEF SkipRouted, ShedEmission, DropAtTaskBudget, CapEmission,
       Tick, CancelTurn, vars, Keeps
<1>13. ASSUME NEW id \in TaskIds, Write(id) PROVE LoopInv'
  BY <1>5, <1>13 DEF Write, Keeps
<1>14. CASE FoldEmission \/ StartReview
  BY <1>14 DEF FoldEmission, Fold, Foldable, StartReview
<1>15. ASSUME NEW id \in TaskIds, NEW ok \in BOOLEAN, NEW emits \in Emissions,
              Complete(id, ok, emits)
       PROVE  LoopInv'
  BY <1>15 DEF Complete
<1>16. ASSUME NEW id \in TaskIds, TimeOut(id) PROVE LoopInv'
  BY <1>16 DEF TimeOut
<1>. QED
  BY <1>1, <1>2, <1>6, <1>7, <1>8, <1>9, <1>10, <1>11, <1>12, <1>13, <1>14,
     <1>15, <1>16 DEF Next, Scheduler, Tasks, Ended

\* A seeded turn has not left the loop.
LEMMA LoopInit == Init => LoopInv
BY DEF Init, LoopInv

\* Once the loop is left nothing runs, and a drive that may still launch
\* waits, ends or reports only with no task ready.
THEOREM LoopHolds == Spec => []LoopInv
<1>. QED BY LoopInit, LoopNext, TypeCorrect, PTL DEF Spec

\* Nothing is left Running once a drive has returned.
THEOREM NothingRunsOnHolds == Spec => []NothingRunsOn
<1>1. LoopInv => NothingRunsOn
  BY DEF LoopInv, NothingRunsOn
<1>. QED BY <1>1, LoopHolds, PTL

-----------------------------------------------------------------------------
(* The second drive. *)

\* What precedes the review task is in the graph.
LEMMA EarlierAreTasks ==
  ASSUME TypeOK
  PROVE  \A i \in 1..(reviewTask - 1) : i \in TaskIds
<1>1. reviewTask \in 0..Len(nodes)
  BY DEF TypeOK
<1>2. Len(nodes) \in Nat
  BY StatusIsMap
<1>. QED BY <1>1, <1>2 DEF TaskIds

\* No step of the review drive makes an earlier task ready or running.
LEMMA ReviewNext == TypeOK /\ LoopInv /\ ReviewInv /\ [Next]_vars => ReviewInv'
<1> SUFFICES ASSUME TypeOK, LoopInv, ReviewInv, [Next]_vars PROVE ReviewInv'
  OBVIOUS
<1> USE DEF graphVars, turnVars
<1>0. /\ Len(nodes) \in Nat /\ status \in [TaskIds -> Status]
      /\ \A i \in 1..(reviewTask - 1) : i \in TaskIds
  BY StatusIsMap, EarlierAreTasks
<1>a. Expired => Expired'
  BY ExpiredStays
<1>b. \A i \in TaskIds : \A d \in nodes[i].deps : d \in TaskIds
  BY DepsAreTasks
<1>c. ASSUME UNCHANGED <<drive, reviewTask>>, pc' # "review",
             \A i \in 1..(reviewTask - 1) :
               /\ status'[i] # "Running"
               /\ ~Expired' => i \notin Ready'
      PROVE  ReviewInv'
  BY <1>c DEF ReviewInv
<1>1. CASE Launch
  <2>1. ASSUME NEW i \in 1..(reviewTask - 1)
        PROVE  status'[i] # "Running" /\ (~Expired' => i \notin Ready')
    <3>1. i \in TaskIds /\ status[i] # "Running" /\ (~Expired => i \notin Ready)
      BY <1>0 DEF ReviewInv
    <3>2. status'[i] # "Running"
      BY <1>1, <3>1, <1>0 DEF Launch
    <3>3. ~Expired' => Ready' = {}
      BY <1>1, <1>a, LaunchEmptiesReady
    <3>. QED BY <3>2, <3>3
  <2>. QED BY <1>1, <1>c, <2>1 DEF Launch
<1>2. CASE CutOff
  <2>1. Expired' /\ pc' # "review" /\ UNCHANGED <<drive, reviewTask>>
    BY <1>2, <1>a DEF CutOff, CutOffWhen, Expired, PastDeadline
  <2>2. ASSUME NEW i \in 1..(reviewTask - 1) PROVE status'[i] # "Running"
    BY <1>0, <1>2 DEF CutOff, CutOffWhen, ReviewInv, Running, WithStatus
  <2>. QED BY <2>1, <2>2, <1>c
<1>3. ASSUME SettlesOne, UNCHANGED <<drive, reviewTask>> PROVE ReviewInv'
  <2>1. PICK id \in Running, s \in {"Done", "Failed"} :
          status' = [status EXCEPT ![id] = s]
    BY <1>3 DEF SettlesOne
  <2>2. id \in TaskIds /\ id \notin 1..(reviewTask - 1)
    BY <2>1 DEF Running, WithStatus, ReviewInv
  <2>3. ASSUME NEW i \in 1..(reviewTask - 1)
        PROVE  status'[i] = status[i]
    BY <2>1, <2>2, <1>0
  <2>4. ASSUME NEW i \in 1..(reviewTask - 1), ~Expired' PROVE i \notin Ready'
    <3>1. i \in TaskIds /\ i \notin Ready
      BY <1>0, <1>a, <2>4 DEF ReviewInv
    <3>2. CASE status[i] # "Pending"
      BY <3>2, <2>3 DEF Ready, Unblocked
    <3>3. CASE status[i] = "Pending"
      <4>1. PICK d \in nodes[i].deps : status[d] # "Done"
        BY <3>1, <3>3 DEF Ready, Unblocked
      <4>2. d \in 1..(reviewTask - 1)
        <5>1. d \in TaskIds /\ d < i
          BY <3>1, DepsAreTasks
        <5>2. reviewTask \in 0..Len(nodes)
          BY DEF TypeOK
        <5>. QED BY <5>1, <5>2, <1>0 DEF TaskIds
      <4>3. status'[d] # "Done" /\ nodes'[i] = nodes[i]
        BY <4>1, <4>2, <2>3, <1>3 DEF SettlesOne
      <4>. QED BY <4>1, <4>3 DEF Ready, Unblocked
    <3>. QED BY <3>2, <3>3
  <2>5. pc' # "review"
    BY <1>3 DEF SettlesOne
  <2>6. \A i \in 1..(reviewTask - 1) : status[i] # "Running"
    BY DEF ReviewInv
  <2>. QED BY <2>3, <2>4, <2>5, <2>6, <1>3, <1>c
<1>4. CASE FoldEmission
  <2>1. AddsOne /\ pc' = "fold" /\ UNCHANGED <<drive, reviewTask>>
    BY <1>4, FoldAdds DEF FoldEmission, Fold, Foldable
  <2>2. ASSUME NEW i \in 1..(reviewTask - 1)
        PROVE  status'[i] # "Running" /\ (~Expired' => i \notin Ready')
    <3>1. /\ i \in TaskIds /\ status[i] # "Running" /\ (~Expired => i \notin Ready)
          /\ nodes'[i] = nodes[i] /\ status'[i] = status[i]
      BY <1>0, <2>1 DEF ReviewInv, AddsOne
    <3>2. \A d \in nodes[i].deps : status'[d] = status[d]
      BY <3>1, <1>b, <2>1 DEF AddsOne
    <3>. QED BY <3>1, <3>2, <1>a DEF Ready, Unblocked
  <2>. QED BY <2>1, <2>2, <1>c
<1>5. CASE StartReview
  <2>1. /\ Add(Review, {}, 0) /\ {} \in SUBSET TaskIds /\ 0 \in Nat
        /\ pc = "review" /\ pc' = "launch" /\ drive' = 2
        /\ reviewTask' = Len(nodes) + 1 /\ UNCHANGED <<clock, cancelled>>
    BY <1>5 DEF StartReview, envVars
  <2>2. \A i \in TaskIds : nodes'[i] = nodes[i] /\ status'[i] = status[i]
    BY <2>1, RoleAssumption, AddEffect
  <2>3. ASSUME NEW i \in 1..(reviewTask' - 1)
        PROVE  status'[i] # "Running" /\ (~Expired' => i \notin Ready')
    <3>1. i \in TaskIds /\ nodes'[i] = nodes[i] /\ status'[i] = status[i]
      BY <2>1, <2>2, <1>0 DEF TaskIds
    <3>2. status[i] # "Running" /\ (~Expired => i \notin Ready)
      BY <3>1, <2>1 DEF LoopInv, Running, WithStatus
    <3>3. \A d \in nodes[i].deps : status'[d] = status[d]
      BY <3>1, <1>b, <2>2
    <3>. QED BY <3>1, <3>2, <3>3, <1>a DEF Ready, Unblocked
  <2>. QED BY <2>1, <2>3, <1>0 DEF ReviewInv
<1>6. ASSUME Keeps, UNCHANGED <<drive, reviewTask>>,
             pc' = "review" => drive = 1
      PROVE  ReviewInv'
  BY <1>6, <1>a, KeptSets DEF ReviewInv, Keeps
<1>7. CASE \/ Settle \/ SkipRouted \/ ShedEmission \/ DropAtTaskBudget
           \/ CapEmission \/ EndFold \/ CountUnlaunched \/ CloseDrive
           \/ SkipReview \/ Report \/ Tick \/ CancelTurn \/ UNCHANGED vars
  BY <1>6, <1>7 DEF Settle, SkipRouted, ShedEmission, DropAtTaskBudget,
       CapEmission, Foldable, EndFold, EndFoldAt, CountUnlaunched, CloseDrive,
       SkipReview, Report, Tick, CancelTurn, vars, Keeps, ReviewInv
<1>8. ASSUME NEW id \in TaskIds, Write(id) PROVE ReviewInv'
  BY <1>6, <1>8 DEF Write, Keeps
<1>9. ASSUME NEW id \in TaskIds, NEW ok \in BOOLEAN, NEW emits \in Emissions,
             Complete(id, ok, emits)
      PROVE  ReviewInv'
  BY <1>3, <1>9 DEF Complete, SettlesOne
<1>10. ASSUME NEW id \in TaskIds, TimeOut(id) PROVE ReviewInv'
  BY <1>3, <1>10 DEF TimeOut, SettlesOne
<1>. QED
  BY <1>1, <1>2, <1>4, <1>5, <1>7, <1>8, <1>9, <1>10
     DEF Next, Scheduler, Tasks, Ended

\* In the review drive no earlier task runs or can be launched.
THEOREM ReviewHolds == Spec => []ReviewInv
<1>1. Init => ReviewInv
  BY DEF Init, ReviewInv
<1>. QED BY <1>1, ReviewNext, LoopHolds, TypeCorrect, PTL DEF Spec

\* From the step that adds the review task on, no earlier task changes.
THEOREM ReviewSettlesFirstHolds == Spec => ReviewSettlesFirst
<1>1. TypeOK /\ ReviewInv /\ [Next]_vars =>
        [reviewTask # 0 =>
           \A i \in 1..(reviewTask - 1) : status'[i] = status[i]]_vars
  <2> SUFFICES ASSUME TypeOK, ReviewInv, [Next]_vars,
                      NEW i \in 1..(reviewTask - 1)
               PROVE  status'[i] = status[i]
    OBVIOUS
  <2>0. /\ Len(nodes) \in Nat /\ status \in [TaskIds -> Status]
        /\ i \in TaskIds
    BY StatusIsMap, EarlierAreTasks
  <2>a. status[i] # "Running" /\ (~Expired => i \notin Ready)
    BY DEF ReviewInv
  <2>1. CASE Keeps
    BY <2>1 DEF Keeps
  <2>2. CASE Launch
    BY <2>2, <2>0, <2>a DEF Launch
  <2>3. CASE SettlesOne
    BY <2>3, <2>0, <2>a DEF SettlesOne, Running, WithStatus
  <2>4. CASE CutOff
    BY <2>4, <2>0, <2>a DEF CutOff, CutOffWhen, Running, WithStatus
  <2>5. CASE AddsOne
    BY <2>5, <2>0 DEF AddsOne
  <2>. QED BY <2>1, <2>2, <2>3, <2>4, <2>5, GraphSteps
<1>. QED BY <1>1, ReviewHolds, TypeCorrect, PTL DEF Spec, ReviewSettlesFirst

-----------------------------------------------------------------------------
(* What the turn reports. *)

\* While the turn is in budget no step sheds, cuts off or counts a task, and
\* a written file is credited when its task completes or goes on record as
\* timed out.
LEMMA HonestNext ==
  TypeOK /\ LoopInv /\ HonestInv /\ [Next]_vars => HonestInv'
<1> SUFFICES ASSUME TypeOK, LoopInv, HonestInv, [Next]_vars PROVE HonestInv'
  OBVIOUS
<1> USE DEF graphVars, turnVars, fileVars
<1>0. /\ Len(nodes) \in Nat /\ status \in [TaskIds -> Status]
      /\ summary \in RunSummary /\ budget \in RunSummary
  <2>1. summary \in RunSummary /\ budget \in RunSummary
    BY DEF TypeOK
  <2>. QED BY <2>1, StatusIsMap
<1>a. Expired => Expired'
  BY ExpiredStays
<1>1. ASSUME UNCHANGED <<drive, budget, outcome, wrote>>,
             pc \notin {"review", "report", "done"},
             pc' \notin {"review", "report", "done"},
             ~Expired' =>
               /\ Clean(summary')
               /\ wrote \ artifacts' \subseteq
                    Running' \union summary'.timedOut \union budget.timedOut
      PROVE  HonestInv'
  BY <1>1 DEF HonestInv, InBudget
<1>2. CASE Launch
  <2>1. Running \subseteq Running'
    BY <1>0, <1>2 DEF Launch, Running, WithStatus, TaskIds, Ready, Unblocked
  <2>. QED BY <1>1, <1>2, <1>a, <2>1 DEF Launch, HonestInv, Clean
<1>3. CASE CutOff
  <2>1. Expired'
    BY <1>3, <1>a DEF CutOff, CutOffWhen, Expired, PastDeadline
  <2>. QED BY <1>1, <1>3, <2>1 DEF CutOff, CutOffWhen
<1>4. ASSUME NEW id \in TaskIds, NEW ok \in BOOLEAN, NEW emits \in Emissions,
             Complete(id, ok, emits)
      PROVE  HonestInv'
  <2>1. Running \ {id} \subseteq Running'
    BY <1>0, <1>4 DEF Complete, Running, WithStatus, TaskIds
  <2>2. wrote \ artifacts' \subseteq (wrote \ artifacts) \ {id}
    BY <1>4 DEF Complete
  <2>. QED BY <1>1, <1>4, <1>a, <2>1, <2>2 DEF Complete, HonestInv, Clean
<1>5. ASSUME NEW id \in TaskIds, TimeOut(id) PROVE HonestInv'
  <2>1. Running \ {id} \subseteq Running'
    BY <1>0, <1>5 DEF TimeOut, Running, WithStatus, TaskIds
  <2>2. /\ summary'.timedOut = summary.timedOut \union {id}
        /\ Clean(summary) => Clean(summary')
    BY <1>0, <1>5 DEF TimeOut, RunSummary, Clean
  <2>. QED BY <1>1, <1>5, <1>a, <2>1, <2>2 DEF TimeOut, HonestInv
<1>6. ASSUME NEW id \in TaskIds, Write(id) PROVE HonestInv'
  BY <1>6, <1>a, <1>0
     DEF Write, HonestInv, Clean, InBudget, Running, WithStatus, TaskIds
<1>7. CASE Settle \/ SkipRouted \/ DropAtTaskBudget \/ EndFold
  <2>1. /\ Keeps /\ UNCHANGED <<drive, budget, outcome, wrote, artifacts, summary>>
        /\ pc \in {"select", "fold"} /\ pc' \in {"tally", "fold", "launch"}
    BY <1>7 DEF Settle, SkipRouted, DropAtTaskBudget, Foldable, EndFold,
         EndFoldAt, Keeps
  <2>. QED BY <2>1, <1>1, <1>a, KeptSets DEF HonestInv, Clean
<1>8. CASE ShedEmission
  <2>1. Expired' /\ pc = "fold" /\ UNCHANGED <<pc, drive, budget, outcome, wrote>>
    BY <1>8, <1>a DEF ShedEmission
  <2>. QED BY <2>1, <1>1
<1>9. CASE CapEmission
  <2>1. /\ Keeps /\ UNCHANGED <<pc, drive, budget, outcome, wrote, artifacts>>
        /\ pc = "fold"
    BY <1>9 DEF CapEmission, Foldable, Keeps
  <2>2. /\ summary'.timedOut = summary.timedOut
        /\ Clean(summary) => Clean(summary')
    BY <1>0, <1>9 DEF CapEmission, RunSummary, Clean
  <2>. QED BY <2>1, <2>2, <1>1, <1>a, KeptSets DEF HonestInv
<1>10. CASE CountUnlaunched
  <2>1. /\ Keeps /\ UNCHANGED <<drive, budget, outcome, wrote, artifacts>>
        /\ pc = "tally" /\ pc' = "close"
        /\ ~Expired => UNCHANGED summary
    BY <1>10 DEF CountUnlaunched, Keeps
  <2>. QED BY <2>1, <1>1, <1>a, KeptSets DEF HonestInv, Clean
<1>11. CASE FoldEmission
  <2>1. /\ AddsOne /\ UNCHANGED <<pc, drive, budget, outcome, wrote, artifacts, summary>>
        /\ pc = "fold"
    BY <1>11, FoldAdds DEF FoldEmission, Fold, Foldable
  <2>2. Running \subseteq Running'
    BY <2>1 DEF AddsOne, Running, WithStatus
  <2>. QED BY <2>1, <2>2, <1>1, <1>a DEF HonestInv, Clean
<1>12. CASE CloseDrive
  <2>1. /\ Keeps /\ UNCHANGED <<drive, outcome, wrote, artifacts>>
        /\ pc = "close" /\ pc' \in {"review", "report"}
        /\ summary' = NoSummary
    BY <1>12 DEF CloseDrive, Keeps
  <2>2. /\ Running = {}
        /\ Running' = {}
    BY <2>1, KeptSets DEF LoopInv
  <2>3. InBudget' => ~Expired /\ (drive # 1 => InBudget)
    BY <1>0, <1>12 DEF CloseDrive, InBudget, Merged, Expired, RunSummary
  <2>4. /\ Clean(summary) /\ (drive # 1 => Clean(budget)) => Clean(budget')
        /\ budget'.timedOut = IF drive = 1 THEN summary.timedOut
                              ELSE budget.timedOut \union summary.timedOut
    BY <1>0, <1>12 DEF CloseDrive, Clean, Merged, RunSummary
  <2>5. Clean(summary') /\ summary'.timedOut = {}
    BY <2>1 DEF Clean, NoSummary
  <2>6. drive = 1 => budget.timedOut = {}
    BY <2>1 DEF HonestInv
  <2>7. ~Expired => wrote \ artifacts \subseteq budget'.timedOut
    BY <2>2, <2>4, <2>6 DEF HonestInv
  <2>8. InBudget' => Clean(budget')
    BY <2>3, <2>4 DEF HonestInv
  <2>9. outcome # "complete"
    BY <2>1 DEF HonestInv
  <2>. QED
    BY <1>a, <2>1, <2>2, <2>3, <2>5, <2>7, <2>8, <2>9 DEF HonestInv
<1>13. CASE StartReview
  <2>1. /\ UNCHANGED <<summary, budget, outcome, wrote, artifacts>>
        /\ pc = "review" /\ pc' = "launch" /\ drive' = 2
    BY <1>13 DEF StartReview
  <2>2. Running = {}
    BY <2>1 DEF LoopInv
  <2>. QED BY <1>a, <2>1, <2>2 DEF HonestInv, Clean, InBudget
<1>14. CASE SkipReview \/ Report
  <2>1. /\ Keeps /\ UNCHANGED <<summary, budget, drive, wrote, artifacts>>
        /\ pc \in {"review", "report"} /\ pc' \in {"report", "done"}
        /\ outcome' = "complete" => pc' = "done" /\ InBudget
    BY <1>14 DEF SkipReview, Report, Keeps, InBudget, HonestInv
  <2>. QED BY <1>a, <2>1, KeptSets DEF HonestInv, Clean, InBudget
<1>15. CASE Tick \/ CancelTurn \/ UNCHANGED vars
  <2>1. Keeps /\ UNCHANGED <<summary, budget, drive, outcome, wrote, artifacts, pc>>
    BY <1>15 DEF Tick, CancelTurn, vars, Keeps
  <2>. QED BY <1>a, <2>1, KeptSets DEF HonestInv, Clean, InBudget
<1>. QED
  BY <1>2, <1>3, <1>4, <1>5, <1>6, <1>7, <1>8, <1>9, <1>10, <1>11, <1>12,
     <1>13, <1>14, <1>15 DEF Next, Scheduler, Tasks, Ended

\* Only an expired turn sheds, cuts off or counts, and a turn in budget has
\* every written file credited, in work, or lost to a recorded timeout.
THEOREM HonestHolds == Spec => []HonestInv
<1>1. Init => HonestInv
  BY DEF Init, HonestInv, Clean, NoSummary
<1>. QED BY <1>1, HonestNext, LoopHolds, TypeCorrect, PTL DEF Spec

\* A turn journaled "complete" shed, cut off and lost nothing.
THEOREM CompleteIsHonestHolds == Spec => []CompleteIsHonest
<1>1. HonestInv => CompleteIsHonest
  BY DEF HonestInv, CompleteIsHonest, Clean
<1>. QED BY <1>1, HonestHolds, PTL

-----------------------------------------------------------------------------
(* What a turn leaves Pending. *)

\* A nonempty set of natural numbers has a least element: of the intervals
\* 1..k for its members k, one has no other strictly inside it.
LEMMA LeastElement ==
  ASSUME NEW S, S \subseteq Nat, S # {}
  PROVE  \E m \in S : \A k \in S : m <= k
<1> DEFINE Up == {1..k : k \in S}
<1>1. Up \subseteq FiniteSubsetsOf(Nat)
  <2>1. ASSUME NEW k \in Nat PROVE 1..k \in SUBSET Nat /\ IsFiniteSet(1..k)
    BY FS_Interval
  <2>. QED BY <2>1 DEF FiniteSubsetsOf
<1>2. PICK x \in Up : \A y \in Up : <<y, x>> \notin StrictSubsetOrdering(Nat)
  <2>1. Up # {}
    OBVIOUS
  <2> HIDE DEF Up
  <2>. QED BY <1>1, <2>1, FS_StrictSubsetOrderingWellFounded, WFMin
<1>3. PICK m \in S : x = 1..m
  OBVIOUS
<1>4. ASSUME NEW k \in S, k < m PROVE FALSE
  <2>1. 1..k \in Up /\ 1..k \subseteq 1..m /\ m \in 1..m /\ m \notin 1..k
    BY <1>4
  <2>2. 1..k \in SUBSET Nat /\ 1..m \in SUBSET Nat
    OBVIOUS
  <2>3. <<1..k, 1..m>> \in StrictSubsetOrdering(Nat)
    BY <2>1, <2>2 DEF StrictSubsetOrdering
  <2>. QED BY <1>2, <1>3, <2>1, <2>3
<1>. QED BY <1>4

\* If no task is ready or running, each Pending task waits on a failed one:
\* the least Pending task of a set closed under dependencies has an unmet
\* dependency in the set, which is no earlier Pending task.
LEMMA PendingStranded ==
  ASSUME TypeOK, Ready = {}, Running = {}
  PROVE  \A i \in WithStatus("Pending") : Stranded(i)
<1> SUFFICES ASSUME NEW i \in WithStatus("Pending"),
                    NEW W \in SUBSET TaskIds, i \in W,
                    \A j \in W : nodes[j].deps \subseteq W
             PROVE  \E a \in W : status[a] = "Failed"
  BY DEF Stranded
<1> DEFINE P == {j \in W : status[j] = "Pending"}
<1>1. P # {} /\ P \subseteq Nat
  <2>1. i \in P
    BY DEF WithStatus
  <2>2. TaskIds \subseteq Nat
    BY DEF TaskIds
  <2>. QED BY <2>1, <2>2
<1>2. PICK m \in P : \A k \in P : m <= k
  <2> HIDE DEF P
  <2>. QED BY <1>1, LeastElement
<1>3. m \in TaskIds /\ status[m] = "Pending" /\ nodes[m].deps \subseteq W
  OBVIOUS
<1>4. PICK d \in nodes[m].deps : status[d] # "Done"
  BY <1>3 DEF Ready, Unblocked
<1>5. d \in W /\ d \in TaskIds /\ d < m
  BY <1>3, DepsAreTasks
<1>6. status[d] # "Pending"
  <2>1. m \in Nat /\ d \in Nat
    BY <1>1, <1>2, <1>5, StatusIsMap DEF TaskIds
  <2>. QED BY <1>2, <1>5, <2>1
<1>7. status[d] # "Running"
  BY <1>5 DEF Running, WithStatus
<1>8. status[d] \in Status
  BY <1>5, StatusIsMap
<1>. QED BY <1>4, <1>5, <1>6, <1>7, <1>8 DEF Status

\* When a turn reports neither a cancel nor its budget, every task it left
\* Pending waits on one that failed.
THEOREM OnlyFailureStrandsHolds == Spec => []OnlyFailureStrands
<1>1. TypeOK /\ LoopInv => OnlyFailureStrands
  <2> SUFFICES ASSUME TypeOK, LoopInv, pc = "report",
                      ~budget.expired, ~budget.cancelled
               PROVE  \A i \in WithStatus("Pending") : Stranded(i)
    BY DEF OnlyFailureStrands
  <2>1. Running = {} /\ Ready = {}
    BY DEF LoopInv, InBudget
  <2>. QED BY <2>1, PendingStranded
<1>. QED BY <1>1, TypeCorrect, LoopHolds, PTL

-----------------------------------------------------------------------------
(* Who is handed a task's output. *)

\* What is still to be folded in is one emission of a task whose dependents the
\* drive has listed, and no task has joined the graph since.
HandoffInv ==
  /\ OneHandoffPerRole
  /\ Len(todo) <= 1
  /\ todo # <<>> => pc = "fold" /\ routed = RoutedRoles(emitter)

\* The rest of at most one emission is none.
LEMMA RestOfOne ==
  ASSUME TypeOK, Len(todo) <= 1, todo # <<>>
  PROVE  Tail(todo) = <<>> /\ Head(todo) \in Role
<1>1. Tail(todo) \in Seq(Role) /\ Len(Tail(todo)) = Len(todo) - 1 /\ Head(todo) \in Role
  BY HeadTailProperties DEF TypeOK
<1>2. Len(todo) = 1
  <2>1. todo \in Seq(Role) /\ Len(todo) \in Nat
    BY LenProperties DEF TypeOK
  <2>2. Len(todo) # 0
    BY <2>1, EmptySeq
  <2>3. PICK n \in Nat : n = Len(todo)
    BY <2>1
  <2>4. n <= 1 /\ n # 0
    BY <2>2, <2>3
  <2>5. n = 1
    BY <2>3, <2>4
  <2> QED BY <2>3, <2>5
<1>3. Len(Tail(todo)) = 0
  BY <1>1, <1>2
<1> QED BY <1>1, <1>3, EmptySeq

\* A step that leaves the graph, and nothing to be folded in, keeps it.
LEMMA HandoffKept ==
  ASSUME HandoffInv, UNCHANGED nodes, todo' = <<>>
  PROVE  HandoffInv'
<1>1. OneHandoffPerRole'
  BY DEF HandoffInv, OneHandoffPerRole, TaskIds
<1>2. Len(todo') = 0
  OBVIOUS
<1> QED BY <1>1, <1>2 DEF HandoffInv

\* Every step keeps it, if an outcome carries one emission.
LEMMA HandoffNext ==
  ASSUME MaxEmits <= 1, TypeOK, HandoffInv, [Next]_vars
  PROVE  HandoffInv'
<1> USE DEF graphVars, foldVars, turnVars, fileVars, envVars
<1>1. TaskIds = 1..Len(nodes) /\ Len(nodes) \in Nat
  BY StatusIsMap DEF TaskIds
<1>2. CASE SkipRouted \/ ShedEmission \/ CapEmission
  <2>1. UNCHANGED nodes /\ todo # <<>> /\ todo' = Tail(todo)
    BY <1>2 DEF SkipRouted, ShedEmission, CapEmission, Foldable
  <2>2. todo' = <<>>
    BY <2>1, RestOfOne DEF HandoffInv
  <2> QED BY <2>1, <2>2, HandoffKept
<1>3. CASE DropAtTaskBudget
  BY <1>3, HandoffKept DEF DropAtTaskBudget
<1>4. CASE FoldEmission
  <2>1. todo # <<>> /\ Head(todo) \notin routed /\ todo' = Tail(todo)
        /\ Add(Head(todo), {emitter}, emitter) /\ pc = "fold"
    BY <1>4 DEF FoldEmission, Fold, Foldable
  <2>2. todo' = <<>> /\ Head(todo) \in Role /\ routed = RoutedRoles(emitter)
    BY <2>1, RestOfOne DEF HandoffInv
  <2>3. emitter \in TaskIds /\ emitter \in Nat /\ {emitter} \in SUBSET TaskIds
    BY <1>1, <2>1 DEF TypeOK
  <2>4. PICK n \in Nat : n = Len(nodes) + 1
    BY <1>1
  <2>5. /\ TaskIds' = TaskIds \union {n}
        /\ \A i \in TaskIds : nodes'[i] = nodes[i]
        /\ nodes'[n] = [role |-> Head(todo), deps |-> {emitter}, by |-> emitter]
    BY <2>1, <2>2, <2>3, <2>4, AddEffect
  <2>6. \A j \in TaskIds : emitter \in nodes[j].deps => nodes[j].role # Head(todo)
    BY <2>1, <2>2 DEF RoutedRoles
  <2>7. ASSUME NEW i \in TaskIds', NEW j \in TaskIds', nodes'[i].by # 0, j < i,
               nodes'[i].by \in nodes'[j].deps
        PROVE  nodes'[j].role # nodes'[i].role
    <3>1. j \in TaskIds /\ nodes'[j] = nodes[j]
      BY <1>1, <2>4, <2>5, <2>7
    <3>2. CASE i \in TaskIds
      BY <2>5, <2>7, <3>1, <3>2 DEF HandoffInv, OneHandoffPerRole
    <3>3. CASE i = n
      <4>1. nodes'[i].role = Head(todo) /\ nodes'[i].by = emitter
        BY <2>5, <3>3
      <4> QED BY <2>6, <2>7, <3>1, <4>1
    <3> QED BY <2>5, <3>2, <3>3
  <2>8. OneHandoffPerRole'
    BY <2>7 DEF OneHandoffPerRole
  <2>9. Len(todo') = 0
    BY <2>2
  <2> QED BY <2>2, <2>8, <2>9 DEF HandoffInv
<1>5. CASE StartReview
  <2>1. Add(Review, {}, 0) /\ todo' = todo /\ pc = "review"
    BY <1>5 DEF StartReview
  <2>2. todo' = <<>>
    BY <2>1 DEF HandoffInv
  <2>3. PICK n \in Nat : n = Len(nodes) + 1
    BY <1>1
  <2>4. /\ TaskIds' = TaskIds \union {n}
        /\ \A i \in TaskIds : nodes'[i] = nodes[i]
        /\ nodes'[n] = [role |-> Review, deps |-> {}, by |-> 0]
    <3>1. {} \in SUBSET TaskIds /\ 0 \in Nat
      OBVIOUS
    <3> QED BY <2>1, <2>3, <3>1, RoleAssumption, AddEffect
  <2>5. ASSUME NEW i \in TaskIds', NEW j \in TaskIds', nodes'[i].by # 0, j < i,
               nodes'[i].by \in nodes'[j].deps
        PROVE  nodes'[j].role # nodes'[i].role
    <3>1. i \in TaskIds
      BY <2>4, <2>5
    <3>2. j \in TaskIds
      BY <1>1, <2>3, <2>4, <2>5, <3>1
    <3> QED BY <2>4, <2>5, <3>1, <3>2 DEF HandoffInv, OneHandoffPerRole
  <2>6. OneHandoffPerRole'
    BY <2>5 DEF OneHandoffPerRole
  <2>7. Len(todo') = 0
    BY <2>2
  <2> QED BY <2>2, <2>6, <2>7 DEF HandoffInv
<1>6. ASSUME NEW id \in TaskIds, NEW ok \in BOOLEAN, NEW emits \in Emissions,
             Complete(id, ok, emits)
      PROVE  HandoffInv'
  <2>1. UNCHANGED nodes /\ todo' = emits /\ emitter' = id /\ pc' = "fold"
        /\ routed' = RoutedRoles(id)
    BY <1>6 DEF Complete
  <2>2. OneHandoffPerRole'
    BY <2>1 DEF HandoffInv, OneHandoffPerRole, TaskIds
  <2>3. PICK n \in 0..MaxEmits : emits \in [1..n -> Role]
    BY DEF Emissions
  <2>4. n \in Nat /\ n <= 1
    BY <2>3, BoundAssumption
  <2>5. Len(emits) = n
    BY <2>3, <2>4, MapIsSeq
  <2>6. RoutedRoles(emitter)' = RoutedRoles(id)
    BY <2>1 DEF RoutedRoles, TaskIds
  <2> QED BY <2>1, <2>2, <2>4, <2>5, <2>6 DEF HandoffInv
<1>7. ASSUME NEW id \in TaskIds, TimeOut(id) PROVE HandoffInv'
  BY <1>7, HandoffKept DEF TimeOut
<1>8. CASE EndFold
  BY <1>8, HandoffKept DEF EndFold, EndFoldAt
<1>9. ASSUME UNCHANGED <<nodes, foldVars, pc>> PROVE HandoffInv'
  <2>1. UNCHANGED <<nodes, todo, emitter, routed, pc>>
    BY <1>9
  <2> QED BY <2>1 DEF HandoffInv, OneHandoffPerRole, RoutedRoles, TaskIds
<1>10. ASSUME UNCHANGED <<nodes, foldVars>>, pc # "fold" PROVE HandoffInv'
  <2>1. todo = <<>>
    BY <1>10 DEF HandoffInv
  <2> QED BY <1>10, <2>1, HandoffKept
<1>11. CASE Launch \/ CutOff \/ Settle \/ CountUnlaunched \/ CloseDrive \/ SkipReview \/ Report
  <2>1. UNCHANGED <<nodes, foldVars>> /\ pc # "fold"
    BY <1>11 DEF Launch, CutOff, CutOffWhen, Settle, CountUnlaunched, CloseDrive, SkipReview,
                 Report
  <2> QED BY <1>10, <2>1
<1>12. ASSUME NEW id \in TaskIds, Write(id) PROVE HandoffInv'
  BY <1>9, <1>12 DEF Write
<1>13. CASE Tick \/ CancelTurn \/ UNCHANGED vars
  BY <1>9, <1>13 DEF Tick, CancelTurn, vars
<1> QED
  BY <1>2, <1>3, <1>4, <1>5, <1>6, <1>7, <1>8, <1>11, <1>12, <1>13
     DEF Next, Scheduler, Tasks, Ended

\* No task's output goes to two tasks of one role because one of them was
\* emitted, if an outcome carries at most one emission, as emit_followups makes
\* it: skipping a role the plan routes to is enough, whoever else emitted it.
THEOREM OneHandoffPerRoleHolds ==
  ASSUME MaxEmits <= 1
  PROVE  Spec => []OneHandoffPerRole
<1>1. Init => HandoffInv
  <2> SUFFICES ASSUME Init PROVE HandoffInv
    OBVIOUS
  <2>1. \A i \in TaskIds : nodes[i].by = 0
    <3>1. PICK n \in 1..MaxSubtasks : nodes \in PlanOf(n)
      BY DEF Init, Plans
    <3>2. n \in Nat /\ nodes \in [1..n -> Node] /\ \A i \in 1..n : nodes[i].by = 0
      BY <3>1, BoundAssumption DEF PlanOf, Node
    <3>3. Len(nodes) = n
      BY <3>2, MapIsSeq
    <3> QED BY <3>2, <3>3 DEF TaskIds
  <2>2. todo = <<>> /\ Len(todo) = 0
    BY DEF Init
  <2> QED BY <2>1, <2>2 DEF HandoffInv, OneHandoffPerRole
<1>2. TypeOK /\ HandoffInv /\ [Next]_vars => HandoffInv'
  BY HandoffNext
<1>3. HandoffInv => OneHandoffPerRole
  BY DEF HandoffInv
<1> QED BY <1>1, <1>2, <1>3, TypeCorrect, PTL DEF Spec
=============================================================================
