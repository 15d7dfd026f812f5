---------------------------- MODULE TaskRunProofs ----------------------------
(***************************************************************************)
(* Theorems of TaskRun, and with it of ModelClient, for every finite set   *)
(* of tasks, any other askers, and every bound on steps, attempts,         *)
(* permits, retries and the budget: the remote budget counts what the      *)
(* ended tasks asked for, and a task runs at most four times, once on the  *)
(* remote.                                                                 *)
(*                                                                         *)
(* The line of who waits for a permit is left out of the types: Abandon    *)
(* filters it, and the provers know nothing of SelectSeq.  No theorem here *)
(* depends on it, and TLC's runs do.                                       *)
(***************************************************************************)
EXTENDS TaskRun, FiniteSetTheorems, WellFoundedInduction, TLAPS

\* Any set of numbers that is not empty has a least element.
LEMMA NatMin ==
  ASSUME NEW T, T \subseteq Nat, T # {}
  PROVE  \E x \in T : \A y \in T : x <= y
<1>1. PICK x \in T : \A y \in T : ~ (<<y, x>> \in OpToRel(<,Nat))
  BY NatLessThanWellFounded, WFMin
<1>2. \A y \in T : <<y, x>> \in Nat \X Nat
  OBVIOUS
<1>3. \A y \in T : ~ (y < x)
  BY <1>1, <1>2 DEF OpToRel
<1> QED BY <1>3

-----------------------------------------------------------------------------
(* Generations, as a count: one unit for every generation of every task.   *)

Units(r, S) == UNION {{t} \X (1..r[t]) : t \in S}

\* The units of one task.
LEMMA UnitsOfTask ==
  ASSUME NEW r, NEW t, r[t] \in Nat
  PROVE  IsFiniteSet({t} \X (1..r[t])) /\ Cardinality({t} \X (1..r[t])) = r[t]
<1>1. PICK n \in Nat : n = r[t]
  OBVIOUS
<1>2. IsFiniteSet(1..n) /\ Cardinality(1..n) = n
  BY FS_Interval
<1>3. IsFiniteSet({t}) /\ Cardinality({t}) = 1
  BY FS_Singleton
<1>4. IsFiniteSet({t} \X (1..n)) /\ Cardinality({t} \X (1..n)) = 1 * n
  BY <1>2, <1>3, FS_Product
<1> QED BY <1>1, <1>4

\* The units of a set, without a task and with it.
LEMMA UnitsSplit ==
  ASSUME NEW r, NEW S, NEW t \in S
  PROVE  /\ Units(r, S) = Units(r, S \ {t}) \union ({t} \X (1..r[t]))
         /\ Units(r, S \ {t}) \intersect ({t} \X (1..r[t])) = {}
BY DEF Units

\* Finitely many tasks have finitely many units.
LEMMA UnitsFinite ==
  ASSUME NEW r, NEW S, IsFiniteSet(S), \A t \in S : r[t] \in Nat
  PROVE  IsFiniteSet(Units(r, S))
<1> DEFINE Bad == {n \in Nat : \E T \in SUBSET S : Cardinality(T) = n /\ ~IsFiniteSet(Units(r, T))}
<1>1. ASSUME Bad # {} PROVE FALSE
  <2>1. PICK n \in Bad : \A m \in Bad : n <= m
    BY <1>1, NatMin
  <2>2. PICK T \in SUBSET S : Cardinality(T) = n /\ ~IsFiniteSet(Units(r, T))
    OBVIOUS
  <2>3. IsFiniteSet(T) /\ n \in Nat
    BY FS_Subset
  <2>4. T # {}
    <3>1. Units(r, {}) = {}
      BY DEF Units
    <3> QED BY <2>2, <3>1, FS_EmptySet
  <2>5. PICK t \in T : TRUE
    BY <2>4
  <2>10. Cardinality(T \ {t}) = Cardinality(T) - 1 /\ IsFiniteSet(T \ {t})
    BY <2>3, <2>5, FS_RemoveElement
  <2>11. Cardinality(T \ {t}) \in Nat
    BY <2>10, FS_CardinalityType
  <2>6. Cardinality(T \ {t}) = n - 1 /\ IsFiniteSet(T \ {t}) /\ n - 1 \in Nat
    BY <2>2, <2>10, <2>11
  <2>7. IsFiniteSet(Units(r, T \ {t}))
    <3>1. n - 1 \notin Bad
      BY <2>1, <2>3
    <3>2. T \ {t} \in SUBSET S
      OBVIOUS
    <3> QED BY <2>6, <3>1, <3>2
  <2>8. IsFiniteSet({t} \X (1..r[t]))
    BY UnitsOfTask
  <2>9. IsFiniteSet(Units(r, T \ {t}) \union ({t} \X (1..r[t])))
    BY <2>7, <2>8, FS_Union
  <2> QED BY <2>2, <2>9, UnitsSplit
<1>2. Cardinality(S) \in Nat
  BY FS_CardinalityType
<1> QED BY <1>1, <1>2

\* One task more adds its generations.
LEMMA UnitsCount ==
  ASSUME NEW r, NEW S, IsFiniteSet(S), \A t \in S : r[t] \in Nat, NEW t \in S
  PROVE  /\ Cardinality(Units(r, S \ {t})) \in Nat
         /\ Cardinality(Units(r, S)) = r[t] + Cardinality(Units(r, S \ {t}))
<1>1. IsFiniteSet(S \ {t})
  BY FS_RemoveElement
<1>2. IsFiniteSet(Units(r, S \ {t})) /\ Cardinality(Units(r, S \ {t})) \in Nat
  BY <1>1, UnitsFinite, FS_CardinalityType
<1>3. IsFiniteSet({t} \X (1..r[t])) /\ Cardinality({t} \X (1..r[t])) = r[t]
  BY UnitsOfTask
<1>4. PICK U, V : U = Units(r, S \ {t}) /\ V = {t} \X (1..r[t])
  OBVIOUS
<1>5. Units(r, S) = U \union V /\ U \cap V = {}
  BY <1>4, UnitsSplit
<1>6. Cardinality(U \cup V) = Cardinality(U) + Cardinality(V) - Cardinality(U \cap V)
  BY <1>2, <1>3, <1>4, FS_Union
<1>7. Cardinality(U \cap V) = 0
  BY <1>5, FS_EmptySet
<1>8. PICK u \in Nat, v \in Nat : u = Cardinality(U) /\ v = Cardinality(V) /\ v = r[t]
  BY <1>2, <1>3, <1>4
<1>9. Cardinality(U \cup V) = r[t] + u
  BY <1>6, <1>7, <1>8
<1> QED BY <1>2, <1>4, <1>5, <1>8, <1>9

\* The sum of Generations, of any function.
Total(r, tasks) ==
  LET Sum[S \in SUBSET tasks] ==
        IF S = {} THEN 0
        ELSE LET t == CHOOSE t \in S : TRUE IN r[t] + Sum[S \ {t}]
  IN  Sum[tasks]

\* The recursive sum is the count.
LEMMA TotalCount ==
  ASSUME NEW r, NEW S, IsFiniteSet(S), \A t \in S : r[t] \in Nat
  PROVE  Total(r, S) = Cardinality(Units(r, S))
<1> DEFINE Rhs(f, T) == IF T = {} THEN 0
                        ELSE LET t == CHOOSE t \in T : TRUE IN r[t] + f[T \ {t}]
           Sum == CHOOSE f : f = [T \in SUBSET S |-> Rhs(f, T)]
           Count == [T \in SUBSET S |-> Cardinality(Units(r, T))]
<1>2. Total(r, S) = Sum[S]
  BY DEF Total
<1>3. ASSUME NEW T \in SUBSET S, T # {}
      PROVE  LET t == CHOOSE t \in T : TRUE
             IN  /\ t \in T /\ T \ {t} \in SUBSET S
                 /\ Cardinality(Units(r, T)) = r[t] + Cardinality(Units(r, T \ {t}))
                 /\ Cardinality(T \ {t}) = Cardinality(T) - 1
                 /\ Cardinality(T) \in Nat /\ Cardinality(T \ {t}) \in Nat
  <2>1. PICK t : t = CHOOSE u \in T : TRUE
    OBVIOUS
  <2>2. t \in T
    BY <1>3, <2>1
  <2>3. IsFiniteSet(T) /\ \A u \in T : r[u] \in Nat
    BY FS_Subset
  <2>4. Cardinality(Units(r, T)) = r[t] + Cardinality(Units(r, T \ {t}))
    BY <2>2, <2>3, UnitsCount
  <2>5. Cardinality(T \ {t}) = Cardinality(T) - 1 /\ IsFiniteSet(T \ {t})
    BY <2>2, <2>3, FS_RemoveElement
  <2>6. Cardinality(T) \in Nat /\ Cardinality(T \ {t}) \in Nat
    BY <2>3, <2>5, FS_CardinalityType
  <2> QED BY <2>1, <2>2, <2>4, <2>5, <2>6
<1>4. Cardinality(Units(r, {})) = 0
  <2>1. Units(r, {}) = {}
    BY DEF Units
  <2> QED BY <2>1, FS_EmptySet
<1>5. Count = [T \in SUBSET S |-> Rhs(Count, T)]
  <2>1. ASSUME NEW T \in SUBSET S
        PROVE  Cardinality(Units(r, T)) = Rhs(Count, T)
    BY <1>3, <1>4
  <2> QED BY <2>1
<1>6. Sum = [T \in SUBSET S |-> Rhs(Sum, T)]
  <2> HIDE DEF Count, Rhs
  <2> QED BY <1>5
<1> HIDE DEF Sum
<1> DEFINE Bad == {n \in Nat : \E T \in SUBSET S :
                     Cardinality(T) = n /\ Sum[T] # Cardinality(Units(r, T))}
<1>7. ASSUME Bad # {} PROVE FALSE
  <2>1. PICK n \in Bad : \A m \in Bad : n <= m
    BY <1>7, NatMin
  <2>2. PICK T \in SUBSET S : Cardinality(T) = n /\ Sum[T] # Cardinality(Units(r, T))
    OBVIOUS
  <2>3. T # {}
    BY <1>4, <1>6, <2>2
  <2>4. PICK t : t = CHOOSE u \in T : TRUE
    OBVIOUS
  <2>5. /\ t \in T /\ T \ {t} \in SUBSET S
        /\ Cardinality(Units(r, T)) = r[t] + Cardinality(Units(r, T \ {t}))
        /\ Cardinality(T \ {t}) = n - 1 /\ n \in Nat /\ n - 1 \in Nat
    BY <1>3, <2>2, <2>3, <2>4
  <2>6. n - 1 \notin Bad
    BY <2>1, <2>5
  <2>7. Sum[T \ {t}] = Cardinality(Units(r, T \ {t}))
    BY <2>5, <2>6
  <2>8. Sum[T] = r[t] + Sum[T \ {t}]
    BY <1>6, <2>3, <2>4
  <2> QED BY <2>2, <2>5, <2>7, <2>8
<1>8. Cardinality(S) \in Nat
  BY FS_CardinalityType
<1>9. Sum[S] = Cardinality(Units(r, S))
  BY <1>7, <1>8
<1> QED BY <1>2, <1>9

\* Generations is the sum over what is recorded.
LEMMA GenerationsTotal ==
  ASSUME NEW S
  PROVE  Generations(S) = Total(recorded, S)
BY DEF Generations, Total

-----------------------------------------------------------------------------
(* The invariant, and the steps of a task.                                 *)

\* What a request may come to.
Result == {"reply", "truncated", "failed", "timedout"}

\* A request that is queued, sent or waits to be sent again.
Waiting == [pc : {"queued", "sent", "asleep"}, at : Backend, tries : Nat]

\* The request of an asker.
RequestState == {NoRequest} \union Waiting \union [pc : {"over"}, result : Result]

\* The state of a loop.
Loop ==
  [step : Nat, called : BOOLEAN, reminded : BOOLEAN, failing : BOOLEAN, told : BOOLEAN,
   made : SUBSET ToolCall, batch : Seq(ToolCall), next : Nat, text : BOOLEAN,
   last : BOOLEAN, circling : BOOLEAN]

\* Where a task waits for a reply.
Asks == {"asked", "judging", "concluding", "concluded", "bare"}

\* The state of a task.
TaskState ==
  [pc : Asks \union {"idle", "ended", "dropped", "fanout", "top", "final", "again", "ran",
                     "gate", "empty", "last"},
   remote : BOOLEAN, escalated : BOOLEAN, again : BOOLEAN,
   local : {"native", "text", "plain"}, mode : {"native", "text", "plain"},
   loop : Loop, result : {"none", "ok"} \union Result]

\* The attempts of a fan-out.
Attempts == [1..FANOUT -> {"running", "ok", "failed"}]

\* The types, but for the line.
TaskTypeOK ==
  /\ request \in [Asker -> RequestState]
  /\ recorded \in [Asker -> Nat]
  /\ task \in [Task -> TaskState]
  /\ attempt \in [Task -> Attempts]
  /\ spent \in Nat
  /\ late \in BOOLEAN
  /\ ran \in [Task -> Seq(Backend)]

\* Only a task that waits for a reply has a request out.
Asking == \A t \in Task : request[t] # NoRequest => task[t].pc \in Asks

\* How often a task may have run yet, by what it was tried for, and that none of
\* its runs but one was on the remote.
RunsOK(t) ==
  /\ task[t].pc = "idle" => ran[t] = <<>> /\ ~task[t].escalated /\ ~task[t].again
  /\ task[t].remote => task[t].escalated
  /\ task[t].pc # "idle" =>
       Len(ran[t]) <= 1 + (IF task[t].again THEN 1 ELSE 0)
                        + (IF ~task[t].escalated THEN 0 ELSE IF task[t].remote THEN 1 ELSE 2)
  /\ ~task[t].escalated => \A i \in 1..Len(ran[t]) : ran[t][i] # "remote"
  /\ \A i, j \in 1..Len(ran[t]) : ran[t][i] = "remote" /\ ran[t][j] = "remote" => i = j

\* What a step of a task leaves of the others, of its requests and of the spend.
StepOf(t) ==
  /\ TaskTypeOK'
  /\ \A u \in Task \ {t} : task'[u] = task[u] /\ ran'[u] = ran[u]
  /\ \A a \in Asker \ {t} : request'[a] = request[a]
  /\ recorded' = recorded
  /\ task[t].pc # "ended"
  /\ request'[t] # NoRequest => task'[t].pc \in Asks
  /\ spent' = IF task'[t].pc = "ended" THEN spent + recorded[t] ELSE spent
  /\ RunsOK(t) => RunsOK(t)'

-----------------------------------------------------------------------------
\* A fresh loop is one.
LEMMA NoLoopType == NoLoop \in Loop /\ NoLoop.batch = <<>>
BY DEF NoLoop, Loop

\* Fresh attempts are.
LEMMA RunningType == Running \in Attempts
BY DEF Running, Attempts

\* So is the loop of the next step.
LEMMA NextStepType == ASSUME NEW l \in Loop PROVE NextStep(l) \in Loop
<1>1. PICK n : n = l.step + 1
  OBVIOUS
<1>2. n \in Nat
  BY <1>1 DEF Loop
<1>3. PICK none : none = <<>>
  OBVIOUS
<1>4. none \in Seq(ToolCall)
  BY <1>3
<1>5. [l EXCEPT !.step = n] \in Loop
  BY <1>2 DEF Loop
<1>6. [[l EXCEPT !.step = n] EXCEPT !.batch = none] \in Loop
  BY <1>4, <1>5 DEF Loop
<1>7. [[[l EXCEPT !.step = n] EXCEPT !.batch = none] EXCEPT !.next = 1] \in Loop
  BY <1>6 DEF Loop
<1>8. NextStep(l) = [[[l EXCEPT !.step = n] EXCEPT !.batch = none] EXCEPT !.next = 1]
  BY <1>1, <1>3 DEF NextStep, Loop
<1> QED BY <1>7, <1>8

\* A task that goes on keeps what it was tried for.
LEMMA GoesTask ==
  ASSUME task \in [Task -> TaskState], NEW t \in Task, NEW pc, NEW loop \in Loop,
         pc \in {s.pc : s \in TaskState}, Goes(t, pc, loop)
  PROVE  /\ task' \in [Task -> TaskState]
         /\ \A u \in Task \ {t} : task'[u] = task[u]
         /\ task'[t].pc = pc /\ task'[t].remote = task[t].remote
         /\ task'[t].escalated = task[t].escalated /\ task'[t].again = task[t].again
<1>1. PICK k : k = task[t]
  OBVIOUS
<1>2. PICK n : n = [k EXCEPT !.pc = pc, !.loop = loop]
  OBVIOUS
<1>3. k \in TaskState
  BY <1>1
<1>4. /\ n \in TaskState /\ n.pc = pc /\ n.remote = k.remote
      /\ n.escalated = k.escalated /\ n.again = k.again
  BY <1>2, <1>3 DEF TaskState
<1>5. task' = [task EXCEPT ![t] = n]
  BY <1>1, <1>2, <1>3 DEF Goes, TaskState
<1> QED BY <1>1, <1>4, <1>5

\* So does one whose run ends.
LEMMA ReturnsTask ==
  ASSUME task \in [Task -> TaskState], NEW t \in Task, NEW result \in {"ok"} \union Result,
         Returns(t, result)
  PROVE  /\ task' \in [Task -> TaskState]
         /\ \A u \in Task \ {t} : task'[u] = task[u]
         /\ task'[t].pc = "ran" /\ task'[t].remote = task[t].remote
         /\ task'[t].escalated = task[t].escalated /\ task'[t].again = task[t].again
<1>1. PICK k : k = task[t]
  OBVIOUS
<1>2. PICK n : n = [k EXCEPT !.pc = "ran", !.loop = NoLoop, !.result = result]
  OBVIOUS
<1>3. k \in TaskState
  BY <1>1
<1>4. /\ n \in TaskState /\ n.pc = "ran" /\ n.remote = k.remote
      /\ n.escalated = k.escalated /\ n.again = k.again
  BY <1>2, <1>3, NoLoopType DEF TaskState
<1>5. task' = [task EXCEPT ![t] = n]
  BY <1>1, <1>2, <1>3 DEF Returns, TaskState
<1> QED BY <1>1, <1>4, <1>5

\* Every place of a task is the place of some state.
LEMMA Pcs ==
  ASSUME NEW pc \in Asks \union {"idle", "ended", "dropped", "fanout", "top", "final", "again",
                                 "ran", "gate", "empty", "last"}
  PROVE  pc \in {s.pc : s \in TaskState}
<1>1. PICK s : s = [pc |-> pc, remote |-> FALSE, escalated |-> FALSE, again |-> FALSE,
                    local |-> "plain", mode |-> "plain", loop |-> NoLoop, result |-> "none"]
  OBVIOUS
<1>2. s \in TaskState /\ s.pc = pc
  BY <1>1, NoLoopType DEF TaskState
<1> QED BY <1>2

\* A step within a run.
LEMMA WithinRun ==
  ASSUME TaskTypeOK, NEW t \in Task,
         task' \in [Task -> TaskState], \A u \in Task \ {t} : task'[u] = task[u],
         task[t].pc \notin {"idle", "ended"}, task'[t].pc \notin {"idle", "ended"},
         task'[t].remote = task[t].remote, task'[t].escalated = task[t].escalated,
         task'[t].again = task[t].again,
         request' \in [Asker -> RequestState], \A a \in Asker \ {t} : request'[a] = request[a],
         request'[t] # NoRequest => task'[t].pc \in Asks,
         attempt' \in [Task -> Attempts], UNCHANGED <<recorded, spent, late, ran>>
  PROVE  StepOf(t)
BY DEF StepOf, TaskTypeOK, RunsOK

\* A request that is asked is typed, and of its asker alone.
LEMMA AskRequest ==
  ASSUME request \in [Asker -> RequestState], NEW t \in Task, NEW b \in Backend, Ask(t, b)
  PROVE  /\ request' \in [Asker -> RequestState] /\ \A a \in Asker \ {t} : request'[a] = request[a]
<1>1. [pc |-> "queued", at |-> b, tries |-> 0] \in RequestState
  BY DEF RequestState, Waiting
<1> QED BY <1>1 DEF Ask

\* A request that is taken is gone, and no other.
LEMMA TakenRequest ==
  ASSUME request \in [Asker -> RequestState], NEW a \in Asker,
         request' = [request EXCEPT ![a] = NoRequest]
  PROVE  /\ request' \in [Asker -> RequestState] /\ request'[a] = NoRequest
         /\ \A c \in Asker \ {a} : request'[c] = request[c]
BY DEF RequestState

\* A task asks for generations.
LEMMA TaskIsAsker == \A t \in Task : t \in Asker
BY TaskAssumption

\* A step that leaves the clients alone, of a task that has no request out.
LEMMA AloneStep ==
  ASSUME TaskTypeOK, Asking, NEW t \in Task, Alone, task[t].pc \notin Asks,
         task' \in [Task -> TaskState], \A u \in Task \ {t} : task'[u] = task[u],
         task[t].pc \notin {"idle", "ended"}, task'[t].pc \notin {"idle", "ended"},
         task'[t].remote = task[t].remote, task'[t].escalated = task[t].escalated,
         task'[t].again = task[t].again
  PROVE  StepOf(t)
<1>1. request' = request /\ attempt' = attempt /\ UNCHANGED <<recorded, spent, late, ran>>
  BY DEF Alone, clientVars
<1>2. request[t] = NoRequest
  BY DEF Asking
<1> QED BY <1>1, <1>2, WithinRun DEF TaskTypeOK

\* A step that takes a reply.
LEMMA TakenStep ==
  ASSUME TaskTypeOK, NEW t \in Task, Taken(t),
         task' \in [Task -> TaskState], \A u \in Task \ {t} : task'[u] = task[u],
         task[t].pc \notin {"idle", "ended"}, task'[t].pc \notin {"idle", "ended"},
         task'[t].remote = task[t].remote, task'[t].escalated = task[t].escalated,
         task'[t].again = task[t].again
  PROVE  StepOf(t)
<1>1. request' = [request EXCEPT ![t] = NoRequest] /\ attempt' = attempt
      /\ UNCHANGED <<recorded, spent, late, ran>>
  BY DEF Taken
<1>2. /\ request' \in [Asker -> RequestState] /\ request'[t] = NoRequest
      /\ \A a \in Asker \ {t} : request'[a] = request[a]
  BY <1>1, TaskIsAsker, TakenRequest DEF TaskTypeOK
<1> QED BY <1>1, <1>2, WithinRun DEF TaskTypeOK

\* The steps above, by how the task goes on.
LEMMA GoesAlone ==
  ASSUME TaskTypeOK, Asking, NEW t \in Task, Alone, NEW loop \in Loop,
         NEW pc \in Asks \union {"fanout", "top", "final", "again", "ran", "gate", "empty", "last"},
         task[t].pc \notin Asks, task[t].pc \notin {"idle", "ended"}, Goes(t, pc, loop)
  PROVE  StepOf(t)
<1>1. pc \in {s.pc : s \in TaskState}
  BY Pcs
<1>2. pc \notin {"idle", "ended"}
  BY DEF Asks
<1> QED BY <1>1, <1>2, GoesTask, AloneStep DEF TaskTypeOK

\* The same for a run that ends.
LEMMA ReturnsAlone ==
  ASSUME TaskTypeOK, Asking, NEW t \in Task, Alone, NEW result \in {"ok"} \union Result,
         task[t].pc \notin Asks, task[t].pc \notin {"idle", "ended"}, Returns(t, result)
  PROVE  StepOf(t)
BY ReturnsTask, AloneStep DEF TaskTypeOK

\* The same with a reply taken.
LEMMA GoesTaken ==
  ASSUME TaskTypeOK, NEW t \in Task, Taken(t), NEW loop \in Loop,
         NEW pc \in {"top", "final", "again", "gate", "empty", "last"},
         task[t].pc \notin {"idle", "ended"}, Goes(t, pc, loop)
  PROVE  StepOf(t)
<1>1. pc \in {s.pc : s \in TaskState}
  BY Pcs
<1> QED BY <1>1, GoesTask, TakenStep DEF TaskTypeOK

\* The same with a reply taken and a run that ends.
LEMMA ReturnsTaken ==
  ASSUME TaskTypeOK, NEW t \in Task, Taken(t), NEW result \in {"ok"} \union Result,
         task[t].pc \notin {"idle", "ended"}, Returns(t, result)
  PROVE  StepOf(t)
BY ReturnsTask, TakenStep DEF TaskTypeOK

\* The same with a request asked.
LEMMA AskAtStep ==
  ASSUME TaskTypeOK, NEW t \in Task, NEW pc \in Asks, task[t].pc \notin {"idle", "ended"},
         AskAt(t, pc)
  PROVE  StepOf(t)
<1>1. /\ Ask(t, backend(t)) /\ Goes(t, pc, task[t].loop) /\ attempt' = attempt
      /\ UNCHANGED <<recorded, spent, late, ran>>
  BY DEF AskAt
<1>2. backend(t) \in Backend /\ task[t].loop \in Loop
  BY DEF backend, Backend, TaskTypeOK, TaskState
<1>3. request' \in [Asker -> RequestState] /\ \A a \in Asker \ {t} : request'[a] = request[a]
  BY <1>1, <1>2, AskRequest DEF TaskTypeOK
<1>4. pc \in {s.pc : s \in TaskState}
  BY Pcs
<1>5. pc \notin {"idle", "ended"}
  BY DEF Asks
<1> QED BY <1>1, <1>2, <1>3, <1>4, <1>5, GoesTask, WithinRun DEF TaskTypeOK

-----------------------------------------------------------------------------
(* The steps of the loops.                                                 *)

\* The fields of a loop, set one at a time.
LEMMA LoopFields ==
  ASSUME NEW l \in Loop, NEW b \in BOOLEAN
  PROVE  /\ [l EXCEPT !.last = b] \in Loop
         /\ [l EXCEPT !.reminded = b] \in Loop
         /\ [l EXCEPT !.told = b] \in Loop
         /\ [l EXCEPT !.circling = b] \in Loop
         /\ [l EXCEPT !.called = b] \in Loop
         /\ [l EXCEPT !.failing = b] \in Loop
         /\ [l EXCEPT !.text = b] \in Loop
<1>1. [l EXCEPT !.last = b] \in Loop
  BY DEF Loop
<1>2. [l EXCEPT !.reminded = b] \in Loop
  BY DEF Loop
<1>3. [l EXCEPT !.told = b] \in Loop
  BY DEF Loop
<1>4. [l EXCEPT !.circling = b] \in Loop
  BY DEF Loop
<1>5. [l EXCEPT !.called = b] \in Loop
  BY DEF Loop
<1>6. [l EXCEPT !.failing = b] \in Loop
  BY DEF Loop
<1>7. [l EXCEPT !.text = b] \in Loop
  BY DEF Loop
<1> QED BY <1>1, <1>2, <1>3, <1>4, <1>5, <1>6, <1>7

\* A loop with a batch.
LEMMA LoopBatch ==
  ASSUME NEW l \in Loop, NEW calls \in Seq(ToolCall), NEW made \in SUBSET ToolCall, NEW n \in Nat
  PROVE  /\ [l EXCEPT !.batch = calls, !.next = n] \in Loop
         /\ [l EXCEPT !.made = made, !.batch = calls, !.next = n] \in Loop
         /\ [l EXCEPT !.circling = TRUE, !.batch = calls] \in Loop
         /\ [l EXCEPT !.next = n] \in Loop
         /\ [l EXCEPT !.made = made] \in Loop
         /\ [l EXCEPT !.step = n] \in Loop
<1>1. [l EXCEPT !.batch = calls] \in Loop
  BY DEF Loop
<1>2. [[l EXCEPT !.batch = calls] EXCEPT !.next = n] \in Loop
  BY <1>1 DEF Loop
<1>3. [l EXCEPT !.made = made] \in Loop
  BY DEF Loop
<1>4. [[l EXCEPT !.made = made] EXCEPT !.batch = calls] \in Loop
  BY <1>3 DEF Loop
<1>5. [[[l EXCEPT !.made = made] EXCEPT !.batch = calls] EXCEPT !.next = n] \in Loop
  BY <1>4 DEF Loop
<1>6. [l EXCEPT !.circling = TRUE] \in Loop
  BY DEF Loop
<1>7. [[l EXCEPT !.circling = TRUE] EXCEPT !.batch = calls] \in Loop
  BY <1>6 DEF Loop
<1>8. [l EXCEPT !.next = n] \in Loop
  BY DEF Loop
<1>9. [l EXCEPT !.step = n] \in Loop
  BY DEF Loop
<1>10. /\ [l EXCEPT !.batch = calls, !.next = n] = [[l EXCEPT !.batch = calls] EXCEPT !.next = n]
       /\ [l EXCEPT !.circling = TRUE, !.batch = calls]
            = [[l EXCEPT !.circling = TRUE] EXCEPT !.batch = calls]
  BY DEF Loop
<1>11. [l EXCEPT !.made = made, !.batch = calls, !.next = n]
         = [[[l EXCEPT !.made = made] EXCEPT !.batch = calls] EXCEPT !.next = n]
  BY DEF Loop
<1> QED BY <1>2, <1>3, <1>5, <1>7, <1>8, <1>9, <1>10, <1>11

\* The loop of a task is one.
LEMMA LoopOf ==
  ASSUME TaskTypeOK, NEW t \in Task
  PROVE  task[t].loop \in Loop
BY DEF TaskTypeOK, TaskState

\* A request that is over has a result.
LEMMA ResultOf ==
  ASSUME TaskTypeOK, NEW t \in Task, Over(t)
  PROVE  request[t].result \in Result
<1>1. request[t] \in RequestState /\ request[t].pc = "over"
  BY TaskIsAsker DEF TaskTypeOK, Over
<1> QED BY <1>1 DEF RequestState, NoRequest, Waiting

\* The calls of a reply are calls.
LEMMA CallsOf ==
  ASSUME NEW calls \in Batches
  PROVE  calls \in Seq(ToolCall) /\ {calls[i] : i \in DOMAIN calls} \subseteq ToolCall
BY CallAssumption

\* The head of a step.
LEMMA HeadSteps ==
  ASSUME TaskTypeOK, Asking, NEW t \in Task,
         \/ TooBig(t) \/ OutOfTime(t) \/ Generate(t) \/ SpendSteps(t)
  PROVE  StepOf(t)
<1>1. CASE TooBig(t)
  <2>1. /\ Alone /\ Returns(t, "failed")
        /\ task[t].pc \notin Asks /\ task[t].pc \notin {"idle", "ended"}
    BY <1>1 DEF TooBig, Asks
  <2> QED BY <2>1, ReturnsAlone DEF Result
<1>2. CASE OutOfTime(t)
  <2>1. Alone /\ Returns(t, "ok") /\ task[t].pc \notin Asks /\ task[t].pc \notin {"idle", "ended"}
    BY <1>2 DEF OutOfTime, At, Asks
  <2> QED BY <2>1, ReturnsAlone
<1>3. CASE Generate(t)
  <2>1. AskAt(t, "asked") /\ task[t].pc \notin {"idle", "ended"} /\ "asked" \in Asks
    BY <1>3 DEF Generate, At, Asks
  <2> QED BY <2>1, AskAtStep
<1>4. CASE SpendSteps(t)
  <2>1. /\ Alone /\ Goes(t, "final", task[t].loop)
        /\ task[t].pc \notin Asks /\ task[t].pc \notin {"idle", "ended"}
    BY <1>4 DEF SpendSteps, At, Asks
  <2> QED BY <2>1, LoopOf, GoesAlone
<1> QED BY <1>1, <1>2, <1>3, <1>4

\* An error of the model.
LEMMA ErrorStep ==
  ASSUME TaskTypeOK, Asking, NEW t \in Task, TakeError(t)
  PROVE  StepOf(t)
<1>1. Taken(t) /\ task[t].pc \notin {"idle", "ended"} /\ request[t].result \in Result
  BY ResultOf DEF TakeError
<1>2. NextStep(task[t].loop) \in Loop
  BY LoopOf, NextStepType
<1>3. Goes(t, "top", NextStep(task[t].loop)) \/ Returns(t, request[t].result)
  BY DEF TakeError
<1>4. CASE Goes(t, "top", NextStep(task[t].loop))
  BY <1>1, <1>2, <1>4, GoesTaken
<1>5. CASE Returns(t, request[t].result)
  <2>1. PICK result \in {"ok"} \union Result : result = request[t].result
    BY <1>1
  <2> QED BY <1>1, <1>5, <2>1, ReturnsTaken
<1> QED BY <1>3, <1>4, <1>5

\* The native loop finds no call in the text, and the task goes on in the other.
LEMMA FallsBack ==
  ASSUME TaskTypeOK, NEW t \in Task, task[t].pc \notin {"idle", "ended"}, Taken(t),
         task' = [task EXCEPT ![t].pc = "top", ![t].mode = "text", ![t].loop = NoLoop]
  PROVE  StepOf(t)
<1>1. PICK k : k = task[t]
  OBVIOUS
<1>2. PICK n : n = [k EXCEPT !.pc = "top", !.mode = "text", !.loop = NoLoop]
  OBVIOUS
<1>3. k \in TaskState
  BY <1>1 DEF TaskTypeOK
<1>4. /\ n \in TaskState /\ n.pc = "top" /\ n.remote = k.remote
      /\ n.escalated = k.escalated /\ n.again = k.again
  BY <1>2, <1>3, NoLoopType DEF TaskState
<1>5. task' = [task EXCEPT ![t] = n]
  BY <1>1, <1>2, <1>3 DEF TaskTypeOK, TaskState
<1>6. /\ task' \in [Task -> TaskState] /\ \A u \in Task \ {t} : task'[u] = task[u]
      /\ task'[t] = n
  BY <1>4, <1>5 DEF TaskTypeOK
<1> QED BY <1>1, <1>4, <1>6, TakenStep

\* A reply without calls.
LEMMA AnswerStep ==
  ASSUME TaskTypeOK, Asking, NEW t \in Task, NEW text \in BOOLEAN, TakeAnswer(t, text)
  PROVE  StepOf(t)
<1>1. Taken(t) /\ task[t].pc \notin {"idle", "ended"}
  BY DEF TakeAnswer, Replied, At
<1>2. PICK l \in Loop : l = [task[t].loop EXCEPT !.last = text]
  BY LoopOf, LoopFields
<1>3. /\ NextStep([l EXCEPT !.reminded = TRUE]) \in Loop
      /\ NextStep([l EXCEPT !.told = TRUE]) \in Loop
  BY LoopFields, NextStepType
<1>4. \/ Goes(t, "top", NextStep([l EXCEPT !.reminded = TRUE]))
      \/ Goes(t, "top", NextStep([l EXCEPT !.told = TRUE]))
      \/ Returns(t, "ok")
      \/ task' = [task EXCEPT ![t].pc = "top", ![t].mode = "text", ![t].loop = NoLoop]
  BY <1>2 DEF TakeAnswer
<1> QED BY <1>1, <1>3, <1>4, GoesTaken, ReturnsTaken, FallsBack

\* A reply with calls.
LEMMA CallsStep ==
  ASSUME TaskTypeOK, Asking, NEW t \in Task, NEW calls \in Batches, NEW text \in BOOLEAN,
         TakeCalls(t, calls, text)
  PROVE  StepOf(t)
<1>1. Taken(t) /\ task[t].pc \notin {"idle", "ended"}
  BY DEF TakeCalls, Replied, At
<1>2. PICK l \in Loop : l = [task[t].loop EXCEPT !.last = text]
  BY LoopOf, LoopFields
<1>3. PICK made \in SUBSET ToolCall : made = l.made \union {calls[i] : i \in DOMAIN calls}
  <2>1. l.made \in SUBSET ToolCall
    BY DEF Loop
  <2> QED BY <2>1, CallsOf
<1>4. /\ [l EXCEPT !.circling = TRUE, !.batch = calls] \in Loop
      /\ [l EXCEPT !.made = made, !.batch = calls, !.next = 1] \in Loop
  BY CallsOf, LoopBatch
<1>5. \/ Goes(t, "final", [l EXCEPT !.circling = TRUE, !.batch = calls])
      \/ Goes(t, "gate", [l EXCEPT !.made = made, !.batch = calls, !.next = 1])
  BY <1>2, <1>3 DEF TakeCalls
<1> QED BY <1>1, <1>4, <1>5, GoesTaken

\* The replies of the plain and the text loop.
LEMMA TextSteps ==
  ASSUME TaskTypeOK, Asking, NEW t \in Task,
         TakePlain(t) \/ TakeText(t) \/ \E calls \in Batches : TakeIntent(t, calls)
  PROVE  StepOf(t)
<1>1. CASE TakePlain(t)
  <2>1. Taken(t) /\ task[t].pc \notin {"idle", "ended"} /\ Returns(t, "ok")
    BY <1>1 DEF TakePlain, Replied, At
  <2> QED BY <2>1, ReturnsTaken
<1>2. CASE TakeText(t)
  <2>1. Taken(t) /\ task[t].pc \notin {"idle", "ended"} /\ Returns(t, "ok")
    BY <1>2 DEF TakeText, Replied, At
  <2> QED BY <2>1, ReturnsTaken
<1>3. ASSUME NEW calls \in Batches, TakeIntent(t, calls)
      PROVE  StepOf(t)
  <2>1. Taken(t) /\ task[t].pc \notin {"idle", "ended"}
    BY <1>3 DEF TakeIntent, Replied, At
  <2>2. /\ NextStep(task[t].loop) \in Loop
        /\ [task[t].loop EXCEPT !.batch = calls, !.next = 1] \in Loop
    BY LoopOf, NextStepType, CallsOf, LoopBatch
  <2>3. \/ Goes(t, "top", NextStep(task[t].loop))
        \/ Goes(t, "gate", [task[t].loop EXCEPT !.batch = calls, !.next = 1])
    BY <1>3 DEF TakeIntent
  <2> QED BY <2>1, <2>2, <2>3, GoesTaken
<1> QED BY <1>1, <1>2, <1>3

\* The calls of a step.
LEMMA GateSteps ==
  ASSUME TaskTypeOK, Asking, NEW t \in Task,
         (\E failing \in BOOLEAN : Gate(t, failing)) \/ defer_read(t) \/ EndStep(t) \/ GateFinal(t)
  PROVE  StepOf(t)
<1>1. task[t].pc \notin Asks /\ task[t].pc \notin {"idle", "ended"} /\ Alone
  BY DEF Gate, defer_read, EndStep, GateFinal, At, Asks
<1>2. PICK l \in Loop : l = task[t].loop
  BY LoopOf
<1>3. PICK n \in Nat : n = l.next + 1
  <2>1. l.next \in Nat
    BY DEF Loop
  <2> QED BY <2>1
<1>4. [l EXCEPT !.next = n] \in Loop
  <2>1. <<>> \in Seq(ToolCall)
    OBVIOUS
  <2> QED BY <2>1, LoopBatch
<1>5. CASE defer_read(t)
  <2>1. Goes(t, "gate", [l EXCEPT !.next = n])
    BY <1>2, <1>3, <1>5 DEF defer_read, Loop
  <2> QED BY <1>1, <1>4, <2>1, GoesAlone
<1>6. ASSUME NEW failing \in BOOLEAN, Gate(t, failing)
      PROVE  StepOf(t)
  <2>1. [[[l EXCEPT !.next = n] EXCEPT !.called = TRUE] EXCEPT !.failing = failing] \in Loop
    BY <1>4, LoopFields
  <2>2. Goes(t, "gate", [[[l EXCEPT !.next = n] EXCEPT !.called = TRUE] EXCEPT !.failing = failing])
    <3>1. Goes(t, "gate", [l EXCEPT !.next = l.next + 1, !.called = TRUE, !.failing = failing])
      BY <1>2, <1>6 DEF Gate, Loop
    <3>2. [l EXCEPT !.next = l.next + 1, !.called = TRUE, !.failing = failing]
            = [[[l EXCEPT !.next = n] EXCEPT !.called = TRUE] EXCEPT !.failing = failing]
      BY <1>3 DEF Loop
    <3> QED BY <3>1, <3>2
  <2> QED BY <1>1, <2>1, <2>2, GoesAlone
<1>7. CASE EndStep(t)
  <2>1. PICK m : /\ m = l \/ m = [l EXCEPT !.made = {}]
                 /\ Goes(t, "top", NextStep(m))
    BY <1>2, <1>7 DEF EndStep
  <2>2. [l EXCEPT !.made = {}] \in Loop
    BY DEF Loop
  <2>3. NextStep(m) \in Loop
    BY <2>1, <2>2, NextStepType
  <2> QED BY <1>1, <2>1, <2>3, GoesAlone
<1>8. CASE GateFinal(t)
  BY <1>1, <1>2, <1>8, GoesAlone DEF GateFinal
<1> QED BY <1>5, <1>6, <1>7, <1>8

\* The requests for an answer.
LEMMA ConcludeSteps ==
  ASSUME TaskTypeOK, Asking, NEW t \in Task,
         Conclude(t) \/ ConcludeCircling(t) \/ AskAgain(t) \/ AskBare(t)
  PROVE  StepOf(t)
<1>1. task[t].pc \notin Asks /\ task[t].pc \notin {"idle", "ended"}
  BY DEF Conclude, ConcludeCircling, AskAgain, AskBare, At, Asks
<1>2. CASE Conclude(t)
  BY <1>1, <1>2, AskAtStep DEF Conclude, Asks
<1>3. CASE ConcludeCircling(t)
  BY <1>1, <1>3, LoopOf, GoesAlone DEF ConcludeCircling
<1>4. CASE AskAgain(t)
  BY <1>1, <1>4, AskAtStep DEF AskAgain, Asks
<1>5. CASE AskBare(t)
  BY <1>1, <1>5, AskAtStep, ReturnsAlone DEF AskBare, Asks
<1> QED BY <1>2, <1>3, <1>4, <1>5

\* An answer.
LEMMA AnsweredStep ==
  ASSUME TaskTypeOK, NEW t \in Task, Taken(t), task[t].pc \notin {"idle", "ended"}, NEW text,
         Answered(t, text)
  PROVE  StepOf(t)
<1>1. CASE Goes(t, "empty", task[t].loop)
  BY <1>1, LoopOf, GoesTaken
<1>2. CASE Returns(t, "ok")
  BY <1>2, ReturnsTaken
<1> QED BY <1>1, <1>2 DEF Answered

\* The replies that are answers.
LEMMA FinalSteps ==
  ASSUME TaskTypeOK, Asking, NEW t \in Task, NEW text \in BOOLEAN,
         TakeFinal(t, text) \/ TakeFinalCalls(t, text) \/ TakeAgain(t, text) \/ TakeBare(t)
  PROVE  StepOf(t)
<1>1. task[t].pc \notin {"idle", "ended"} /\ Taken(t)
  BY DEF TakeFinal, TakeFinalCalls, TakeAgain, TakeBare, Replied, At
<1>2. CASE TakeFinal(t, text)
  BY <1>1, <1>2, AnsweredStep DEF TakeFinal
<1>3. CASE TakeFinalCalls(t, text)
  <2>1. PICK n \in Nat : n = MAX_STEPS
    BY StepAssumption
  <2>2. [[NoLoop EXCEPT !.step = n] EXCEPT !.text = text] \in Loop
    <3>1. [NoLoop EXCEPT !.step = n] \in Loop
      BY NoLoopType DEF Loop
    <3> QED BY <3>1, LoopFields
  <2>3. [NoLoop EXCEPT !.step = MAX_STEPS, !.text = text]
          = [[NoLoop EXCEPT !.step = n] EXCEPT !.text = text]
    BY <2>1, NoLoopType DEF Loop
  <2>4. Goes(t, "last", [[NoLoop EXCEPT !.step = n] EXCEPT !.text = text])
    BY <1>3, <2>3 DEF TakeFinalCalls
  <2> QED BY <1>1, <2>2, <2>4, GoesTaken
<1>4. CASE TakeAgain(t, text)
  BY <1>1, <1>4, AnsweredStep DEF TakeAgain
<1>5. CASE TakeBare(t)
  BY <1>1, <1>5, ReturnsTaken DEF TakeBare
<1> QED BY <1>2, <1>3, <1>4, <1>5

-----------------------------------------------------------------------------
(* The steps of the executor and of a fan-out.                             *)

\* A run more.
LEMMA AppendRun ==
  ASSUME NEW s \in Seq(Backend), NEW b \in Backend
  PROVE  /\ Append(s, b) \in Seq(Backend) /\ Len(Append(s, b)) = Len(s) + 1 /\ Len(s) \in Nat
         /\ \A i \in 1..Len(s) : Append(s, b)[i] = s[i]
         /\ Append(s, b)[Len(s) + 1] = b
OBVIOUS

\* The runs of a task before one more, and what it is for.
LEMMA BeginStep ==
  ASSUME TaskTypeOK, Asking, NEW t \in Task, NEW remote \in BOOLEAN, NEW again \in BOOLEAN,
         NEW escalated \in BOOLEAN, task[t].pc \in {"idle", "ran"},
         Begin(t, remote, again, escalated), remote => escalated,
         RunsOK(t) =>
           /\ Len(ran[t]) + 1 <= 1 + (IF again THEN 1 ELSE 0)
                                   + (IF ~escalated THEN 0 ELSE IF remote THEN 1 ELSE 2)
           /\ ~escalated \/ remote => \A i \in 1..Len(ran[t]) : ran[t][i] # "remote"
  PROVE  StepOf(t)
<1>1. PICK n : n = [pc |-> IF t \in Coder /\ FANOUT > 1 THEN "fanout" ELSE "top",
                    remote |-> remote, escalated |-> escalated, again |-> again,
                    local |-> task[t].local,
                    mode |-> IF remote THEN "native" ELSE task[t].local, loop |-> NoLoop,
                    result |-> "none"]
  OBVIOUS
<1>2. task[t].local \in {"native", "text", "plain"}
  BY DEF TaskTypeOK, TaskState
<1>3. /\ n \in TaskState /\ n.pc \notin {"idle", "ended"} /\ n.remote = remote
      /\ n.again = again /\ n.escalated = escalated
  BY <1>1, <1>2, NoLoopType DEF TaskState
<1>4. task' = [task EXCEPT ![t] = n]
  BY <1>1 DEF Begin
<1>5. /\ task' \in [Task -> TaskState] /\ \A u \in Task \ {t} : task'[u] = task[u]
      /\ task'[t] = n
  BY <1>3, <1>4 DEF TaskTypeOK
<1>6. PICK b \in Backend : b = IF remote THEN "remote" ELSE "hipfire"
  BY DEF Backend
<1>7. PICK s \in Seq(Backend) : s = ran[t]
  BY DEF TaskTypeOK
<1>8. ran' = [ran EXCEPT ![t] = Append(s, b)]
  BY <1>6, <1>7 DEF Begin
<1>9. /\ ran' \in [Task -> Seq(Backend)] /\ \A u \in Task \ {t} : ran'[u] = ran[u]
      /\ ran'[t] = Append(s, b)
  BY <1>8, AppendRun DEF TaskTypeOK
<1>10. UNCHANGED <<request, recorded, attempt, spent, late>>
  BY DEF Begin, clientVars
<1>11. TaskTypeOK'
  BY <1>5, <1>9, <1>10 DEF TaskTypeOK
<1>12. request[t] = NoRequest
  BY DEF Asking, Asks
<1>13. ASSUME RunsOK(t) PROVE RunsOK(t)'
  <2>1. PICK x : x = Append(s, b)
    OBVIOUS
  <2>2. /\ Len(x) = Len(s) + 1 /\ Len(s) \in Nat /\ x[Len(s) + 1] = b
        /\ \A i \in 1..Len(s) : x[i] = s[i]
    BY <2>1, AppendRun
  <2>3. ran'[t] = x
    BY <1>9, <2>1
  <2>4. \A i \in 1..Len(x) : i \in 1..Len(s) \/ i = Len(s) + 1
    BY <2>2
  <2>5. \A i \in 1..Len(x) : (i \in 1..Len(s) /\ x[i] = s[i]) \/ (i = Len(s) + 1 /\ x[i] = b)
    BY <2>2, <2>4
  <2>6. ~escalated => \A i \in 1..Len(x) : x[i] # "remote"
    BY <1>6, <1>7, <1>13, <2>5
  <2>7. \A i, j \in 1..Len(x) : x[i] = "remote" /\ x[j] = "remote" => i = j
    <3>1. CASE remote
      BY <1>7, <1>13, <2>5, <3>1
    <3>2. CASE ~remote
      <4>1. \A i, j \in 1..Len(s) : s[i] = "remote" /\ s[j] = "remote" => i = j
        BY <1>7, <1>13 DEF RunsOK
      <4> QED BY <1>6, <2>5, <3>2, <4>1
    <3> QED BY <3>1, <3>2
  <2>8. Len(x) <= 1 + (IF again THEN 1 ELSE 0)
            + (IF ~escalated THEN 0 ELSE IF remote THEN 1 ELSE 2)
    BY <1>7, <1>13, <2>2
  <2> QED BY <1>3, <1>5, <2>3, <2>6, <2>7, <2>8 DEF RunsOK
<1> QED BY <1>3, <1>5, <1>9, <1>10, <1>11, <1>12, <1>13 DEF StepOf

\* The first run.
LEMMA StartStep ==
  ASSUME TaskTypeOK, Asking, NEW t \in Task, Start(t)
  PROVE  StepOf(t)
<1>1. PICK remote \in BOOLEAN : Begin(t, remote, FALSE, remote)
  BY DEF Start
<1>2. task[t].pc = "idle"
  BY DEF Start, At
<1>3. ASSUME RunsOK(t)
      PROVE  /\ Len(ran[t]) + 1 <= 1 + 0 + (IF ~remote THEN 0 ELSE IF remote THEN 1 ELSE 2)
             /\ \A i \in 1..Len(ran[t]) : ran[t][i] # "remote"
  <2>1. ran[t] = <<>>
    BY <1>2, <1>3 DEF RunsOK
  <2>2. Len(ran[t]) = 0
    BY <2>1
  <2> QED BY <2>2
<1> QED BY <1>1, <1>2, <1>3, BeginStep

\* A run after one that failed.
LEMMA RerunStep ==
  ASSUME TaskTypeOK, Asking, NEW t \in Task, Rerun(t)
  PROVE  StepOf(t)
<1>1. PICK k \in TaskState : k = task[t]
  BY DEF TaskTypeOK
<1>2. k.pc = "ran" /\ k.remote \in BOOLEAN /\ k.again \in BOOLEAN /\ k.escalated \in BOOLEAN
  BY <1>1 DEF Rerun, At, TaskState
<1>3. PICK n \in Nat : n = Len(ran[t])
  BY DEF TaskTypeOK
<1>4. RunsOK(t) =>
        /\ k.remote => k.escalated
        /\ n <= 1 + (IF k.again THEN 1 ELSE 0)
                  + (IF ~k.escalated THEN 0 ELSE IF k.remote THEN 1 ELSE 2)
        /\ ~k.escalated => \A i \in 1..Len(ran[t]) : ran[t][i] # "remote"
  BY <1>1, <1>2, <1>3 DEF RunsOK
<1>5. \/ k.remote /\ Begin(t, FALSE, k.again, k.escalated)
      \/ ~k.remote /\ ~k.again /\ Begin(t, FALSE, TRUE, k.escalated)
      \/ ~k.remote /\ ~k.escalated /\ Begin(t, TRUE, k.again, TRUE)
  BY <1>1 DEF Rerun
<1>6. CASE k.remote /\ Begin(t, FALSE, k.again, k.escalated)
  <2>1. RunsOK(t) => n + 1 <= 1 + (IF k.again THEN 1 ELSE 0) + (IF ~k.escalated THEN 0 ELSE 2)
    BY <1>4, <1>6
  <2> QED BY <1>1, <1>2, <1>3, <1>4, <1>6, <2>1, BeginStep
<1>7. CASE ~k.remote /\ ~k.again /\ Begin(t, FALSE, TRUE, k.escalated)
  <2>1. RunsOK(t) => n + 1 <= 1 + 1 + (IF ~k.escalated THEN 0 ELSE 2)
    BY <1>4, <1>7
  <2> QED BY <1>1, <1>2, <1>3, <1>4, <1>7, <2>1, BeginStep
<1>8. CASE ~k.remote /\ ~k.escalated /\ Begin(t, TRUE, k.again, TRUE)
  <2>1. RunsOK(t) => n + 1 <= 1 + (IF k.again THEN 1 ELSE 0) + 1
    BY <1>4, <1>8
  <2> QED BY <1>1, <1>2, <1>3, <1>4, <1>8, <2>1, BeginStep
<1> QED BY <1>5, <1>6, <1>7, <1>8

\* The task stops: it ends, or it is dropped with its request.
LEMMA StopsTask ==
  ASSUME task \in [Task -> TaskState], NEW t \in Task, NEW n \in TaskState,
         task' = [task EXCEPT ![t] = n],
         n.remote = task[t].remote, n.escalated = task[t].escalated, n.again = task[t].again
  PROVE  /\ task' \in [Task -> TaskState] /\ \A u \in Task \ {t} : task'[u] = task[u]
         /\ task'[t].pc = n.pc /\ task'[t].remote = task[t].remote
         /\ task'[t].escalated = task[t].escalated /\ task'[t].again = task[t].again
OBVIOUS

\* The end of a task.
LEMMA EndStepOf ==
  ASSUME TaskTypeOK, Asking, NEW t \in Task, End(t)
  PROVE  StepOf(t)
<1>1. PICK k \in TaskState : k = task[t]
  BY DEF TaskTypeOK
<1>2. PICK n : n = [k EXCEPT !.pc = "ended"]
  OBVIOUS
<1>3. /\ n \in TaskState /\ n.pc = "ended" /\ n.remote = k.remote
      /\ n.escalated = k.escalated /\ n.again = k.again
  BY <1>2 DEF TaskState
<1>4. task' = [task EXCEPT ![t] = n] /\ k.pc = "ran"
  BY <1>1, <1>2 DEF End, At
<1>5. /\ task' \in [Task -> TaskState] /\ \A u \in Task \ {t} : task'[u] = task[u]
      /\ task'[t].pc = "ended" /\ task'[t].remote = task[t].remote
      /\ task'[t].escalated = task[t].escalated /\ task'[t].again = task[t].again
  BY <1>1, <1>3, <1>4, StopsTask DEF TaskTypeOK
<1>6. spent' = spent + recorded[t] /\ UNCHANGED <<request, recorded, attempt, late, ran>>
  BY DEF End, clientVars
<1>7. recorded[t] \in Nat /\ request[t] = NoRequest
  BY <1>1, <1>4, TaskIsAsker DEF TaskTypeOK, Asking, Asks
<1>8. TaskTypeOK'
  BY <1>5, <1>6, <1>7 DEF TaskTypeOK
<1>9. RunsOK(t) => RunsOK(t)'
  BY <1>1, <1>4, <1>5, <1>6 DEF RunsOK
<1> QED BY <1>1, <1>4, <1>5, <1>6, <1>7, <1>8, <1>9 DEF StepOf

\* A task cut off.
LEMMA DropStep ==
  ASSUME TaskTypeOK, NEW t \in Task, Drop(t)
  PROVE  StepOf(t)
<1>1. PICK k \in TaskState : k = task[t]
  BY DEF TaskTypeOK
<1>2. PICK n : n = [k EXCEPT !.pc = "dropped", !.loop = NoLoop]
  OBVIOUS
<1>3. /\ n \in TaskState /\ n.pc = "dropped" /\ n.remote = k.remote
      /\ n.escalated = k.escalated /\ n.again = k.again
  BY <1>2, NoLoopType DEF TaskState
<1>4. task' = [task EXCEPT ![t] = n]
  BY <1>1, <1>2 DEF Drop, TaskTypeOK, TaskState
<1>5. /\ task' \in [Task -> TaskState] /\ \A u \in Task \ {t} : task'[u] = task[u]
      /\ task'[t].pc = "dropped" /\ task'[t].remote = task[t].remote
      /\ task'[t].escalated = task[t].escalated /\ task'[t].again = task[t].again
  BY <1>1, <1>3, <1>4, StopsTask DEF TaskTypeOK
<1>6. /\ request' \in [Asker -> RequestState] /\ request'[t] = NoRequest
      /\ \A a \in Asker \ {t} : request'[a] = request[a]
  BY TaskIsAsker, TakenRequest DEF Drop, Abandon, TaskTypeOK
<1>7. attempt' \in [Task -> Attempts] /\ UNCHANGED <<recorded, spent, late, ran>>
  BY RunningType DEF Drop, TaskTypeOK
<1>8. task[t].pc \notin {"idle", "ended"}
  BY DEF Drop
<1> QED BY <1>5, <1>6, <1>7, <1>8, WithinRun

\* The judge of a fan-out.
LEMMA JudgeSteps ==
  ASSUME TaskTypeOK, Asking, NEW t \in Task, Judge(t) \/ Judged(t)
  PROVE  StepOf(t)
<1>1. task[t].loop \in Loop /\ task[t].pc \notin {"idle", "ended"}
  BY LoopOf DEF Judge, Judged, At
<1>2. CASE Judge(t)
  <2>1. attempt' \in [Task -> Attempts] /\ UNCHANGED <<spent, late, ran>>
    BY <1>2, RunningType DEF Judge, TaskTypeOK
  <2>2. CASE Unjudged(t)
    <3>1. Goes(t, "top", task[t].loop) /\ UNCHANGED <<request, recorded>>
      BY <2>2 DEF Unjudged, clientVars
    <3>2. request[t] = NoRequest
      BY <1>2 DEF Judge, At, Asking, Asks
    <3>3. "top" \in {s.pc : s \in TaskState}
      BY Pcs
    <3>4. /\ task' \in [Task -> TaskState] /\ \A u \in Task \ {t} : task'[u] = task[u]
          /\ task'[t].pc = "top" /\ task'[t].remote = task[t].remote
          /\ task'[t].escalated = task[t].escalated /\ task'[t].again = task[t].again
      BY <1>1, <3>1, <3>3, GoesTask DEF TaskTypeOK
    <3>5. request' \in [Asker -> RequestState] /\ request'[t] = NoRequest
      BY <3>1, <3>2 DEF TaskTypeOK
    <3>6. \A a \in Asker \ {t} : request'[a] = request[a]
      BY <3>1
    <3> QED BY <1>1, <2>1, <3>1, <3>4, <3>5, <3>6, WithinRun
  <2>3. CASE ~Unjudged(t)
    <3>1. PICK b \in Backend : Ask(t, b) /\ Goes(t, "judging", task[t].loop) /\ recorded' = recorded
      BY <1>2, <2>3 DEF Judge, Backend
    <3>2. request' \in [Asker -> RequestState] /\ \A a \in Asker \ {t} : request'[a] = request[a]
      BY <3>1, AskRequest DEF TaskTypeOK
    <3>3. "judging" \in {s.pc : s \in TaskState} /\ "judging" \in Asks
      BY Pcs DEF Asks
    <3>4. /\ task' \in [Task -> TaskState] /\ \A u \in Task \ {t} : task'[u] = task[u]
          /\ task'[t].pc = "judging" /\ task'[t].remote = task[t].remote
          /\ task'[t].escalated = task[t].escalated /\ task'[t].again = task[t].again
      BY <1>1, <3>1, <3>3, GoesTask DEF TaskTypeOK
    <3> QED BY <1>1, <2>1, <3>1, <3>2, <3>3, <3>4, WithinRun
  <2> QED BY <2>2, <2>3
<1>3. CASE Judged(t)
  <2>1. Taken(t) /\ Goes(t, "top", task[t].loop)
    BY <1>3 DEF Judged, Taken
  <2> QED BY <1>1, <2>1, GoesTaken
<1> QED BY <1>2, <1>3

\* Every step of a task is one.
LEMMA RunStep ==
  ASSUME TaskTypeOK, Asking, NEW t \in Task, Run(t)
  PROVE  StepOf(t)
BY StartStep, RerunStep, EndStepOf, JudgeSteps, HeadSteps, ErrorStep, AnswerStep, CallsStep,
   TextSteps, GateSteps, ConcludeSteps, FinalSteps DEF Run

-----------------------------------------------------------------------------
(* The steps of everyone, and the theorems.                                *)

\* The tasks that have ended.
Ended == {t \in Task : At(t, "ended")}

\* The inductive invariant.
TaskInv == TaskTypeOK /\ Asking /\ (\A t \in Task : RunsOK(t)) /\ SpendIsRecorded

\* A task runs at most four times, and at most once on the remote: the executor
\* of daemon.rs escalates a task once and repeats a run once.
RunsBounded ==
  \A t \in Task :
    /\ Len(ran[t]) <= 4
    /\ \A i, j \in 1..Len(ran[t]) : ran[t][i] = "remote" /\ ran[t][j] = "remote" => i = j

\* Any tasks are finitely many.
LEMMA EndedFinite ==
  ASSUME TaskTypeOK, NEW S \in SUBSET Task
  PROVE  IsFiniteSet(S) /\ \A t \in S : recorded[t] \in Nat
<1>1. IsFiniteSet(S)
  BY TaskAssumption, FS_Subset
<1>2. \A t \in S : recorded[t] \in Nat
  BY TaskIsAsker DEF TaskTypeOK
<1> QED BY <1>1, <1>2

\* The spend, as a count.
LEMMA SpendCounts ==
  ASSUME TaskTypeOK
  PROVE  SpendIsRecorded <=> spent = Cardinality(Units(recorded, Ended))
<1>1. IsFiniteSet(Ended) /\ \A t \in Ended : recorded[t] \in Nat
  BY EndedFinite DEF Ended
<1>2. Total(recorded, Ended) = Cardinality(Units(recorded, Ended))
  BY <1>1, TotalCount
<1>3. Generations(Ended) = Total(recorded, Ended)
  BY GenerationsTotal
<1> QED BY <1>2, <1>3 DEF SpendIsRecorded, Ended

\* The same after a step.
LEMMA SpendCountsNext ==
  ASSUME TaskTypeOK'
  PROVE  SpendIsRecorded' <=> spent' = Cardinality(Units(recorded', Ended'))
<1>1. IsFiniteSet(Ended') /\ \A t \in Ended' : recorded'[t] \in Nat
  <2>1. Ended' \in SUBSET Task
    BY DEF Ended
  <2>2. IsFiniteSet(Ended')
    BY <2>1, TaskAssumption, FS_Subset
  <2>3. \A t \in Ended' : recorded'[t] \in Nat
    BY <2>1, TaskIsAsker DEF TaskTypeOK
  <2> QED BY <2>2, <2>3
<1>2. PICK S : S = Ended'
  OBVIOUS
<1>3. PICK r : r = recorded'
  OBVIOUS
<1>4. Total(r, S) = Cardinality(Units(r, S))
  BY <1>1, <1>2, <1>3, TotalCount
<1>5. Generations(Ended)' = Total(r, S)
  BY <1>2, <1>3 DEF Generations, Total
<1> QED BY <1>2, <1>3, <1>4, <1>5 DEF SpendIsRecorded, Ended

\* A step of one task.
LEMMA TaskStep ==
  ASSUME TaskInv, NEW t \in Task, StepOf(t)
  PROVE  TaskInv'
<1>1. TaskTypeOK' /\ TaskTypeOK /\ Asking
  BY DEF TaskInv, StepOf
<1>2. Asking'
  BY TaskIsAsker DEF TaskInv, StepOf, Asking
<1>3. ASSUME NEW u \in Task PROVE RunsOK(u)'
  <2>1. RunsOK(u)
    BY DEF TaskInv
  <2>2. CASE u = t
    BY <2>1, <2>2 DEF StepOf
  <2>3. CASE u # t
    BY <2>1, <2>3 DEF StepOf, RunsOK
  <2> QED BY <2>2, <2>3
<1>4. SpendIsRecorded'
  <2>1. spent = Cardinality(Units(recorded, Ended))
    BY SpendCounts DEF TaskInv
  <2>2. t \notin Ended /\ recorded' = recorded /\ \A u \in Task \ {t} : task'[u] = task[u]
    BY DEF StepOf, Ended, At
  <2>3. CASE task'[t].pc = "ended"
    <3>1. Ended' = Ended \union {t}
      BY <2>2, <2>3 DEF Ended, At
    <3>2. PICK S : S = Ended \union {t}
      OBVIOUS
    <3>3. S \in SUBSET Task /\ t \in S /\ S \ {t} = Ended
      BY <2>2, <3>2 DEF Ended
    <3>4. IsFiniteSet(S) /\ \A u \in S : recorded[u] \in Nat
      BY <1>1, <3>3, EndedFinite
    <3>5. /\ Cardinality(Units(recorded, S \ {t})) \in Nat
          /\ Cardinality(Units(recorded, S)) = recorded[t] + Cardinality(Units(recorded, S \ {t}))
      <4>1. PICK r : r = recorded
        OBVIOUS
      <4>2. \A u \in S : r[u] \in Nat
        BY <3>4, <4>1
      <4>3. Cardinality(Units(r, S \ {t})) \in Nat
        BY <3>3, <3>4, <4>2, UnitsCount
      <4>4. Cardinality(Units(r, S)) = r[t] + Cardinality(Units(r, S \ {t}))
        BY <3>3, <3>4, <4>2, UnitsCount
      <4> QED BY <4>1, <4>3, <4>4
    <3>6. spent' = spent + recorded[t] /\ recorded[t] \in Nat
      BY <2>3, <3>3, <3>4 DEF StepOf
    <3>7. spent' = Cardinality(Units(recorded, S))
      BY <2>1, <3>3, <3>5, <3>6
    <3> QED BY <1>1, <2>2, <3>1, <3>2, <3>7, SpendCountsNext
  <2>4. CASE task'[t].pc # "ended"
    <3>1. Ended' = Ended
      BY <2>2, <2>4 DEF Ended, At
    <3>2. spent' = spent
      BY <2>4 DEF StepOf
    <3> QED BY <1>1, <2>1, <2>2, <3>1, <3>2, SpendCountsNext
  <2> QED BY <2>3, <2>4
<1> QED BY <1>1, <1>2, <1>3, <1>4 DEF TaskInv

\* A step that leaves the tasks where they are.
LEMMA OtherStep ==
  ASSUME TaskInv, TaskTypeOK', task' = task, ran' = ran, spent' = spent,
         \A t \in Task : request'[t] # NoRequest => request[t] # NoRequest,
         \A t \in Task : task[t].pc = "ended" => recorded'[t] = recorded[t]
  PROVE  TaskInv'
<1>1. TaskTypeOK
  BY DEF TaskInv
<1>2. Asking'
  BY DEF TaskInv, Asking
<1>3. \A t \in Task : RunsOK(t)'
  BY DEF TaskInv, RunsOK
<1>4. SpendIsRecorded'
  <2>1. spent = Cardinality(Units(recorded, Ended))
    BY <1>1, SpendCounts DEF TaskInv
  <2>2. Ended' = Ended
    BY DEF Ended, At
  <2>3. Units(recorded', Ended) = Units(recorded, Ended)
    BY DEF Units, Ended, At
  <2> QED BY <2>1, <2>2, <2>3, SpendCountsNext
<1> QED BY <1>2, <1>3, <1>4 DEF TaskInv

\* Only a task that has asked can be answered.
LEMMA AnsweredIsNotEnded ==
  ASSUME TaskInv, NEW t \in Task, task[t].pc = "ended"
  PROVE  request[t] = NoRequest
BY DEF TaskInv, Asking, Asks

\* An attempt ends.
LEMMA AttemptStep ==
  ASSUME TaskInv, NEW t \in Task, NEW i \in 1..FANOUT, NEW result \in {"ok", "failed"},
         EndAttempt(t, i, result)
  PROVE  TaskInv'
<1>1. /\ TaskTypeOK
      /\ UNCHANGED <<request, task, spent, late, ran>> /\ task[t].pc = "fanout"
      /\ attempt' = [attempt EXCEPT ![t][i] = result]
      /\ recorded' = [recorded EXCEPT ![t] = IF result = "ok" /\ task[t].remote THEN @ + 1 ELSE @]
  BY DEF TaskInv, EndAttempt, At
<1>2. PICK p : p = [attempt[t] EXCEPT ![i] = result]
  OBVIOUS
<1>3. p \in Attempts
  BY <1>1, <1>2 DEF TaskTypeOK, Attempts
<1>4. attempt' = [attempt EXCEPT ![t] = p]
  BY <1>1, <1>2
<1>5. attempt' \in [Task -> Attempts]
  BY <1>1, <1>3, <1>4 DEF TaskTypeOK
<1>6. recorded' \in [Asker -> Nat]
  BY <1>1, TaskIsAsker DEF TaskTypeOK
<1>7. TaskTypeOK'
  BY <1>1, <1>5, <1>6 DEF TaskTypeOK
<1>8. \A u \in Task : task[u].pc = "ended" => recorded'[u] = recorded[u]
  BY <1>1, TaskIsAsker DEF TaskTypeOK
<1> QED BY <1>1, <1>7, <1>8, OtherStep

\* Another asks.
LEMMA ElsewhereStep ==
  ASSUME TaskInv, NEW a \in Asker, AskElsewhere(a) \/ TakeElsewhere(a)
  PROVE  TaskInv'
<1>1. /\ TaskTypeOK /\ a \notin Task
      /\ UNCHANGED <<recorded, task, attempt, spent, late, ran>>
      /\ \/ request' = [request EXCEPT ![a] = NoRequest]
         \/ request' = [request EXCEPT ![a] = [pc |-> "queued", at |-> "hipfire", tries |-> 0]]
  BY DEF TaskInv, AskElsewhere, TakeElsewhere, Ask, taskVars
<1>2. [pc |-> "queued", at |-> "hipfire", tries |-> 0] \in RequestState
  BY DEF RequestState, Waiting, Backend
<1>3. NoRequest \in RequestState
  BY DEF RequestState
<1>4. request' \in [Asker -> RequestState] /\ \A t \in Task : request'[t] = request[t]
  BY <1>1, <1>2, <1>3, TaskIsAsker DEF TaskTypeOK
<1>5. TaskTypeOK'
  BY <1>1, <1>4 DEF TaskTypeOK
<1> QED BY <1>1, <1>4, <1>5, OtherStep

\* A step of the client's with one request, which it leaves out.
LEMMA RequestStep ==
  ASSUME TaskInv, NEW a \in Asker, NEW n \in RequestState, UNCHANGED taskVars,
         request' = [request EXCEPT ![a] = n], request[a] # NoRequest,
         recorded' \in [Asker -> Nat], \A c \in Asker \ {a} : recorded'[c] = recorded[c]
  PROVE  TaskInv'
<1>1. TaskTypeOK /\ UNCHANGED <<task, attempt, spent, late, ran>>
  BY DEF TaskInv, taskVars
<1>2. request' \in [Asker -> RequestState]
  BY <1>1 DEF TaskTypeOK
<1>3. TaskTypeOK'
  BY <1>1, <1>2 DEF TaskTypeOK
<1>4. \A t \in Task : request'[t] # NoRequest => request[t] # NoRequest
  BY <1>1, TaskIsAsker DEF TaskTypeOK
<1>5. \A t \in Task : task[t].pc = "ended" => recorded'[t] = recorded[t]
  BY AnsweredIsNotEnded, TaskIsAsker
<1> QED BY <1>1, <1>3, <1>4, <1>5, OtherStep

\* A request that waits goes on waiting, in another state.
LEMMA WaitingGoesOn ==
  ASSUME NEW q \in RequestState, q.pc \in {"queued", "sent", "asleep"},
         NEW pc \in {"queued", "sent", "asleep"}, NEW k \in {0, 1}
  PROVE  /\ [[q EXCEPT !.pc = pc] EXCEPT !.tries = @ + k] \in RequestState
         /\ [q EXCEPT !.pc = pc] \in RequestState
<1>1. q \in Waiting
  BY DEF RequestState, NoRequest
<1>2. [q EXCEPT !.pc = pc] \in Waiting
  BY <1>1 DEF Waiting
<1>3. PICK n \in Nat : n = [q EXCEPT !.pc = pc].tries + k
  BY <1>2 DEF Waiting
<1>4. [[q EXCEPT !.pc = pc] EXCEPT !.tries = n] \in Waiting
  BY <1>2, <1>3 DEF Waiting
<1> QED BY <1>2, <1>3, <1>4 DEF RequestState, Waiting

\* The client serves a request.
LEMMA ClientStep ==
  ASSUME TaskInv, NEW a \in Asker, UNCHANGED taskVars,
         \/ Admit(a) \/ Resend(a) \/ Shed(a)
         \/ \E result \in {"reply", "truncated"} : Answer(a, result)
         \/ \E result \in {"failed", "timedout"} : Fail(a, result)
  PROVE  TaskInv'
<1>1. PICK q \in RequestState : q = request[a]
  BY DEF TaskInv, TaskTypeOK
<1>2. q.pc \in {"queued", "sent", "asleep"} /\ request[a] # NoRequest
  BY <1>1 DEF Admit, Resend, Shed, Answer, Fail, NoRequest
<1>3. recorded \in [Asker -> Nat] /\ request \in [Asker -> RequestState]
  BY DEF TaskInv, TaskTypeOK
<1>4. \A result \in Result : [pc |-> "over", result |-> result] \in RequestState
  BY DEF RequestState
<1>5. CASE Admit(a) \/ Resend(a)
  <2>1. [q EXCEPT !.pc = "sent"] \in RequestState
    BY <1>2, WaitingGoesOn
  <2>2. request' = [request EXCEPT ![a] = [q EXCEPT !.pc = "sent"]] /\ recorded' = recorded
    BY <1>1, <1>5 DEF Admit, Resend
  <2> QED BY <1>2, <1>3, <2>1, <2>2, RequestStep
<1>6. CASE Shed(a)
  <2>1. recorded' = recorded
    BY <1>6 DEF Shed
  <2>2. CASE Ends(a, "failed")
    <3>1. request' = [request EXCEPT ![a] = [pc |-> "over", result |-> "failed"]]
      BY <2>2 DEF Ends
    <3> QED BY <1>2, <1>3, <1>4, <2>1, <3>1, RequestStep DEF Result
  <2>3. CASE request' = [request EXCEPT ![a].pc = "asleep", ![a].tries = @ + 1]
    <3>1. PICK n : n = [[q EXCEPT !.pc = "asleep"] EXCEPT !.tries = @ + 1]
      OBVIOUS
    <3>2. n \in RequestState
      BY <1>2, <3>1, WaitingGoesOn
    <3>3. request' = [request EXCEPT ![a] = n]
      BY <1>1, <1>3, <2>3, <3>1
    <3> QED BY <1>2, <1>3, <2>1, <3>2, <3>3, RequestStep
  <2> QED BY <1>6, <2>2, <2>3 DEF Shed
<1>7. CASE \E result \in {"reply", "truncated"} : Answer(a, result)
  <2>1. PICK result \in {"reply", "truncated"} : Answer(a, result)
    BY <1>7
  <2>2. request' = [request EXCEPT ![a] = [pc |-> "over", result |-> result]]
    BY <2>1 DEF Answer, Ends
  <2>3. recorded' \in [Asker -> Nat] /\ \A c \in Asker \ {a} : recorded'[c] = recorded[c]
    BY <1>3, <2>1 DEF Answer
  <2> QED BY <1>2, <1>4, <2>2, <2>3, RequestStep DEF Result
<1>8. CASE \E result \in {"failed", "timedout"} : Fail(a, result)
  <2>1. PICK result \in {"failed", "timedout"} : Fail(a, result)
    BY <1>8
  <2>2. /\ request' = [request EXCEPT ![a] = [pc |-> "over", result |-> result]]
        /\ recorded' = recorded
    BY <2>1 DEF Fail, Ends
  <2> QED BY <1>2, <1>3, <1>4, <2>2, RequestStep DEF Result
<1> QED BY <1>5, <1>6, <1>7, <1>8

\* The invariant holds at the start.
LEMMA InitTaskInv == Init => TaskInv
<1> SUFFICES ASSUME Init PROVE TaskInv
  OBVIOUS
<1>1. PICK loop \in [Task -> {"native", "text", "plain"}] :
        task = [t \in Task |->
          [pc |-> "idle", remote |-> FALSE, escalated |-> FALSE, again |-> FALSE,
           local |-> loop[t], mode |-> loop[t], loop |-> NoLoop, result |-> "none"]]
  BY DEF Init
<1>2. task \in [Task -> TaskState] /\ \A t \in Task :
        task[t].pc = "idle" /\ ~task[t].remote /\ ~task[t].escalated /\ ~task[t].again
  BY <1>1, NoLoopType DEF TaskState
<1>3. request \in [Asker -> RequestState] /\ (\A t \in Task : request[t] = NoRequest)
  BY TaskIsAsker DEF Init, ClientInit, RequestState
<1>4. recorded \in [Asker -> Nat] /\ attempt \in [Task -> Attempts]
  BY RunningType DEF Init, ClientInit
<1>5. ran \in [Task -> Seq(Backend)] /\ \A t \in Task : ran[t] = <<>>
  BY DEF Init
<1>6. TaskTypeOK
  BY <1>2, <1>3, <1>4, <1>5 DEF Init, TaskTypeOK
<1>7. \A t \in Task : RunsOK(t)
  BY <1>2, <1>5 DEF RunsOK
<1>8. SpendIsRecorded
  <2>1. Ended = {}
    BY <1>2 DEF Ended, At
  <2>2. Units(recorded, {}) = {}
    BY DEF Units
  <2> QED BY <1>6, <2>1, <2>2, SpendCounts, FS_EmptySet DEF Init
<1> QED BY <1>3, <1>6, <1>7, <1>8 DEF TaskInv, Asking

\* Every step keeps it.
LEMMA NextTaskInv == TaskInv /\ [Next]_vars => TaskInv'
<1> SUFFICES ASSUME TaskInv, [Next]_vars PROVE TaskInv'
  OBVIOUS
<1>1. ASSUME NEW t \in Task, Run(t) \/ Drop(t) PROVE TaskInv'
  BY <1>1, RunStep, DropStep, TaskStep DEF TaskInv
<1>2. ASSUME NEW t \in Task, NEW i \in 1..FANOUT,
             \/ \E result \in {"ok", "failed"} : EndAttempt(t, i, result)
             \/ Straggles(t, i)
      PROVE  TaskInv'
  BY <1>2, AttemptStep DEF Straggles
<1>3. ASSUME Tick \/ UNCHANGED vars PROVE TaskInv'
  <2>1. UNCHANGED <<request, recorded, task, attempt, spent, ran>> /\ late' \in BOOLEAN
    BY <1>3 DEF Tick, vars, clientVars, taskVars, TaskInv, TaskTypeOK
  <2>2. TaskTypeOK'
    BY <2>1 DEF TaskInv, TaskTypeOK
  <2> QED BY <2>1, <2>2, OtherStep
<1>4. ASSUME NEW a \in Asker, AskElsewhere(a) \/ TakeElsewhere(a) PROVE TaskInv'
  BY <1>4, ElsewhereStep
<1>5. ASSUME NEW a \in Asker, UNCHANGED taskVars,
             \/ Admit(a) \/ Resend(a) \/ Shed(a)
             \/ \E result \in {"reply", "truncated"} : Answer(a, result)
             \/ \E result \in {"failed", "timedout"} : Fail(a, result)
      PROVE  TaskInv'
  BY <1>5, ClientStep
<1> QED BY <1>1, <1>2, <1>3, <1>4, <1>5 DEF Next

\* The invariant holds throughout.
THEOREM TaskInvariant == Spec => []TaskInv
BY InitTaskInv, NextTaskInv, PTL DEF Spec

\* The variables of the tasks and of the client keep their types.
THEOREM TaskTypeCorrect == Spec => []TaskTypeOK
<1>1. TaskInv => TaskTypeOK
  BY DEF TaskInv
<1> QED BY <1>1, TaskInvariant, PTL

\* What the executor of daemon.rs adds to turn_spend is what the tasks that ended
\* asked of the remote, over all their runs, attempts and judges.
THEOREM SpendIsRecordedHolds == Spec => []SpendIsRecorded
<1>1. TaskInv => SpendIsRecorded
  BY DEF TaskInv
<1> QED BY <1>1, TaskInvariant, PTL

\* run_task in daemon.rs is called at most four times for a task, and at most once
\* for the remote.
THEOREM RunsBoundedHolds == Spec => []RunsBounded
<1>1. TaskInv => RunsBounded
  <2> SUFFICES ASSUME TaskInv, NEW t \in Task
               PROVE  /\ Len(ran[t]) <= 4
                      /\ \A i, j \in 1..Len(ran[t]) :
                           ran[t][i] = "remote" /\ ran[t][j] = "remote" => i = j
    BY DEF RunsBounded
  <2>1. RunsOK(t)
    BY DEF TaskInv
  <2>2. PICK n \in Nat : n = Len(ran[t])
    BY DEF TaskInv, TaskTypeOK
  <2>3. task[t].pc = "idle" => n = 0
    BY <2>1, <2>2 DEF RunsOK
  <2>4. task[t].pc # "idle" =>
          n <= 1 + (IF task[t].again THEN 1 ELSE 0)
                 + (IF ~task[t].escalated THEN 0 ELSE IF task[t].remote THEN 1 ELSE 2)
    BY <2>1, <2>2 DEF RunsOK
  <2>5. n <= 4
    BY <2>3, <2>4
  <2> QED BY <2>1, <2>2, <2>5 DEF RunsOK
<1> QED BY <1>1, TaskInvariant, PTL
=============================================================================
