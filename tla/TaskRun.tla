------------------------------- MODULE TaskRun -------------------------------
(***************************************************************************)
(* How a task of a turn runs (daemon.rs: the executor of a Prompt, run_task,*)
(* run_native_tool_loop, run_tool_loop, run_fanout): on which backend, how *)
(* often, through which loop, and what each reply of the model leads to.   *)
(*                                                                         *)
(* A reply is what the loops tell apart: whether its text is empty, and the *)
(* calls in it.  What a call does is TurnMemory's; here it runs in a step. *)
(* Sizes are not counted: whether a conversation fits the context, and     *)
(* whether a step's results already fill it, is open.  An attempt of a     *)
(* fan-out is a process that ends well, badly, or not at all; one that ends *)
(* well on the remote counts as one generation of it.                      *)
(***************************************************************************)
EXTENDS ModelClient

CONSTANTS
  Task,                \* the tasks of the turn
  Loops(_),            \* how a task may run on hipfire: native, text, plain
  Routed,              \* tasks whose role runs on the remote first
  Coder,               \* tasks of a role that may write, and fan out
  FANOUT,              \* attempts of a fan-out; 1 is none
  MAX_STEPS,           \* tool steps of a run
  ToolCall,            \* the calls
  Batches,             \* the calls of a reply that may be run, in order
  Mutating,            \* those that may change something
  Check,               \* those that build or test
  HasNeedle,           \* is there a tool-call model to construct calls
  ReviewRemote,        \* does the remote judge fan-outs
  Budget               \* remote generations the turn may spend

ASSUME TaskAssumption == Task \subseteq Asker /\ IsFiniteSet(Task)
ASSUME CallAssumption ==
  Check \subseteq Mutating /\ Mutating \subseteq ToolCall /\ Batches \subseteq Seq(ToolCall)
ASSUME StepAssumption == MAX_STEPS \in Nat \ {0}
ASSUME FanoutAssumption == FANOUT \in Nat \ {0}

VARIABLES
  task,     \* what each task is doing
  attempt,  \* the attempts of each task's fan-out
  spent,    \* turn_spend: remote generations of the tasks that have ended
  late,     \* is the turn's deadline over
  ran       \* history: the backends of each task's runs

taskVars == <<task, attempt, spent, late, ran>>
vars == <<clientVars, taskVars>>

affordable == spent < Budget

NoLoop ==
  [step |-> 0, called |-> FALSE, reminded |-> FALSE, failing |-> FALSE,
   told |-> FALSE, made |-> {}, batch |-> <<>>, next |-> 1, text |-> FALSE,
   last |-> FALSE, circling |-> FALSE]

\* The attempts of a fan-out before any ended.
Running == [i \in 1..FANOUT |-> "running"]

At(t, pc) == task[t].pc = pc

\* The task goes on at pc, with its loop changed.
Goes(t, pc, loop) == task' = [task EXCEPT ![t].pc = pc, ![t].loop = loop]

\* A run ends: with an answer, or with an error that may be worth another.
Returns(t, result) ==
  task' = [task EXCEPT ![t].pc = "ran", ![t].loop = NoLoop, ![t].result = result]

Alone == UNCHANGED <<clientVars, attempt, spent, late, ran>>

Init ==
  /\ ClientInit
  /\ \E loop \in [Task -> {"native", "text", "plain"}] :
       /\ \A t \in Task : loop[t] \in Loops(t)
       /\ task = [t \in Task |->
            [pc |-> "idle", remote |-> FALSE, escalated |-> FALSE, again |-> FALSE,
             local |-> loop[t], mode |-> loop[t], loop |-> NoLoop, result |-> "none"]]
  /\ attempt = [t \in Task |-> Running]
  /\ spent = 0
  /\ late = FALSE
  /\ ran = [t \in Task |-> <<>>]

-----------------------------------------------------------------------------
(* The executor.                                                           *)

\* A run begins, on the backend decided for it.
Begin(t, remote, again, escalated) ==
  /\ task' = [task EXCEPT ![t] =
       [pc |-> IF t \in Coder /\ FANOUT > 1 THEN "fanout" ELSE "top",
        remote |-> remote, escalated |-> escalated, again |-> again, local |-> task[t].local,
        mode |-> IF remote THEN "native" ELSE task[t].local, loop |-> NoLoop,
        result |-> "none"]]
  /\ ran' = [ran EXCEPT ![t] = Append(@, IF remote THEN "remote" ELSE "hipfire")]
  /\ UNCHANGED <<clientVars, attempt, spent, late>>

Start(t) ==
  LET remote == affordable /\ t \in Routed
  IN  /\ At(t, "idle")
      /\ Begin(t, remote, FALSE, remote)

\* Bug: a run is repeated whenever it may go well the next time.
RerunUncounted(t) ==
  /\ At(t, "ran")
  /\ task[t].result # "ok"
  /\ ~late
  /\ is_retryable(task[t].result)
  /\ Begin(t, FALSE, FALSE, task[t].escalated)

\* A failed run: off the remote, once more, or on the remote, in that order,
\* while there is time.
Rerun(t) ==
  LET k == task[t]
      Again == ~k.again /\ is_retryable(k.result)
  IN  /\ At(t, "ran")
      /\ k.result # "ok"
      /\ ~late
      /\ \/ /\ k.remote
            /\ Begin(t, FALSE, k.again, k.escalated)
         \/ /\ ~k.remote /\ Again
            /\ Begin(t, FALSE, TRUE, k.escalated)
         \/ /\ ~k.remote /\ ~Again
            /\ ~k.escalated /\ affordable
            /\ Begin(t, TRUE, k.again, TRUE)

\* Bug: only what went well is paid for.
EndPaidIfWell(t) ==
  /\ At(t, "ran")
  /\ task[t].result = "ok" \/ late \/ task[t].escalated
  /\ task' = [task EXCEPT ![t].pc = "ended"]
  /\ spent' = spent + (IF task[t].result = "ok" THEN recorded[t] ELSE 0)
  /\ UNCHANGED <<clientVars, attempt, late, ran>>

\* What the task spent counts once it has ended.
End(t) ==
  LET k == task[t]
      more == \/ k.remote
              \/ (~k.again /\ is_retryable(k.result))
              \/ (~k.escalated /\ affordable)
  IN  /\ At(t, "ran")
      /\ k.result = "ok" \/ late \/ ~more
      /\ task' = [task EXCEPT ![t].pc = "ended"]
      /\ spent' = spent + recorded[t]
      /\ UNCHANGED <<clientVars, attempt, late, ran>>

\* The drive times the task out, or cuts it off.
Drop(t) ==
  /\ task[t].pc \notin {"idle", "ended", "dropped"}
  /\ task' = [task EXCEPT ![t].pc = "dropped", ![t].loop = NoLoop]
  /\ attempt' = [attempt EXCEPT ![t] = Running]
  /\ Abandon(t)
  /\ UNCHANGED <<recorded, spent, late, ran>>

Tick ==
  /\ ~late
  /\ late' = TRUE
  /\ UNCHANGED <<clientVars, task, attempt, spent, ran>>

-----------------------------------------------------------------------------
(* run_fanout: attempts, a judge, then the run proper.                     *)

Succeeded(t) == {i \in 1..FANOUT : attempt[t][i] = "ok"}

EndAttempt(t, i, result) ==
  /\ At(t, "fanout")
  /\ attempt[t][i] = "running"
  /\ attempt' = [attempt EXCEPT ![t][i] = result]
  /\ recorded' = [recorded EXCEPT ![t] = IF result = "ok" /\ task[t].remote THEN @ + 1 ELSE @]
  /\ UNCHANGED <<request, line, task, spent, late, ran>>

\* How long the first took is known once it ended, however it did.
baseline_took(t) == attempt[t][1] # "running"

\* The others are timed against the first.
Straggles(t, i) ==
  /\ i > 1
  /\ baseline_took(t)
  /\ EndAttempt(t, i, "failed")

Unjudged(t) ==
  /\ Goes(t, "top", task[t].loop)
  /\ UNCHANGED clientVars

\* Two proposals are judged, if their prompt fits the context.
Judge(t) ==
  /\ At(t, "fanout")
  /\ \A i \in 1..FANOUT : attempt[t][i] # "running"
  /\ attempt' = [attempt EXCEPT ![t] = Running]
  /\ \/ Unjudged(t)
     \/ /\ Cardinality(Succeeded(t)) >= 2
        /\ Ask(t, IF ReviewRemote /\ affordable THEN "remote" ELSE "hipfire")
        /\ Goes(t, "judging", task[t].loop)
        /\ UNCHANGED recorded
  /\ UNCHANGED <<spent, late, ran>>

\* Whatever the judge's request comes to, the task runs.
Judged(t) ==
  /\ At(t, "judging")
  /\ Over(t)
  /\ request' = [request EXCEPT ![t] = NoRequest]
  /\ Goes(t, "top", task[t].loop)
  /\ UNCHANGED <<line, recorded, attempt, spent, late, ran>>

-----------------------------------------------------------------------------
(* The loops.                                                              *)

backend(t) == IF task[t].remote THEN "remote" ELSE "hipfire"

AskAt(t, pc) ==
  /\ Ask(t, backend(t))
  /\ Goes(t, pc, task[t].loop)
  /\ UNCHANGED <<recorded, attempt, spent, late, ran>>

\* The head of a step: too big a prompt, no more steps, no more time, or a
\* generation.  A plain run is one generation.
TooBig(t) ==
  /\ task[t].pc \in {"top", "final", "again"}
  /\ (At(t, "top") /\ task[t].mode = "text") => ~late
  /\ Returns(t, "failed")
  /\ Alone

OutOfTime(t) ==
  /\ At(t, "top")
  /\ task[t].mode # "plain"
  /\ task[t].loop.step < MAX_STEPS
  /\ late
  /\ Returns(t, "ok")
  /\ Alone

Generate(t) ==
  /\ At(t, "top")
  /\ task[t].mode = "plain" \/ (task[t].loop.step < MAX_STEPS /\ ~late)
  /\ AskAt(t, "asked")

\* The steps are spent: one more generation for the answer.
SpendSteps(t) ==
  /\ At(t, "top")
  /\ task[t].mode # "plain"
  /\ task[t].loop.step = MAX_STEPS
  /\ Goes(t, "final", task[t].loop)
  /\ Alone

\* The reply of a request is taken.
Taken(t) ==
  /\ request' = [request EXCEPT ![t] = NoRequest]
  /\ UNCHANGED <<line, recorded, attempt, spent, late, ran>>

\* Bug: a step that ran no call is not counted.
NextStepFree(l) ==
  [l EXCEPT !.step = IF l.batch = <<>> THEN @ ELSE @ + 1, !.batch = <<>>, !.next = 1]

NextStep(l) == [l EXCEPT !.step = @ + 1, !.batch = <<>>, !.next = 1]

\* A native loop asks for a shorter reply; every other error ends the run.
TakeError(t) ==
  /\ task[t].pc \in {"asked", "concluding", "concluded", "bare"}
  /\ Over(t)
  /\ request[t].result # "reply"
  /\ IF At(t, "asked") /\ task[t].mode = "native" /\ request[t].result = "truncated"
     THEN Goes(t, "top", NextStep(task[t].loop))
     ELSE Returns(t, request[t].result)
  /\ Taken(t)

Replied(t, pc) == At(t, pc) /\ Over(t) /\ request[t].result = "reply"

TakePlain(t) ==
  /\ Replied(t, "asked")
  /\ task[t].mode = "plain"
  /\ Returns(t, "ok")
  /\ Taken(t)

\* A reply without calls ends the native loop, after one reminder that there
\* are tools and one that the last check failed.
TakeAnswer(t, text) ==
  LET l == [task[t].loop EXCEPT !.last = text]
      Remind == ~l.called /\ ~l.reminded
      Failing == l.failing /\ ~l.told /\ t \in Coder
  IN  /\ Replied(t, "asked")
      /\ task[t].mode = "native"
      /\ \/ /\ Remind
            /\ Goes(t, "top", NextStep([l EXCEPT !.reminded = TRUE]))
         \/ /\ ~Remind /\ Failing
            /\ Goes(t, "top", NextStep([l EXCEPT !.told = TRUE]))
         \/ /\ ~Remind /\ ~Failing
            /\ Returns(t, "ok")
         \/ /\ ~Remind /\ ~Failing /\ ~l.called /\ text /\ HasNeedle
            /\ task' = [task EXCEPT ![t].pc = "top", ![t].mode = "text", ![t].loop = NoLoop]
      /\ Taken(t)

\* Nothing but calls already made: the loop goes straight to its answer.
Circling(l, calls) == \A i \in DOMAIN calls : calls[i] \in l.made \ Mutating

TakeCalls(t, calls, text) ==
  LET l == [task[t].loop EXCEPT !.last = text]
      made == l.made \union {calls[i] : i \in DOMAIN calls}
  IN  /\ Replied(t, "asked")
      /\ task[t].mode = "native"
      /\ calls # <<>>
      /\ IF Circling(l, calls)
         THEN Goes(t, "final", [l EXCEPT !.circling = TRUE, !.batch = calls])
         ELSE Goes(t, "gate", [l EXCEPT !.made = made, !.batch = calls, !.next = 1])
      /\ Taken(t)

\* In the text loop a line of intent becomes at most one call.
TakeIntent(t, calls) ==
  LET l == task[t].loop
  IN  /\ Replied(t, "asked")
      /\ task[t].mode = "text"
      /\ Len(calls) <= 1
      /\ IF calls = <<>> THEN Goes(t, "top", NextStep(l))
         ELSE Goes(t, "gate", [l EXCEPT !.batch = calls, !.next = 1])
      /\ Taken(t)

TakeText(t) ==
  /\ Replied(t, "asked")
  /\ task[t].mode = "text"
  /\ Returns(t, "ok")
  /\ Taken(t)

\* A call runs; of a check only a run of it says whether it failed.  A read
\* whose step's results already fill the context is put off.
Gate(t, failing) ==
  LET l == task[t].loop
      c == l.batch[l.next]
  IN  /\ At(t, "gate")
      /\ l.next <= Len(l.batch)
      /\ failing # l.failing => c \in Check
      /\ Goes(t, "gate", [l EXCEPT !.next = @ + 1, !.called = TRUE,
                            !.failing = failing])
      /\ Alone

defer_read(t) ==
  LET l == task[t].loop
  IN  /\ At(t, "gate")
      /\ task[t].mode = "native"
      /\ l.next \in 2..Len(l.batch)
      /\ l.batch[l.next] \notin Mutating
      /\ Goes(t, "gate", [l EXCEPT !.next = @ + 1])
      /\ Alone

\* After a mutating call every call brings something new.
EndStep(t) ==
  LET l == task[t].loop
      Mutates == \E i \in DOMAIN l.batch : l.batch[i] \in Mutating
  IN  /\ At(t, "gate")
      /\ l.next > Len(l.batch)
      /\ Goes(t, "top", NextStep(IF Mutates THEN [l EXCEPT !.made = {}] ELSE l))
      /\ Alone

-----------------------------------------------------------------------------
(* The answer of a run that spent its steps.                               *)

Conclude(t) ==
  /\ At(t, "final")
  /\ ~task[t].loop.circling
  /\ AskAt(t, "concluding")

ConcludeCircling(t) ==
  /\ At(t, "final")
  /\ task[t].loop.circling
  /\ Goes(t, "empty", task[t].loop)
  /\ Alone

\* An empty text is asked for once more without tools; the text loop falls
\* back on what was said last.
Answered(t, text) ==
  IF ~text /\ task[t].mode = "native" THEN Goes(t, "empty", task[t].loop)
  ELSE Returns(t, "ok")

TakeFinal(t, text) ==
  /\ Replied(t, "concluding")
  /\ Answered(t, text)
  /\ Taken(t)

\* Calls made all the same are run, and the answer asked for again.
TakeFinalCalls(t, text) ==
  /\ Replied(t, "concluding")
  /\ task[t].mode = "native"
  /\ Goes(t, "last", [NoLoop EXCEPT !.step = MAX_STEPS, !.text = text])
  /\ Taken(t)

GateFinal(t) ==
  /\ At(t, "last")
  /\ Goes(t, "again", task[t].loop)
  /\ Alone

AskAgain(t) ==
  /\ At(t, "again")
  /\ AskAt(t, "concluded")

TakeAgain(t, text) ==
  /\ Replied(t, "concluded")
  /\ Answered(t, text \/ task[t].loop.text)
  /\ Taken(t)

\* Without room even for that, the last text stands.
AskBare(t) ==
  /\ At(t, "empty")
  /\ \/ AskAt(t, "bare")
     \/ (Returns(t, "ok") /\ Alone)

TakeBare(t) ==
  /\ Replied(t, "bare")
  /\ Returns(t, "ok")
  /\ Taken(t)

-----------------------------------------------------------------------------
\* Who else asks hipfire for generations: other turns, whose scopes count what
\* they asked for themselves.
AskElsewhere(a) ==
  /\ a \notin Task
  /\ Ask(a, "hipfire")
  /\ UNCHANGED <<recorded, taskVars>>

TakeElsewhere(a) ==
  /\ a \notin Task
  /\ Over(a)
  /\ request' = [request EXCEPT ![a] = NoRequest]
  /\ UNCHANGED <<line, recorded, taskVars>>

Run(t) ==
  \/ Start(t)
  \/ Rerun(t)
  \/ End(t)
  \/ Judge(t)
  \/ Judged(t)
  \/ TooBig(t)
  \/ OutOfTime(t)
  \/ Generate(t)
  \/ SpendSteps(t)
  \/ TakeError(t)
  \/ TakePlain(t)
  \/ \E text \in BOOLEAN : TakeAnswer(t, text)
  \/ \E calls \in Batches, text \in BOOLEAN : TakeCalls(t, calls, text)
  \/ \E calls \in Batches : TakeIntent(t, calls)
  \/ TakeText(t)
  \/ \E failing \in BOOLEAN : Gate(t, failing)
  \/ defer_read(t)
  \/ EndStep(t)
  \/ Conclude(t)
  \/ ConcludeCircling(t)
  \/ \E text \in BOOLEAN : TakeFinal(t, text)
  \/ \E text \in BOOLEAN : TakeFinalCalls(t, text)
  \/ GateFinal(t)
  \/ AskAgain(t)
  \/ \E text \in BOOLEAN : TakeAgain(t, text)
  \/ AskBare(t)
  \/ TakeBare(t)

Next ==
  \/ \E t \in Task : Run(t)
  \/ \E t \in Task : Drop(t)
  \/ \E t \in Task, i \in 1..FANOUT, result \in {"ok", "failed"} : EndAttempt(t, i, result)
  \/ \E t \in Task, i \in 1..FANOUT : Straggles(t, i)
  \/ Tick
  \/ \E a \in Asker : AskElsewhere(a)
  \/ \E a \in Asker : TakeElsewhere(a)
  \/ \E a \in Asker : Admit(a) /\ UNCHANGED taskVars
  \/ \E a \in Asker, result \in {"reply", "truncated"} : Answer(a, result) /\ UNCHANGED taskVars
  \/ \E a \in Asker, result \in {"failed", "timedout"} :
       Fail(a, result) /\ UNCHANGED taskVars
  \/ \E a \in Asker : Shed(a) /\ UNCHANGED taskVars
  \/ \E a \in Asker : Resend(a) /\ UNCHANGED taskVars

Spec == Init /\ [][Next]_vars

\* A task goes on when it can; a call that runs returns; the first attempt of
\* a fan-out, a run like any other, ends, and so does a timer.
FairSpec ==
  /\ Spec
  /\ \A a \in Asker : ClientFairness(a)
  /\ \A t \in Task :
       /\ WF_vars(Run(t))
       /\ WF_vars(EndAttempt(t, 1, "failed"))
       /\ \A i \in 1..FANOUT : WF_vars(Straggles(t, i))

-----------------------------------------------------------------------------
\* Every task ends, whatever the model replies, as the steps, the retries and
\* the reruns of a run are bounded, and no request or attempt waits for ever.
TaskEnds == \A t \in Task : <>(task[t].pc \in {"ended", "dropped"})

Generations(tasks) ==
  LET Sum[S \in SUBSET tasks] ==
        IF S = {} THEN 0
        ELSE LET t == CHOOSE t \in S : TRUE IN recorded[t] + Sum[S \ {t}]
  IN  Sum[tasks]

\* What counts against the turn's remote budget is what its ended tasks asked
\* of the remote, through every run.
SpendIsRecorded == spent = Generations({t \in Task : At(t, "ended")})
=============================================================================
