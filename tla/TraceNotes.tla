----------------------------- MODULE TraceNotes -----------------------------
(***************************************************************************)
(* What a turn leaves in the graph store about itself: the notes that each *)
(* run of a task extracts from its trace and binds to the files it         *)
(* touched, one chain of notes per file, and at the turn's end the plan    *)
(* with its tasks (trace.rs, daemon.rs record_trace and                    *)
(* persist_provenance, graph.rs write_batch and neighbors).                *)
(*                                                                         *)
(* Tasks run side by side and a task that failed is run again under the    *)
(* same id.  A run writes its notes on the blocking pool: what it started  *)
(* to write goes on when the task is dropped and after the turn has ended. *)
(* Each read and each batch is a transaction of the store, which is        *)
(* external.  Labels, kinds and contract edges are left out.               *)
(***************************************************************************)
EXTENDS Integers, Sequences, SequencesExt

CONSTANTS
  Task,      \* the tasks of the turn
  File,      \* the files they may touch
  Trace,     \* what a run may have done: sequences of steps
  Finding,   \* the lines that state something
  Returning, \* the tools that hand back what is there
  MaxRuns    \* bound: runs of the tasks altogether

VARIABLES
  stored,   \* the keys of the stored nodes
  edges,    \* their edges: <<from, relation, to>>
  heads,    \* by file, the note its head: node names
  runs,     \* how many runs there were
  writing,  \* by task, the trace its run is writing
  ended,    \* has the turn's provenance been written
  headed,   \* history: the notes that were a file's head
  parted    \* history: files whose chain was raced for or run again

noteVars == <<stored, edges, heads, runs, writing, ended, headed, parted>>

Plan == <<"plan">>
TaskNode(t) == <<"task", t>>
FileNode(p) == <<"file", p>>
Nobody == <<"nobody">>  \* no head

NotesInit ==
  /\ stored = {}
  /\ edges = {}
  /\ heads = [p \in File |-> Nobody]
  /\ runs = 0
  /\ writing = [t \in Task |-> [pc |-> "none"]]
  /\ ended = FALSE
  /\ headed = [p \in File |-> {}]
  /\ parted = {}

-----------------------------------------------------------------------------
(* trace.rs: a step is what the model said, the tool it called and the     *)
(* lines that came back.                                                   *)

Findings(lines) == SelectSeq(lines, LAMBDA l : l \in Finding)

produces_outcome(tool) == tool \notin Returning

\* A step's findings: one note of what its tool reported, and one for each
\* line the model said.
StepNotes(step) ==
  LET kept == Findings(step.observation)
      observed == IF produces_outcome(step.tool) /\ kept # <<>>
                  THEN <<[kind |-> "observed", text |-> kept]>>
                  ELSE <<>>
      said == Findings(step.said)
  IN  observed \o [i \in DOMAIN said |-> [kind |-> "asserted", text |-> <<said[i]>>]]

\* The notes of a task's trace, numbered in order.
extract(t, steps) ==
  LET found == FlattenSeq([i \in DOMAIN steps |-> StepNotes(steps[i])])
  IN  {[id |-> <<"note", t, i - 1>>, kind |-> found[i].kind, text |-> found[i].text]
         : i \in DOMAIN found}

\* A claim the model repeats is one note, the first.
Distinct(found) ==
  {n.id : n \in {m \in found :
     ~ \E o \in found : m.kind = "asserted" /\ o.kind = "asserted" /\ o.text = m.text
                         /\ o.id[3] < m.id[3]}}

\* Bug: the newest note supersedes the first of the heads only.
note_edges_to_one(ids, newest, t, prior) ==
  {<<id, "noted_by", TaskNode(t)>> : id \in ids}
    \union (IF prior = {} THEN {} ELSE {<<newest, "supersedes", CHOOSE old \in prior : TRUE>>})

\* Every note is its task's; the newest supersedes what it was written after.
note_edges(ids, newest, t, prior) ==
  {<<id, "noted_by", TaskNode(t)>> : id \in ids}
    \union {<<newest, "supersedes", old>> : old \in prior}

-----------------------------------------------------------------------------
\* A run of a task ends with a trace that has something to note.
EndRun(t, steps, touched) ==
  LET ids == Distinct(extract(t, steps))
  IN  /\ ~ended
      /\ writing[t].pc = "none"
      /\ runs < MaxRuns
      /\ runs' = runs + 1
      /\ \E newest \in ids :
           /\ \A id \in ids : id[3] <= newest[3]
           /\ writing' = [writing EXCEPT ![t] =
                [pc |-> "heads", ids |-> ids, newest |-> newest, touched |-> touched,
                 todo |-> touched, read |-> [p \in touched |-> Nobody]]]
      /\ UNCHANGED <<stored, edges, heads, ended, headed, parted>>

\* The heads are read one by one.
ReadHead(t, p) ==
  /\ writing[t].pc = "heads"
  /\ p \in writing[t].todo
  /\ writing' = [writing EXCEPT ![t].todo = @ \ {p}, ![t].read[p] = heads[p]]
  /\ UNCHANGED <<stored, edges, heads, runs, ended, headed, parted>>

\* A head of the task's own is one an earlier run of it left.
Own(t, note) == note # Nobody /\ note[2] = t

Batch(t) ==
  LET w == writing[t]
      prior == {w.read[p] : p \in {q \in w.touched : w.read[q] # Nobody /\ ~Own(t, w.read[q])}}
  IN  [nodes |-> {TaskNode(t)} \union {FileNode(p) : p \in w.touched} \union w.ids,
       edges |-> note_edges(w.ids, w.newest, t, prior)
                   \union {<<id, "about", FileNode(p)>> : id \in w.ids, p \in w.touched}]

\* The chain of p no longer goes through the head it has: another run wrote it
\* since it was read, or an earlier run of this task under another number.
Parts(t, p) ==
  /\ heads[p] # Nobody
  /\ \/ heads[p] # writing[t].read[p]
     \/ Own(t, heads[p]) /\ heads[p] # writing[t].newest

Written(t) ==
  LET w == writing[t]
  IN  /\ w.pc = "heads"
      /\ w.todo = {}
      /\ stored' = stored \union Batch(t).nodes
      /\ heads' = [p \in File |-> IF p \in w.touched THEN w.newest ELSE heads[p]]
      /\ headed' = [p \in File |-> headed[p] \union (IF p \in w.touched THEN {w.newest} ELSE {})]
      /\ parted' = parted \union {p \in w.touched : Parts(t, p)}
      /\ writing' = [writing EXCEPT ![t] = [pc |-> "none"]]
      /\ UNCHANGED <<runs, ended>>

\* Bug: the nodes and edges are written one by one, and some may fail.
WriteOneByOne(t) ==
  /\ Written(t)
  /\ \E more \in {{}, Batch(t).edges} : edges' = edges \union more

\* All of a run's notes, its heads and its edges are one transaction.
WriteBatch(t) ==
  /\ Written(t)
  /\ edges' = edges \union Batch(t).edges

\* A transaction that fails leaves nothing; that is reported, no more.
WriteFails(t) ==
  /\ writing[t].pc = "heads"
  /\ writing' = [writing EXCEPT ![t] = [pc |-> "none"]]
  /\ UNCHANGED <<stored, edges, heads, runs, ended, headed, parted>>

\* The turn ends, cut off perhaps while traces are being written.
PersistProvenance ==
  /\ ~ended
  /\ ended' = TRUE
  /\ stored' = stored \union {Plan} \union {TaskNode(t) : t \in Task}
  /\ edges' = edges \union {<<TaskNode(t), "part_of", Plan>> : t \in Task}
  /\ UNCHANGED <<heads, runs, writing, headed, parted>>

NotesNext ==
  \/ \E t \in Task, steps \in Trace, touched \in SUBSET File : EndRun(t, steps, touched)
  \/ \E t \in Task, p \in File : ReadHead(t, p)
  \/ \E t \in Task : WriteBatch(t)
  \/ \E t \in Task : WriteFails(t)
  \/ PersistProvenance

NotesSpec == NotesInit /\ [][NotesNext]_noteVars

-----------------------------------------------------------------------------
(* The reader's side.                                                      *)

\* Bug: only the edges that leave the node are followed.
NeighborsOut(id) == {e[3] : e \in {f \in edges : f[1] = id}}

\* The explorer walks one edge at a time, in both directions.
neighbors(id) ==
  {e[3] : e \in {f \in edges : f[1] = id}} \union {e[1] : e \in {f \in edges : f[3] = id}}

\* A reader who follows what the notes supersede does not get out of them.
Closed(notes) == \A e \in edges : e[2] = "supersedes" /\ e[1] \in notes => e[3] \in notes

\* Every note that was ever a file's head is superseded, step by step, by the
\* file's present head: it is among any notes a reader who starts there ends up
\* with, also when tasks share some files and not others; except where two runs
\* read the same head, or a task was run again.
HeadReachesNotes ==
  \A p \in File \ parted :
    \A notes \in SUBSET UNION {headed[q] : q \in File} :
      heads[p] \in notes /\ Closed(notes) => headed[p] \subseteq notes

\* Once a turn's provenance is stored, every note of its tasks, also one that
\* is written late, is two steps of the explorer from the plan, and every note
\* a file's head names is one step from the file.
PlanRevealsNotes ==
  LET noted == {n \in stored : n[1] = "note"}
  IN  /\ ended => noted \subseteq UNION {neighbors(n) : n \in neighbors(Plan)}
      /\ \A p \in File : heads[p] # Nobody => heads[p] \in neighbors(FileNode(p))
=============================================================================
