------------------------------ MODULE TurnMemory ------------------------------
(***************************************************************************)
(* What the tasks of one turn share while they call tools: the files, and  *)
(* the turn's memory of calls already made (daemon.rs, SeenCalls and       *)
(* gate_and_execute), with the version check each task's ToolBox makes     *)
(* before it overwrites a file (tools.rs, write_file).                     *)
(*                                                                         *)
(* The tasks are futures of one async task, so a step here is what one of  *)
(* them does between two awaits; a file is read or written on the blocking *)
(* pool, at one point of the await.  A task dropped by its own ceiling or  *)
(* by the turn's cut-off stops at any await, and a write it had handed to  *)
(* the pool still lands.                                                   *)
(*                                                                         *)
(* A file's contents are members of a small set.  read_file stands for     *)
(* every read-only tool, run_command for every command, script and test;   *)
(* a call its role or its arguments refuse changes nothing and is left     *)
(* out, as is the log of calls a launching task is shown.                  *)
(***************************************************************************)
EXTENDS Integers

CONSTANTS
  Task,      \* the tasks of the turn
  Path,      \* the paths a call may name
  FileOf,    \* the file each path names: ./lib.rs and lib.rs are one file
  Contents,  \* what a file may hold
  Absent,    \* the contents of a file that does not exist
  Unset,     \* no original kept, no version seen, nothing shown
  MaxCalls   \* bound: calls the tasks make between them

File == {FileOf[p] : p \in Path}

Stored == Contents \union {Absent}

ASSUME ContentsAssumption ==
  Absent \notin Contents /\ Unset \notin Contents /\ Absent # Unset
ASSUME CallsAssumption == MaxCalls \in Nat

VARIABLES
  disk,       \* the contents of every file
  seen,       \* SeenCalls.seen: the observation of each call remembered
  gen,        \* SeenCalls.gen: the invalidations so far
  originals,  \* SeenCalls.originals: by path, the file before its first write
  pc,         \* where each task is in its call
  call,       \* the call it makes
  got,        \* what the call has read or will answer
  heldGen,    \* gen when its read began
  versions,   \* its ToolBox's versions: each file as it last saw it
  made,       \* calls made so far, of MaxCalls
  before,     \* history: every file before the turn
  writtenAs,  \* history: the paths each file was written under
  commanded,  \* history: the files a command changed
  dirty,      \* history: files a call of the task changed, memory not cleared
  shown,      \* history: each file as the task's model was last shown it
  raced       \* history: files changed while the task's view was in the making

memoryVars == <<seen, gen, originals>>
taskVars == <<pc, call, got, heldGen, versions, made>>
history == <<before, writtenAs, commanded, dirty, shown, raced>>
vars == <<disk, memoryVars, taskVars, history>>

-----------------------------------------------------------------------------
ReadFile(p) == [tool |-> "read_file", path |-> p]

RunCommand == [tool |-> "run_command"]

Reads == {ReadFile(p) : p \in Path}

Writes == [tool : {"write_file"}, path : Path, contents : Contents]

Mutating == Writes \union {RunCommand}

Call == Reads \union Mutating

NoCall == [tool |-> "none"]

Answers == {"wrote", "unchanged", "refused", "error", "denied", "passed",
            "failed"}

PCs == {"idle", "noting", "gate", "original", "keep", "check", "compare",
        "renote", "write", "read", "run", "settle", "orphan", "gone"}

\* The file a task's read or write is about.
FileOfCall(t) == FileOf[call[t].path]

\* Each await belongs to the calls that make it.
AwaitsOK ==
  \A t \in Task :
    /\ pc[t] \in {"noting", "read"} => call[t] \in Reads
    /\ pc[t] \in {"original", "keep", "check", "compare", "renote", "write",
                  "orphan"} => call[t] \in Writes
    /\ pc[t] = "gate" => call[t] \in Mutating
    /\ pc[t] = "run" => call[t] = RunCommand
    /\ pc[t] = "keep" => got[t] \in Stored
    /\ pc[t] = "settle" =>
         \/ call[t] \in Reads /\ got[t] \in Stored
         \/ call[t] \in Mutating /\ got[t] \in Answers

TypeOK ==
  /\ disk \in [File -> Stored]
  /\ DOMAIN seen \subseteq Call
  /\ \A c \in DOMAIN seen : seen[c] \in IF c \in Reads THEN Stored ELSE Answers
  /\ gen \in Nat
  /\ originals \in [Path -> Stored \union {Unset}]
  /\ pc \in [Task -> PCs]
  /\ call \in [Task -> Call \union {NoCall}]
  /\ got \in [Task -> Stored \union Answers \union {Unset}]
  /\ heldGen \in [Task -> Nat]
  /\ versions \in [Task -> [File -> Stored \union {Unset}]]
  /\ made \in Nat
  /\ before \in [File -> Stored]
  /\ writtenAs \in [File -> SUBSET Path]
  /\ commanded \in SUBSET File
  /\ dirty \in [Task -> SUBSET File]
  /\ shown \in [Task -> [File -> Stored \union {Unset}]]
  /\ raced \in [Task -> SUBSET File]
  /\ AwaitsOK

-----------------------------------------------------------------------------
Init ==
  /\ disk \in [File -> Stored]
  /\ seen = [c \in {} |-> Unset]
  /\ gen = 0
  /\ originals = [p \in Path |-> Unset]
  /\ pc = [t \in Task |-> "idle"]
  /\ call = [t \in Task |-> NoCall]
  /\ got = [t \in Task |-> Unset]
  /\ heldGen = [t \in Task |-> 0]
  /\ versions = [t \in Task |-> [f \in File |-> Unset]]
  /\ made = 0
  /\ before = disk
  /\ writtenAs = [f \in File |-> {}]
  /\ commanded = {}
  /\ dirty = [t \in Task |-> {}]
  /\ shown = [t \in Task |-> [f \in File |-> Unset]]
  /\ raced = [t \in Task |-> {}]

-----------------------------------------------------------------------------
(* SeenCalls. *)

\* record: the call's exact repeat is answered from memory from now on.
Record(c, observation) ==
  seen' = [x \in DOMAIN seen \union {c} |-> IF x = c THEN observation ELSE seen[x]]

\* invalidate, then record: what was remembered may describe a tree that is
\* gone.
ClearAndRecord(c, observation) ==
  /\ seen' = [x \in {c} |-> observation]
  /\ gen' = gen + 1

-----------------------------------------------------------------------------
(* What a call does at each await. *)

Goes(t, to) == pc' = [pc EXCEPT ![t] = to]

\* The observation goes back to the model.
Returns(t) ==
  /\ Goes(t, "idle")
  /\ call' = [call EXCEPT ![t] = NoCall]
  /\ got' = [got EXCEPT ![t] = Unset]

\* The task's future is dropped, and its ToolBox with it.
Leaves(t) ==
  /\ Goes(t, "gone")
  /\ call' = [call EXCEPT ![t] = NoCall]
  /\ got' = [got EXCEPT ![t] = Unset]
  /\ versions' = [versions EXCEPT ![t] = [f \in File |-> Unset]]
  /\ heldGen' = [heldGen EXCEPT ![t] = 0]
  /\ shown' = [shown EXCEPT ![t] = [f \in File |-> Unset]]

\* The call has an observation.
Answered(t, observation) ==
  /\ got' = [got EXCEPT ![t] = observation]
  /\ Goes(t, "settle")

Sees(t, f, v) == versions' = [versions EXCEPT ![t][f] = v]

Shows(t, f, v) == shown' = [shown EXCEPT ![t][f] = v]

\* A task whose view of f is in the making: between its cached answer and the
\* version noted for it, or between its check of f and its write.
Exposed(u, f) ==
  /\ pc[u] \in {"noting", "compare", "renote", "write", "orphan"}
  /\ FileOfCall(u) = f

\* A change to f by t reaches the disk.
Change(t, f, v) ==
  /\ disk' = [disk EXCEPT ![f] = v]
  /\ dirty' = [dirty EXCEPT ![t] = @ \union {f}]
  /\ raced' = [u \in Task |-> IF u # t /\ Exposed(u, f)
                              THEN raced[u] \union {f} ELSE raced[u]]

\* The model names its next call.
Issue(t) ==
  /\ pc[t] = "idle"
  /\ made < MaxCalls
  /\ made' = made + 1

\* An exact repeat is answered from memory; a read then notes the file's
\* version as seen.
Repeat(t, c) ==
  /\ Issue(t)
  /\ c \in DOMAIN seen
  /\ IF c \in Reads
     THEN LET f == FileOf[c.path] IN
          /\ Goes(t, "noting")
          /\ call' = [call EXCEPT ![t] = c]
          /\ Shows(t, f, seen[c])
          /\ raced' = IF \E u \in Task : f \in dirty[u]
                      THEN [raced EXCEPT ![t] = @ \union {f}]
                      ELSE [raced EXCEPT ![t] = @ \ {f}]
     ELSE UNCHANGED <<pc, call, shown, raced>>
  /\ UNCHANGED <<disk, memoryVars, got, heldGen, versions, before, writtenAs,
                 commanded, dirty>>

\* note_read, for the repeated read: the version on disk counts as seen.
NoteRead(t) ==
  /\ pc[t] = "noting"
  /\ Sees(t, FileOfCall(t), disk[FileOfCall(t)])
  /\ Returns(t)
  /\ UNCHANGED <<disk, memoryVars, heldGen, made, history>>

\* A fresh read goes on at once, a fresh mutating call to the approval gate.
Fresh(t, c) ==
  /\ Issue(t)
  /\ c \notin DOMAIN seen
  /\ Goes(t, IF c \in Mutating THEN "gate" ELSE "read")
  /\ call' = [call EXCEPT ![t] = c]
  /\ heldGen' = [heldGen EXCEPT ![t] = IF c \in Reads THEN gen ELSE 0]
  /\ UNCHANGED <<disk, memoryVars, got, versions, history>>

\* Not approved, or nobody answered: the denial is remembered.
Deny(t) ==
  /\ pc[t] = "gate"
  /\ Record(call[t], "denied")
  /\ Returns(t)
  /\ UNCHANGED <<disk, gen, originals, heldGen, versions, made, history>>

\* Approved: a command starts; a write first keeps the file's original, once.
Approve(t) ==
  /\ pc[t] = "gate"
  /\ Goes(t, IF call[t] = RunCommand THEN "run"
             ELSE IF originals[call[t].path] = Unset THEN "original"
             ELSE "check")
  /\ UNCHANGED <<disk, memoryVars, call, got, heldGen, versions, made, history>>

\* read_text, before the lock.
ReadOriginal(t) ==
  /\ pc[t] = "original"
  /\ got' = [got EXCEPT ![t] = disk[FileOfCall(t)]]
  /\ Goes(t, "keep")
  /\ UNCHANGED <<disk, memoryVars, call, heldGen, versions, made, history>>

\* Kept by whichever task got there first.
KeepOriginalIf(t, absent) ==
  /\ pc[t] = "keep"
  /\ originals' = IF absent
                  THEN [originals EXCEPT ![call[t].path] = got[t]]
                  ELSE originals
  /\ Goes(t, "check")
  /\ UNCHANGED <<disk, seen, gen, call, got, heldGen, versions, made, history>>

\* Faulty: the last task to read an original keeps its own.
KeepLastOriginal(t) == KeepOriginalIf(t, TRUE)

KeepOriginal(t) == KeepOriginalIf(t, originals[call[t].path] = Unset)

\* The check before a write, refused if stale.
CheckWith(t, stale) ==
  /\ pc[t] = "check"
  /\ IF stale THEN Answered(t, "refused")
     ELSE Goes(t, "compare") /\ UNCHANGED got
  /\ UNCHANGED <<disk, memoryVars, call, heldGen, versions, made, history>>

\* Faulty: a write is never refused.
CheckNothing(t) == CheckWith(t, FALSE)

\* stale_write: refused if the file is not what the task last read or wrote.
CheckStale(t) ==
  CheckWith(t, LET f == FileOfCall(t) IN
               versions[t][f] # Unset /\ disk[f] # versions[t][f])

CompareThen(t, same) ==
  /\ pc[t] = "compare"
  /\ Goes(t, IF disk[FileOfCall(t)] = call[t].contents THEN same ELSE "write")
  /\ UNCHANGED <<disk, memoryVars, call, got, heldGen, versions, made, history>>

\* Faulty: the call ends without an observation.
CompareSilently(t) == CompareThen(t, "settle")

\* The contents the file already has are said, not reported as a write.
Compare(t) == CompareThen(t, "renote")

\* note_read, for the unchanged file.
NoteUnchanged(t) ==
  /\ pc[t] = "renote"
  /\ Sees(t, FileOfCall(t), disk[FileOfCall(t)])
  /\ Shows(t, FileOfCall(t), call[t].contents)
  /\ Answered(t, "unchanged")
  /\ UNCHANGED <<disk, memoryVars, call, heldGen, made, before, writtenAs,
                 commanded, dirty, raced>>

\* The contents of t's write reach the disk.
Lands(t) ==
  /\ Change(t, FileOfCall(t), call[t].contents)
  /\ writtenAs' = [writtenAs EXCEPT ![FileOfCall(t)] = @ \union {call[t].path}]
  /\ UNCHANGED commanded

\* The write lands.
Write(t) ==
  /\ pc[t] = "write"
  /\ Lands(t)
  /\ Sees(t, FileOfCall(t), call[t].contents)
  /\ Shows(t, FileOfCall(t), call[t].contents)
  /\ Answered(t, "wrote")
  /\ UNCHANGED <<memoryVars, call, heldGen, made, before>>

\* The write fails and changes nothing.
WriteFails(t) ==
  /\ pc[t] = "write"
  /\ Answered(t, "error")
  /\ UNCHANGED <<disk, memoryVars, call, heldGen, versions, made, history>>

\* read_file; a file that is not there leaves the version seen as it was.
ReadDisk(t) ==
  /\ pc[t] = "read"
  /\ LET f == FileOfCall(t) IN
     /\ Answered(t, disk[f])
     /\ IF disk[f] = Absent THEN UNCHANGED <<versions, shown, raced>>
        ELSE /\ Sees(t, f, disk[f])
             /\ Shows(t, f, disk[f])
             /\ raced' = [raced EXCEPT ![t] = @ \ {f}]
  /\ UNCHANGED <<disk, memoryVars, call, heldGen, made, before, writtenAs,
                 commanded, dirty>>

\* A running command creates, rewrites or removes a file.
CommandWrites(t, f, v) ==
  /\ pc[t] = "run"
  /\ Change(t, f, v)
  /\ commanded' = commanded \union {f}
  /\ UNCHANGED <<memoryVars, taskVars, before, writtenAs, shown>>

CommandEnds(t, result) ==
  /\ pc[t] = "run"
  /\ Answered(t, result)
  /\ UNCHANGED <<disk, memoryVars, call, heldGen, versions, made, history>>

\* The call ran: a mutating one clears the memory before it is remembered; a
\* read is remembered when nothing ran that may have changed what it read.
SettleWhen(t, current) ==
  /\ pc[t] = "settle"
  /\ IF call[t] \in Mutating
     THEN ClearAndRecord(call[t], got[t])
     ELSE /\ IF current THEN Record(call[t], got[t]) ELSE UNCHANGED seen
          /\ UNCHANGED gen
  /\ dirty' = [dirty EXCEPT ![t] = {}]
  /\ heldGen' = [heldGen EXCEPT ![t] = 0]
  /\ Returns(t)
  /\ UNCHANGED <<disk, originals, versions, made, before, writtenAs, commanded,
                 shown, raced>>

\* Faulty: a read is remembered whatever ran meanwhile.
SettleAnyRead(t) == SettleWhen(t, TRUE)

Settle(t) == SettleWhen(t, heldGen[t] = gen)

\* The task is dropped at an await, or with its answer ready and not polled:
\* its command is killed, a write it handed to the blocking pool is not.
Drop(t) ==
  /\ pc[t] \notin {"idle", "orphan", "gone"}
  /\ IF pc[t] = "write"
     THEN Goes(t, "orphan") /\ UNCHANGED <<call, got, heldGen, versions, shown>>
     ELSE Leaves(t)
  /\ UNCHANGED <<disk, memoryVars, made, before, writtenAs, commanded, dirty,
                 raced>>

\* A dropped task's write lands.
OrphanLands(t) ==
  /\ pc[t] = "orphan"
  /\ Lands(t)
  /\ Leaves(t)
  /\ UNCHANGED <<memoryVars, made, before>>

OrphanFails(t) ==
  /\ pc[t] = "orphan"
  /\ Leaves(t)
  /\ UNCHANGED <<disk, memoryVars, made, before, writtenAs, commanded, dirty,
                 raced>>

\* No more calls are made.
Ended ==
  /\ \A t \in Task : pc[t] = "gone" \/ (pc[t] = "idle" /\ made = MaxCalls)
  /\ UNCHANGED vars

-----------------------------------------------------------------------------
Step(t) ==
  \/ \E c \in Call : Repeat(t, c) \/ Fresh(t, c)
  \/ NoteRead(t)
  \/ Deny(t) \/ Approve(t)
  \/ ReadOriginal(t) \/ KeepOriginal(t)
  \/ CheckStale(t) \/ Compare(t) \/ NoteUnchanged(t) \/ Write(t) \/ WriteFails(t)
  \/ ReadDisk(t)
  \/ \E f \in File, v \in Stored : CommandWrites(t, f, v)
  \/ \E result \in {"passed", "failed"} : CommandEnds(t, result)
  \/ Settle(t)
  \/ Drop(t) \/ OrphanLands(t) \/ OrphanFails(t)

Next == (\E t \in Task : Step(t)) \/ Ended

Spec == Init /\ [][Next]_vars

-----------------------------------------------------------------------------
(* Safety. *)

\* A read answered from memory is the file as it is, unless a call that
\* changed that very file has not cleared the memory: it is about to, or its
\* task was dropped before it could.
CacheFresh ==
  \A p \in Path :
    ReadFile(p) \in DOMAIN seen /\ seen[ReadFile(p)] # disk[FileOf[p]] =>
      \E t \in Task : FileOf[p] \in dirty[t]

\* The diff a reviewer is shown misses no written file and starts from the
\* file before the turn, if nothing but writes under this path changed it.
OriginalsArePreTurn ==
  \A p \in Path :
    LET f == FileOf[p] IN
    /\ p \in writtenAs[f] => originals[p] # Unset
    /\ originals[p] # Unset /\ f \notin commanded /\ writtenAs[f] \subseteq {p} =>
         originals[p] = before[f]

\* A write about to land replaces contents its model was shown, or contents
\* it never saw at all; anything else it discards was written in the very
\* moments in which the task read from memory, or checked and wrote.
LostOnlyByRace ==
  \A t \in Task :
    pc[t] \in {"write", "orphan"} =>
      LET f == FileOfCall(t) IN
      shown[t][f] \in {Unset, disk[f]} \/ f \in raced[t]

-----------------------------------------------------------------------------
(* What makes the safety properties inductive. *)

\* A read still to be remembered is as fresh as one that is, unless the memory
\* was cleared since it began; and a change goes unacknowledged only by a
\* mutating call not settled yet, or by a task that is gone.
CacheInv ==
  /\ CacheFresh
  /\ \A t \in Task :
       /\ heldGen[t] <= gen
       /\ pc[t] = "settle" /\ call[t] \in Reads /\ heldGen[t] = gen
            /\ got[t] # disk[FileOfCall(t)] =>
          \E u \in Task : FileOfCall(t) \in dirty[u]
       /\ dirty[t] # {} => \/ pc[t] = "gone"
                           \/ pc[t] = "run"
                           \/ pc[t] = "settle" /\ call[t] \in Mutating

\* An original about to be kept is one, unless another is kept already; and no
\* write is checked before its original is kept.
OriginalsInv ==
  /\ OriginalsArePreTurn
  /\ \A f \in File :
       f \notin commanded /\ writtenAs[f] = {} => disk[f] = before[f]
  /\ \A t \in Task :
       /\ pc[t] = "keep" /\ originals[call[t].path] = Unset
            /\ FileOfCall(t) \notin commanded
            /\ writtenAs[FileOfCall(t)] = {} =>
          got[t] = before[FileOfCall(t)]
       /\ pc[t] \in {"check", "compare", "renote", "write", "orphan"} =>
            originals[call[t].path] # Unset

\* A task is shown what its version check compares with, and what is on disk
\* when it has checked, but for a race.
ViewOf(t) ==
  /\ \A f \in File :
       \/ f \in raced[t]
       \/ shown[t][f] \in {Unset, versions[t][f]}
       \/ pc[t] = "noting" /\ f = FileOfCall(t)
  /\ pc[t] \in {"noting", "compare", "renote", "write", "orphan"} =>
       \/ FileOfCall(t) \in raced[t]
       \/ shown[t][FileOfCall(t)] \in {Unset, disk[FileOfCall(t)]}
  /\ pc[t] = "renote" => \/ FileOfCall(t) \in raced[t]
                         \/ call[t].contents = disk[FileOfCall(t)]

ViewInv == \A t \in Task : ViewOf(t)
=============================================================================
