----------------------------- MODULE FilesProofs -----------------------------
(***************************************************************************)
(* Theorems about the files a turn works on: what holds of the shared      *)
(* memory of every turn of TurnMemory, for any number of tasks, files,     *)
(* names of a file and calls; and of every C file of CFile, for any pieces *)
(* it is typed from, any number of edits, every stride and every budget of *)
(* the alignment's table.                                                  *)
(*                                                                         *)
(* The argument about CFile follows the code.  A lexer's regions follow    *)
(* each other from the first byte to the last; the walk over the code      *)
(* among them finds items that lie in the file, end at rising places and   *)
(* are nested or apart; so what is kept of them stands apart, in the order *)
(* it begins, and the nodes and the gaps between them join to the file;    *)
(* and a re-ingest keeps those texts (Reconciles).  A reader that goes     *)
(* byte by byte is then held in step with the regions.                     *)
(*                                                                         *)
(* The recursive functions of CFile are defined where their equations have *)
(* a solution: Forward and Backward give it, and each is cited through the *)
(* one equation of the definition it is for.                               *)
(***************************************************************************)
EXTENDS ReconcileProofs, TurnMemory, CFile, SequenceTheorems

-----------------------------------------------------------------------------
(* Calls. *)

\* The three kinds of call differ, and each that names a path names a file.
LEMMA CallShapes ==
  /\ \A c \in Reads : c.tool = "read_file" /\ c.path \in Path
                      /\ FileOf[c.path] \in File
  /\ \A c \in Writes : c.tool = "write_file" /\ c.path \in Path
                       /\ FileOf[c.path] \in File /\ c.contents \in Contents
  /\ RunCommand.tool = "run_command"
  /\ RunCommand \notin Reads /\ RunCommand \notin Writes
  /\ \A c \in Writes : c \notin Reads
  /\ \A c \in Mutating : c \notin Reads
  /\ \A p \in Path : ReadFile(p) \in Reads /\ ReadFile(p).path = p
                     /\ ReadFile(p) \notin Mutating
  /\ \A c \in Reads : c = ReadFile(c.path)
<1>1. /\ \A c \in Reads : c.tool = "read_file" /\ c.path \in Path
      /\ \A c \in Reads : c = ReadFile(c.path)
      /\ \A p \in Path : ReadFile(p) \in Reads /\ ReadFile(p).path = p
  BY DEF Reads, ReadFile
<1>2. \A c \in Writes : c.tool = "write_file" /\ c.path \in Path
                        /\ c.contents \in Contents
  BY DEF Writes
<1>3. RunCommand.tool = "run_command"
  BY DEF RunCommand
<1>4. \A p \in Path : FileOf[p] \in File
  BY DEF File
<1>5. "read_file" # "write_file" /\ "read_file" # "run_command"
      /\ "write_file" # "run_command"
  OBVIOUS
<1>6. /\ RunCommand \notin Reads /\ RunCommand \notin Writes
      /\ \A c \in Writes : c \notin Reads
  BY <1>1, <1>2, <1>3, <1>5
<1>. QED BY <1>1, <1>2, <1>3, <1>4, <1>6 DEF Mutating

-----------------------------------------------------------------------------
(* Types. *)

\* A turn begins well typed, with every task idle.
LEMMA TypeInit == Init => TypeOK
BY DEF Init, TypeOK, AwaitsOK, Stored, PCs

\* A table of the tasks' files with one entry changed is still one.
LEMMA TableUpdate ==
  ASSUME NEW m \in [Task -> [File -> Stored \union {Unset}]],
         NEW t \in Task, NEW f \in File, NEW v \in Stored
  PROVE  [m EXCEPT ![t][f] = v] \in [Task -> [File -> Stored \union {Unset}]]
OBVIOUS

\* The tables of what each task has seen and was shown.
LEMMA TableTypes ==
  ASSUME TypeOK
  PROVE  /\ versions \in [Task -> [File -> Stored \union {Unset}]]
         /\ shown \in [Task -> [File -> Stored \union {Unset}]]
         /\ raced \in [Task -> SUBSET File]
BY DEF TypeOK

\* What a change to the disk does to the types it touches.
LEMMA ChangeTypes ==
  ASSUME TypeOK, NEW t \in Task, NEW f \in File, NEW v \in Stored,
         Change(t, f, v)
  PROVE  /\ disk' \in [File -> Stored]
         /\ dirty' \in [Task -> SUBSET File]
         /\ raced' \in [Task -> SUBSET File]
BY DEF Change, TypeOK

\* Every await of every call keeps the types.
LEMMA TypeNext == TypeOK /\ [Next]_vars => TypeOK'
<1> SUFFICES ASSUME TypeOK, [Next]_vars PROVE TypeOK'
  OBVIOUS
<1> USE DEF memoryVars, taskVars, history
<1>1. ASSUME NEW t \in Task, NEW c \in Call, Repeat(t, c) PROVE TypeOK'
  <2>1. CASE c \in Reads
    <3>1. FileOf[c.path] \in File /\ c \in DOMAIN seen /\ seen[c] \in Stored
      BY <2>1, <1>1, CallShapes DEF Repeat, TypeOK
    <3>2. shown' \in [Task -> [File -> Stored \union {Unset}]]
      <4>1. shown' = [shown EXCEPT ![t][FileOf[c.path]] = seen[c]]
        BY <2>1, <1>1 DEF Repeat, Shows
      <4>. QED BY <4>1, <3>1, TableTypes, TableUpdate
    <3>3. raced' \in [Task -> SUBSET File]
      BY <3>1, <2>1, <1>1, TableTypes DEF Repeat
    <3>4. AwaitsOK'
      BY <2>1, <1>1 DEF Repeat, Issue, Goes, TypeOK, AwaitsOK
    <3>5. /\ pc' \in [Task -> PCs] /\ call' \in [Task -> Call \union {NoCall}]
          /\ made' \in Nat
      <4>1. /\ pc' = [pc EXCEPT ![t] = "noting"] /\ call' = [call EXCEPT ![t] = c]
            /\ made' = made + 1
        BY <2>1, <1>1 DEF Repeat, Issue, Goes
      <4>2. pc \in [Task -> PCs] /\ call \in [Task -> Call \union {NoCall}] /\ made \in Nat
        BY DEF TypeOK
      <4>3. "noting" \in PCs
        BY DEF PCs
      <4>. QED BY <4>1, <4>2, <4>3
    <3>6. UNCHANGED <<disk, memoryVars, got, heldGen, versions, before, writtenAs,
                      commanded, dirty>>
      BY <1>1 DEF Repeat
    <3>. QED BY <3>2, <3>3, <3>4, <3>5, <3>6 DEF TypeOK
  <2>2. CASE c \notin Reads
    BY <2>2, <1>1 DEF Repeat, Issue, TypeOK, AwaitsOK
  <2>. QED BY <2>1, <2>2
<1>2. ASSUME NEW t \in Task, NEW c \in Call, Fresh(t, c) PROVE TypeOK'
  BY <1>2, CallShapes DEF Fresh, Issue, Goes, TypeOK, AwaitsOK, PCs, Call
<1>3. ASSUME NEW t \in Task, NoteRead(t) PROVE TypeOK'
  BY <1>3, CallShapes DEF NoteRead, Sees, Returns, Goes, TypeOK, AwaitsOK, PCs, FileOfCall
<1>4. ASSUME NEW t \in Task, Deny(t) PROVE TypeOK'
  <2>1. call[t] \in Mutating /\ call[t] \notin Reads /\ call[t] \in Call
    BY <1>4, CallShapes DEF Deny, TypeOK, AwaitsOK, Call
  <2>2. /\ DOMAIN seen' \subseteq Call
        /\ \A c \in DOMAIN seen' : seen'[c] \in IF c \in Reads THEN Stored ELSE Answers
    BY <2>1, <1>4 DEF Deny, Record, TypeOK, Answers
  <2>. QED BY <2>2, <1>4 DEF Deny, Returns, Goes, TypeOK, AwaitsOK, PCs
<1>5. ASSUME NEW t \in Task, Approve(t) PROVE TypeOK'
  BY <1>5 DEF Approve, Goes, TypeOK, AwaitsOK, PCs, Mutating
<1>6. ASSUME NEW t \in Task, ReadOriginal(t) PROVE TypeOK'
  BY <1>6, CallShapes DEF ReadOriginal, Goes, TypeOK, AwaitsOK, PCs, FileOfCall
<1>7. ASSUME NEW t \in Task, KeepOriginal(t) PROVE TypeOK'
  BY <1>7, CallShapes DEF KeepOriginal, KeepOriginalIf, Goes, TypeOK, AwaitsOK, PCs
<1>8. ASSUME NEW t \in Task, CheckStale(t) PROVE TypeOK'
  <2>1. /\ \/ pc' = [pc EXCEPT ![t] = "settle"] /\ got' = [got EXCEPT ![t] = "refused"]
           \/ pc' = [pc EXCEPT ![t] = "compare"] /\ UNCHANGED got
        /\ pc[t] = "check" /\ call[t] \in Writes /\ call[t] \in Mutating
        /\ UNCHANGED <<disk, memoryVars, call, heldGen, versions, made, history>>
    BY <1>8 DEF CheckStale, CheckWith, Answered, Goes, TypeOK, AwaitsOK, Mutating
  <2>2. AwaitsOK'
    BY <2>1 DEF TypeOK, AwaitsOK, Answers
  <2>3. pc' \in [Task -> PCs]
    BY <2>1 DEF TypeOK, PCs
  <2>4. got' \in [Task -> Stored \union Answers \union {Unset}]
    BY <2>1 DEF TypeOK, Answers
  <2>. QED BY <2>1, <2>2, <2>3, <2>4 DEF TypeOK
<1>9. ASSUME NEW t \in Task, Compare(t) PROVE TypeOK'
  BY <1>9 DEF Compare, CompareThen, Goes, TypeOK, AwaitsOK, PCs
<1>10. ASSUME NEW t \in Task, NoteUnchanged(t) PROVE TypeOK'
  BY <1>10, CallShapes DEF NoteUnchanged, Sees, Shows, Answered, Goes, TypeOK, AwaitsOK, PCs,
     Answers, Mutating, FileOfCall, Stored
<1>11. ASSUME NEW t \in Task, Write(t) PROVE TypeOK'
  <2>1. FileOfCall(t) \in File /\ call[t].contents \in Stored /\ call[t].path \in Path
        /\ call[t] \in Mutating
    BY <1>11, CallShapes DEF Write, TypeOK, AwaitsOK, Stored, FileOfCall, Mutating
  <2>2. /\ disk' \in [File -> Stored]
        /\ dirty' \in [Task -> SUBSET File]
        /\ raced' \in [Task -> SUBSET File]
    BY <2>1, <1>11, ChangeTypes DEF Write, Lands
  <2>3. writtenAs' \in [File -> SUBSET Path] /\ commanded' \in SUBSET File
    BY <2>1, <1>11 DEF Write, Lands, TypeOK
  <2>. QED BY <2>1, <2>2, <2>3, <1>11
    DEF Write, Sees, Shows, Answered, Goes, TypeOK, AwaitsOK, PCs, Answers
<1>12. ASSUME NEW t \in Task, WriteFails(t) PROVE TypeOK'
  BY <1>12 DEF WriteFails, Answered, Goes, TypeOK, AwaitsOK, PCs, Answers, Mutating
<1>13. ASSUME NEW t \in Task, ReadDisk(t) PROVE TypeOK'
  <2>1. FileOfCall(t) \in File /\ call[t] \in Reads /\ disk[FileOfCall(t)] \in Stored
    BY <1>13, CallShapes DEF ReadDisk, TypeOK, AwaitsOK, FileOfCall
  <2>2. /\ versions' \in [Task -> [File -> Stored \union {Unset}]]
        /\ shown' \in [Task -> [File -> Stored \union {Unset}]]
        /\ raced' \in [Task -> SUBSET File]
    <3>1. CASE disk[FileOfCall(t)] = Absent
      BY <3>1, <1>13 DEF ReadDisk, TypeOK
    <3>2. CASE disk[FileOfCall(t)] # Absent
      <4>1. /\ versions' = [versions EXCEPT ![t][FileOfCall(t)] = disk[FileOfCall(t)]]
            /\ shown' = [shown EXCEPT ![t][FileOfCall(t)] = disk[FileOfCall(t)]]
            /\ raced' = [raced EXCEPT ![t] = @ \ {FileOfCall(t)}]
        BY <3>2, <1>13 DEF ReadDisk, Sees, Shows
      <4>. QED BY <4>1, <2>1, TableTypes, TableUpdate
    <3>. QED BY <3>1, <3>2
  <2>. QED BY <2>1, <2>2, <1>13 DEF ReadDisk, Answered, Goes, TypeOK, AwaitsOK, PCs
<1>14. ASSUME NEW t \in Task, NEW f \in File, NEW v \in Stored, CommandWrites(t, f, v)
       PROVE  TypeOK'
  <2>1. /\ disk' \in [File -> Stored]
        /\ dirty' \in [Task -> SUBSET File]
        /\ raced' \in [Task -> SUBSET File]
    BY <1>14, ChangeTypes DEF CommandWrites
  <2>. QED BY <2>1, <1>14 DEF CommandWrites, TypeOK, AwaitsOK
<1>15. ASSUME NEW t \in Task, NEW r \in {"passed", "failed"}, CommandEnds(t, r)
       PROVE  TypeOK'
  BY <1>15 DEF CommandEnds, Answered, Goes, TypeOK, AwaitsOK, PCs, Answers, Mutating
<1>16. ASSUME NEW t \in Task, Settle(t) PROVE TypeOK'
  <2>1. /\ call[t] \in Call
        /\ got[t] \in IF call[t] \in Reads THEN Stored ELSE Answers
    BY <1>16, CallShapes DEF Settle, SettleWhen, TypeOK, AwaitsOK, Call
  <2>2. /\ DOMAIN seen' \subseteq Call
        /\ \A c \in DOMAIN seen' : seen'[c] \in IF c \in Reads THEN Stored ELSE Answers
        /\ gen' \in Nat
    <3>1. CASE call[t] \in Mutating
      BY <3>1, <2>1, <1>16 DEF Settle, SettleWhen, ClearAndRecord, TypeOK
    <3>2. CASE call[t] \notin Mutating /\ heldGen[t] = gen
      BY <3>2, <2>1, <1>16 DEF Settle, SettleWhen, Record, TypeOK
    <3>3. CASE call[t] \notin Mutating /\ heldGen[t] # gen
      BY <3>3, <1>16 DEF Settle, SettleWhen, TypeOK
    <3>. QED BY <3>1, <3>2, <3>3
  <2>. QED BY <2>2, <1>16 DEF Settle, SettleWhen, Returns, Goes, TypeOK, AwaitsOK, PCs
<1>17. ASSUME NEW t \in Task, Drop(t) PROVE TypeOK'
  <2>1. CASE pc[t] = "write"
    <3>1. AwaitsOK' /\ pc' \in [Task -> PCs]
      <4>1. pc' = [pc EXCEPT ![t] = "orphan"] /\ UNCHANGED <<call, got>>
        BY <2>1, <1>17 DEF Drop, Goes
      <4>2. pc' \in [Task -> PCs]
        BY <4>1 DEF TypeOK, PCs
      <4>3. pc \in [Task -> PCs] /\ AwaitsOK
        BY DEF TypeOK
      <4>. QED BY <4>1, <4>2, <4>3, <2>1 DEF AwaitsOK
    <3>. QED BY <3>1, <2>1, <1>17 DEF Drop, TypeOK
  <2>2. CASE pc[t] # "write"
    <3>2. Leaves(t)
      BY <2>2, <1>17 DEF Drop
    <3>1. AwaitsOK' /\ pc' \in [Task -> PCs]
      BY <3>2 DEF Leaves, Goes, TypeOK, AwaitsOK, PCs
    <3>3. /\ versions' \in [Task -> [File -> Stored \union {Unset}]]
          /\ shown' \in [Task -> [File -> Stored \union {Unset}]]
      BY <3>2, TableTypes DEF Leaves
    <3>4. /\ call' \in [Task -> Call \union {NoCall}]
          /\ got' \in [Task -> Stored \union Answers \union {Unset}]
          /\ heldGen' \in [Task -> Nat]
      BY <3>2 DEF Leaves, TypeOK
    <3>. QED BY <3>1, <3>3, <3>4, <1>17 DEF Drop, TypeOK
  <2>. QED BY <2>1, <2>2
<1>18. ASSUME NEW t \in Task, OrphanLands(t) PROVE TypeOK'
  <2>1. FileOfCall(t) \in File /\ call[t].contents \in Stored /\ call[t].path \in Path
    BY <1>18, CallShapes DEF OrphanLands, TypeOK, AwaitsOK, Stored, FileOfCall
  <2>2. /\ disk' \in [File -> Stored]
        /\ dirty' \in [Task -> SUBSET File]
        /\ raced' \in [Task -> SUBSET File]
    BY <2>1, <1>18, ChangeTypes DEF OrphanLands, Lands
  <2>3. writtenAs' \in [File -> SUBSET Path] /\ commanded' \in SUBSET File
    BY <2>1, <1>18 DEF OrphanLands, Lands, TypeOK
  <2>. QED BY <2>1, <2>2, <2>3, <1>18
    DEF OrphanLands, Leaves, Goes, TypeOK, AwaitsOK, PCs
<1>19. ASSUME NEW t \in Task, OrphanFails(t) PROVE TypeOK'
  BY <1>19 DEF OrphanFails, Leaves, Goes, TypeOK, AwaitsOK, PCs
<1>20. CASE UNCHANGED vars
  BY <1>20 DEF vars, TypeOK, AwaitsOK
<1>. QED
  BY <1>1, <1>2, <1>3, <1>4, <1>5, <1>6, <1>7, <1>8, <1>9, <1>10, <1>11,
     <1>12, <1>13, <1>14, <1>15, <1>16, <1>17, <1>18, <1>19, <1>20
     DEF Next, Step, Ended

\* Every state of the shared memory is well typed.
THEOREM TypeCorrect == Spec => []TypeOK
<1>. QED BY TypeInit, TypeNext, PTL DEF Spec

-----------------------------------------------------------------------------
(* One task at a time. *)

\* A step of t leaves every other task where it was.
Others(t) ==
  \A u \in Task \ {t} :
    /\ pc'[u] = pc[u] /\ call'[u] = call[u] /\ got'[u] = got[u]
    /\ heldGen'[u] = heldGen[u] /\ versions'[u] = versions[u]
    /\ shown'[u] = shown[u]

\* A call moves no task but its own.
LEMMA OneTask ==
  ASSUME TypeOK, NEW t \in Task, Step(t)
  PROVE  Others(t)
<1> USE DEF taskVars, history
<1>0. /\ pc \in [Task -> PCs] /\ call \in [Task -> Call \union {NoCall}]
      /\ got \in [Task -> Stored \union Answers \union {Unset}]
      /\ heldGen \in [Task -> Nat]
      /\ versions \in [Task -> [File -> Stored \union {Unset}]]
      /\ shown \in [Task -> [File -> Stored \union {Unset}]]
  BY DEF TypeOK
<1>1. ASSUME NEW c \in Call, Repeat(t, c) \/ Fresh(t, c) PROVE Others(t)
  BY <1>0, <1>1 DEF Repeat, Fresh, Goes, Shows, Others
<1>2. CASE NoteRead(t) \/ Deny(t) \/ Approve(t) \/ ReadOriginal(t)
           \/ KeepOriginal(t) \/ CheckStale(t) \/ Compare(t)
  BY <1>0, <1>2 DEF NoteRead, Deny, Approve, ReadOriginal, KeepOriginal,
     KeepOriginalIf, CheckStale, CheckWith, Compare, CompareThen, Goes, Sees,
     Returns, Answered, Others
<1>3. CASE NoteUnchanged(t) \/ Write(t) \/ WriteFails(t) \/ ReadDisk(t)
  BY <1>0, <1>3 DEF NoteUnchanged, Write, WriteFails, ReadDisk, Goes, Sees,
     Shows, Answered, Others
<1>4. ASSUME NEW f \in File, NEW v \in Stored, CommandWrites(t, f, v)
      PROVE  Others(t)
  BY <1>4 DEF CommandWrites, Others
<1>5. ASSUME NEW r \in {"passed", "failed"}, CommandEnds(t, r) PROVE Others(t)
  BY <1>0, <1>5 DEF CommandEnds, Goes, Answered, Others
<1>6. CASE Settle(t)
  BY <1>0, <1>6 DEF Settle, SettleWhen, Goes, Returns, Others
<1>7. CASE Drop(t)
  BY <1>0, <1>7 DEF Drop, Goes, Leaves, Others
<1>8. CASE OrphanLands(t) \/ OrphanFails(t)
  BY <1>0, <1>8 DEF OrphanLands, OrphanFails, Goes, Leaves, Others
<1>. QED BY <1>1, <1>2, <1>3, <1>4, <1>5, <1>6, <1>7, <1>8 DEF Step

-----------------------------------------------------------------------------
(* The memory is fresh. *)

\* A step that changes no file, remembers no read and answers none keeps the
\* memory as fresh as it was.
LEMMA CacheStill ==
  ASSUME TypeOK, CacheInv, NEW t \in Task, Others(t),
         UNCHANGED <<disk, gen, dirty>>,
         \A p \in Path : ReadFile(p) \in DOMAIN seen' =>
           ReadFile(p) \in DOMAIN seen /\ seen'[ReadFile(p)] = seen[ReadFile(p)],
         heldGen'[t] <= gen,
         ~(pc'[t] = "settle" /\ call'[t] \in Reads),
         dirty[t] # {} => \/ pc'[t] \in {"gone", "run"}
                          \/ pc'[t] = "settle" /\ call'[t] \in Mutating
  PROVE  CacheInv'
<1>1. CacheFresh'
  BY DEF CacheInv, CacheFresh
<1>2. ASSUME NEW u \in Task
      PROVE  /\ heldGen'[u] <= gen'
             /\ pc'[u] = "settle" /\ call'[u] \in Reads /\ heldGen'[u] = gen'
                  /\ got'[u] # disk'[FileOf[call'[u].path]] =>
                \E w \in Task : FileOf[call'[u].path] \in dirty'[w]
             /\ dirty'[u] # {} => \/ pc'[u] = "gone"
                                  \/ pc'[u] = "run"
                                  \/ pc'[u] = "settle" /\ call'[u] \in Mutating
  <2>1. CASE u = t
    BY <2>1
  <2>2. CASE u # t
    BY <2>2 DEF Others, CacheInv, FileOfCall
  <2>. QED BY <2>1, <2>2
<1>. QED BY <1>1, <1>2 DEF CacheInv, FileOfCall

\* A change to a file is covered by the task that makes it.
LEMMA CacheChange ==
  ASSUME TypeOK, CacheInv, NEW t \in Task, Others(t), NEW f \in File,
         NEW v \in Stored, Change(t, f, v), UNCHANGED <<seen, gen>>,
         heldGen'[t] <= gen,
         \/ pc'[t] \in {"gone", "run"}
         \/ pc'[t] = "settle" /\ call'[t] \in Mutating
  PROVE  CacheInv'
<1>1. /\ \A g \in File : g # f => disk'[g] = disk[g]
      /\ f \in dirty'[t]
      /\ \A w \in Task : dirty[w] \subseteq dirty'[w]
      /\ \A w \in Task : w # t => dirty'[w] = dirty[w]
  BY DEF Change, TypeOK
<1>2. CacheFresh'
  BY <1>1 DEF CacheInv, CacheFresh, File
<1>3. ASSUME NEW u \in Task
      PROVE  /\ heldGen'[u] <= gen'
             /\ pc'[u] = "settle" /\ call'[u] \in Reads /\ heldGen'[u] = gen'
                  /\ got'[u] # disk'[FileOf[call'[u].path]] =>
                \E w \in Task : FileOf[call'[u].path] \in dirty'[w]
             /\ dirty'[u] # {} => \/ pc'[u] = "gone"
                                  \/ pc'[u] = "run"
                                  \/ pc'[u] = "settle" /\ call'[u] \in Mutating
  <2>1. CASE u = t
    BY <2>1, CallShapes
  <2>2. CASE u # t
    <3>1. /\ pc'[u] = pc[u] /\ call'[u] = call[u] /\ got'[u] = got[u]
          /\ heldGen'[u] = heldGen[u] /\ dirty'[u] = dirty[u]
      BY <2>2, <1>1 DEF Others
    <3>2. call[u] \in Reads => FileOf[call[u].path] \in File
      BY CallShapes
    <3>. QED BY <3>1, <3>2, <1>1 DEF CacheInv, FileOfCall
  <2>. QED BY <2>1, <2>2
<1>. QED BY <1>2, <1>3 DEF CacheInv, FileOfCall

\* Every step keeps what is remembered fresh, or covered by an owner.
LEMMA CacheNext == TypeOK /\ CacheInv /\ [Next]_vars => CacheInv'
<1> SUFFICES ASSUME TypeOK, CacheInv, [Next]_vars PROVE CacheInv'
  OBVIOUS
<1> USE DEF memoryVars, taskVars, history
<1>0. /\ pc \in [Task -> PCs] /\ call \in [Task -> Call \union {NoCall}]
      /\ got \in [Task -> Stored \union Answers \union {Unset}]
      /\ heldGen \in [Task -> Nat] /\ gen \in Nat /\ AwaitsOK
      /\ dirty \in [Task -> SUBSET File]
  BY DEF TypeOK
<1>a. \A t \in Task : heldGen[t] <= gen /\ 0 <= gen /\ gen <= gen
  BY <1>0 DEF CacheInv
<1>b. \A t \in Task : pc[t] \notin {"gone", "run", "settle"} => dirty[t] = {}
  BY DEF CacheInv
<1>c. \A t \in Task : Step(t) => Others(t)
  BY OneTask
<1>1. ASSUME NEW t \in Task, NEW c \in Call, Repeat(t, c) PROVE CacheInv'
  <2>1. /\ pc'[t] \in {"idle", "noting"} /\ dirty[t] = {} /\ heldGen'[t] = heldGen[t]
        /\ UNCHANGED <<disk, gen, dirty, seen>>
    BY <1>0, <1>1, <1>b DEF Repeat, Issue, Goes
  <2>2. Others(t)
    BY <1>1, <1>c DEF Step
  <2>. QED BY <2>1, <2>2, <1>a, CacheStill
<1>2. ASSUME NEW t \in Task, NEW c \in Call, Fresh(t, c) PROVE CacheInv'
  <2>1. /\ pc'[t] \in {"gate", "read"} /\ dirty[t] = {} /\ heldGen'[t] \in {0, gen}
        /\ UNCHANGED <<disk, gen, dirty, seen>>
    BY <1>0, <1>2, <1>b DEF Fresh, Issue, Goes
  <2>2. Others(t)
    BY <1>2, <1>c DEF Step
  <2>. QED BY <2>1, <2>2, <1>a, CacheStill
<1>3. ASSUME NEW t \in Task,
             \/ NoteRead(t) \/ Approve(t) \/ ReadOriginal(t) \/ KeepOriginal(t)
             \/ Compare(t)
      PROVE  CacheInv'
  <2>1. /\ pc'[t] \in {"idle", "run", "original", "keep", "check", "renote", "write"}
        /\ dirty[t] = {} /\ heldGen'[t] = heldGen[t]
        /\ UNCHANGED <<disk, gen, dirty, seen>>
    BY <1>0, <1>3, <1>b DEF NoteRead, Approve, ReadOriginal, KeepOriginal,
       KeepOriginalIf, Compare, CompareThen, Goes, Returns
  <2>2. Others(t)
    BY <1>3, <1>c DEF Step
  <2>. QED BY <2>1, <2>2, <1>a, CacheStill
<1>4. ASSUME NEW t \in Task, Deny(t) PROVE CacheInv'
  <2>1. /\ pc'[t] = "idle" /\ dirty[t] = {} /\ heldGen'[t] = heldGen[t]
        /\ UNCHANGED <<disk, gen, dirty>>
    BY <1>0, <1>4, <1>b DEF Deny, Goes, Returns
  <2>2. call[t] \notin Reads
    BY <1>0, <1>4, CallShapes DEF Deny, AwaitsOK
  <2>3. \A p \in Path : ReadFile(p) \in DOMAIN seen' =>
           ReadFile(p) \in DOMAIN seen /\ seen'[ReadFile(p)] = seen[ReadFile(p)]
    BY <2>2, <1>4, CallShapes DEF Deny, Record
  <2>4. Others(t)
    BY <1>4, <1>c DEF Step
  <2>. QED BY <2>1, <2>3, <2>4, <1>a, CacheStill
<1>5. ASSUME NEW t \in Task,
             \/ CheckStale(t) \/ NoteUnchanged(t) \/ WriteFails(t)
             \/ \E r \in {"passed", "failed"} : CommandEnds(t, r)
      PROVE  CacheInv'
  <2>1. call[t] \in Mutating
    BY <1>0, <1>5 DEF CheckStale, CheckWith, NoteUnchanged, WriteFails, CommandEnds,
       AwaitsOK, Mutating
  <2>2. /\ pc'[t] = "settle" \/ (pc'[t] = "compare" /\ dirty[t] = {})
        /\ call'[t] = call[t] /\ heldGen'[t] = heldGen[t]
        /\ UNCHANGED <<disk, gen, dirty, seen>>
    BY <1>0, <1>5, <1>b DEF CheckStale, CheckWith, NoteUnchanged, WriteFails,
       CommandEnds, Answered, Goes
  <2>3. Others(t)
    BY <1>5, <1>c DEF Step
  <2>. QED BY <2>1, <2>2, <2>3, <1>a, CallShapes, CacheStill
<1>6. ASSUME NEW t \in Task, ReadDisk(t) PROVE CacheInv'
  <2>1. /\ pc'[t] = "settle" /\ call' = call /\ got'[t] = disk[FileOfCall(t)]
        /\ dirty[t] = {} /\ heldGen' = heldGen
        /\ UNCHANGED <<disk, gen, dirty, seen>>
    BY <1>0, <1>6, <1>b DEF ReadDisk, Answered, Goes
  <2>2. Others(t)
    BY <1>6, <1>c DEF Step
  <2>3. CacheFresh'
    BY <2>1 DEF CacheInv, CacheFresh
  <2>4. ASSUME NEW u \in Task
        PROVE  /\ heldGen'[u] <= gen'
               /\ pc'[u] = "settle" /\ call'[u] \in Reads /\ heldGen'[u] = gen'
                    /\ got'[u] # disk'[FileOf[call'[u].path]] =>
                  \E w \in Task : FileOf[call'[u].path] \in dirty'[w]
               /\ dirty'[u] # {} => \/ pc'[u] = "gone"
                                    \/ pc'[u] = "run"
                                    \/ pc'[u] = "settle" /\ call'[u] \in Mutating
    <3>1. CASE u = t
      BY <3>1, <2>1, <1>a DEF FileOfCall
    <3>2. CASE u # t
      BY <3>2, <2>1, <2>2 DEF Others, CacheInv, FileOfCall
    <3>. QED BY <3>1, <3>2
  <2>. QED BY <2>3, <2>4 DEF CacheInv, FileOfCall
<1>7. ASSUME NEW t \in Task, Write(t) \/ OrphanLands(t) PROVE CacheInv'
  <2>1. /\ call[t] \in Writes /\ call[t] \in Mutating /\ FileOfCall(t) \in File
        /\ call[t].contents \in Stored
    BY <1>0, <1>7, CallShapes
       DEF Write, OrphanLands, AwaitsOK, FileOfCall, Stored, Mutating
  <2>2. /\ Change(t, FileOfCall(t), call[t].contents) /\ UNCHANGED <<seen, gen>>
        /\ heldGen'[t] \in {0, heldGen[t]}
        /\ \/ pc'[t] = "gone"
           \/ pc'[t] = "settle" /\ call'[t] = call[t]
    BY <1>0, <1>7 DEF Write, OrphanLands, Lands, Leaves, Answered, Goes
  <2>3. Others(t)
    BY <1>7, <1>c DEF Step
  <2>. QED BY <2>1, <2>2, <2>3, <1>a, CacheChange
<1>8. ASSUME NEW t \in Task, NEW f \in File, NEW v \in Stored, CommandWrites(t, f, v)
      PROVE  CacheInv'
  <2>1. /\ Change(t, f, v) /\ UNCHANGED <<seen, gen>> /\ heldGen'[t] = heldGen[t]
        /\ pc'[t] = "run"
    BY <1>8 DEF CommandWrites
  <2>2. Others(t)
    BY <1>8, <1>c DEF Step
  <2>. QED BY <2>1, <2>2, <1>a, CacheChange
<1>9. ASSUME NEW t \in Task, Settle(t), call[t] \in Mutating PROVE CacheInv'
  <2>1. /\ gen' = gen + 1 /\ DOMAIN seen' = {call[t]}
        /\ pc'[t] = "idle" /\ heldGen'[t] = 0 /\ UNCHANGED disk
        /\ dirty' = [dirty EXCEPT ![t] = {}]
    BY <1>0, <1>9 DEF Settle, SettleWhen, ClearAndRecord, Returns, Goes
  <2>2. CacheFresh'
    BY <2>1, <1>9, CallShapes DEF CacheFresh
  <2>3. Others(t)
    BY <1>9, <1>c DEF Step
  <2>4. ASSUME NEW u \in Task
        PROVE  /\ heldGen'[u] <= gen' /\ (pc'[u] = "settle" => heldGen'[u] # gen')
               /\ dirty'[u] # {} => \/ pc'[u] = "gone"
                                    \/ pc'[u] = "run"
                                    \/ pc'[u] = "settle" /\ call'[u] \in Mutating
    <3>1. CASE u = t
      BY <3>1, <2>1, <1>0
    <3>2. CASE u # t
      <4>1. heldGen'[u] = heldGen[u] /\ pc'[u] = pc[u] /\ call'[u] = call[u]
            /\ dirty'[u] = dirty[u]
        BY <3>2, <2>1, <2>3, <1>0 DEF Others
      <4>2. heldGen[u] \in Nat /\ heldGen[u] <= gen
        BY <1>0, <1>a
      <4>3. heldGen'[u] <= gen' /\ heldGen'[u] # gen'
        BY <4>1, <4>2, <2>1, <1>0
      <4>. QED BY <4>1, <4>3 DEF CacheInv
    <3>. QED BY <3>1, <3>2
  <2>. QED BY <2>2, <2>4 DEF CacheInv
<1>10. ASSUME NEW t \in Task, Settle(t), call[t] \notin Mutating PROVE CacheInv'
  <2>1. call[t] \in Reads
    BY <1>0, <1>10 DEF Settle, SettleWhen, AwaitsOK
  <2>2. dirty[t] = {}
    BY <1>10 DEF CacheInv, Settle, SettleWhen
  <2>3. /\ pc'[t] = "idle" /\ heldGen'[t] = 0 /\ UNCHANGED <<disk, gen>>
        /\ dirty' = dirty
    BY <1>0, <1>10, <2>2 DEF Settle, SettleWhen, Returns, Goes
  <2>4. CASE heldGen[t] # gen
    <3>1. seen' = seen
      BY <2>4, <1>10 DEF Settle, SettleWhen
    <3>2. Others(t)
      BY <1>10, <1>c DEF Step
    <3>. QED BY <3>1, <3>2, <2>2, <2>3, <1>a, CacheStill
  <2>5. CASE heldGen[t] = gen
    <3>1. seen' = [x \in DOMAIN seen \union {call[t]} |->
                     IF x = call[t] THEN got[t] ELSE seen[x]]
      BY <2>5, <1>10 DEF Settle, SettleWhen, Record
    <3>2. got[t] # disk[FileOfCall(t)] =>
            \E u \in Task : FileOfCall(t) \in dirty[u]
      BY <2>1, <2>5, <1>10 DEF CacheInv, Settle, SettleWhen
    <3>3. CacheFresh'
      <4> SUFFICES ASSUME NEW p \in Path, ReadFile(p) \in DOMAIN seen',
                          seen'[ReadFile(p)] # disk[FileOf[p]]
                   PROVE  \E u \in Task : FileOf[p] \in dirty[u]
        BY <2>3 DEF CacheFresh
      <4>1. CASE ReadFile(p) = call[t]
        BY <4>1, <3>1, <3>2, CallShapes DEF FileOfCall
      <4>2. CASE ReadFile(p) # call[t]
        BY <4>2, <3>1 DEF CacheInv, CacheFresh
      <4>. QED BY <4>1, <4>2
    <3>4. Others(t)
      BY <1>10, <1>c DEF Step
    <3>5. ASSUME NEW u \in Task
          PROVE  /\ heldGen'[u] <= gen'
                 /\ pc'[u] = "settle" /\ call'[u] \in Reads /\ heldGen'[u] = gen'
                      /\ got'[u] # disk'[FileOf[call'[u].path]] =>
                    \E w \in Task : FileOf[call'[u].path] \in dirty'[w]
                 /\ dirty'[u] # {} => \/ pc'[u] = "gone"
                                      \/ pc'[u] = "run"
                                      \/ pc'[u] = "settle" /\ call'[u] \in Mutating
      <4>1. CASE u = t
        BY <4>1, <2>2, <2>3, <1>a
      <4>2. CASE u # t
        BY <4>2, <2>3, <3>4 DEF Others, CacheInv, FileOfCall
      <4>. QED BY <4>1, <4>2
    <3>. QED BY <3>3, <3>5 DEF CacheInv, FileOfCall
  <2>. QED BY <2>4, <2>5
<1>11. ASSUME NEW t \in Task, Drop(t) \/ OrphanFails(t) PROVE CacheInv'
  <2>1. /\ pc'[t] = "gone" \/ (pc'[t] = "orphan" /\ dirty[t] = {})
        /\ heldGen'[t] \in {0, heldGen[t]}
        /\ UNCHANGED <<disk, gen, dirty, seen>>
    BY <1>0, <1>11, <1>b DEF Drop, OrphanFails, Leaves, Goes
  <2>2. Others(t)
    BY <1>11, <1>c DEF Step
  <2>. QED BY <2>1, <2>2, <1>a, CacheStill
<1>12. CASE UNCHANGED vars
  BY <1>12 DEF vars, CacheInv, CacheFresh, FileOfCall
<1>. QED
  BY <1>1, <1>2, <1>3, <1>4, <1>5, <1>6, <1>7, <1>8, <1>9, <1>10, <1>11, <1>12
     DEF Next, Step, Ended

\* What the memory holds, and a read about to be remembered, is as fresh as
\* the memory's clearing allows: what makes CacheFresh inductive.
THEOREM CacheHolds == Spec => []CacheInv
<1>1. Init => CacheInv
  BY DEF Init, CacheInv, CacheFresh
<1>. QED BY <1>1, CacheNext, TypeCorrect, PTL DEF Spec

\* A read answered from memory is the file as it is, unless a call that
\* changed that very file has not cleared the memory yet or never will.
THEOREM CacheFreshHolds == Spec => []CacheFresh
<1>1. CacheInv => CacheFresh
  BY DEF CacheInv
<1>. QED BY <1>1, CacheHolds, PTL

-----------------------------------------------------------------------------
(* The originals a review is shown. *)

\* A step that writes no file and keeps no original.
LEMMA OriginalsStill ==
  ASSUME TypeOK, OriginalsInv, NEW t \in Task, Others(t),
         UNCHANGED <<disk, originals, before, writtenAs, commanded>>,
         pc'[t] = "keep" => got'[t] = disk[FileOf[call'[t].path]]
                            /\ FileOf[call'[t].path] \in File,
         pc'[t] \in {"check", "compare", "renote", "write", "orphan"} =>
           originals[call'[t].path] # Unset
  PROVE  OriginalsInv'
<1>1. OriginalsArePreTurn'
  BY DEF OriginalsInv, OriginalsArePreTurn
<1>2. \A f \in File : f \notin commanded' /\ writtenAs'[f] = {} => disk'[f] = before'[f]
  BY DEF OriginalsInv
<1>3. ASSUME NEW u \in Task
      PROVE  /\ pc'[u] = "keep" /\ originals'[call'[u].path] = Unset
                  /\ FileOf[call'[u].path] \notin commanded'
                  /\ writtenAs'[FileOf[call'[u].path]] = {} =>
                got'[u] = before'[FileOf[call'[u].path]]
             /\ pc'[u] \in {"check", "compare", "renote", "write", "orphan"} =>
                  originals'[call'[u].path] # Unset
  <2>1. CASE u = t
    BY <2>1 DEF OriginalsInv
  <2>2. CASE u # t
    BY <2>2 DEF Others, OriginalsInv, FileOfCall
  <2>. QED BY <2>1, <2>2
<1>. QED BY <1>1, <1>2, <1>3 DEF OriginalsInv, FileOfCall

\* A step that changes a file, by a write whose original is kept or by a
\* command.
LEMMA OriginalsChange ==
  ASSUME TypeOK, OriginalsInv, NEW t \in Task, Others(t),
         UNCHANGED <<originals, before>>,
         NEW f \in File, \A g \in File : g # f => disk'[g] = disk[g],
         \A g \in File : writtenAs[g] \subseteq writtenAs'[g],
         commanded \subseteq commanded',
         \A p \in Path : p \in writtenAs'[FileOf[p]] =>
           p \in writtenAs[FileOf[p]] \/ originals[p] # Unset,
         f \in commanded' \/ writtenAs'[f] # {},
         pc'[t] \notin {"keep", "check", "compare", "renote", "write", "orphan"}
  PROVE  OriginalsInv'
<1>0. \A p \in Path : FileOf[p] \in File
  BY DEF File
<1>1. OriginalsArePreTurn'
  BY <1>0 DEF OriginalsInv, OriginalsArePreTurn
<1>2. \A g \in File : g \notin commanded' /\ writtenAs'[g] = {} => disk'[g] = before'[g]
  BY DEF OriginalsInv
<1>3. ASSUME NEW u \in Task
      PROVE  /\ pc'[u] = "keep" /\ originals'[call'[u].path] = Unset
                  /\ FileOf[call'[u].path] \notin commanded'
                  /\ writtenAs'[FileOf[call'[u].path]] = {} =>
                got'[u] = before'[FileOf[call'[u].path]]
             /\ pc'[u] \in {"check", "compare", "renote", "write", "orphan"} =>
                  originals'[call'[u].path] # Unset
  <2>1. CASE u = t
    BY <2>1
  <2>2. CASE u # t
    <3>1. pc[u] = "keep" => FileOf[call[u].path] \in File
      BY CallShapes DEF TypeOK, AwaitsOK
    <3>. QED BY <3>1, <2>2 DEF Others, OriginalsInv, FileOfCall
  <2>. QED BY <2>1, <2>2
<1>. QED BY <1>1, <1>2, <1>3 DEF OriginalsInv, FileOfCall

\* Every step keeps the originals those of before the turn.
LEMMA OriginalsNext == TypeOK /\ OriginalsInv /\ [Next]_vars => OriginalsInv'
<1> SUFFICES ASSUME TypeOK, OriginalsInv, [Next]_vars PROVE OriginalsInv'
  OBVIOUS
<1> USE DEF memoryVars, taskVars, history
<1>0. /\ pc \in [Task -> PCs] /\ call \in [Task -> Call \union {NoCall}]
      /\ got \in [Task -> Stored \union Answers \union {Unset}]
      /\ originals \in [Path -> Stored \union {Unset}] /\ AwaitsOK
      /\ disk \in [File -> Stored] /\ writtenAs \in [File -> SUBSET Path]
  BY DEF TypeOK
<1>c. \A t \in Task : Step(t) => Others(t)
  BY OneTask
<1>1. ASSUME NEW t \in Task,
             \/ \E c \in Call : Repeat(t, c) \/ Fresh(t, c)
             \/ NoteRead(t) \/ Deny(t) \/ WriteFails(t) \/ NoteUnchanged(t)
             \/ ReadDisk(t) \/ Settle(t) \/ OrphanFails(t)
             \/ \E r \in {"passed", "failed"} : CommandEnds(t, r)
      PROVE  OriginalsInv'
  <2>1. /\ pc'[t] \in {"idle", "noting", "gate", "read", "settle", "gone"}
        /\ UNCHANGED <<disk, originals, before, writtenAs, commanded>>
    BY <1>0, <1>1 DEF Repeat, Issue, Fresh, NoteRead, Deny, WriteFails, NoteUnchanged,
       ReadDisk, Settle, SettleWhen, Record, ClearAndRecord, OrphanFails, CommandEnds,
       Goes, Returns, Answered, Leaves
  <2>2. Others(t)
    BY <1>1, <1>c DEF Step
  <2>. QED BY <2>1, <2>2, OriginalsStill
<1>2. ASSUME NEW t \in Task, Approve(t) \/ CheckStale(t) \/ Compare(t) \/ Drop(t)
      PROVE  OriginalsInv'
  <2>1. /\ UNCHANGED <<disk, originals, before, writtenAs, commanded>>
        /\ pc'[t] # "keep"
        /\ pc'[t] \in {"check", "compare", "renote", "write", "orphan"} =>
             originals[call'[t].path] # Unset
    <3>1. CASE Approve(t)
      BY <1>0, <3>1 DEF Approve, Goes
    <3>2. CASE CheckStale(t) \/ Compare(t)
      BY <1>0, <3>2 DEF CheckStale, CheckWith, Compare, CompareThen, Goes, Answered,
         OriginalsInv
    <3>3. CASE Drop(t)
      BY <1>0, <3>3 DEF Drop, Leaves, Goes, OriginalsInv
    <3>. QED BY <1>2, <3>1, <3>2, <3>3
  <2>2. Others(t)
    BY <1>2, <1>c DEF Step
  <2>. QED BY <2>1, <2>2, OriginalsStill
<1>3. ASSUME NEW t \in Task, ReadOriginal(t) PROVE OriginalsInv'
  <2>1. /\ UNCHANGED <<disk, originals, before, writtenAs, commanded>>
        /\ pc'[t] = "keep" /\ call'[t] = call[t]
        /\ got'[t] = disk[FileOf[call'[t].path]]
    BY <1>0, <1>3 DEF ReadOriginal, Goes, FileOfCall
  <2>2. FileOf[call[t].path] \in File
    BY <1>0, <1>3, CallShapes DEF ReadOriginal, AwaitsOK
  <2>3. Others(t)
    BY <1>3, <1>c DEF Step
  <2>. QED BY <2>1, <2>2, <2>3, OriginalsStill
<1>4. ASSUME NEW t \in Task, KeepOriginal(t) PROVE OriginalsInv'
  <2> DEFINE p == call[t].path
             f == FileOf[p]
  <2>1. /\ p \in Path /\ f \in File /\ got[t] \in Stored /\ Unset \notin Stored
        /\ pc[t] = "keep"
    BY <1>0, <1>4, CallShapes, ContentsAssumption
       DEF KeepOriginal, KeepOriginalIf, AwaitsOK, Stored
  <2>2. /\ UNCHANGED <<disk, before, writtenAs, commanded>>
        /\ pc'[t] = "check" /\ call'[t] = call[t]
    BY <1>0, <1>4 DEF KeepOriginal, KeepOriginalIf, Goes
  <2>3. CASE originals[p] # Unset
    <3>1. originals' = originals
      BY <2>3, <1>4 DEF KeepOriginal, KeepOriginalIf
    <3>2. Others(t)
      BY <1>4, <1>c DEF Step
    <3>. QED BY <2>2, <2>3, <3>1, <3>2, OriginalsStill
  <2>4. CASE originals[p] = Unset
    <3>1. originals' = [originals EXCEPT ![p] = got[t]]
      BY <2>4, <1>4 DEF KeepOriginal, KeepOriginalIf
    <3>2. originals'[p] # Unset /\ \A q \in Path : q # p => originals'[q] = originals[q]
      BY <3>1, <2>1, <1>0
    <3>3. f \notin commanded /\ writtenAs[f] \subseteq {p} => originals'[p] = before[f]
      <4>1. p \notin writtenAs[f]
        BY <2>1, <2>4 DEF OriginalsInv, OriginalsArePreTurn
      <4>. QED BY <4>1, <3>1, <2>1, <2>4, <1>0 DEF OriginalsInv, FileOfCall
    <3>4. OriginalsArePreTurn'
      BY <2>2, <3>2, <3>3 DEF OriginalsInv, OriginalsArePreTurn
    <3>5. \A g \in File :
            g \notin commanded' /\ writtenAs'[g] = {} => disk'[g] = before'[g]
      BY <2>2 DEF OriginalsInv
    <3>6. Others(t)
      BY <1>4, <1>c DEF Step
    <3>7. ASSUME NEW u \in Task
          PROVE  /\ pc'[u] = "keep" /\ originals'[call'[u].path] = Unset
                      /\ FileOf[call'[u].path] \notin commanded'
                      /\ writtenAs'[FileOf[call'[u].path]] = {} =>
                    got'[u] = before'[FileOf[call'[u].path]]
                 /\ pc'[u] \in {"check", "compare", "renote", "write", "orphan"} =>
                      originals'[call'[u].path] # Unset
      <4>1. CASE u = t
        BY <4>1, <2>2, <3>2
      <4>2. CASE u # t
        <5>1. /\ pc'[u] = pc[u] /\ call'[u] = call[u] /\ got'[u] = got[u]
          BY <4>2, <3>6 DEF Others
        <5>2. pc[u] \in {"keep", "check", "compare", "renote", "write", "orphan"} =>
                call[u].path \in Path
          BY <1>0, CallShapes DEF AwaitsOK
        <5>. QED BY <5>1, <5>2, <3>2, <2>2 DEF OriginalsInv, FileOfCall
      <4>. QED BY <4>1, <4>2
    <3>. QED BY <3>4, <3>5, <3>7 DEF OriginalsInv, FileOfCall
  <2>. QED BY <2>3, <2>4
<1>5. ASSUME NEW t \in Task, Write(t) \/ OrphanLands(t) PROVE OriginalsInv'
  <2>1. /\ call[t].path \in Path /\ FileOfCall(t) \in File
        /\ originals[call[t].path] # Unset
        /\ FileOfCall(t) = FileOf[call[t].path]
    BY <1>0, <1>5, CallShapes DEF Write, OrphanLands, AwaitsOK, FileOfCall, OriginalsInv
  <2>2. /\ disk' = [disk EXCEPT ![FileOfCall(t)] = call[t].contents]
        /\ writtenAs' = [writtenAs EXCEPT ![FileOfCall(t)] = @ \union {call[t].path}]
        /\ UNCHANGED <<originals, before, commanded>>
        /\ pc'[t] \in {"settle", "gone"}
    BY <1>0, <1>5 DEF Write, OrphanLands, Lands, Change, Leaves, Answered, Goes
  <2>3. Others(t)
    BY <1>5, <1>c DEF Step
  <2>4. /\ \A g \in File : g # FileOfCall(t) => disk'[g] = disk[g]
        /\ \A g \in File : writtenAs[g] \subseteq writtenAs'[g]
        /\ writtenAs'[FileOfCall(t)] # {}
    BY <2>1, <2>2, <1>0
  <2>5. \A p \in Path : p \in writtenAs'[FileOf[p]] =>
          p \in writtenAs[FileOf[p]] \/ originals[p] # Unset
    BY <2>1, <2>2, <1>0 DEF File
  <2>. QED BY <2>1, <2>2, <2>3, <2>4, <2>5, OriginalsChange
<1>6. ASSUME NEW t \in Task, NEW f \in File, NEW v \in Stored, CommandWrites(t, f, v)
      PROVE  OriginalsInv'
  <2>1. /\ \A g \in File : g # f => disk'[g] = disk[g]
        /\ commanded' = commanded \union {f}
        /\ UNCHANGED <<originals, before, writtenAs>>
        /\ pc'[t] = "run"
    BY <1>0, <1>6 DEF CommandWrites, Change
  <2>2. Others(t)
    BY <1>6, <1>c DEF Step
  <2>. QED BY <2>1, <2>2, OriginalsChange
<1>7. CASE UNCHANGED vars
  BY <1>7 DEF vars, OriginalsInv, OriginalsArePreTurn, FileOfCall
<1>. QED
  BY <1>1, <1>2, <1>3, <1>4, <1>5, <1>6, <1>7 DEF Next, Step, Ended

\* The diff a review is shown covers every written file, from its contents
\* before the turn.
THEOREM OriginalsHold == Spec => []OriginalsArePreTurn
<1>1. Init => OriginalsInv
  BY DEF Init, OriginalsInv, OriginalsArePreTurn, File
<1>2. OriginalsInv => OriginalsArePreTurn
  BY DEF OriginalsInv
<1>. QED BY <1>1, <1>2, OriginalsNext, TypeCorrect, PTL DEF Spec

-----------------------------------------------------------------------------
(* What a write may discard. *)

\* A step of t that changes no file leaves the others' view as it was.
LEMMA ViewStill ==
  ASSUME TypeOK, ViewInv, NEW t \in Task, Others(t), UNCHANGED disk,
         \A u \in Task \ {t} : raced[u] \subseteq raced'[u],
         ViewOf(t)'
  PROVE  ViewInv'
<1>1. ASSUME NEW u \in Task, u # t PROVE ViewOf(u)'
  <2>1. ViewOf(u)
    BY DEF ViewInv
  <2>2. /\ pc'[u] = pc[u] /\ call'[u] = call[u] /\ versions'[u] = versions[u]
        /\ shown'[u] = shown[u] /\ disk' = disk /\ raced[u] \subseteq raced'[u]
    BY <1>1 DEF Others
  <2>. QED BY <2>1, <2>2 DEF ViewOf, FileOfCall
<1>. QED BY <1>1 DEF ViewInv

\* A change to a file races every task exposed to it, and no other task's view
\* depends on the disk.
LEMMA ViewChange ==
  ASSUME TypeOK, ViewInv, NEW t \in Task, Others(t), NEW f \in File,
         NEW v \in Stored, Change(t, f, v), ViewOf(t)'
  PROVE  ViewInv'
<1>1. ASSUME NEW u \in Task, u # t PROVE ViewOf(u)'
  <2>1. ViewOf(u)
    BY DEF ViewInv
  <2>2. /\ pc'[u] = pc[u] /\ call'[u] = call[u] /\ versions'[u] = versions[u]
        /\ shown'[u] = shown[u]
    BY <1>1 DEF Others
  <2>3. /\ \A g \in File : g # f => disk'[g] = disk[g]
        /\ raced[u] \subseteq raced'[u]
        /\ Exposed(u, f) => f \in raced'[u]
    BY <1>1 DEF Change, TypeOK
  <2>4. pc[u] \in {"noting", "compare", "renote", "write", "orphan"} =>
          /\ FileOfCall(u) \in File
          /\ FileOfCall(u) = f => f \in raced'[u]
    BY <2>3, CallShapes DEF Exposed, TypeOK, AwaitsOK, FileOfCall
  <2>5. FileOfCall(u)' = FileOfCall(u)
    BY <2>2 DEF FileOfCall
  <2>6. ASSUME NEW g \in File
        PROVE  \/ g \in raced'[u]
               \/ shown'[u][g] \in {Unset, versions'[u][g]}
               \/ pc'[u] = "noting" /\ g = FileOfCall(u)'
    <3>1. CASE g \in raced[u] \/ shown[u][g] \in {Unset, versions[u][g]}
      BY <3>1, <2>2, <2>3
    <3>2. CASE pc[u] = "noting" /\ g = FileOfCall(u)
      BY <3>2, <2>2, <2>5
    <3>. QED BY <3>1, <3>2, <2>1 DEF ViewOf
  <2>7. pc'[u] \in {"noting", "compare", "renote", "write", "orphan"} =>
           \/ FileOfCall(u)' \in raced'[u]
           \/ shown'[u][FileOfCall(u)'] \in {Unset, disk'[FileOfCall(u)']}
    BY <2>1, <2>2, <2>3, <2>4, <2>5 DEF ViewOf
  <2>8. pc'[u] = "renote" => \/ FileOfCall(u)' \in raced'[u]
                             \/ call'[u].contents = disk'[FileOfCall(u)']
    BY <2>1, <2>2, <2>3, <2>4, <2>5 DEF ViewOf
  <2>. QED BY <2>6, <2>7, <2>8 DEF ViewOf
<1>. QED BY <1>1 DEF ViewInv

\* Every step keeps what a task was shown in line with its version check.
LEMMA ViewNext == TypeOK /\ CacheInv /\ ViewInv /\ [Next]_vars => ViewInv'
<1> SUFFICES ASSUME TypeOK, CacheInv, ViewInv, [Next]_vars PROVE ViewInv'
  OBVIOUS
<1> USE DEF memoryVars, taskVars, history
<1>0. /\ pc \in [Task -> PCs] /\ call \in [Task -> Call \union {NoCall}]
      /\ AwaitsOK /\ disk \in [File -> Stored]
      /\ versions \in [Task -> [File -> Stored \union {Unset}]]
      /\ shown \in [Task -> [File -> Stored \union {Unset}]]
      /\ raced \in [Task -> SUBSET File]
  BY DEF TypeOK
<1>c. \A t \in Task : Step(t) => Others(t)
  BY OneTask
<1>v. \A t \in Task : ViewOf(t)
  BY DEF ViewInv
<1>1. ASSUME NEW t \in Task, NEW c \in Call, Repeat(t, c), c \in Reads PROVE ViewInv'
  <2> DEFINE f == FileOf[c.path]
  <2>1. /\ f \in File /\ pc[t] = "idle" /\ c \in DOMAIN seen /\ c.path \in Path
        /\ c = ReadFile(c.path)
    BY <1>1, CallShapes DEF Repeat, Issue
  <2>2. /\ pc'[t] = "noting" /\ call'[t] = c /\ versions' = versions
        /\ shown' = [shown EXCEPT ![t][f] = seen[c]] /\ UNCHANGED disk
        /\ raced' = IF \E u \in Task : f \in dirty[u]
                    THEN [raced EXCEPT ![t] = @ \union {f}]
                    ELSE [raced EXCEPT ![t] = @ \ {f}]
    BY <1>1, <1>0 DEF Repeat, Goes, Shows
  <2>3. f \in raced'[t] \/ seen[c] = disk[f]
    <3>1. CASE \E u \in Task : f \in dirty[u]
      BY <3>1, <2>2, <1>0
    <3>2. CASE ~\E u \in Task : f \in dirty[u]
      BY <3>2, <2>1 DEF CacheInv, CacheFresh
    <3>. QED BY <3>1, <3>2
  <2>4. ASSUME NEW g \in File
        PROVE  \/ g \in raced'[t]
               \/ shown'[t][g] \in {Unset, versions'[t][g]}
               \/ pc'[t] = "noting" /\ g = f
    <3>1. CASE g = f
      BY <3>1, <2>2, <2>3, <2>1, <1>0
    <3>2. CASE g # f
      <4>1. shown'[t][g] = shown[t][g] /\ (g \in raced[t] => g \in raced'[t])
        BY <3>2, <2>2, <1>0
      <4>. QED BY <4>1, <1>v, <2>1, <2>2 DEF ViewOf
    <3>. QED BY <3>1, <3>2
  <2>5. f \in raced'[t] \/ shown'[t][f] = disk'[f]
    BY <2>1, <2>2, <2>3, <1>0
  <2>7. FileOfCall(t)' = f
    BY <2>2 DEF FileOfCall
  <2>8. ViewOf(t)'
    BY <2>4, <2>2, <2>5, <2>7 DEF ViewOf
  <2>6. Others(t) /\ \A u \in Task \ {t} : raced[u] \subseteq raced'[u]
    BY <1>1, <1>c, <2>2, <1>0 DEF Step
  <2>. QED BY <2>2, <2>8, <2>6, ViewStill
<1>2. ASSUME NEW t \in Task, NEW c \in Call,
             (Repeat(t, c) /\ c \notin Reads) \/ Fresh(t, c)
      PROVE  ViewInv'
  <2>1. /\ pc[t] = "idle" /\ pc'[t] \in {"idle", "gate", "read"}
        /\ UNCHANGED <<disk, versions, shown, raced>>
    BY <1>2, <1>0 DEF Repeat, Fresh, Issue, Goes
  <2>2. ViewOf(t)'
    BY <2>1, <1>v DEF ViewOf
  <2>3. Others(t)
    BY <1>2, <1>c DEF Step
  <2>. QED BY <2>1, <2>2, <2>3, ViewStill
<1>3. ASSUME NEW t \in Task, NoteRead(t) PROVE ViewInv'
  <2>1. FileOfCall(t) \in File
    BY <1>3, <1>0, CallShapes DEF NoteRead, AwaitsOK, FileOfCall
  <2>2. /\ pc'[t] = "idle" /\ UNCHANGED <<disk, shown, raced>>
        /\ versions' = [versions EXCEPT ![t][FileOfCall(t)] = disk[FileOfCall(t)]]
    BY <1>3, <1>0 DEF NoteRead, Sees, Returns, Goes
  <2>3. /\ versions'[t][FileOfCall(t)] = disk[FileOfCall(t)]
        /\ \A g \in File : g # FileOfCall(t) => versions'[t][g] = versions[t][g]
    BY <2>1, <2>2, <1>0
  <2>4. \/ FileOfCall(t) \in raced[t]
        \/ shown[t][FileOfCall(t)] \in {Unset, disk[FileOfCall(t)]}
    BY <1>3, <1>v DEF ViewOf, NoteRead
  <2>5. ViewOf(t)'
    <3>1. ASSUME NEW g \in File
          PROVE  g \in raced[t] \/ shown[t][g] \in {Unset, versions'[t][g]}
      <4>1. CASE g = FileOfCall(t)
        BY <4>1, <2>3, <2>4
      <4>2. CASE g # FileOfCall(t)
        BY <4>2, <2>3, <1>v DEF ViewOf
      <4>. QED BY <4>1, <4>2
    <3>. QED BY <3>1, <2>2 DEF ViewOf
  <2>6. Others(t)
    BY <1>3, <1>c DEF Step
  <2>. QED BY <2>2, <2>5, <2>6, ViewStill
<1>4. ASSUME NEW t \in Task,
             \/ Deny(t) \/ Approve(t) \/ ReadOriginal(t) \/ KeepOriginal(t)
             \/ WriteFails(t) \/ Settle(t)
             \/ \E r \in {"passed", "failed"} : CommandEnds(t, r)
      PROVE  ViewInv'
  <2>1. /\ pc[t] # "noting"
        /\ pc'[t] \in {"idle", "run", "original", "keep", "check", "settle"}
        /\ UNCHANGED <<disk, versions, shown, raced>>
    BY <1>4, <1>0 DEF Deny, Approve, ReadOriginal, KeepOriginal, KeepOriginalIf,
       WriteFails, Settle, SettleWhen, CommandEnds, Goes, Returns, Answered
  <2>2. ViewOf(t)'
    BY <2>1, <1>v DEF ViewOf
  <2>3. Others(t)
    BY <1>4, <1>c DEF Step
  <2>. QED BY <2>1, <2>2, <2>3, ViewStill
<1>5. ASSUME NEW t \in Task, CheckStale(t) PROVE ViewInv'
  <2>1. /\ pc[t] = "check" /\ call'[t] = call[t]
        /\ UNCHANGED <<disk, versions, shown, raced>>
        /\ FileOfCall(t) \in File
    BY <1>5, <1>0, CallShapes DEF CheckStale, CheckWith, AwaitsOK, FileOfCall
  <2>2. \/ pc'[t] = "settle"
        \/ /\ pc'[t] = "compare"
           /\ versions[t][FileOfCall(t)] \in {Unset, disk[FileOfCall(t)]}
    BY <1>5, <1>0 DEF CheckStale, CheckWith, Answered, Goes
  <2>3. ViewOf(t)'
    BY <2>1, <2>2, <1>v DEF ViewOf, FileOfCall
  <2>4. Others(t)
    BY <1>5, <1>c DEF Step
  <2>. QED BY <2>1, <2>3, <2>4, ViewStill
<1>6. ASSUME NEW t \in Task, Compare(t) PROVE ViewInv'
  <2>1. /\ pc[t] = "compare" /\ call'[t] = call[t]
        /\ UNCHANGED <<disk, versions, shown, raced>>
        /\ \/ pc'[t] = "write"
           \/ pc'[t] = "renote" /\ call[t].contents = disk[FileOfCall(t)]
    BY <1>6, <1>0 DEF Compare, CompareThen, Goes
  <2>2. ViewOf(t)'
    BY <2>1, <1>v DEF ViewOf, FileOfCall
  <2>3. Others(t)
    BY <1>6, <1>c DEF Step
  <2>. QED BY <2>1, <2>2, <2>3, ViewStill
<1>7. ASSUME NEW t \in Task, NoteUnchanged(t) PROVE ViewInv'
  <2> DEFINE f == FileOfCall(t)
  <2>1. f \in File /\ call[t].contents \in Stored
    BY <1>7, <1>0, CallShapes DEF NoteUnchanged, AwaitsOK, FileOfCall, Stored
  <2>2. /\ pc[t] = "renote" /\ pc'[t] = "settle" /\ UNCHANGED <<disk, raced>>
        /\ versions' = [versions EXCEPT ![t][f] = disk[f]]
        /\ shown' = [shown EXCEPT ![t][f] = call[t].contents]
    BY <1>7, <1>0 DEF NoteUnchanged, Sees, Shows, Answered, Goes
  <2>3. /\ versions'[t][f] = disk[f] /\ shown'[t][f] = call[t].contents
        /\ \A g \in File : g # f => /\ versions'[t][g] = versions[t][g]
                                    /\ shown'[t][g] = shown[t][g]
    BY <2>1, <2>2, <1>0
  <2>4. f \in raced[t] \/ call[t].contents = disk[f]
    BY <2>2, <1>v DEF ViewOf
  <2>5. ViewOf(t)'
    BY <2>2, <2>3, <2>4, <1>v DEF ViewOf
  <2>6. Others(t)
    BY <1>7, <1>c DEF Step
  <2>. QED BY <2>2, <2>5, <2>6, ViewStill
<1>8. ASSUME NEW t \in Task, ReadDisk(t) PROVE ViewInv'
  <2> DEFINE f == FileOfCall(t)
  <2>1. f \in File /\ disk[f] \in Stored
    BY <1>8, <1>0, CallShapes DEF ReadDisk, AwaitsOK, FileOfCall
  <2>2. pc[t] = "read" /\ pc'[t] = "settle" /\ UNCHANGED disk
    BY <1>8, <1>0 DEF ReadDisk, Answered, Goes
  <2>3. Others(t)
    BY <1>8, <1>c DEF Step
  <2>4. CASE disk[f] = Absent
    <3>1. UNCHANGED <<versions, shown, raced>>
      BY <2>4, <1>8 DEF ReadDisk
    <3>2. ViewOf(t)'
      BY <2>2, <3>1, <1>v DEF ViewOf
    <3>. QED BY <2>2, <2>3, <3>1, <3>2, ViewStill
  <2>5. CASE disk[f] # Absent
    <3>1. /\ versions' = [versions EXCEPT ![t][f] = disk[f]]
          /\ shown' = [shown EXCEPT ![t][f] = disk[f]]
          /\ raced' = [raced EXCEPT ![t] = @ \ {f}]
      BY <2>5, <1>8 DEF ReadDisk, Sees, Shows
    <3>2. /\ versions'[t][f] = disk[f] /\ shown'[t][f] = disk[f]
          /\ \A g \in File : g # f => /\ versions'[t][g] = versions[t][g]
                                      /\ shown'[t][g] = shown[t][g]
                                      /\ g \in raced[t] => g \in raced'[t]
          /\ \A u \in Task \ {t} : raced[u] \subseteq raced'[u]
      BY <2>1, <3>1, <1>0
    <3>3. ViewOf(t)'
      BY <2>2, <3>2, <1>v DEF ViewOf
    <3>. QED BY <2>2, <2>3, <3>2, <3>3, ViewStill
  <2>. QED BY <2>4, <2>5
<1>9. ASSUME NEW t \in Task, Write(t) PROVE ViewInv'
  <2> DEFINE f == FileOfCall(t)
             v == call[t].contents
  <2>1. f \in File /\ v \in Stored
    BY <1>9, <1>0, CallShapes DEF Write, AwaitsOK, FileOfCall, Stored
  <2>2. /\ pc[t] = "write" /\ pc'[t] = "settle" /\ Change(t, f, v)
        /\ versions' = [versions EXCEPT ![t][f] = v]
        /\ shown' = [shown EXCEPT ![t][f] = v]
    BY <1>9, <1>0 DEF Write, Lands, Sees, Shows, Answered, Goes
  <2>3. /\ versions'[t][f] = v /\ shown'[t][f] = v
        /\ \A g \in File : g # f => /\ versions'[t][g] = versions[t][g]
                                    /\ shown'[t][g] = shown[t][g]
        /\ raced'[t] = raced[t]
    BY <2>1, <2>2, <1>0 DEF Change
  <2>4. ViewOf(t)'
    BY <2>2, <2>3, <1>v DEF ViewOf
  <2>5. Others(t)
    BY <1>9, <1>c DEF Step
  <2> HIDE DEF f, v
  <2>. QED BY <2>1, <2>2, <2>4, <2>5, ViewChange
<1>10. ASSUME NEW t \in Task, NEW f \in File, NEW v \in Stored, CommandWrites(t, f, v)
       PROVE  ViewInv'
  <2>1. /\ pc[t] = "run" /\ pc' = pc /\ Change(t, f, v) /\ UNCHANGED <<versions, shown>>
        /\ raced'[t] = raced[t]
    BY <1>10, <1>0 DEF CommandWrites, Change
  <2>2. ViewOf(t)'
    BY <2>1, <1>v DEF ViewOf
  <2>3. Others(t)
    BY <1>10, <1>c DEF Step
  <2>. QED BY <2>1, <2>2, <2>3, ViewChange
<1>11. ASSUME NEW t \in Task, Drop(t) /\ pc[t] = "write" PROVE ViewInv'
  <2>1. /\ pc'[t] = "orphan" /\ UNCHANGED <<disk, call, versions, shown, raced>>
    BY <1>11, <1>0 DEF Drop, Goes
  <2>2. ViewOf(t)'
    BY <2>1, <1>11, <1>v DEF ViewOf, FileOfCall
  <2>3. Others(t)
    BY <1>11, <1>c DEF Step
  <2>. QED BY <2>1, <2>2, <2>3, ViewStill
<1>12. ASSUME NEW t \in Task, (Drop(t) /\ pc[t] # "write") \/ OrphanFails(t)
       PROVE  ViewInv'
  <2>1. Leaves(t) /\ UNCHANGED <<disk, raced>>
    BY <1>12 DEF Drop, OrphanFails
  <2>2. pc'[t] = "gone" /\ \A f \in File : shown'[t][f] = Unset
    BY <2>1, <1>0 DEF Leaves, Goes
  <2>3. ViewOf(t)'
    BY <2>2 DEF ViewOf
  <2>4. Others(t)
    BY <1>12, <1>c DEF Step
  <2>. QED BY <2>1, <2>3, <2>4, ViewStill
<1>13. ASSUME NEW t \in Task, OrphanLands(t) PROVE ViewInv'
  <2>1. FileOfCall(t) \in File /\ call[t].contents \in Stored
    BY <1>13, <1>0, CallShapes DEF OrphanLands, AwaitsOK, FileOfCall, Stored
  <2>2. Leaves(t) /\ Change(t, FileOfCall(t), call[t].contents)
    BY <1>13 DEF OrphanLands, Lands
  <2>3. pc'[t] = "gone" /\ \A f \in File : shown'[t][f] = Unset
    BY <2>2, <1>0 DEF Leaves, Goes
  <2>4. ViewOf(t)'
    BY <2>3 DEF ViewOf
  <2>5. Others(t)
    BY <1>13, <1>c DEF Step
  <2>. QED BY <2>1, <2>2, <2>4, <2>5, ViewChange
<1>14. CASE UNCHANGED vars
  BY <1>14, <1>v DEF vars, ViewInv, ViewOf, FileOfCall
<1>. QED
  BY <1>1, <1>2, <1>3, <1>4, <1>5, <1>6, <1>7, <1>8, <1>9, <1>10, <1>11, <1>12,
     <1>13, <1>14 DEF Next, Step, Ended

\* A write discards unseen contents only if they were written in the moments
\* in which its task read from memory, or checked and wrote.
THEOREM LostOnlyByRaceHolds == Spec => []LostOnlyByRace
<1>1. Init => ViewInv
  BY DEF Init, ViewInv, ViewOf, File
<1>2. ViewInv => LostOnlyByRace
  BY DEF ViewInv, ViewOf, LostOnlyByRace
<1>. QED BY <1>1, <1>2, ViewNext, CacheHolds, TypeCorrect, PTL DEF Spec

-----------------------------------------------------------------------------
(* Recursion.                                                              *)

\* The values of f follow from one further on.
FollowsBack(f, last, n, next, G) ==
  f[n] = last /\ \A i \in 0..n - 1 : f[i] = G[i][f[next[i]]]

LEMMA Backward ==
  ASSUME NEW S, NEW last \in S, NEW n \in Nat, NEW next, NEW G,
         \A i \in 0..n - 1 : next[i] \in i + 1..n, StaysIn(S, 0..n - 1, G)
  PROVE  \E f \in [0..n -> S] : FollowsBack(f, last, n, next, G)
<1> DEFINE From(m, f) == f[n] = last /\ \A i \in n - m..n - 1 : f[i] = G[i][f[next[i]]]
           T == {m \in Nat : m <= n => \E f \in [n - m..n -> S] : From(m, f)}
<1>1. 0 \in T
  <2> DEFINE f == [i \in n - 0..n |-> last]
  <2>1. f \in [n - 0..n -> S] /\ From(0, f)
    OBVIOUS
  <2> QED BY <2>1
<1>2. ASSUME NEW m \in T
      PROVE  m + 1 \in T
  <2>8. m \in Nat /\ m + 1 \in Nat
    OBVIOUS
  <2> SUFFICES ASSUME m + 1 <= n
               PROVE  \E f \in [n - (m + 1)..n -> S] : From(m + 1, f)
    <3> HIDE DEF From
    <3> QED BY <2>8
  <2>1. PICK f \in [n - m..n -> S] : From(m, f)
    <3>1. m \in Nat /\ (m <= n => \E f \in [n - m..n -> S] : From(m, f))
      OBVIOUS
    <3>2. m <= n
      BY <3>1
    <3> HIDE DEF From
    <3> QED BY <3>1, <3>2
  <2>0. PICK h \in Nat : h = n - (m + 1)
    BY m \in Nat
  <2>7. h \in 0..n - 1 /\ next[h] \in n - m..n /\ n - m = h + 1
    BY <2>0, m \in Nat
  <2> DEFINE g == [i \in h..n |-> IF i = h THEN G[h][f[next[h]]] ELSE f[i]]
  <2>2. g \in [h..n -> S]
    BY <2>7 DEF StaysIn
  <2>3. \A i \in n - m..n : g[i] = f[i]
    BY <2>7
  <2>4. g[h] = G[h][f[next[h]]]
    BY <2>7
  <2> HIDE DEF g
  <2>5. ASSUME NEW i \in h..n - 1
        PROVE  g[i] = G[i][g[next[i]]]
    <3>1. CASE i \in n - m..n - 1
      <4>1. i \in n - m..n /\ i \in 0..n - 1
        BY <3>1, <2>7
      <4>2. next[i] \in n - m..n
        BY <4>1, <2>7
      <4> QED BY <4>1, <4>2, <3>1, <2>1, <2>3
    <3>2. CASE i = h
      BY <3>2, <2>3, <2>4, <2>7
    <3> QED BY <3>1, <3>2, <2>7
  <2>6. g[n] = last
    <3>1. n \in n - m..n
      BY m \in Nat
    <3> QED BY <3>1, <2>1, <2>3
  <2> QED BY <2>0, <2>2, <2>5, <2>6
<1>3. n \in T
  <2> HIDE DEF T
  <2> QED BY <1>1, <1>2, NatAll
<1>4. PICK f \in [n - n..n -> S] : From(n, f)
  <2> HIDE DEF From
  <2>1. n \in Nat /\ (n <= n => \E f \in [n - n..n -> S] : From(n, f))
    BY <1>3
  <2>2. n <= n
    OBVIOUS
  <2> QED BY <2>1, <2>2
<1>5. n - n = 0
  OBVIOUS
<1>6. f \in [0..n -> S]
  BY <1>4, <1>5
<1>7. FollowsBack(f, last, n, next, G)
  BY <1>4, <1>5 DEF FollowsBack
<1> QED BY <1>6, <1>7

-----------------------------------------------------------------------------
(* Texts.                                                                  *)

\* Joined's equation.
LEMMA JoinedBy ==
  ASSUME NEW A, NEW t \in Seq(Seq(A))
  PROVE  \E f \in [0..Len(t) -> Seq(A)] :
           /\ f[0] = <<>> /\ Joined(t) = f[Len(t)]
           /\ \A k \in 1..Len(t) : f[k] = f[k - 1] \o t[k]
<1> DEFINE n == Len(t)
           S == Seq(A)
           Rhs(f, k) == IF k = 0 THEN <<>> ELSE f[k - 1] \o t[k]
           joined == CHOOSE f : f = [k \in 0..n |-> Rhs(f, k)]
           G == [k \in 1..n |-> [x \in S |-> x \o t[k]]]
<1>1. Joined(t) = joined[n]
  BY DEF Joined
<1>2. n \in Nat /\ \A k \in 1..n : t[k] \in S
  OBVIOUS
<1> HIDE DEF n
<1>3. ASSUME NEW k \in 1..n, NEW x \in S
      PROVE  G[k][x] = x \o t[k] /\ x \o t[k] \in S
  <2>1. x \o t[k] \in S
    BY <1>2
  <2> QED BY <2>1
<1>12. \A k \in 1..n : \A x \in S : G[k][x] \in S
  BY <1>3
<1>4. <<>> \in S
  OBVIOUS
<1> HIDE DEF G, S
<1>5. PICK f \in [0..n -> S] : f[0] = <<>> /\ \A k \in 1..n : f[k] = G[k][f[k - 1]]
  <2>1. PICK first \in S : first = <<>>
    BY <1>4
  <2>2. \E f \in [0..n -> S] : f[0] = first /\ \A k \in 1..n : f[k] = G[k][f[k - 1]]
    <3>1. StaysIn(S, 1..n, G)
      BY <1>12 DEF StaysIn
    <3>2. n \in Nat /\ first \in S
      BY <1>2
    <3>3. \E f \in [0..n -> S] : FollowsOn(f, first, n, G)
      BY <3>1, <3>2, Forward
    <3> QED BY <3>3 DEF FollowsOn
  <2> QED BY <2>1, <2>2
<1>6. \A k \in 1..n : k - 1 \in 0..n /\ f[k] = f[k - 1] \o t[k]
  <2> SUFFICES ASSUME NEW k \in 1..n
               PROVE  k - 1 \in 0..n /\ f[k] = f[k - 1] \o t[k]
    OBVIOUS
  <2>1. k - 1 \in 0..n
    BY <1>2
  <2>2. f[k - 1] \in S
    BY <2>1, <1>5
  <2> QED BY <2>1, <2>2, <1>3, <1>5
<1>7. f = [k \in 0..n |-> Rhs(f, k)]
  <2>1. ASSUME NEW k \in 0..n
        PROVE  f[k] = Rhs(f, k)
    <3>1. CASE k = 0
      BY <3>1, <1>5
    <3>2. CASE k # 0
      <4>1. k \in 1..n
        BY <3>2, <1>2
      <4> QED BY <4>1, <3>2, <1>6
    <3> QED BY <3>1, <3>2
  <2> QED BY <2>1
<1> HIDE DEF joined
<1>8. joined = [k \in 0..n |-> Rhs(joined, k)]
  BY <1>7 DEF joined
<1>9. joined[0] = <<>> /\ \A k \in 1..n : joined[k] = joined[k - 1] \o t[k]
  <2>1. \A k \in 0..n : joined[k] = Rhs(joined, k)
    BY <1>8
  <2>2. 0 \in 0..n /\ \A k \in 1..n : k \in 0..n /\ k # 0
    BY <1>2
  <2>3. joined[0] = <<>>
    <3>1. joined[0] = Rhs(joined, 0)
      BY <2>1, <2>2
    <3> QED BY <3>1
  <2>4. ASSUME NEW k \in 1..n
        PROVE  joined[k] = joined[k - 1] \o t[k]
    <3>1. joined[k] = Rhs(joined, k) /\ k # 0
      BY <2>1, <2>2
    <3> QED BY <3>1
  <2> QED BY <2>3, <2>4
<1>10. \A k \in Nat : k \in 0..n => joined[k] = f[k]
  <2> DEFINE T == {k \in Nat : k \in 0..n => joined[k] = f[k]}
  <2>1. 0 \in T
    BY <1>5, <1>9
  <2>2. ASSUME NEW k \in T
        PROVE  k + 1 \in T
    <3>0. k \in Nat /\ k + 1 \in Nat
      OBVIOUS
    <3>1. CASE k + 1 \in 0..n
      <4>1. k \in 0..n /\ k + 1 \in 1..n /\ (k + 1) - 1 = k
        BY <3>1, <1>2
      <4>2. f[k + 1] = f[k] \o t[k + 1]
        BY <4>1, <1>6
      <4>3. joined[k + 1] = joined[k] \o t[k + 1]
        BY <4>1, <1>9
      <4>4. PICK x : x = joined[k] /\ x = f[k]
        BY <4>1
      <4>5. joined[k + 1] = f[k + 1]
        BY <4>2, <4>3, <4>4
      <4> QED BY <3>0, <4>5
    <3> QED BY <3>0, <3>1
  <2>3. Nat \subseteq T
    <3> HIDE DEF T
    <3> QED BY <2>1, <2>2, NatAll
  <2> QED BY <2>3
<1>11. Joined(t) = f[n]
  BY <1>1, <1>10, <1>2
<1> QED BY <1>5, <1>6, <1>11 DEF n, S

\* Nothing joined is nothing, and a text more comes last.
LEMMA JoinedMore ==
  ASSUME NEW A, NEW t \in Seq(Seq(A)), NEW u \in Seq(A)
  PROVE  Joined(t) \in Seq(A) /\ Joined(Append(t, u)) = Joined(t) \o u
<1> DEFINE n == Len(t)
           v == Append(t, u)
<1>1. n \in Nat /\ v \in Seq(Seq(A)) /\ Len(v) = n + 1 /\ v[n + 1] = u
      /\ \A k \in 1..n : v[k] = t[k]
  OBVIOUS
<1>2. PICK f \in [0..n -> Seq(A)] :
           /\ f[0] = <<>> /\ Joined(t) = f[n]
           /\ \A k \in 1..n : f[k] = f[k - 1] \o t[k]
  BY JoinedBy
<1>3. PICK g \in [0..n + 1 -> Seq(A)] :
           /\ g[0] = <<>> /\ Joined(v) = g[n + 1]
           /\ \A k \in 1..n + 1 : g[k] = g[k - 1] \o v[k]
  <2> HIDE DEF v
  <2>1. \E g \in [0..Len(v) -> Seq(A)] :
           /\ g[0] = <<>> /\ Joined(v) = g[Len(v)]
           /\ \A k \in 1..Len(v) : g[k] = g[k - 1] \o v[k]
    BY <1>1, JoinedBy
  <2> QED BY <1>1, <2>1
<1> HIDE DEF n, v
<1>4. \A k \in Nat : k <= n => g[k] = f[k]
  <2> DEFINE T == {k \in Nat : k <= n => g[k] = f[k]}
  <2>1. 0 \in T
    BY <1>2, <1>3
  <2>2. ASSUME NEW k \in T
        PROVE  k + 1 \in T
    <3>0. k \in Nat /\ k + 1 \in Nat
      OBVIOUS
    <3>1. CASE k + 1 <= n
      <4>1. k <= n /\ k + 1 \in 1..n /\ k + 1 \in 1..n + 1 /\ (k + 1) - 1 = k
        BY <3>1, <1>1
      <4>2. f[k + 1] = f[k] \o t[k + 1]
        BY <4>1, <1>2
      <4>3. g[k + 1] = g[k] \o v[k + 1] /\ v[k + 1] = t[k + 1]
        BY <4>1, <1>1, <1>3
      <4>4. PICK x : x = g[k] /\ x = f[k]
        BY <4>1
      <4>5. g[k + 1] = f[k + 1]
        BY <4>2, <4>3, <4>4
      <4> QED BY <3>0, <4>5
    <3> QED BY <3>0, <3>1
  <2>3. Nat \subseteq T
    <3> HIDE DEF T
    <3> QED BY <2>1, <2>2, NatAll
  <2> QED BY <2>3
<1>5. g[n + 1] = g[n] \o u
  <2>1. n + 1 \in 1..n + 1 /\ (n + 1) - 1 = n
    BY <1>1
  <2> QED BY <2>1, <1>1, <1>3
<1>6. g[n] = f[n] /\ n \in 0..n
  BY <1>1, <1>4
<1> QED BY <1>2, <1>3, <1>5, <1>6 DEF v

LEMMA JoinedNothing == Joined(<<>>) = <<>>
<1> DEFINE S == Seq(Nat)
<1>1. PICK t \in Seq(S) : t = <<>> /\ Len(t) = 0
  <2> HIDE DEF S
  <2>1. <<>> \in Seq(S) /\ Len(<<>>) = 0
    OBVIOUS
  <2> QED BY <2>1
<1>2. PICK f \in [0..Len(t) -> Seq(Nat)] : f[0] = <<>> /\ Joined(t) = f[Len(t)]
  BY JoinedBy
<1> QED BY <1>1, <1>2

\* t is what s holds from a to b.
IsPart(A, t, s, a, b) ==
  /\ t \in Seq(A)
  /\ Len(t) = b - a
  /\ \A i \in 1..b - a : t[i] = s[a + i]

LEMMA TextOf ==
  ASSUME NEW A, NEW s \in Seq(A), NEW a \in Nat, NEW b \in Nat, a <= b, b <= Len(s)
  PROVE  IsPart(A, Text(s, a, b), s, a, b)
<1>1. \A i \in 1..b - a : i + (a + 1) - 1 \in 1..Len(s) /\ i + (a + 1) - 1 = a + i
  OBVIOUS
<1>2. a + 1 \in Int /\ b - (a + 1) + 1 = b - a /\ b - a \in Nat
  OBVIOUS
<1>3. Text(s, a, b) = SubSeq(s, a + 1, b)
  BY DEF Text
<1>4. SubSeq(s, a + 1, b) = [i \in 1..b - a |-> s[a + i]]
  BY <1>1, <1>2
<1> DEFINE t == [i \in 1..b - a |-> s[a + i]]
<1>5. t \in [1..b - a -> A]
  BY <1>1
<1>6. t \in Seq(A) /\ Len(t) = b - a
  BY <1>2, <1>5
<1> QED BY <1>3, <1>4, <1>6 DEF IsPart

\* What a text holds tells it.
LEMMA SameText ==
  ASSUME NEW A, NEW t \in Seq(A), NEW u \in Seq(A), NEW n \in Nat, Len(t) = n, Len(u) = n,
         \A i \in 1..n : t[i] = u[i]
  PROVE  t = u
<1>1. t = [i \in 1..n |-> t[i]] /\ u = [i \in 1..n |-> u[i]]
  OBVIOUS
<1> QED BY <1>1

LEMMA TextJoins ==
  ASSUME NEW A, NEW s \in Seq(A), NEW a \in Nat, NEW b \in Nat, NEW c \in Nat,
         a <= b, b <= c, c <= Len(s)
  PROVE  Text(s, a, b) \o Text(s, b, c) = Text(s, a, c)
<1>8. PICK m \in Nat : m = b - a
  OBVIOUS
<1>9. PICK n \in Nat : n = c - b
  OBVIOUS
<1>0. m = b - a /\ n = c - b /\ m + n = c - a
  BY <1>8, <1>9
<1>7. b <= Len(s) /\ a <= c
  OBVIOUS
<1>1. PICK t \in Seq(A) : t = Text(s, a, b) /\ Len(t) = m /\ \A i \in 1..m : t[i] = s[a + i]
  <2>1. IsPart(A, Text(s, a, b), s, a, b)
    BY <1>7, TextOf
  <2>2. b - a = m
    BY <1>0
  <2> QED BY <2>1, <2>2 DEF IsPart
<1>2. PICK u \in Seq(A) : u = Text(s, b, c) /\ Len(u) = n /\ \A i \in 1..n : u[i] = s[b + i]
  <2>1. IsPart(A, Text(s, b, c), s, b, c)
    BY <1>7, TextOf
  <2>2. c - b = n
    BY <1>0
  <2> QED BY <2>1, <2>2 DEF IsPart
<1>3. PICK v \in Seq(A) : v = Text(s, a, c) /\ Len(v) = m + n /\ \A i \in 1..m + n : v[i] = s[a + i]
  <2>1. IsPart(A, Text(s, a, c), s, a, c)
    BY <1>7, TextOf
  <2>2. c - a = m + n
    BY <1>0
  <2> QED BY <2>1, <2>2 DEF IsPart
<1>4. PICK w \in Seq(A) : /\ w = t \o u /\ Len(w) = m + n
                          /\ \A i \in 1..m + n : w[i] = IF i <= m THEN t[i] ELSE u[i - m]
  <2>1. /\ t \o u \in Seq(A) /\ Len(t \o u) = Len(t) + Len(u)
        /\ \A i \in 1..Len(t) + Len(u) : (t \o u)[i] = IF i <= Len(t) THEN t[i] ELSE u[i - Len(t)]
    BY ConcatProperties
  <2>2. Len(t) = m /\ Len(u) = n
    BY <1>1, <1>2
  <2> QED BY <2>1, <2>2
<1>5. ASSUME NEW i \in 1..m + n
      PROVE  w[i] = v[i]
  <2>0. v[i] = s[a + i] /\ w[i] = IF i <= m THEN t[i] ELSE u[i - m]
    BY <1>3, <1>4
  <2>1. CASE i <= m
    <3>1. i \in 1..m
      BY <2>1
    <3> QED BY <2>0, <2>1, <3>1, <1>1
  <2>2. CASE i > m
    <3>1. i - m \in 1..n /\ b + (i - m) = a + i
      BY <2>2, <1>0
    <3>2. u[i - m] = s[a + i]
      BY <3>1, <1>2
    <3> QED BY <2>0, <2>2, <3>2
  <2> QED BY <2>1, <2>2
<1>6. w = v
  <2>1. m + n \in Nat
    OBVIOUS
  <2> QED BY <2>1, <1>3, <1>4, <1>5, SameText
<1> QED BY <1>1, <1>2, <1>3, <1>4, <1>6

LEMMA TextEnds ==
  ASSUME NEW A, NEW s \in Seq(A)
  PROVE  Text(s, 0, Len(s)) = s /\ Text(s, 0, 0) = <<>>
<1>1. PICK n \in Nat : n = Len(s)
  OBVIOUS
<1>2. 0 \in Nat /\ 0 <= n /\ 0 <= 0
  OBVIOUS
<1>3. IsPart(A, Text(s, 0, n), s, 0, n) /\ IsPart(A, Text(s, 0, 0), s, 0, 0)
  BY <1>1, <1>2, TextOf
<1>4. Text(s, 0, n) = s
  <2>1. \A i \in 1..n : 0 + i = i
    OBVIOUS
  <2>2. PICK t \in Seq(A) : t = Text(s, 0, n) /\ Len(t) = n /\ \A i \in 1..n : t[i] = s[i]
    BY <1>3, <2>1 DEF IsPart
  <2> QED BY <1>1, <2>2, SameText
<1>5. Text(s, 0, 0) = <<>>
  <2>1. PICK t \in Seq(A) : t = Text(s, 0, 0) /\ Len(t) = 0
    BY <1>3 DEF IsPart
  <2> QED BY <2>1
<1> QED BY <1>1, <1>4, <1>5

\* Nodes of a scan, and their texts.
Kind == {"trivia", "struct", "definition", "decl", "directive", "block", "stmt"}
Scanned == [kind : Kind, text : Seq(Byte)]
Texts(q) == [i \in DOMAIN q |-> q[i].text]

LEMMA TextsMore ==
  ASSUME NEW q \in Seq(Scanned), NEW x \in Scanned
  PROVE  /\ Texts(q) \in Seq(Seq(Byte))
         /\ q \o <<x>> \in Seq(Scanned)
         /\ Joined(Texts(q)) \in Seq(Byte)
         /\ Joined(Texts(q \o <<x>>)) = Joined(Texts(q)) \o x.text
<1> DEFINE n == Len(q)
           r == Append(q, x)
           T == Seq(Byte)
<1>1. n \in Nat /\ DOMAIN q = 1..n /\ \A i \in 1..n : q[i].text \in T
  <2>1. n \in Nat /\ DOMAIN q = 1..n /\ \A i \in 1..n : q[i] \in Scanned
    OBVIOUS
  <2> HIDE DEF T
  <2>2. \A y \in Scanned : y.text \in T
    BY DEF Scanned, T
  <2> QED BY <2>1, <2>2
<1>2. r \in Seq(Scanned) /\ DOMAIN r = 1..n + 1 /\ r[n + 1] = x /\ \A i \in 1..n : r[i] = q[i]
  OBVIOUS
<1>3. q \o <<x>> = r
  OBVIOUS
<1>4. x.text \in T
  BY DEF Scanned
<1> HIDE DEF n, r, T
<1>5. Texts(q) \in Seq(T) /\ Len(Texts(q)) = n /\ \A i \in 1..n : Texts(q)[i] = q[i].text
  <2>1. Texts(q) = [i \in 1..n |-> q[i].text]
    BY <1>1 DEF Texts
  <2>2. Texts(q) \in [1..n -> T]
    BY <2>1, <1>1
  <2> QED BY <2>1, <2>2, <1>1
<1>6. Texts(r) = Append(Texts(q), x.text)
  <2>1. Texts(r) = [i \in 1..n + 1 |-> r[i].text]
    BY <1>2 DEF Texts
  <2> DEFINE t == Append(Texts(q), x.text)
  <2>2. t \in Seq(T) /\ Len(t) = n + 1 /\ t[n + 1] = x.text /\ \A i \in 1..n : t[i] = q[i].text
    BY <1>1, <1>4, <1>5
  <2> HIDE DEF t
  <2>3. \A i \in 1..n + 1 : t[i] = r[i].text
    BY <2>2, <1>1, <1>2
  <2>4. t = [i \in 1..n + 1 |-> t[i]]
    BY <2>2
  <2>5. t = Texts(r)
    BY <2>1, <2>3, <2>4
  <2> QED BY <2>5 DEF t
<1>7. Joined(Texts(q)) \in T /\ Joined(Append(Texts(q), x.text)) = Joined(Texts(q)) \o x.text
  BY <1>4, <1>5, JoinedMore DEF T
<1> QED BY <1>2, <1>3, <1>5, <1>6, <1>7 DEF T

-----------------------------------------------------------------------------
(* Nodes that cover a file.                                                *)

\* Spans one after the other, up to n.
Spans == [kind : Kind, start : Nat, end : Nat]

Apart(spans, n) ==
  \A k \in 1..Len(spans) :
    /\ spans[k].start < spans[k].end /\ spans[k].end <= n
    /\ k > 1 => spans[k - 1].end <= spans[k].start

\* The bytes between two of them.
Gap(s, from, to) == IF to > from THEN <<Node("trivia", Text(s, from, to))>> ELSE <<>>

Covered(q, s, to) == q \in Seq(Scanned) /\ Joined(Texts(q)) = Text(s, 0, to)

LEMMA NodeCovers ==
  ASSUME NEW s \in Seq(Byte), NEW q, NEW a \in Nat, NEW b \in Nat, NEW k \in Kind,
         Covered(q, s, a), a <= b, b <= Len(s)
  PROVE  Covered(q \o <<Node(k, Text(s, a, b))>>, s, b)
<1> DEFINE x == Node(k, Text(s, a, b))
<1>1. Text(s, a, b) \in Seq(Byte)
  BY TextOf DEF IsPart
<1>2. x \in Scanned /\ x.text = Text(s, a, b)
  BY <1>1 DEF Scanned, Node
<1> HIDE DEF x
<1>3. q \o <<x>> \in Seq(Scanned) /\ Joined(Texts(q \o <<x>>)) = Joined(Texts(q)) \o x.text
  BY <1>2, TextsMore DEF Covered
<1>4. Text(s, 0, a) \o Text(s, a, b) = Text(s, 0, b)
  <2>1. 0 \in Nat /\ 0 <= a /\ s \in Seq(Byte)
    OBVIOUS
  <2> QED BY <2>1, TextJoins
<1> QED BY <1>2, <1>3, <1>4 DEF Covered, x

LEMMA GapCovers ==
  ASSUME NEW s \in Seq(Byte), NEW q, NEW a \in Nat, NEW b \in Nat,
         Covered(q, s, a), a <= b, b <= Len(s)
  PROVE  Covered(q \o Gap(s, a, b), s, b)
<1>1. CASE b > a
  <2>1. Gap(s, a, b) = <<Node("trivia", Text(s, a, b))>>
    BY <1>1 DEF Gap
  <2>2. "trivia" \in Kind
    BY DEF Kind
  <2>3. Covered(q \o <<Node("trivia", Text(s, a, b))>>, s, b)
    BY <2>2, NodeCovers
  <2> QED BY <2>1, <2>3
<1>2. CASE b = a
  <2>1. Gap(s, a, b) = <<>>
    BY <1>2 DEF Gap
  <2>2. q \o <<>> = q
    BY DEF Covered
  <2> QED BY <1>2, <2>1, <2>2
<1> QED BY <1>1, <1>2

\* Whatever spans stand apart in a file, the nodes made of them are the file.
LEMMA Covers ==
  ASSUME NEW s \in Seq(Byte), NEW spans \in Seq(Spans), Apart(spans, Len(s))
  PROVE  Covered(nodes_from_items(s, spans), s, Len(s))
<1> DEFINE n == Len(spans)
           Cursor(k) == IF k = 0 THEN 0 ELSE spans[k].end
           Pass(k, x) == x \o Gap(s, Cursor(k - 1), spans[k].start)
                           \o <<Node(spans[k].kind, Text(s, spans[k].start, spans[k].end))>>
           Rhs(f, k) == IF k = 0 THEN <<>> ELSE Pass(k, f[k - 1])
           cover == CHOOSE f : f = [k \in 0..n |-> Rhs(f, k)]
           S == Seq(Scanned)
           G == [k \in 1..n |-> [x \in S |-> Pass(k, x)]]
           Good(x, k) == Covered(x, s, Cursor(k))
<1>1. n \in Nat /\ \A k \in 1..n : spans[k] \in Spans
  OBVIOUS
<1>2. nodes_from_items(s, spans) = cover[n] \o Gap(s, Cursor(n), Len(s))
  BY DEF nodes_from_items, Gap
<1>3. ASSUME NEW k \in 1..n
      PROVE  /\ Cursor(k - 1) \in Nat /\ spans[k].start \in Nat /\ spans[k].end \in Nat
             /\ spans[k].kind \in Kind /\ Cursor(k) = spans[k].end
             /\ Cursor(k - 1) <= spans[k].start /\ spans[k].start <= spans[k].end
             /\ spans[k].end <= Len(s)
  <2>1. spans[k] \in Spans /\ (k > 1 => spans[k - 1] \in Spans)
    BY <1>1
  <2>2. spans[k].start \in Nat /\ spans[k].end \in Nat /\ spans[k].kind \in Kind
    BY <2>1 DEF Spans
  <2>3. k > 1 => spans[k - 1].end \in Nat
    BY <2>1 DEF Spans
  <2>4. /\ spans[k].start < spans[k].end /\ spans[k].end <= Len(s)
        /\ k > 1 => spans[k - 1].end <= spans[k].start
    BY DEF Apart
  <2> QED BY <2>2, <2>3, <2>4
<1>4. ASSUME NEW k \in 1..n, NEW x, Good(x, k - 1)
      PROVE  Good(Pass(k, x), k)
  <2> DEFINE a == Cursor(k - 1)
             b == spans[k].start
             c == spans[k].end
             y == x \o Gap(s, a, b)
  <2>1. a \in Nat /\ b \in Nat /\ c \in Nat /\ a <= b /\ b <= c /\ c <= Len(s) /\ b <= Len(s)
        /\ spans[k].kind \in Kind /\ Cursor(k) = c
    <3>1. Len(s) \in Nat
      OBVIOUS
    <3> QED BY <1>3, <3>1
  <2>2. Covered(x, s, a)
    BY <1>4
  <2> HIDE DEF a, b, c
  <2>3. Covered(y, s, b)
    BY <2>1, <2>2, GapCovers
  <2> HIDE DEF y
  <2>4. Covered(y \o <<Node(spans[k].kind, Text(s, b, c))>>, s, c)
    BY <2>1, <2>3, NodeCovers
  <2> QED BY <2>1, <2>4 DEF a, b, c, y
<1>5. Good(<<>>, 0)
  <2>1. <<>> \in Seq(Scanned) /\ Texts(<<>>) = <<>>
    BY DEF Texts
  <2>2. Text(s, 0, 0) = <<>>
    BY TextEnds
  <2> QED BY <2>1, <2>2, JoinedNothing DEF Covered
<1>6. ASSUME NEW k \in 1..n, NEW x \in S
      PROVE  Pass(k, x) \in S
  <2> DEFINE a == Cursor(k - 1)
             b == spans[k].start
             c == spans[k].end
             y == Gap(s, a, b)
             z == Node(spans[k].kind, Text(s, b, c))
  <2>1. a \in Nat /\ b \in Nat /\ c \in Nat /\ a <= b /\ b <= c /\ c <= Len(s) /\ b <= Len(s)
        /\ spans[k].kind \in Kind
    <3>1. Len(s) \in Nat
      OBVIOUS
    <3> QED BY <1>3, <3>1
  <2> HIDE DEF a, b, c
  <2>2. Text(s, a, b) \in Seq(Byte) /\ Text(s, b, c) \in Seq(Byte)
    BY <2>1, TextOf DEF IsPart
  <2>3. z \in Scanned /\ Node("trivia", Text(s, a, b)) \in Scanned
    <3>1. \A t \in Seq(Byte) : \A kind \in Kind : Node(kind, t) \in Scanned
      BY DEF Node, Scanned
    <3>2. "trivia" \in Kind
      BY DEF Kind
    <3> QED BY <2>1, <2>2, <3>1, <3>2
  <2>4. y \in S /\ <<z>> \in S
    BY <2>3 DEF Gap
  <2> HIDE DEF y, z
  <2>5. x \o y \in S
    BY <2>4
  <2>6. (x \o y) \o <<z>> \in S
    BY <2>4, <2>5
  <2> QED BY <2>6 DEF a, b, c, y, z
<1> HIDE DEF Pass, Cursor
<1>7. \E f : f = [k \in 0..n |-> Rhs(f, k)]
  <2>1. \A k \in 1..n : \A x \in S : G[k][x] = Pass(k, x)
    OBVIOUS
  <2>2. PICK first \in S : first = <<>>
    <3>1. <<>> \in S
      OBVIOUS
    <3> QED BY <3>1
  <2> HIDE DEF G, S
  <2>3. StaysIn(S, 1..n, G)
    BY <2>1, <1>6 DEF StaysIn
  <2> HIDE DEF n
  <2>4. PICK f \in [0..n -> S] : FollowsOn(f, first, n, G)
    BY <1>1, <2>3, Forward
  <2>5. ASSUME NEW k \in 0..n
        PROVE  f[k] = Rhs(f, k)
    <3>1. CASE k = 0
      BY <3>1, <2>2, <2>4 DEF FollowsOn
    <3>2. CASE k # 0
      <4>1. k \in 1..n /\ k - 1 \in 0..n
        BY <3>2, <1>1
      <4>2. f[k - 1] \in S
        BY <4>1
      <4>3. f[k] = G[k][f[k - 1]]
        BY <4>1, <2>4 DEF FollowsOn
      <4> QED BY <3>2, <4>1, <4>2, <4>3, <2>1
    <3> QED BY <3>1, <3>2
  <2>6. f = [k \in 0..n |-> Rhs(f, k)]
    BY <2>5
  <2> QED BY <2>6
<1> HIDE DEF cover, n
<1>8. cover = [k \in 0..n |-> Rhs(cover, k)]
  BY <1>7 DEF cover
<1>9. cover[0] = <<>> /\ \A k \in 1..n : cover[k] = Pass(k, cover[k - 1])
  <2>1. \A k \in 0..n : cover[k] = Rhs(cover, k)
    BY <1>8
  <2>2. cover[0] = Rhs(cover, 0)
    BY <2>1, <1>1
  <2>3. ASSUME NEW k \in 1..n
        PROVE  cover[k] = Pass(k, cover[k - 1])
    <3>1. k \in 0..n /\ k # 0
      BY <1>1
    <3> QED BY <2>1, <3>1
  <2> QED BY <2>2, <2>3
<1> HIDE DEF Good
<1>10. Good(cover[n], n)
  <2> DEFINE T == {k \in Nat : k <= n => Good(cover[k], k)}
  <2>1. 0 \in T
    BY <1>5, <1>9
  <2>2. ASSUME NEW k \in T
        PROVE  k + 1 \in T
    <3>0. k \in Nat /\ k + 1 \in Nat
      OBVIOUS
    <3>1. CASE k + 1 <= n
      <4>1. k <= n /\ k + 1 \in 1..n /\ (k + 1) - 1 = k
        BY <3>0, <3>1, <1>1
      <4>2. Good(cover[k], k)
        BY <4>1
      <4>3. cover[k + 1] = Pass(k + 1, cover[k])
        BY <4>1, <1>9
      <4>4. Good(Pass(k + 1, cover[k]), k + 1)
        BY <4>1, <4>2, <1>4
      <4> QED BY <3>0, <4>3, <4>4
    <3> QED BY <3>0, <3>1
  <2>3. n \in T
    <3> HIDE DEF T
    <3> QED BY <2>1, <2>2, <1>1, NatAll
  <2> QED BY <2>3
<1>11. Cursor(n) \in Nat /\ Cursor(n) <= Len(s) /\ Len(s) \in Nat
  <2>1. CASE n = 0
    BY <2>1 DEF Cursor
  <2>2. CASE n # 0
    <3>1. n \in 1..n
      BY <2>2, <1>1
    <3> QED BY <3>1, <1>3
  <2> QED BY <2>1, <2>2
<1>12. Covered(cover[n], s, Cursor(n))
  BY <1>10 DEF Good
<1>13. PICK m \in Nat : m = Len(s)
  BY <1>11
<1>14. Covered(cover[n] \o Gap(s, Cursor(n), m), s, m)
  BY <1>11, <1>12, <1>13, GapCovers
<1> QED BY <1>2, <1>13, <1>14

-----------------------------------------------------------------------------
(* The sort of the spans, and the ones that are kept.                      *)

\* The places of spans that end apart are a numbering of them.
LEMMA SortedOf ==
  ASSUME NEW spans \in Seq(Spans),
         \A i, j \in 1..Len(spans) : i # j => spans[i].end # spans[j].end
  PROVE  \E p \in [1..Len(spans) -> 1..Len(spans)] :
           /\ \A i, j \in 1..Len(spans) : i # j => p[i] # p[j]
           /\ Sorted(spans) = [r \in 1..Len(spans) |-> spans[p[r]]]
<1> DEFINE n == Len(spans)
           Before(a, b) == a.start < b.start \/ (a.start = b.start /\ a.end > b.end)
           First(j) == {i \in DOMAIN spans : Before(spans[i], spans[j])}
           Place(j) == Cardinality(First(j)) + 1
           place == [j \in 1..n |-> Place(j)]
           p == [r \in 1..n |-> CHOOSE j \in DOMAIN spans : Place(j) = r]
<1>1. n \in Nat /\ DOMAIN spans = 1..n /\ \A i \in 1..n : spans[i] \in Spans
  OBVIOUS
<1>2. \A i \in 1..n : spans[i].start \in Nat /\ spans[i].end \in Nat
  BY <1>1 DEF Spans
<1>3. Sorted(spans) = [r \in 1..n |-> spans[p[r]]]
  BY <1>1 DEF Sorted
<1> HIDE DEF n
<1>4. \A i, j \in 1..n : i # j => Before(spans[i], spans[j]) \/ Before(spans[j], spans[i])
  BY <1>2 DEF n
<1>5. \A i \in 1..n : ~Before(spans[i], spans[i])
  BY <1>2
<1>6. \A i, j, k \in 1..n : Before(spans[i], spans[j]) /\ Before(spans[j], spans[k]) => Before(spans[i], spans[k])
  BY <1>2
<1> HIDE DEF Before
<1>7. \A j \in 1..n : /\ First(j) \subseteq 1..n /\ j \notin First(j)
                      /\ IsFiniteSet(First(j)) /\ Cardinality(First(j)) \in 0..n - 1
  <2> TAKE j \in 1..n
  <2>1. First(j) \subseteq (1..n) \ {j}
    BY <1>1, <1>5
  <2>2. IsFiniteSet(1..n) /\ Cardinality(1..n) = n
    BY <1>1, FS_Interval
  <2>3. IsFiniteSet((1..n) \ {j}) /\ Cardinality((1..n) \ {j}) = n - 1
    BY <2>2, FS_RemoveElement
  <2> DEFINE F == First(j)
             R == (1..n) \ {j}
  <2> HIDE DEF F, R
  <2>4. F \in SUBSET R /\ IsFiniteSet(R)
    BY <2>1, <2>3 DEF F, R
  <2>5. IsFiniteSet(F) /\ Cardinality(F) <= Cardinality(R)
    BY <2>4, FS_Subset
  <2>6. Cardinality(F) \in Nat
    BY <2>5, FS_CardinalityType
  <2> QED BY <1>1, <2>1, <2>3, <2>5, <2>6 DEF F, R
<1>8. ASSUME NEW i \in 1..n, NEW j \in 1..n, Before(spans[i], spans[j])
      PROVE  Cardinality(First(i)) < Cardinality(First(j))
  <2> DEFINE A == First(i)
             B == First(j)
  <2>1. A \subseteq B /\ i \in B /\ i \notin A
    BY <1>1, <1>5, <1>6, <1>8
  <2>2. IsFiniteSet(A) /\ IsFiniteSet(B) /\ Cardinality(A) \in Nat /\ Cardinality(B) \in Nat
    BY <1>7
  <2> HIDE DEF A, B
  <2>3. A \in SUBSET B
    BY <2>1
  <2>4. Cardinality(A) <= Cardinality(B) /\ (Cardinality(B) = Cardinality(A) => B = A)
    BY <2>2, <2>3, FS_Subset
  <2>5. Cardinality(A) < Cardinality(B)
    BY <2>1, <2>2, <2>4
  <2> QED BY <2>5 DEF A, B
<1> HIDE DEF First
<1>9. place \in [1..n -> 1..n]
  BY <1>1, <1>7
<1>10. \A i, j \in 1..n : i # j => place[i] # place[j]
  <2> SUFFICES ASSUME NEW i \in 1..n, NEW j \in 1..n, i # j
               PROVE  place[i] # place[j]
    OBVIOUS
  <2>1. Cardinality(First(i)) \in Int /\ Cardinality(First(j)) \in Int
    BY <1>7
  <2>2. CASE Before(spans[i], spans[j])
    BY <2>1, <2>2, <1>8
  <2>3. CASE Before(spans[j], spans[i])
    BY <2>1, <2>3, <1>8
  <2> QED BY <2>2, <2>3, <1>4
<1>11. \A r \in 1..n : \E j \in 1..n : place[j] = r
  <2>1. place \in Injection(1..n, 1..n)
    <3> HIDE DEF place
    <3> QED BY <1>9, <1>10 DEF Injection, IsInjective
  <2>2. IsFiniteSet(1..n)
    BY <1>1, FS_Interval
  <2> HIDE DEF place
  <2>3. place \in Surjection(1..n, 1..n)
    BY <2>1, <2>2, FS_Injection
  <2> QED BY <2>3 DEF Surjection
<1> HIDE DEF Place
<1>12. \A r \in 1..n : p[r] \in 1..n /\ Place(p[r]) = r
  <2> TAKE r \in 1..n
  <2>1. \E j \in DOMAIN spans : Place(j) = r
    BY <1>1, <1>11
  <2> QED BY <2>1, <1>1
<1>13. p \in [1..n -> 1..n] /\ \A i, j \in 1..n : i # j => p[i] # p[j]
  <2>1. p = [r \in 1..n |-> p[r]]
    OBVIOUS
  <2> HIDE DEF p
  <2>2. p \in [1..n -> 1..n]
    BY <2>1, <1>12
  <2> QED BY <2>2, <1>12
<1> QED BY <1>3, <1>13 DEF n

\* Spans of a file of n bytes.
Fit(spans, n) ==
  \A k \in 1..Len(spans) : spans[k].start < spans[k].end /\ spans[k].end <= n

\* One more span, past the last, stands apart from the others.
LEMMA ApartMore ==
  ASSUME NEW x \in Seq(Spans), NEW n, Apart(x, n), NEW e \in Spans,
         e.start < e.end, e.end <= n, x = <<>> \/ ~(e.start < x[Len(x)].end)
  PROVE  Append(x, e) \in Seq(Spans) /\ Apart(Append(x, e), n)
<1>1. PICK m \in Nat : m = Len(x)
  OBVIOUS
<1>2. PICK y \in Seq(Spans) : y = Append(x, e)
  <2>1. Append(x, e) \in Seq(Spans)
    BY AppendProperties
  <2> QED BY <2>1
<1>3. Len(y) = m + 1 /\ y[m + 1] = e /\ \A i \in 1..m : y[i] = x[i]
  BY <1>1, <1>2
<1>4. \A i \in 1..m : x[i] \in Spans
  BY <1>1
<1>5. \A i \in 1..m : x[i].end \in Nat
  BY <1>4 DEF Spans
<1>6. e.start \in Nat
  BY DEF Spans
<1>7. m > 0 => x[m].end <= e.start
  <2> SUFFICES ASSUME m > 0
               PROVE  x[m].end <= e.start
    OBVIOUS
  <2>1. m \in 1..m /\ x # <<>>
    BY <1>1
  <2>2. x[m].end \in Nat /\ ~(e.start < x[m].end)
    BY <2>1, <1>1, <1>5
  <2> QED BY <2>2, <1>6
<1>8. ASSUME NEW i \in 1..m + 1
      PROVE  /\ y[i].start < y[i].end /\ y[i].end <= n
             /\ i > 1 => y[i - 1].end <= y[i].start
  <2>1. CASE i = m + 1
    <3>1. y[i] = e
      BY <2>1, <1>3
    <3>2. i > 1 => y[i - 1] = x[m] /\ m > 0
      BY <2>1, <1>3
    <3> QED BY <3>1, <3>2, <1>7
  <2>2. CASE i \in 1..m
    <3>1. y[i] = x[i] /\ (i > 1 => i - 1 \in 1..m /\ y[i - 1] = x[i - 1])
      BY <2>2, <1>3
    <3>2. /\ x[i].start < x[i].end /\ x[i].end <= n
          /\ i > 1 => x[i - 1].end <= x[i].start
      BY <2>2, <1>1 DEF Apart
    <3> QED BY <3>1, <3>2
  <2> QED BY <2>1, <2>2
<1>9. Apart(y, n)
  BY <1>3, <1>8 DEF Apart
<1> QED BY <1>2, <1>9

\* The items kept stand apart.
LEMMA ItemsApart ==
  ASSUME NEW s, NEW spans \in Seq(Spans), spans = spans_from(s, FALSE), Fit(spans, Len(s))
  PROVE  items(s) \in Seq(Spans) /\ Apart(items(s), Len(s))
<1> DEFINE n == Len(spans)
           Pass(k, x) == IF x # <<>> /\ spans[k].start < x[Len(x)].end
                         THEN x ELSE Append(x, spans[k])
           Rhs(f, k) == IF k = 0 THEN <<>> ELSE Pass(k, f[k - 1])
           kept == CHOOSE f : f = [k \in 0..n |-> Rhs(f, k)]
           S == {x \in Seq(Spans) : Apart(x, Len(s))}
           G == [k \in 1..n |-> [x \in S |-> Pass(k, x)]]
<1>1. n \in Nat /\ \A k \in 1..n : spans[k] \in Spans
  BY ElementOfSeq, LenProperties
<1>2. items(s) = kept[n]
  BY DEF items
<1>6. ASSUME NEW k \in 1..n, NEW x \in S
      PROVE  Pass(k, x) \in S
  <2>1. x \in Seq(Spans) /\ Apart(x, Len(s))
    OBVIOUS
  <2>2. spans[k] \in Spans
    BY <1>1
  <2>3. spans[k].start < spans[k].end /\ spans[k].end <= Len(s)
    BY DEF Fit
  <2>4. PICK e \in Spans : e = spans[k] /\ e.start < e.end /\ e.end <= Len(s)
    BY <2>2, <2>3
  <2> HIDE DEF n
  <2>5. CASE x # <<>> /\ spans[k].start < x[Len(x)].end
    BY <2>5
  <2>6. CASE ~(x # <<>> /\ spans[k].start < x[Len(x)].end)
    <3>1. x = <<>> \/ ~(e.start < x[Len(x)].end)
      BY <2>4, <2>6
    <3>2. Append(x, e) \in Seq(Spans) /\ Apart(Append(x, e), Len(s))
      BY <2>1, <2>4, <3>1, ApartMore
    <3>3. Pass(k, x) = Append(x, e)
      BY <2>4, <2>6
    <3> QED BY <3>2, <3>3
  <2> QED BY <2>5, <2>6
<1>5. <<>> \in S
  BY DEF Apart
<1> HIDE DEF Pass, S
<1>7. \E f : f = [k \in 0..n |-> Rhs(f, k)]
  <2>1. \A k \in 1..n : \A x \in S : G[k][x] = Pass(k, x)
    OBVIOUS
  <2>2. PICK first \in S : first = <<>>
    BY <1>5
  <2> HIDE DEF G
  <2>3. StaysIn(S, 1..n, G)
    BY <2>1, <1>6 DEF StaysIn
  <2> HIDE DEF n
  <2>4. PICK f \in [0..n -> S] : FollowsOn(f, first, n, G)
    BY <1>1, <2>3, Forward
  <2>5. ASSUME NEW k \in 0..n
        PROVE  f[k] = Rhs(f, k)
    <3>1. CASE k = 0
      BY <3>1, <2>2, <2>4 DEF FollowsOn
    <3>2. CASE k # 0
      <4>1. k \in 1..n /\ k - 1 \in 0..n
        BY <3>2, <1>1
      <4>2. f[k - 1] \in S
        BY <4>1
      <4>3. f[k] = G[k][f[k - 1]]
        BY <4>1, <2>4 DEF FollowsOn
      <4> QED BY <3>2, <4>1, <4>2, <4>3, <2>1
    <3> QED BY <3>1, <3>2
  <2>6. f = [k \in 0..n |-> Rhs(f, k)]
    BY <2>5
  <2> QED BY <2>6
<1> HIDE DEF kept, n
<1>8. kept = [k \in 0..n |-> Rhs(kept, k)]
  BY <1>7 DEF kept
<1>9. kept[0] = <<>> /\ \A k \in 1..n : kept[k] = Pass(k, kept[k - 1])
  <2>1. \A k \in 0..n : kept[k] = Rhs(kept, k)
    BY <1>8
  <2>2. kept[0] = Rhs(kept, 0)
    BY <2>1, <1>1
  <2>3. ASSUME NEW k \in 1..n
        PROVE  kept[k] = Pass(k, kept[k - 1])
    <3>1. k \in 0..n /\ k # 0
      BY <1>1
    <3> QED BY <2>1, <3>1
  <2> QED BY <2>2, <2>3
<1>10. kept[n] \in S
  <2> DEFINE T == {k \in Nat : k <= n => kept[k] \in S}
  <2>1. 0 \in T
    BY <1>5, <1>9
  <2>2. ASSUME NEW k \in T
        PROVE  k + 1 \in T
    <3>0. k \in Nat /\ k + 1 \in Nat
      OBVIOUS
    <3>1. CASE k + 1 <= n
      <4>1. k <= n /\ k + 1 \in 1..n /\ (k + 1) - 1 = k
        BY <3>0, <3>1, <1>1
      <4>2. kept[k] \in S
        BY <4>1
      <4>3. kept[k + 1] = Pass(k + 1, kept[k])
        BY <4>1, <1>9
      <4>4. Pass(k + 1, kept[k]) \in S
        BY <4>1, <4>2, <1>6
      <4> QED BY <3>0, <4>3, <4>4
    <3> QED BY <3>0, <3>1
  <2>3. n \in T
    <3> HIDE DEF T
    <3> QED BY <2>1, <2>2, <1>1, NatAll
  <2> QED BY <2>3, <1>1
<1> QED BY <1>2, <1>10 DEF S

-----------------------------------------------------------------------------
(* The lexer's regions.                                                    *)

\* Induction on the numbers up to n, and down from it.
LEMMA OnAll ==
  ASSUME NEW n \in Nat, NEW T, 0 \in T, \A k \in 1..n : k - 1 \in T => k \in T
  PROVE  0..n \subseteq T
<1> DEFINE U == {k \in Nat : k <= n => k \in T}
<1>1. 0 \in U
  OBVIOUS
<1>2. ASSUME NEW k \in U
      PROVE  k + 1 \in U
  <2>1. k \in Nat /\ (k + 1) - 1 = k
    OBVIOUS
  <2>2. k + 1 <= n => k \in T /\ k + 1 \in 1..n
    BY <2>1
  <2> QED BY <2>1, <2>2
<1>3. Nat \subseteq U
  <2> HIDE DEF U
  <2> QED BY <1>1, <1>2, NatAll
<1> QED BY <1>3

LEMMA BackAll ==
  ASSUME NEW n \in Nat, NEW T, n \in T,
         \A i \in 0..n - 1 : (\A j \in i + 1..n : j \in T) => i \in T
  PROVE  0..n \subseteq T
<1> DEFINE U == {m \in Nat : m <= n => n - m..n \subseteq T}
<1>1. 0 \in U
  OBVIOUS
<1>2. ASSUME NEW m \in U
      PROVE  m + 1 \in U
  <2>1. m \in Nat
    OBVIOUS
  <2> SUFFICES ASSUME m + 1 <= n
               PROVE  n - (m + 1)..n \subseteq T
    BY <2>1
  <2>2. n - m..n \subseteq T
    BY <2>1
  <2>3. PICK h \in 0..n - 1 : h = n - (m + 1)
    BY <2>1
  <2>4. n - m = h + 1
    BY <2>1, <2>3
  <2>5. h \in T
    BY <2>2, <2>4
  <2> QED BY <2>2, <2>3, <2>4, <2>5
<1>3. n \in U
  <2> HIDE DEF U
  <2> QED BY <1>1, <1>2, NatAll
<1> QED BY <1>3

\* What LeastOr gives.
LEMMA LeastOrNone ==
  ASSUME NEW d
  PROVE  LeastOr({}, d) = d
BY DEF LeastOr

LEMMA LeastOrSome ==
  ASSUME NEW S, S \subseteq Nat, S # {}, NEW d
  PROVE  LeastOr(S, d) \in S /\ \A y \in S : LeastOr(S, d) <= y
BY LeastOf DEF LeastOr

\* What the ends of the regions are.
LEMMA LineEndOf ==
  ASSUME NEW s \in Seq(Byte), NEW i \in 0..Len(s) - 1
  PROVE  LineEnd(s, i) \in i..Len(s) /\ (At(s, i) # "n" => LineEnd(s, i) > i)
<1> DEFINE S == {j \in i..Len(s) - 1 : At(s, j) = "n" /\ (j = 0 \/ At(s, j - 1) # Backslash)}
<1>1. LineEnd(s, i) = LeastOr(S, Len(s))
  BY DEF LineEnd
<1>2. PICK n \in Nat : n = Len(s)
  OBVIOUS
<1>3. S \subseteq i..n - 1 /\ (At(s, i) # "n" => i \notin S)
  BY <1>2
<1> HIDE DEF S
<1>4. S \subseteq Nat
  BY <1>2, <1>3
<1>5. CASE S = {}
  <2>1. LineEnd(s, i) = n
    BY <1>1, <1>2, <1>5, LeastOrNone
  <2> QED BY <2>1, <1>2
<1>6. CASE S # {}
  <2>1. PICK e : e = LineEnd(s, i) /\ e \in S
    BY <1>1, <1>4, <1>6, LeastOrSome
  <2>2. e \in i..n - 1 /\ (At(s, i) # "n" => e # i)
    BY <2>1, <1>3
  <2>3. e \in i..n /\ (At(s, i) # "n" => e > i)
    BY <2>2, <1>2
  <2> QED BY <2>1, <2>3, <1>2
<1> QED BY <1>5, <1>6

LEMMA BlockEndOf ==
  ASSUME NEW s \in Seq(Byte), NEW i \in 0..Len(s) - 1, i + 1 < Len(s)
  PROVE  BlockEnd(s, i) \in i + 1..Len(s)
<1> DEFINE S == {j \in i + 2..Len(s) - 2 : At(s, j) = "*" /\ At(s, j + 1) = "/"}
<1>1. BlockEnd(s, i) = LeastOr(S, Len(s) - 2) + 2
  BY DEF BlockEnd
<1>2. PICK n \in Nat : n = Len(s)
  OBVIOUS
<1>3. S \subseteq i + 2..n - 2
  BY <1>2
<1> HIDE DEF S
<1>4. S \subseteq Nat
  BY <1>2, <1>3
<1>5. CASE S = {}
  <2>1. LeastOr(S, Len(s) - 2) = n - 2
    BY <1>2, <1>5, LeastOrNone
  <2> QED BY <2>1, <1>1, <1>2
<1>6. CASE S # {}
  <2>1. PICK e : e = LeastOr(S, Len(s) - 2) /\ e \in S
    BY <1>4, <1>6, LeastOrSome
  <2>2. e \in i + 2..n - 2
    BY <2>1, <1>3
  <2>3. e + 2 \in i + 1..n
    BY <2>2, <1>2
  <2> QED BY <2>1, <2>3, <1>1, <1>2
<1> QED BY <1>5, <1>6

\* The walk of a literal's bytes, from any of them.
LiteralWalk(end, s) ==
  \A j \in 0..Len(s) + 1 :
    /\ end[j] \in (IF j >= Len(s) THEN Len(s) ELSE j)..Len(s)
    /\ j < Len(s) => end[j] = IF At(s, j) = Quote THEN j + 1
                              ELSE end[j + (IF At(s, j) = Backslash THEN 2 ELSE 1)]

LEMMA LiteralEndBy ==
  ASSUME NEW s \in Seq(Byte), NEW i \in 0..Len(s) - 1
  PROVE  \E end : LiteralWalk(end, s) /\ LiteralEnd(s, i) = end[i + 1]
<1> DEFINE n == Len(s)
           next == [j \in 0..n |-> j + (IF At(s, j) = Backslash THEN 2 ELSE 1)]
           Pass(j, x) == IF j >= n THEN n ELSE IF At(s, j) = Quote THEN j + 1 ELSE x
           Rhs(f, j) == IF j >= n THEN n
                        ELSE IF At(s, j) = Quote THEN j + 1
                        ELSE f[j + (IF At(s, j) = Backslash THEN 2 ELSE 1)]
           end == CHOOSE f : f = [j \in 0..n + 1 |-> Rhs(f, j)]
           S == 0..n
           G == [j \in 0..n |-> [x \in S |-> Pass(j, x)]]
           Ends(j) == IF j >= n THEN n ELSE j
<1>1. LiteralEnd(s, i) = end[i + 1]
  BY DEF LiteralEnd
<1>2. n \in Nat /\ i \in 0..n - 1
  OBVIOUS
<1> HIDE DEF n
<1>3. \A j \in 0..n : next[j] \in j + 1..n + 2 /\ (j < n => next[j] \in j + 1..n + 1)
  BY <1>2
<1>4. \A j \in 0..n : \A x \in S : Pass(j, x) \in S /\ G[j][x] = Pass(j, x)
  BY <1>2
<1>5. \A f : \A j \in 0..n - 1 : Rhs(f, j) = Pass(j, f[next[j]])
  BY <1>2
<1>6. \A f : Rhs(f, n) = n /\ Rhs(f, n + 1) = n /\ \A x : Pass(n, x) = n
  BY <1>2
<1> HIDE DEF Rhs, Pass, next, G
<1>7. \E f : f = [j \in 0..n + 1 |-> Rhs(f, j)]
  <2>1. PICK last \in S : last = n
    BY <1>2
  <2>2. PICK m \in Nat : m = n + 1
    BY <1>2
  <2>3. PICK to : to = [j \in 0..n |-> IF j < n THEN next[j] ELSE n + 1]
    OBVIOUS
  <2>4. \A j \in 0..m - 1 : to[j] \in j + 1..m
    BY <1>2, <1>3, <2>2, <2>3
  <2>5. StaysIn(S, 0..m - 1, G)
    <3>1. \A j \in 0..m - 1 : j \in 0..n
      BY <1>2, <2>2
    <3> HIDE DEF S
    <3>2. \A j \in 0..m - 1 : \A x \in S : G[j][x] \in S
      BY <3>1, <1>4
    <3> QED BY <3>2 DEF StaysIn
  <2> HIDE DEF S
  <2>6. PICK f \in [0..m -> S] : FollowsBack(f, last, m, to, G)
    BY <2>4, <2>5, Backward
  <2>7. ASSUME NEW j \in 0..n + 1
        PROVE  f[j] = Rhs(f, j)
    <3>1. CASE j = n + 1
      BY <3>1, <1>6, <2>1, <2>2, <2>6 DEF FollowsBack
    <3>2. CASE j \in 0..n
      <4>1. j \in 0..m - 1 /\ to[j] \in 0..m
        BY <3>2, <1>2, <2>2, <2>4
      <4>2. f[j] = G[j][f[to[j]]] /\ f[to[j]] \in S
        BY <4>1, <2>6 DEF FollowsBack
      <4>3. f[j] = Pass(j, f[to[j]])
        BY <4>2, <3>2, <1>4
      <4>4. CASE j = n
        BY <4>3, <4>4, <1>6
      <4>5. CASE j \in 0..n - 1
        <5>1. to[j] = next[j]
          BY <4>5, <2>3, <1>2
        <5> QED BY <4>3, <4>5, <5>1, <1>5
      <4> QED BY <3>2, <4>4, <4>5, <1>2
    <3> QED BY <3>1, <3>2, <1>2
  <2>8. f = [j \in 0..n + 1 |-> Rhs(f, j)]
    BY <2>2, <2>7
  <2> QED BY <2>8
<1> HIDE DEF end
<1>8. end = [j \in 0..n + 1 |-> Rhs(end, j)]
  BY <1>7 DEF end
<1>9. \A j \in 0..n + 1 : end[j] = Rhs(end, j)
  BY <1>8
<1>10. 0..n + 1 \subseteq {j \in Nat : end[j] \in Ends(j)..n}
  <2> DEFINE T == {j \in Nat : end[j] \in Ends(j)..n}
  <2>1. PICK m \in Nat : m = n + 1
    BY <1>2
  <2>2. m \in T
    BY <2>1, <1>2, <1>6, <1>9
  <2>3. ASSUME NEW j \in 0..m - 1, \A k \in j + 1..m : k \in T
        PROVE  j \in T
    <3>1. CASE j = n
      BY <3>1, <1>2, <1>6, <1>9
    <3>2. CASE j \in 0..n - 1
      <4>1. end[j] = Pass(j, end[next[j]]) /\ next[j] \in j + 1..m
        BY <3>2, <1>2, <1>3, <1>5, <1>9, <2>1
      <4>2. end[next[j]] \in Ends(next[j])..n
        BY <4>1, <2>3
      <4>3. end[next[j]] \in j..n
        BY <3>2, <4>1, <4>2, <1>2, <2>1
      <4>4. end[j] \in j..n
        BY <3>2, <4>1, <4>3, <1>2 DEF Pass
      <4> QED BY <3>2, <4>4, <1>2
    <3> QED BY <3>1, <3>2, <2>1, <1>2
  <2> HIDE DEF T
  <2>4. 0..m \subseteq T
    BY <2>2, <2>3, BackAll
  <2> QED BY <2>1, <2>4 DEF T
<1>11. LiteralWalk(end, s)
  <2>1. ASSUME NEW j \in 0..n + 1
        PROVE  /\ end[j] \in Ends(j)..n
               /\ j < n => end[j] = IF At(s, j) = Quote THEN j + 1
                                    ELSE end[j + (IF At(s, j) = Backslash THEN 2 ELSE 1)]
    <3>1. j < n => ~(j >= n)
      BY <1>2
    <3> QED BY <3>1, <1>9, <1>10 DEF Rhs
  <2> QED BY <2>1 DEF LiteralWalk, n
<1> QED BY <1>1, <1>11

LEMMA LiteralEndOf ==
  ASSUME NEW s \in Seq(Byte), NEW i \in 0..Len(s) - 1
  PROVE  LiteralEnd(s, i) \in i + 1..Len(s)
<1>1. PICK end : LiteralWalk(end, s) /\ LiteralEnd(s, i) = end[i + 1]
  BY LiteralEndBy
<1>2. PICK n \in Nat : n = Len(s)
  OBVIOUS
<1>3. i + 1 \in 0..Len(s) + 1 /\ (i + 1 >= Len(s) => i + 1 = Len(s))
  BY <1>2
<1> QED BY <1>1, <1>2, <1>3 DEF LiteralWalk

Regions ==
  [kind : {"Code", "Directive", "LineComment", "BlockComment", "Str"}, start : Nat, end : Nat]

\* A region is at least a byte, and ends in the file.
LEMMA OpensWithin ==
  ASSUME NEW s \in Seq(Byte), NEW i \in 0..Len(s) - 1
  PROVE  /\ Opens(s, i) \in Regions
         /\ Opens(s, i).start = i /\ Opens(s, i).end \in i + 1..Len(s)
<1> DEFINE Near == IF i + 1 < Len(s) THEN At(s, i + 1) ELSE "x"
           Region(kind, end) == [kind |-> kind, start |-> i, end |-> end]
           Directive == At(s, i) = "#" /\ AtLineStart(s, i)
           Line == At(s, i) = "/" /\ Near = "/"
           Block == At(s, i) = "/" /\ Near = "*"
           Str == At(s, i) = Quote
           Fits(o) == o \in Regions /\ o.start = i /\ o.end \in i + 1..Len(s)
<1>1. PICK n \in Nat : n = Len(s)
  OBVIOUS
<1>2. i \in 0..n - 1
  BY <1>1
<1>3. Opens(s, i) =
        CASE Directive -> Region("Directive", Least({LineEnd(s, i) + 1, Len(s)}))
          [] Line -> Region("LineComment", LineEnd(s, i))
          [] Block -> Region("BlockComment", BlockEnd(s, i))
          [] Str -> Region("Str", LiteralEnd(s, i))
          [] OTHER -> Region("Code", i + 1)
  BY DEF Opens
<1>4. ASSUME NEW e \in i + 1..n
      PROVE  /\ Fits(Region("Directive", e)) /\ Fits(Region("LineComment", e))
             /\ Fits(Region("BlockComment", e)) /\ Fits(Region("Str", e))
             /\ Fits(Region("Code", e))
  <2>1. e \in Nat /\ i \in Nat /\ e \in i + 1..Len(s)
    BY <1>1, <1>2
  <2> QED BY <2>1 DEF Regions
<1>5. Line => At(s, i) # "n"
  OBVIOUS
<1>6. Block => i + 1 < Len(s)
  OBVIOUS
<1>7. PICK e : e = LineEnd(s, i) /\ e \in i..n /\ (At(s, i) # "n" => e > i)
  BY <1>1, LineEndOf
<1>8. PICK f : f = Least({e + 1, n}) /\ f \in i + 1..n
  <2>1. PICK f : f = Least({e + 1, n})
    OBVIOUS
  <2>2. {e + 1, n} \subseteq Nat /\ {e + 1, n} # {}
    BY <1>2, <1>7
  <2>3. f \in {e + 1, n}
    BY <2>1, <2>2, LeastOf
  <2>4. f <= n
    BY <2>1, <2>2, LeastOf
  <2>5. f \in i + 1..n
    BY <2>3, <2>4, <1>2, <1>7
  <2> QED BY <2>1, <2>5
<1>14. "#" # Quote /\ "/" # Quote
  BY DEF Quote
<1>15. /\ Directive => ~Line /\ ~Block /\ ~Str
       /\ Line => ~Block /\ ~Str
       /\ Block => ~Str
  BY <1>14
<1> HIDE DEF Near, Region, Directive, Line, Block, Str, Fits
<1>9. CASE Directive
  <2>1. Opens(s, i) = Region("Directive", f)
    BY <1>1, <1>3, <1>7, <1>8, <1>9, <1>15
  <2> QED BY <2>1, <1>4, <1>8 DEF Fits
<1>10. CASE ~Directive /\ Line
  <2>1. Opens(s, i) = Region("LineComment", e)
    BY <1>3, <1>7, <1>10, <1>15
  <2>2. e \in i + 1..n
    BY <1>2, <1>5, <1>7, <1>10
  <2> QED BY <2>1, <2>2, <1>4 DEF Fits
<1>11. CASE ~Directive /\ ~Line /\ Block
  <2>1. PICK g : g = BlockEnd(s, i)
    OBVIOUS
  <2>2. Opens(s, i) = Region("BlockComment", g)
    BY <2>1, <1>3, <1>11, <1>15
  <2>3. g \in i + 1..n
    BY <2>1, <1>1, <1>6, <1>11, BlockEndOf
  <2> QED BY <2>2, <2>3, <1>4 DEF Fits
<1>12. CASE ~Directive /\ ~Line /\ ~Block /\ Str
  <2>1. PICK g : g = LiteralEnd(s, i)
    OBVIOUS
  <2>2. Opens(s, i) = Region("Str", g)
    BY <2>1, <1>3, <1>12
  <2>3. g \in i + 1..n
    BY <2>1, <1>1, LiteralEndOf
  <2> QED BY <2>2, <2>3, <1>4 DEF Fits
<1>13. CASE ~Directive /\ ~Line /\ ~Block /\ ~Str
  <2>1. PICK g \in i + 1..n : g = i + 1
    BY <1>2
  <2>2. Opens(s, i) = Region("Code", g)
    BY <2>1, <1>3, <1>13
  <2> QED BY <2>2, <1>4 DEF Fits
<1> QED BY <1>9, <1>10, <1>11, <1>12, <1>13

\* Regions from i on, one after the other, in a file of n bytes.
Orderly(x, i, n) ==
  \A k \in 1..Len(x) :
    /\ i <= x[k].start /\ x[k].start < x[k].end /\ x[k].end <= n
    /\ k > 1 => x[k - 1].end <= x[k].start

LEMMA OneMoreRegion ==
  ASSUME NEW i \in Nat, NEW n \in Nat, NEW o \in Regions, o.start = i, i < o.end, o.end <= n,
         NEW x \in Seq(Regions), Orderly(x, o.end, n)
  PROVE  <<o>> \o x \in Seq(Regions) /\ Orderly(<<o>> \o x, i, n)
<1>1. PICK m \in Nat : m = Len(x)
  OBVIOUS
<1>2. <<o>> \o x \in Seq(Regions) /\ Len(<<o>> \o x) = m + 1 /\ (<<o>> \o x)[1] = o
      /\ \A k \in 2..m + 1 : (<<o>> \o x)[k] = x[k - 1]
  <2>1. <<o>> \in Seq(Regions) /\ Len(<<o>>) = 1
    OBVIOUS
  <2>2. PICK u \in Seq(Regions) : u = <<o>> /\ Len(u) = 1 /\ u[1] = o
    BY <2>1
  <2>3. /\ u \o x \in Seq(Regions) /\ Len(u \o x) = Len(u) + Len(x)
        /\ \A k \in 1..Len(u) + Len(x) : (u \o x)[k] = IF k <= Len(u) THEN u[k] ELSE x[k - Len(u)]
    BY ConcatProperties
  <2> QED BY <2>2, <2>3, <1>1
<1>3. PICK y \in Seq(Regions) : /\ y = <<o>> \o x /\ Len(y) = m + 1 /\ y[1] = o
                                /\ \A k \in 2..m + 1 : y[k] = x[k - 1]
  BY <1>2
<1>4. o.end \in Nat /\ \A k \in 1..m : x[k].start \in Nat /\ x[k].end \in Nat
  <2>1. \A k \in 1..m : x[k] \in Regions
    BY <1>1
  <2> QED BY <2>1 DEF Regions
<1>5. ASSUME NEW k \in 1..m + 1
      PROVE  /\ i <= y[k].start /\ y[k].start < y[k].end /\ y[k].end <= n
             /\ k > 1 => y[k - 1].end <= y[k].start
  <2>1. CASE k = 1
    BY <2>1, <1>3
  <2>2. CASE k \in 2..m + 1
    <3>1. k - 1 \in 1..m /\ y[k] = x[k - 1]
      BY <2>2, <1>3
    <3>2. /\ o.end <= x[k - 1].start /\ x[k - 1].start < x[k - 1].end /\ x[k - 1].end <= n
          /\ k - 1 > 1 => x[(k - 1) - 1].end <= x[k - 1].start
      BY <3>1, <1>1 DEF Orderly
    <3>3. x[k - 1].start \in Nat /\ i <= x[k - 1].start
      BY <3>1, <3>2, <1>4
    <3>4. CASE k = 2
      <4>1. y[k - 1] = o
        BY <3>4, <1>3
      <4> QED BY <4>1, <3>1, <3>2, <3>3
    <3>5. CASE k > 2
      <4>1. k - 1 \in 2..m + 1 /\ k - 1 > 1
        BY <3>5, <2>2
      <4>2. y[k - 1] = x[(k - 1) - 1]
        BY <4>1, <1>3
      <4> QED BY <4>1, <4>2, <3>1, <3>2, <3>3
    <3> QED BY <3>4, <3>5, <2>2
  <2> QED BY <2>1, <2>2
<1>6. Orderly(y, i, n)
  BY <1>3, <1>5 DEF Orderly
<1> QED BY <1>3, <1>6

\* The regions from any byte on.
LexWalk(from, s) ==
  /\ from[Len(s)] = <<>>
  /\ \A i \in 0..Len(s) - 1 : from[i] = <<Opens(s, i)>> \o from[Opens(s, i).end]

\* The lexer reads a file from its first byte to its last.
LEMMA LexBy ==
  ASSUME NEW s \in Seq(Byte)
  PROVE  \E from : /\ lex(s) = from[0] /\ LexWalk(from, s)
                   /\ \A i \in 0..Len(s) : from[i] \in Seq(Regions) /\ Orderly(from[i], i, Len(s))
<1> DEFINE n == Len(s)
           Rhs(f, i) == IF i = n THEN <<>> ELSE <<Opens(s, i)>> \o f[Opens(s, i).end]
           from == CHOOSE f : f = [i \in 0..n |-> Rhs(f, i)]
           S == Seq(Regions)
           next == [i \in 0..n - 1 |-> Opens(s, i).end]
           G == [i \in 0..n - 1 |-> [x \in S |-> <<Opens(s, i)>> \o x]]
<1>1. lex(s) = from[0]
  BY DEF lex
<1>2. n \in Nat
  OBVIOUS
<1>3. \A i \in 0..n - 1 : /\ Opens(s, i) \in Regions
                          /\ Opens(s, i).start = i /\ Opens(s, i).end \in i + 1..n
  BY OpensWithin
<1> HIDE DEF n
<1>4. \A i \in 0..n - 1 : next[i] \in i + 1..n
  BY <1>3
<1>5. \A i \in 0..n - 1 : \A x \in S : G[i][x] = <<Opens(s, i)>> \o x /\ G[i][x] \in S
  <2> SUFFICES ASSUME NEW i \in 0..n - 1, NEW x \in S
               PROVE  <<Opens(s, i)>> \o x \in S
    OBVIOUS
  <2>1. <<Opens(s, i)>> \in S
    BY <1>3
  <2> QED BY <2>1
<1>6. \A f : \A i \in 0..n - 1 : Rhs(f, i) = <<Opens(s, i)>> \o f[next[i]]
  BY <1>2
<1>7. \A f : Rhs(f, n) = <<>>
  OBVIOUS
<1>8. <<>> \in S
  OBVIOUS
<1> HIDE DEF Rhs, next, G, S
<1>9. \E f : f = [i \in 0..n |-> Rhs(f, i)]
  <2>1. PICK last \in S : last = <<>>
    BY <1>8
  <2>2. StaysIn(S, 0..n - 1, G)
    BY <1>5 DEF StaysIn
  <2>3. PICK f \in [0..n -> S] : FollowsBack(f, last, n, next, G)
    BY <1>2, <1>4, <2>2, Backward
  <2>4. ASSUME NEW i \in 0..n
        PROVE  f[i] = Rhs(f, i)
    <3>1. CASE i = n
      BY <3>1, <1>7, <2>1, <2>3 DEF FollowsBack
    <3>2. CASE i \in 0..n - 1
      <4>1. next[i] \in 0..n
        BY <3>2, <1>2, <1>4
      <4>2. f[next[i]] \in S /\ f[i] = G[i][f[next[i]]]
        BY <4>1, <3>2, <2>3 DEF FollowsBack
      <4>3. PICK x \in S : x = f[next[i]]
        BY <4>2
      <4>4. f[i] = <<Opens(s, i)>> \o x
        BY <4>2, <4>3, <3>2, <1>5
      <4>5. Rhs(f, i) = <<Opens(s, i)>> \o f[next[i]]
        BY <3>2, <1>6
      <4> QED BY <4>3, <4>4, <4>5
    <3> QED BY <3>1, <3>2, <1>2
  <2>5. f = [i \in 0..n |-> Rhs(f, i)]
    BY <2>4
  <2> QED BY <2>5
<1> HIDE DEF from
<1>10. from = [i \in 0..n |-> Rhs(from, i)]
  BY <1>9 DEF from
<1>11. \A i \in 0..n : from[i] = Rhs(from, i)
  BY <1>10
<1> DEFINE T == {i \in Nat : from[i] \in Seq(Regions) /\ Orderly(from[i], i, n)}
<1>12. n \in T
  <2>1. from[n] = <<>>
    BY <1>2, <1>7, <1>11
  <2>2. Orderly(<<>>, n, n)
    BY DEF Orderly
  <2>3. <<>> \in Seq(Regions)
    OBVIOUS
  <2> QED BY <2>1, <2>2, <2>3, <1>2
<1>13. ASSUME NEW i \in 0..n - 1, \A j \in i + 1..n : j \in T
       PROVE  i \in T
  <2>1. PICK e \in i + 1..n : e = Opens(s, i).end /\ e = next[i]
    BY <1>3 DEF next
  <2>2. from[e] \in Seq(Regions) /\ Orderly(from[e], e, n)
    BY <2>1, <1>13
  <2>3. from[i] = <<Opens(s, i)>> \o from[e]
    BY <2>1, <1>2, <1>6, <1>11
  <2>4. i \in Nat /\ i < e /\ e <= n
    BY <2>1, <1>2
  <2>5. PICK o \in Regions : o = Opens(s, i) /\ o.start = i /\ o.end = e
    BY <2>1, <1>3
  <2>6. <<o>> \o from[e] \in Seq(Regions) /\ Orderly(<<o>> \o from[e], i, n)
    BY <2>2, <2>4, <2>5, <1>2, OneMoreRegion
  <2> QED BY <2>3, <2>4, <2>5, <2>6
<1> HIDE DEF T
<1>14. 0..n \subseteq T
  BY <1>2, <1>12, <1>13, BackAll
<1>15. from[n] = <<>>
  BY <1>2, <1>7, <1>11
<1>16. \A i \in 0..n - 1 : from[i] = <<Opens(s, i)>> \o from[Opens(s, i).end]
  <2> TAKE i \in 0..n - 1
  <2>1. i \in 0..n
    BY <1>2
  <2>2. next[i] = Opens(s, i).end
    BY DEF next
  <2> QED BY <2>1, <2>2, <1>6, <1>11
<1>17. \A i \in 0..n : from[i] \in Seq(Regions) /\ Orderly(from[i], i, n)
  BY <1>14 DEF T
<1> QED BY <1>1, <1>15, <1>16, <1>17 DEF n, LexWalk

LEMMA LexOrderly ==
  ASSUME NEW s \in Seq(Byte)
  PROVE  lex(s) \in Seq(Regions) /\ Orderly(lex(s), 0, Len(s))
<1>1. 0 \in 0..Len(s)
  OBVIOUS
<1> QED BY <1>1, LexBy

-----------------------------------------------------------------------------
(* The scan of the regions.                                                *)

LEMMA BeginOf ==
  ASSUME NEW s \in Seq(Byte), NEW from \in 0..Len(s)
  PROVE  /\ Begin(s, from) \in from..Len(s)
         /\ \A j \in from..Len(s) - 1 : At(s, j) \notin White => Begin(s, from) <= j
<1> DEFINE S == {j \in from..Len(s) - 1 : At(s, j) \notin White}
<1>1. Begin(s, from) = LeastOr(S, Len(s))
  BY DEF Begin
<1>2. PICK n \in Nat : n = Len(s)
  OBVIOUS
<1>3. S \subseteq from..n - 1 /\ S \subseteq Nat
      /\ \A j \in from..n - 1 : At(s, j) \notin White => j \in S
  BY <1>2
<1> HIDE DEF S
<1>4. CASE S = {}
  <2>1. Begin(s, from) = n
    BY <1>1, <1>2, <1>4, LeastOrNone
  <2> QED BY <2>1, <1>2, <1>3, <1>4
<1>5. CASE S # {}
  <2>1. PICK e : e = Begin(s, from) /\ e \in S /\ \A j \in S : e <= j
    BY <1>1, <1>3, <1>5, LeastOrSome
  <2>2. e \in from..n
    BY <2>1, <1>2, <1>3
  <2>3. \A j \in from..n - 1 : At(s, j) \notin White => e <= j
    BY <2>1, <1>3
  <2> QED BY <2>1, <2>2, <2>3, <1>2
<1> QED BY <1>4, <1>5

Scans == [depth : Nat, item : Nat \union {NoStart}, prev : Nat, out : Seq(Spans)]

\* Each span ends past the ones found before it.
Rising(out, at) ==
  /\ \A k \in 1..Len(out) : out[k].start < out[k].end /\ out[k].end <= at
  /\ \A j, k \in 1..Len(out) : j < k => out[j].end < out[k].end

\* A statement begins past the spans found before it, a block past the statements.
Past(e, earlier) == e.kind = "stmt" \/ (e.kind = "block" /\ earlier.kind = "stmt")

Alone(out, prev) ==
  \A k \in 1..Len(out) :
    /\ out[k].kind = "stmt" => out[k].end <= prev
    /\ \A j \in 1..k - 1 : Past(out[k], out[j]) => out[j].end <= out[k].start

\* What the scan holds that has read the regions up to at.
Found(scan, at) ==
  /\ scan \in Scans
  /\ scan.item <= at /\ scan.prev <= at
  /\ Rising(scan.out, at)
  /\ Alone(scan.out, scan.prev)

LEMMA RisingMore ==
  ASSUME NEW out \in Seq(Spans), NEW at \in Nat, Rising(out, at), NEW e \in Spans,
         e.start < e.end, at < e.end
  PROVE  Append(out, e) \in Seq(Spans) /\ Rising(Append(out, e), e.end)
<1>1. PICK m \in Nat : m = Len(out)
  OBVIOUS
<1>2. PICK y \in Seq(Spans) : y = Append(out, e)
  <2>1. Append(out, e) \in Seq(Spans)
    BY AppendProperties
  <2> QED BY <2>1
<1>3. Len(y) = m + 1 /\ y[m + 1] = e /\ \A i \in 1..m : y[i] = out[i]
  BY <1>1, <1>2
<1>4. \A i \in 1..m : out[i] \in Spans
  BY <1>1
<1>5. e.end \in Nat /\ \A i \in 1..m : out[i].end \in Nat
  BY <1>4 DEF Spans
<1>6. \A i \in 1..m : out[i].start < out[i].end /\ out[i].end <= at
  BY <1>1 DEF Rising
<1>7. \A i, j \in 1..m : i < j => out[i].end < out[j].end
  BY <1>1 DEF Rising
<1>8. ASSUME NEW k \in 1..m + 1
      PROVE  y[k].start < y[k].end /\ y[k].end <= e.end
  <2>1. CASE k = m + 1
    BY <2>1, <1>3, <1>5
  <2>2. CASE k \in 1..m
    BY <2>2, <1>3, <1>5, <1>6
  <2> QED BY <2>1, <2>2
<1>9. ASSUME NEW j \in 1..m + 1, NEW k \in 1..m + 1, j < k
      PROVE  y[j].end < y[k].end
  <2>1. CASE k = m + 1
    <3>1. j \in 1..m
      BY <2>1, <1>9
    <3>2. y[j] = out[j] /\ y[k] = e /\ out[j].end <= at /\ out[j].end \in Nat
      BY <2>1, <3>1, <1>3, <1>5, <1>6
    <3> QED BY <3>2, <1>5
  <2>2. CASE k \in 1..m
    <3>1. j \in 1..m
      BY <2>2, <1>9
    <3> QED BY <2>2, <3>1, <1>3, <1>7, <1>9
  <2> QED BY <2>1, <2>2
<1>10. Rising(y, e.end)
  BY <1>3, <1>8, <1>9 DEF Rising
<1> QED BY <1>2, <1>10

LEMMA AloneMore ==
  ASSUME NEW out \in Seq(Spans), NEW prev \in Nat, Alone(out, prev), NEW e \in Spans,
         NEW to \in Nat, prev <= to,
         e.kind = "stmt" => e.end <= to /\ \A i \in 1..Len(out) : out[i].end <= e.start,
         e.kind = "block" => prev <= e.start
  PROVE  Alone(Append(out, e), to)
<1>1. PICK m \in Nat : m = Len(out)
  OBVIOUS
<1>2. PICK y \in Seq(Spans) : y = Append(out, e)
  <2>1. Append(out, e) \in Seq(Spans)
    BY AppendProperties
  <2> QED BY <2>1
<1>3. Len(y) = m + 1 /\ y[m + 1] = e /\ \A i \in 1..m : y[i] = out[i]
  BY <1>1, <1>2
<1>4. \A i \in 1..m : out[i] \in Spans
  BY <1>1
<1>5. e.start \in Nat /\ \A i \in 1..m : out[i].end \in Nat
  BY <1>4 DEF Spans
<1>6. \A i \in 1..m : out[i].kind = "stmt" => out[i].end <= prev
  BY <1>1 DEF Alone
<1>7. ASSUME NEW k \in 1..m + 1
      PROVE  y[k].kind = "stmt" => y[k].end <= to
  <2>1. CASE k = m + 1
    BY <2>1, <1>3
  <2>2. CASE k \in 1..m
    BY <2>2, <1>3, <1>5, <1>6
  <2> QED BY <2>1, <2>2
<1>8. ASSUME NEW k \in 1..m + 1, NEW j \in 1..k - 1, Past(y[k], y[j])
      PROVE  y[j].end <= y[k].start
  <2>1. CASE k = m + 1
    <3>1. j \in 1..m /\ y[j] = out[j] /\ y[k] = e
      BY <2>1, <1>3
    <3>2. CASE e.kind = "stmt"
      BY <3>1, <3>2, <1>1
    <3>3. CASE e.kind = "block" /\ out[j].kind = "stmt"
      BY <3>1, <3>3, <1>5, <1>6
    <3> QED BY <3>1, <3>2, <3>3, <1>8 DEF Past
  <2>2. CASE k \in 1..m
    <3>1. j \in 1..m /\ y[j] = out[j] /\ y[k] = out[k]
      BY <2>2, <1>3
    <3> QED BY <2>2, <3>1, <1>1, <1>8 DEF Alone
  <2> QED BY <2>1, <2>2
<1>9. Alone(y, to)
  <2>1. \A k \in 1..m + 1 : y[k].kind = "stmt" => y[k].end <= to
    BY <1>7
  <2>2. \A k \in 1..m + 1 : \A j \in 1..k - 1 : Past(y[k], y[j]) => y[j].end <= y[k].start
    BY <1>8
  <2> QED BY <2>1, <2>2, <1>3 DEF Alone
<1> QED BY <1>2, <1>9

LEMMA FoundLater ==
  ASSUME NEW scan, NEW at \in Nat, NEW to \in Nat, Found(scan, at), at <= to
  PROVE  Found(scan, to)
<1>1. scan \in Scans
  BY DEF Found
<1>2. scan.item \in Int /\ scan.prev \in Nat /\ scan.out \in Seq(Spans)
  BY <1>1 DEF Scans, NoStart
<1>3. PICK out \in Seq(Spans) : out = scan.out /\ Rising(out, at)
  BY <1>2 DEF Found
<1>4. \A k \in 1..Len(out) : out[k] \in Spans
  OBVIOUS
<1>5. \A k \in 1..Len(out) : out[k].end \in Nat
  BY <1>4 DEF Spans
<1>6. Rising(out, to)
  BY <1>3, <1>5 DEF Rising
<1> QED BY <1>1, <1>2, <1>3, <1>6 DEF Found

\* A span more, of what the scan has found or passed.
LEMMA FoundMore ==
  ASSUME NEW s \in Seq(Byte), NEW scan, NEW at \in Nat, Found(scan, at),
         NEW e \in Spans, e.start < e.end, at < e.end,
         e.kind = "stmt" => \A i \in 1..Len(scan.out) : scan.out[i].end <= e.start,
         e.kind = "block" => scan.prev <= e.start,
         NEW new \in Scans, new.out = Append(scan.out, e), new.item <= e.end, new.prev <= e.end,
         scan.prev <= new.prev, e.kind = "stmt" => new.prev = e.end
  PROVE  Found(new, e.end)
<1>1. scan \in Scans
  BY DEF Found
<1>2. PICK out \in Seq(Spans) : out = scan.out /\ Rising(out, at) /\ Alone(out, scan.prev)
  BY <1>1 DEF Found, Scans
<1>3. scan.prev \in Nat /\ new.prev \in Nat /\ e.end \in Nat
  BY <1>1 DEF Scans, Spans
<1>4. Rising(Append(out, e), e.end)
  BY <1>2, RisingMore
<1>5. Alone(Append(out, e), new.prev)
  <2>1. PICK prev \in Nat : prev = scan.prev
    BY <1>3
  <2>2. PICK to \in Nat : to = new.prev
    BY <1>3
  <2>3. e.kind = "stmt" => e.end <= to /\ \A i \in 1..Len(out) : out[i].end <= e.start
    BY <2>2, <1>2
  <2>4. Alone(Append(out, e), to)
    BY <2>1, <2>2, <2>3, <1>2, AloneMore
  <2> QED BY <2>2, <2>4
<1> QED BY <1>2, <1>4, <1>5 DEF Found

\* An item begins no later than it ends, whichever byte ends it.
LEMMA ItemFound ==
  ASSUME NEW s \in Seq(Byte), NEW scan, NEW at \in Nat, Found(scan, at),
         NEW i \in 0..Len(s) - 1, at <= i, At(s, i) \notin White
  PROVE  Found(ItemEnds(s, scan, i + 1), i + 1)
<1>1. scan \in Scans /\ scan.item <= at /\ scan.prev <= at
  BY DEF Found
<1>2. scan.item \in Nat \union {NoStart} /\ scan.prev \in Nat /\ scan.out \in Seq(Spans)
  BY <1>1 DEF Scans
<1> DEFINE start == IF scan.item = NoStart THEN Begin(s, scan.prev) ELSE scan.item
           kind == kind_of(Text(s, start, i + 1))
           new == ItemEnds(s, scan, i + 1)
<1>3. start \in Nat /\ start <= i
  <2>1. CASE scan.item = NoStart
    <3>1. PICK prev \in 0..Len(s) : prev = scan.prev /\ prev <= i
      BY <1>1, <1>2
    <3>2. Begin(s, prev) \in prev..Len(s) /\ (i \in prev..Len(s) - 1 => Begin(s, prev) <= i)
      BY BeginOf
    <3> QED BY <2>1, <3>1, <3>2
  <2>2. CASE scan.item # NoStart
    BY <2>2, <1>1, <1>2
  <2> QED BY <2>1, <2>2
<1>4. kind \in {"struct", "definition", "decl"}
  BY DEF kind_of
<1>5. new = [depth |-> 0, item |-> NoStart, prev |-> i + 1,
             out |-> Append(scan.out, Span(kind, start, i + 1))]
  BY DEF ItemEnds
<1> HIDE DEF start, kind, new
<1>6. PICK e \in Spans : e = Span(kind, start, i + 1) /\ e.start = start /\ e.end = i + 1
                         /\ e.kind \notin {"stmt", "block"}
  <2>1. Span(kind, start, i + 1) \in Spans
    BY <1>3, <1>4 DEF Span, Spans, Kind
  <2>2. \A k \in {"struct", "definition", "decl"} : k \notin {"stmt", "block"}
    OBVIOUS
  <2> QED BY <2>1, <2>2, <1>4 DEF Span
<1>7. Append(scan.out, e) \in Seq(Spans)
  BY <1>2, AppendProperties
<1>8. new \in Scans
  BY <1>5, <1>6, <1>7 DEF Scans
<1>9. new.out = Append(scan.out, e) /\ new.item = -1 /\ new.prev = i + 1
  BY <1>5, <1>6 DEF NoStart
<1>10. i + 1 \in Nat /\ scan.prev <= i + 1 /\ -1 <= i + 1 /\ start < i + 1 /\ at < i + 1
  BY <1>1, <1>2, <1>3
<1>11. Found(new, e.end)
  BY <1>6, <1>8, <1>9, <1>10, FoundMore
<1> QED BY <1>6, <1>11 DEF new

\* So does a statement, past what was found last.
LEMMA StatementFound ==
  ASSUME NEW s \in Seq(Byte), NEW scan, NEW at \in Nat, Found(scan, at),
         NEW i \in 0..Len(s) - 1, at <= i, At(s, i) \notin White
  PROVE  Found(StatementEnds(s, scan, i), i + 1)
<1>1. scan \in Scans /\ scan.item <= at /\ scan.prev <= at /\ Rising(scan.out, at)
  BY DEF Found
<1>2. scan.item \in Nat \union {NoStart} /\ scan.prev \in Nat /\ scan.out \in Seq(Spans)
      /\ scan.depth \in Nat
      /\ scan = [depth |-> scan.depth, item |-> scan.item, prev |-> scan.prev, out |-> scan.out]
  BY <1>1 DEF Scans
<1>3. PICK out \in Seq(Spans) : out = scan.out /\ Rising(out, at)
  BY <1>1, <1>2
<1>4. PICK m \in Nat : m = Len(out)
  OBVIOUS
<1>5. \A k \in 1..m : out[k].end \in Nat /\ out[k].end <= at
  <2>1. \A k \in 1..m : out[k] \in Spans
    BY <1>4
  <2> QED BY <2>1, <1>3, <1>4 DEF Spans, Rising
<1>6. \A j, k \in 1..m : j < k => out[j].end < out[k].end
  BY <1>3, <1>4 DEF Rising
<1> DEFINE floor == IF out = <<>> THEN scan.prev ELSE Greatest({scan.prev, out[Len(out)].end})
           start == Begin(s, floor)
           new == StatementEnds(s, scan, i)
<1>7. new = [scan EXCEPT !.prev = i + 1,
               !.out = IF i + 1 > start THEN Append(@, Span("stmt", start, i + 1)) ELSE @]
  BY <1>3 DEF StatementEnds
<1>8. floor \in 0..i /\ scan.prev <= floor /\ \A k \in 1..m : out[k].end <= floor
  <2>1. CASE out = <<>>
    BY <2>1, <1>1, <1>2, <1>4
  <2>2. CASE out # <<>>
    <3>1. m \in 1..m
      BY <2>2, <1>4
    <3>2. PICK last \in Nat : last = out[m].end /\ last <= at
      BY <3>1, <1>5
    <3>3. PICK prev \in Nat : prev = scan.prev /\ prev <= at
      BY <1>1, <1>2
    <3>4. PICK S : S = {prev, last}
      OBVIOUS
    <3>5. S \subseteq 0..i /\ S # {} /\ i \in Nat
      BY <3>2, <3>3, <3>4
    <3>6. Greatest(S) \in S /\ \A y \in S : Greatest(S) >= y
      BY <3>5, GreatestOf
    <3>7. PICK g \in 0..i : g = Greatest(S) /\ g >= prev /\ g >= last
      BY <3>4, <3>5, <3>6
    <3>8. floor = g
      BY <2>2, <3>2, <3>3, <3>4, <3>7, <1>4
    <3>9. ASSUME NEW k \in 1..m
          PROVE  out[k].end <= g
      <4>1. out[k].end \in Nat /\ (k < m => out[k].end < out[m].end)
        BY <3>1, <1>5, <1>6
      <4> QED BY <4>1, <3>2, <3>7
    <3> QED BY <3>3, <3>7, <3>8, <3>9
  <2> QED BY <2>1, <2>2
<1> HIDE DEF floor
<1>9. start \in Nat /\ floor <= start /\ start <= i
  <2>1. PICK f \in 0..Len(s) : f = floor /\ f <= i
    BY <1>8
  <2>2. Begin(s, f) \in f..Len(s) /\ (i \in f..Len(s) - 1 => Begin(s, f) <= i)
    BY BeginOf
  <2> QED BY <2>1, <2>2
<1> HIDE DEF start, new
<1>10. PICK e \in Spans : e = Span("stmt", start, i + 1) /\ e.start = start /\ e.end = i + 1
                          /\ e.kind = "stmt"
  <2>1. "stmt" \in Kind
    BY DEF Kind
  <2>2. Span("stmt", start, i + 1) \in Spans
    BY <2>1, <1>9 DEF Span, Spans
  <2> QED BY <2>2 DEF Span
<1>11. new = [depth |-> scan.depth, item |-> scan.item, prev |-> i + 1, out |-> Append(out, e)]
  <2>1. i + 1 > start
    BY <1>9
  <2>2. new = [scan EXCEPT !.prev = i + 1, !.out = Append(scan.out, Span("stmt", start, i + 1))]
    BY <2>1, <1>7
  <2> QED BY <2>2, <1>2, <1>3, <1>10
<1>12. Append(out, e) \in Seq(Spans)
  BY AppendProperties
<1>13. new \in Scans /\ new.out = Append(scan.out, e) /\ new.item = scan.item /\ new.prev = i + 1
  BY <1>2, <1>3, <1>11, <1>12 DEF Scans
<1>14. \A k \in 1..Len(scan.out) : scan.out[k].end <= e.start
  <2>1. \A k \in 1..m : out[k].end <= start
    BY <1>5, <1>8, <1>9
  <2> QED BY <2>1, <1>3, <1>4, <1>10
<1>15. new.item <= i + 1
  BY <1>1, <1>2, <1>13 DEF NoStart
<1>16. i + 1 \in Nat /\ scan.prev <= i + 1 /\ start < i + 1 /\ at < i + 1
  BY <1>1, <1>2, <1>9
<1>17. Found(new, e.end)
  <2>1. e.kind # "block"
    BY <1>10
  <2>2. e.start < e.end /\ at < e.end /\ new.item <= e.end /\ new.prev <= e.end
        /\ scan.prev <= new.prev /\ new.prev = e.end
    BY <1>10, <1>13, <1>15, <1>16
  <2> QED BY <2>1, <2>2, <1>13, <1>14, FoundMore
<1> QED BY <1>10, <1>17 DEF new

\* A brace closes a body of nothing, an item or a block.
LEMMA CloseFound ==
  ASSUME NEW s \in Seq(Byte), NEW scan, NEW at \in Nat, Found(scan, at),
         NEW i \in 0..Len(s) - 1, at <= i, At(s, i) \notin White, NEW deep \in BOOLEAN
  PROVE  Found(Closes(s, scan, i, deep), i + 1)
<1>1. scan \in Scans /\ scan.item <= at /\ scan.prev <= at /\ Rising(scan.out, at)
      /\ Alone(scan.out, scan.prev)
  BY DEF Found
<1>2. scan.item \in Nat \union {NoStart} /\ scan.prev \in Nat /\ scan.out \in Seq(Spans)
      /\ scan.depth \in Nat
      /\ scan = [depth |-> scan.depth, item |-> scan.item, prev |-> scan.prev, out |-> scan.out]
  BY <1>1 DEF Scans
<1>3. PICK out \in Seq(Spans) : out = scan.out
  BY <1>2
<1>4. i + 1 \in Nat /\ scan.prev <= i + 1 /\ at <= i + 1 /\ at < i + 1 /\ scan.item <= i + 1
  BY <1>1, <1>2 DEF NoStart
<1>5. Found(scan, i + 1)
  BY <1>4, FoundLater
<1> DEFINE new == Closes(s, scan, i, deep)
<1>6. CASE scan.depth = 0
  <2>1. new = [scan EXCEPT !.item = NoStart, !.prev = i + 1]
    BY <1>6 DEF Closes
  <2>2. new = [depth |-> scan.depth, item |-> NoStart, prev |-> i + 1, out |-> scan.out]
    BY <2>1, <1>2
  <2> HIDE DEF new
  <2>3. new \in Scans /\ new.out = out /\ new.item = -1 /\ new.prev = i + 1
    BY <2>2, <1>2, <1>3, <1>4 DEF Scans, NoStart
  <2>4. Alone(out, i + 1)
    <3>1. Alone(out, scan.prev)
      BY <1>1, <1>3
    <3>2. \A k \in 1..Len(out) : out[k] \in Spans
      OBVIOUS
    <3>3. \A k \in 1..Len(out) : out[k].end \in Nat
      BY <3>2 DEF Spans
    <3> QED BY <3>1, <3>3, <1>2, <1>4 DEF Alone
  <2>5. Rising(out, i + 1)
    BY <1>3, <1>5 DEF Found
  <2>6. -1 <= i + 1 /\ i + 1 <= i + 1
    BY <1>4
  <2> QED BY <2>3, <2>4, <2>5, <2>6 DEF Found, new
<1>7. CASE scan.depth = 1
  <2>1. new = ItemEnds(s, scan, i + 1)
    BY <1>7 DEF Closes
  <2> QED BY <2>1, ItemFound
<1>8. CASE scan.depth \notin {0, 1}
  <2> DEFINE start == Begin(s, scan.prev)
  <2>1. new = [scan EXCEPT !.depth = @ - 1,
                 !.out = IF deep THEN Append(@, Span("block", start, i + 1)) ELSE @]
    BY <1>8 DEF Closes
  <2>2. start \in Nat /\ scan.prev <= start /\ start <= i
    <3>1. PICK f \in 0..Len(s) : f = scan.prev /\ f <= i
      BY <1>1, <1>2
    <3>2. Begin(s, f) \in f..Len(s) /\ (i \in f..Len(s) - 1 => Begin(s, f) <= i)
      BY BeginOf
    <3> QED BY <3>1, <3>2
  <2> HIDE DEF new, start
  <2>3. PICK e \in Spans : e = Span("block", start, i + 1) /\ e.start = start /\ e.end = i + 1
                            /\ e.kind = "block"
    <3>1. "block" \in Kind
      BY DEF Kind
    <3>2. Span("block", start, i + 1) \in Spans
      BY <3>1, <2>2 DEF Span, Spans
    <3> QED BY <3>2 DEF Span
  <2>4. PICK d \in Nat : d = scan.depth - 1
    BY <1>2, <1>8
  <2>5. CASE deep
    <3>1. new = [scan EXCEPT !.depth = d, !.out = Append(out, e)]
      BY <2>1, <2>3, <2>4, <2>5, <1>2, <1>3
    <3>2. new = [depth |-> d, item |-> scan.item, prev |-> scan.prev, out |-> Append(out, e)]
      BY <3>1, <1>2
    <3>3. Append(out, e) \in Seq(Spans)
      BY AppendProperties
    <3>4. new \in Scans /\ new.out = Append(scan.out, e) /\ new.item = scan.item
          /\ new.prev = scan.prev
      BY <3>2, <3>3, <1>2, <1>3 DEF Scans
    <3>5. e.kind # "stmt"
      BY <2>3
    <3>6. e.start < e.end /\ at < e.end /\ new.item <= e.end /\ new.prev <= e.end
          /\ scan.prev <= new.prev /\ scan.prev <= e.start
      BY <2>2, <2>3, <3>4, <1>2, <1>4
    <3>7. Found(new, e.end)
      BY <3>4, <3>5, <3>6, FoundMore
    <3> QED BY <3>7, <2>3 DEF new
  <2>6. CASE ~deep
    <3>1. new = [scan EXCEPT !.depth = d, !.out = out]
      BY <2>1, <2>4, <2>6, <1>2, <1>3
    <3>2. new = [depth |-> d, item |-> scan.item, prev |-> scan.prev, out |-> out]
      BY <3>1, <1>2
    <3>3. new \in Scans /\ new.out = scan.out /\ new.item = scan.item /\ new.prev = scan.prev
      BY <3>2, <1>2, <1>3 DEF Scans
    <3>4. Found(new, i + 1)
      BY <3>3, <1>5 DEF Found
    <3> QED BY <3>4 DEF new
  <2> QED BY <2>5, <2>6
<1> QED BY <1>6, <1>7, <1>8

\* Whatever a region is, the scan past it has found what it should.
LEMMA ScanFinds ==
  ASSUME NEW s \in Seq(Byte), NEW scan, NEW at \in Nat, Found(scan, at),
         NEW region \in Regions, at <= region.start, region.start < region.end,
         region.end <= Len(s), NEW deep \in BOOLEAN
  PROVE  Found(Scan(s, scan, region, deep), region.end)
<1>1. scan \in Scans /\ scan.item <= at /\ scan.prev <= at /\ Rising(scan.out, at)
      /\ Alone(scan.out, scan.prev)
  BY DEF Found
<1>2. scan.item \in Nat \union {NoStart} /\ scan.prev \in Nat /\ scan.out \in Seq(Spans)
      /\ scan.depth \in Nat
      /\ scan = [depth |-> scan.depth, item |-> scan.item, prev |-> scan.prev, out |-> scan.out]
  BY <1>1 DEF Scans
<1>3. PICK to \in Nat : to = region.end
  BY DEF Regions
<1>4. PICK i \in 0..Len(s) - 1 : i = region.start /\ at <= i /\ i + 1 <= to
  <2>1. region.start \in Nat
    BY DEF Regions
  <2> QED BY <2>1, <1>3
<1> DEFINE new == Scan(s, scan, region, deep)
           Directive == region.kind = "Directive" /\ scan.depth = 0
           Opening == region.kind = "Code" /\ At(s, i) = "{"
           Closing == region.kind = "Code" /\ At(s, i) = "}"
           Ending == region.kind = "Code" /\ At(s, i) = ";"
<1>5. new = CASE Directive -> [scan EXCEPT !.item = NoStart, !.prev = region.end,
                                 !.out = Append(@, Span("directive", i, region.end))]
              [] Opening -> [scan EXCEPT !.depth = @ + 1,
                               !.item = IF scan.depth = 0 THEN Begin(s, scan.prev) ELSE @]
              [] Closing -> Closes(s, scan, i, deep)
              [] Ending -> Semicolon(s, scan, i, deep)
              [] OTHER -> scan
  BY <1>4 DEF Scan
<1>6. /\ Directive => ~Opening /\ ~Closing /\ ~Ending
      /\ Opening => ~Closing /\ ~Ending
      /\ Closing => ~Ending
  OBVIOUS
<1>7. Opening \/ Closing \/ Ending => At(s, i) \notin White
  BY DEF White
<1>8. Found(scan, to)
  BY <1>3, <1>4, FoundLater
<1>9. i + 1 \in Nat
  OBVIOUS
<1> HIDE DEF new, Directive, Opening, Closing, Ending
<1>10. CASE Directive
  <2>1. new = [scan EXCEPT !.item = NoStart, !.prev = to,
                 !.out = Append(scan.out, Span("directive", i, to))]
    BY <1>2, <1>3, <1>5, <1>6, <1>10
  <2>2. PICK e \in Spans : e = Span("directive", i, to) /\ e.start = i /\ e.end = to
                            /\ e.kind = "directive"
    <3>1. "directive" \in Kind
      BY DEF Kind
    <3>2. Span("directive", i, to) \in Spans
      BY <3>1 DEF Span, Spans
    <3> QED BY <3>2 DEF Span
  <2>3. Append(scan.out, e) \in Seq(Spans)
    BY <1>2, AppendProperties
  <2>4. new = [depth |-> scan.depth, item |-> NoStart, prev |-> to, out |-> Append(scan.out, e)]
    BY <2>1, <2>2, <1>2
  <2>5. new \in Scans /\ new.out = Append(scan.out, e) /\ new.item = -1 /\ new.prev = to
    BY <2>3, <2>4, <1>2 DEF Scans, NoStart
  <2>6. e.kind # "stmt" /\ e.kind # "block"
    BY <2>2
  <2>7. e.start < e.end /\ at < e.end /\ new.item <= e.end /\ new.prev <= e.end
        /\ scan.prev <= new.prev
    BY <2>2, <2>5, <1>1, <1>2, <1>4
  <2>8. Found(new, e.end)
    BY <2>5, <2>6, <2>7, FoundMore
  <2> QED BY <2>2, <2>8, <1>3 DEF new
<1>11. CASE Opening
  <2>1. new = [scan EXCEPT !.depth = @ + 1,
                 !.item = IF scan.depth = 0 THEN Begin(s, scan.prev) ELSE @]
    BY <1>5, <1>6, <1>11
  <2>2. PICK item \in Nat \union {NoStart} :
          item = (IF scan.depth = 0 THEN Begin(s, scan.prev) ELSE scan.item) /\ item <= i
    <3>1. PICK f \in 0..Len(s) : f = scan.prev /\ f <= i
      BY <1>1, <1>2, <1>4
    <3>2. Begin(s, f) \in f..Len(s) /\ (i \in f..Len(s) - 1 => Begin(s, f) <= i)
      BY <1>7, <1>11, BeginOf
    <3>3. Begin(s, scan.prev) \in Nat /\ Begin(s, scan.prev) <= i
      BY <3>1, <3>2
    <3>4. scan.item <= i
      BY <1>1, <1>2, <1>4 DEF NoStart
    <3> QED BY <3>3, <3>4, <1>2
  <2>3. PICK d \in Nat : d = scan.depth + 1
    BY <1>2
  <2>4. new = [scan EXCEPT !.depth = d, !.item = item]
    BY <2>1, <2>2, <2>3, <1>2
  <2>5. new = [depth |-> d, item |-> item, prev |-> scan.prev, out |-> scan.out]
    BY <2>4, <1>2
  <2>6. new \in Scans /\ new.out = scan.out /\ new.prev = scan.prev /\ new.item = item
    BY <2>5, <1>2 DEF Scans
  <2>7. item <= to
    BY <2>2, <1>4 DEF NoStart
  <2>8. Found(new, to)
    BY <2>6, <2>7, <1>8 DEF Found
  <2> QED BY <2>8, <1>3 DEF new
<1>12. CASE Closing
  <2>1. new = Closes(s, scan, i, deep)
    BY <1>5, <1>6, <1>12
  <2>2. Found(new, i + 1)
    BY <2>1, <1>4, <1>7, <1>12, CloseFound
  <2>3. Found(new, to)
    BY <2>2, <1>4, <1>9, FoundLater
  <2> QED BY <2>3, <1>3 DEF new
<1>13. CASE Ending
  <2>1. new = Semicolon(s, scan, i, deep)
    BY <1>5, <1>6, <1>13
  <2>2. new = ItemEnds(s, scan, i + 1) \/ new = StatementEnds(s, scan, i) \/ new = scan
    BY <2>1, <1>2 DEF Semicolon
  <2>3. Found(ItemEnds(s, scan, i + 1), i + 1)
    BY <1>4, <1>7, <1>13, ItemFound
  <2>4. Found(StatementEnds(s, scan, i), i + 1)
    BY <1>4, <1>7, <1>13, StatementFound
  <2>5. Found(new, i + 1) \/ Found(new, to)
    BY <2>2, <2>3, <2>4, <1>8
  <2>6. Found(new, to)
    BY <2>5, <1>4, <1>9, FoundLater
  <2> QED BY <2>6, <1>3 DEF new
<1>14. CASE ~Directive /\ ~Opening /\ ~Closing /\ ~Ending
  <2>1. new = scan
    BY <1>5, <1>14
  <2> QED BY <2>1, <1>3, <1>8 DEF new
<1> QED BY <1>10, <1>11, <1>12, <1>13, <1>14

\* The spans of a file are a numbering of what the scan has found of it.
LEMMA SpansFound ==
  ASSUME NEW s \in Seq(Byte), NEW deep \in BOOLEAN
  PROVE  \E scan : /\ Found(scan, Len(s))
                   /\ spans_from(s, deep) = Sorted(scan.out)
<1> DEFINE regions == lex(s)
           n == Len(regions)
           Pass(r, x) == Scan(s, x, regions[r], deep)
           Rhs(f, r) == IF r = 0 THEN ScanInit ELSE Scan(s, f[r - 1], regions[r], deep)
           after == CHOOSE f : f = [r \in 0..n |-> Rhs(f, r)]
           At_(r) == IF r = 0 THEN 0 ELSE regions[r].end
           S == {x \in Scans : \E r \in 0..n : Found(x, At_(r))}
           Near(r, x) == IF Found(x, At_(r - 1)) THEN Pass(r, x) ELSE ScanInit
           G == [r \in 1..n |-> [x \in S |-> Near(r, x)]]
<1>1. spans_from(s, deep) = Sorted(after[n].out)
  BY DEF spans_from
<1>2. regions \in Seq(Regions) /\ Orderly(regions, 0, Len(s)) /\ Len(s) \in Nat
  BY LexOrderly
<1> HIDE DEF regions
<1>3. n \in Nat /\ \A r \in 1..n : regions[r] \in Regions
  BY <1>2
<1>4. \A r \in 1..n : /\ regions[r].start \in Nat /\ regions[r].end \in Nat
                      /\ regions[r].start < regions[r].end /\ regions[r].end <= Len(s)
                      /\ r > 1 => regions[r - 1].end <= regions[r].start
  <2>1. \A r \in 1..n : regions[r].start \in Nat /\ regions[r].end \in Nat
    BY <1>3 DEF Regions
  <2> QED BY <2>1, <1>2 DEF Orderly
<1> HIDE DEF n
<1>5. \A r \in 0..n : At_(r) \in Nat /\ At_(r) <= Len(s)
  BY <1>2, <1>3, <1>4
<1>6. \A r \in 1..n : r - 1 \in 0..n /\ At_(r - 1) <= regions[r].start /\ At_(r) = regions[r].end
  BY <1>3, <1>4
<1> HIDE DEF At_
<1>7. ASSUME NEW r \in 1..n, NEW x, Found(x, At_(r - 1))
      PROVE  Found(Pass(r, x), At_(r))
  <2>1. PICK at \in Nat : at = At_(r - 1)
    BY <1>5, <1>6
  <2>2. PICK region \in Regions : /\ region = regions[r] /\ at <= region.start
                                  /\ region.start < region.end /\ region.end <= Len(s)
    BY <2>1, <1>3, <1>4, <1>6
  <2>3. Found(Scan(s, x, region, deep), region.end)
    BY <2>1, <2>2, <1>7, ScanFinds
  <2> QED BY <2>2, <2>3, <1>6
<1>8. Found(ScanInit, At_(0))
  <2>1. PICK out \in Seq(Spans) : out = <<>> /\ Len(out) = 0
    <3>1. <<>> \in Seq(Spans) /\ Len(<<>>) = 0
      OBVIOUS
    <3> QED BY <3>1
  <2>2. ScanInit = [depth |-> 0, item |-> NoStart, prev |-> 0, out |-> out]
    BY <2>1 DEF ScanInit
  <2>3. ScanInit \in Scans /\ ScanInit.out = out /\ ScanInit.item = -1 /\ ScanInit.prev = 0
    BY <2>2 DEF Scans, NoStart
  <2>4. Rising(out, 0) /\ Alone(out, 0)
    BY <2>1 DEF Rising, Alone
  <2>5. At_(0) = 0
    BY DEF At_
  <2> QED BY <2>3, <2>4, <2>5 DEF Found
<1>9. \A r \in 0..n : \A x : Found(x, At_(r)) => x \in S
  BY DEF Found
<1>10. ScanInit \in S
  BY <1>3, <1>8, <1>9
<1>11. \A r \in 1..n : \A x \in S : G[r][x] = Near(r, x)
  OBVIOUS
<1> HIDE DEF S, G, Pass
<1>12. \E f : f = [r \in 0..n |-> Rhs(f, r)]
  <2>1. ASSUME NEW r \in 1..n, NEW x \in S
        PROVE  G[r][x] \in S
    <3>1. Near(r, x) \in S
      <4>1. CASE Found(x, At_(r - 1))
        <5>1. Found(Pass(r, x), At_(r)) /\ r \in 0..n
          BY <4>1, <1>3, <1>7
        <5> QED BY <4>1, <5>1, <1>9
      <4>2. CASE ~Found(x, At_(r - 1))
        BY <4>2, <1>10
      <4> QED BY <4>1, <4>2
    <3> QED BY <3>1, <1>11
  <2>2. StaysIn(S, 1..n, G)
    BY <2>1 DEF StaysIn
  <2>3. PICK first \in S : first = ScanInit
    BY <1>10
  <2>4. PICK f \in [0..n -> S] : FollowsOn(f, first, n, G)
    BY <1>3, <2>2, Forward
  <2>5. 0..n \subseteq {r \in 0..n : Found(f[r], At_(r))}
    <3> DEFINE T == {r \in 0..n : Found(f[r], At_(r))}
    <3>1. 0 \in T
      BY <1>3, <1>8, <2>3, <2>4 DEF FollowsOn
    <3>2. ASSUME NEW k \in 1..n, k - 1 \in T
          PROVE  k \in T
      <4>1. f[k - 1] \in S /\ Found(f[k - 1], At_(k - 1)) /\ f[k] = G[k][f[k - 1]] /\ k \in 0..n
        BY <3>2, <1>3, <1>6, <2>4 DEF FollowsOn
      <4>2. f[k] = Pass(k, f[k - 1])
        BY <4>1, <1>11
      <4> QED BY <4>1, <4>2, <1>7
    <3> HIDE DEF T
    <3>3. 0..n \subseteq T
      BY <1>3, <3>1, <3>2, OnAll
    <3> QED BY <3>3 DEF T
  <2>6. ASSUME NEW r \in 0..n
        PROVE  f[r] = Rhs(f, r)
    <3>1. CASE r = 0
      BY <3>1, <2>3, <2>4 DEF FollowsOn
    <3>2. CASE r # 0
      <4>1. r \in 1..n /\ r - 1 \in 0..n
        BY <3>2, <1>3
      <4>2. f[r - 1] \in S /\ Found(f[r - 1], At_(r - 1)) /\ f[r] = G[r][f[r - 1]]
        BY <4>1, <2>4, <2>5 DEF FollowsOn
      <4>3. f[r] = Pass(r, f[r - 1])
        BY <4>1, <4>2, <1>11
      <4> QED BY <3>2, <4>3 DEF Pass
    <3> QED BY <3>1, <3>2
  <2>7. f = [r \in 0..n |-> Rhs(f, r)]
    BY <2>6
  <2> QED BY <2>7
<1> HIDE DEF after
<1>13. after = [r \in 0..n |-> Rhs(after, r)]
  BY <1>12 DEF after
<1>14. \A r \in 0..n : after[r] = Rhs(after, r)
  BY <1>13
<1> DEFINE T == {r \in 0..n : Found(after[r], At_(r))}
<1>15. 0 \in T
  <2>1. 0 \in 0..n
    BY <1>3
  <2> QED BY <2>1, <1>8, <1>14
<1>16. ASSUME NEW k \in 1..n, k - 1 \in T
       PROVE  k \in T
  <2>1. Found(after[k - 1], At_(k - 1)) /\ k \in 0..n /\ k # 0
    BY <1>16, <1>3
  <2>2. after[k] = Pass(k, after[k - 1])
    BY <2>1, <1>14 DEF Pass
  <2> QED BY <2>1, <2>2, <1>7
<1> HIDE DEF T
<1>17. 0..n \subseteq T
  BY <1>3, <1>15, <1>16, OnAll
<1>18. n \in 0..n
  BY <1>3
<1>19. Found(after[n], At_(n)) /\ At_(n) \in Nat /\ At_(n) <= Len(s)
  BY <1>5, <1>17, <1>18 DEF T
<1>20. PICK at \in Nat : at = At_(n) /\ at <= Len(s)
  BY <1>19
<1>21. Found(after[n], Len(s))
  BY <1>2, <1>19, <1>20, FoundLater
<1> QED BY <1>1, <1>21

LEMMA SpansFit ==
  ASSUME NEW s \in Seq(Byte), NEW deep \in BOOLEAN
  PROVE  spans_from(s, deep) \in Seq(Spans) /\ Fit(spans_from(s, deep), Len(s))
<1>1. PICK scan : Found(scan, Len(s)) /\ spans_from(s, deep) = Sorted(scan.out)
  BY SpansFound
<1>2. PICK out \in Seq(Spans) : out = scan.out /\ Rising(out, Len(s))
  BY <1>1 DEF Found, Scans
<1>3. PICK n \in Nat : n = Len(out)
  OBVIOUS
<1>4. \A i \in 1..n : out[i] \in Spans
  BY <1>3
<1>5. \A i, j \in 1..n : i # j => out[i].end # out[j].end
  <2> SUFFICES ASSUME NEW i \in 1..n, NEW j \in 1..n, i # j
               PROVE  out[i].end # out[j].end
    OBVIOUS
  <2>1. out[i].end \in Nat /\ out[j].end \in Nat
    BY <1>4 DEF Spans
  <2>2. i < j \/ j < i
    OBVIOUS
  <2>3. out[i].end < out[j].end \/ out[j].end < out[i].end
    BY <2>2, <1>2, <1>3 DEF Rising
  <2> QED BY <2>1, <2>3
<1>6. PICK p \in [1..n -> 1..n] : Sorted(out) = [r \in 1..n |-> out[p[r]]]
  BY <1>3, <1>5, SortedOf
<1>7. PICK x : x = spans_from(s, deep) /\ x = [r \in 1..n |-> out[p[r]]]
  BY <1>1, <1>2, <1>6
<1>8. x \in [1..n -> Spans]
  BY <1>4, <1>7
<1>9. x \in Seq(Spans) /\ Len(x) = n
  BY <1>8
<1>10. \A r \in 1..n : x[r].start < x[r].end /\ x[r].end <= Len(s)
  <2> TAKE r \in 1..n
  <2>1. p[r] \in 1..n /\ x[r] = out[p[r]]
    BY <1>7
  <2> QED BY <2>1, <1>2, <1>3 DEF Rising
<1>11. Fit(x, Len(s))
  BY <1>9, <1>10 DEF Fit
<1> QED BY <1>7, <1>9, <1>11

-----------------------------------------------------------------------------
(* A file that is edited.                                                  *)

\* Whatever a file holds, a scan of it covers it.
LEMMA ScanCovers ==
  ASSUME NEW s \in Seq(Byte)
  PROVE  LET fresh == nodes_from_items(s, items(s))
         IN  fresh \in Seq(Scanned) /\ Joined(Texts(fresh)) = s
<1>1. spans_from(s, FALSE) \in Seq(Spans) /\ Fit(spans_from(s, FALSE), Len(s))
  BY SpansFit
<1>2. items(s) \in Seq(Spans) /\ Apart(items(s), Len(s))
  BY <1>1, ItemsApart
<1>3. Covered(nodes_from_items(s, items(s)), s, Len(s))
  BY <1>2, Covers
<1>4. Text(s, 0, Len(s)) = s
  BY TextEnds
<1> QED BY <1>3, <1>4 DEF Covered

\* The invariant: the nodes' keys rise, and their texts are the file.
FileInv ==
  /\ alphabet \in DOMAIN Pieces
  /\ src \in Seq(Byte)
  /\ Keyed(nodes)
  /\ Joined(regenerate(nodes)) = src

\* What a file is ingested as, it is regenerated from.
LEMMA IngestProjects ==
  ASSUME FileInv, NEW s \in Seq(Byte), Ingest(s)
  PROVE  FileInv'
<1> DEFINE fresh == nodes_from_items(s, items(s))
           new == reconcile(nodes, fresh).nodes
<1>1. fresh \in Seq(Scanned) /\ Joined(Texts(fresh)) = s
  BY ScanCovers
<1>2. Keyed(nodes)
  BY DEF FileInv
<1>3. /\ Keyed(new) /\ DOMAIN new = DOMAIN fresh
      /\ \A i \in DOMAIN fresh : new[i].text = fresh[i].text
  <2>1. PICK q \in Seq(Scanned) : q = fresh
    BY <1>1
  <2> HIDE DEF fresh
  <2>2. LET n == reconcile(nodes, q).nodes
        IN  Keyed(n) /\ DOMAIN n = DOMAIN q /\ \A i \in DOMAIN q : n[i].text = q[i].text
    BY <1>2, Reconciles
  <2> QED BY <2>1, <2>2
<1>4. src' = s /\ nodes' = new /\ alphabet' = alphabet
  BY DEF Ingest
<1> HIDE DEF fresh, new
<1>5. regenerate(new) = Texts(fresh)
  <2>1. regenerate(new) = [i \in DOMAIN new |-> new[i].text]
    BY <1>3, KeyedInOrder
  <2> QED BY <2>1, <1>3 DEF Texts
<1>6. Joined(regenerate(new)) = s
  BY <1>1, <1>5
<1>7. regenerate(nodes)' = regenerate(nodes')
  BY DEF regenerate, ByOrder
<1>8. Joined(regenerate(nodes))' = s
  BY <1>4, <1>6
<1>9. Keyed(nodes)' /\ src' \in Seq(Byte) /\ (alphabet \in DOMAIN Pieces)'
  BY <1>3, <1>4 DEF FileInv
<1> QED BY <1>4, <1>8, <1>9 DEF FileInv

LEMMA FileStep ==
  ASSUME FileInv, [FileNext]_fileVars
  PROVE  FileInv'
<1>1. src \in Seq(Byte) /\ alphabet \in DOMAIN Pieces /\ Pieces[alphabet] \subseteq Seq(Byte)
  BY PiecesAssumption DEF FileInv
<1>2. PICK n \in Nat : n = Len(src)
  BY <1>1
<1>3. ASSUME NEW from \in 0..n, NEW to \in 0..n, from <= to
      PROVE  Text(src, from, to) \in Seq(Byte)
  <2>1. from \in Nat /\ to \in Nat /\ to <= Len(src)
    BY <1>2
  <2> QED BY <2>1, <1>1, <1>3, TextOf DEF IsPart
<1>4. ASSUME NEW at \in 0..Len(src), NEW piece \in Pieces[alphabet], TypeIn(at, piece)
      PROVE  FileInv'
  <2>1. Text(src, 0, at) \in Seq(Byte) /\ Text(src, at, Len(src)) \in Seq(Byte)
    BY <1>2, <1>3
  <2>2. piece \in Seq(Byte)
    BY <1>1
  <2>3. PICK s \in Seq(Byte) : s = Text(src, 0, at) \o piece \o Text(src, at, Len(src))
    <3>1. Text(src, 0, at) \o piece \in Seq(Byte)
      BY <2>1, <2>2, ConcatProperties
    <3>2. (Text(src, 0, at) \o piece) \o Text(src, at, Len(src)) \in Seq(Byte)
      BY <2>1, <3>1, ConcatProperties
    <3> QED BY <3>2
  <2>4. Ingest(s)
    BY <2>3, <1>4 DEF TypeIn
  <2> QED BY <2>4, IngestProjects
<1>5. ASSUME NEW from \in 0..Len(src), NEW to \in 0..Len(src), CutOut(from, to), from < to
      PROVE  FileInv'
  <2>1. Text(src, 0, from) \in Seq(Byte) /\ Text(src, to, Len(src)) \in Seq(Byte)
    BY <1>2, <1>3
  <2>2. PICK s \in Seq(Byte) : s = Text(src, 0, from) \o Text(src, to, Len(src))
    <3>1. Text(src, 0, from) \o Text(src, to, Len(src)) \in Seq(Byte)
      BY <2>1, ConcatProperties
    <3> QED BY <3>1
  <2>3. Ingest(s)
    BY <2>2, <1>5 DEF CutOut
  <2> QED BY <2>3, IngestProjects
<1>6. CASE UNCHANGED fileVars
  <2>1. src' = src /\ nodes' = nodes /\ alphabet' = alphabet
    BY <1>6 DEF fileVars
  <2> QED BY <2>1 DEF FileInv
<1> QED BY <1>4, <1>5, <1>6 DEF FileNext

LEMMA FileStart ==
  ASSUME FileInit
  PROVE  FileInv
<1>1. alphabet \in DOMAIN Pieces /\ src = <<>> /\ nodes = <<>>
  BY DEF FileInit
<1>2. src \in Seq(Byte) /\ DOMAIN nodes = {}
  BY <1>1
<1>3. Keyed(nodes)
  <2>1. nodes \in Seq({nodes[i] : i \in DOMAIN nodes})
    BY <1>1
  <2> QED BY <2>1, <1>2 DEF Keyed
<1>4. regenerate(nodes) = <<>>
  <2>1. regenerate(nodes) = [i \in DOMAIN nodes |-> nodes[i].text]
    BY <1>3, KeyedInOrder
  <2> QED BY <2>1, <1>2
<1> QED BY <1>1, <1>2, <1>3, <1>4, JoinedNothing DEF FileInv

\* Whatever a file holds and however often it is edited, its nodes in the order
\* of their keys are the file, byte for byte, and no two share a key.
THEOREM ByteExactHolds == FileSpec => []ProjectsByteExactly
<1>1. FileInv => ProjectsByteExactly
  BY DEF FileInv, Keyed, ProjectsByteExactly
<1> QED BY <1>1, FileStart, FileStep, PTL DEF FileSpec

\* Of any two statements in any file, and of a statement and a block, one ends
\* before the other begins.
THEOREM StatementsHold == FileSpec => []StatementsStandAlone
<1>1. ASSUME src \in Seq(Byte)
      PROVE  StatementsStandAlone
  <2>1. PICK scan : Found(scan, Len(src)) /\ spans_from(src, TRUE) = Sorted(scan.out)
    BY <1>1, SpansFound
  <2>2. PICK out \in Seq(Spans) : /\ out = scan.out /\ Rising(out, Len(src))
                                  /\ Alone(out, scan.prev)
    BY <2>1 DEF Found, Scans
  <2>3. PICK n \in Nat : n = Len(out)
    OBVIOUS
  <2>4. \A i \in 1..n : out[i] \in Spans
    BY <2>3
  <2>5. \A i, j \in 1..n : i # j => out[i].end # out[j].end
    <3> SUFFICES ASSUME NEW i \in 1..n, NEW j \in 1..n, i # j
                 PROVE  out[i].end # out[j].end
      OBVIOUS
    <3>1. out[i].end \in Nat /\ out[j].end \in Nat
      BY <2>4 DEF Spans
    <3>2. i < j \/ j < i
      OBVIOUS
    <3>3. out[i].end < out[j].end \/ out[j].end < out[i].end
      BY <3>2, <2>2, <2>3 DEF Rising
    <3> QED BY <3>1, <3>3
  <2>6. PICK p \in [1..n -> 1..n] : /\ \A i, j \in 1..n : i # j => p[i] # p[j]
                                    /\ Sorted(out) = [r \in 1..n |-> out[p[r]]]
    <3>1. \A i, j \in 1..Len(out) : i # j => out[i].end # out[j].end
      BY <2>3, <2>5
    <3>2. \E p \in [1..Len(out) -> 1..Len(out)] :
             /\ \A i, j \in 1..Len(out) : i # j => p[i] # p[j]
             /\ Sorted(out) = [r \in 1..Len(out) |-> out[p[r]]]
      BY <3>1, SortedOf
    <3> QED BY <2>3, <3>2
  <2>7. PICK spans : spans = anchors(src) /\ spans = [r \in 1..n |-> out[p[r]]]
    BY <2>1, <2>2, <2>6 DEF anchors
  <2>8. ASSUME NEW a \in 1..n, NEW b \in 1..n, a < b, Past(out[b], out[a])
        PROVE  out[a].end <= out[b].start
    <3>1. a \in 1..b - 1
      BY <2>8
    <3> QED BY <3>1, <2>2, <2>3, <2>8 DEF Alone
  <2>9. ASSUME NEW j \in 1..n, NEW k \in 1..n, j # k, spans[j].kind = "stmt",
               spans[k].kind \in {"stmt", "block"}
        PROVE  spans[j].end <= spans[k].start \/ spans[k].end <= spans[j].start
    <3>1. PICK a \in 1..n : a = p[j]
      OBVIOUS
    <3>2. PICK b \in 1..n : b = p[k]
      OBVIOUS
    <3>3. a # b /\ spans[j] = out[a] /\ spans[k] = out[b]
      BY <3>1, <3>2, <2>6, <2>7, <2>9
    <3>4. Past(out[a], out[b]) /\ Past(out[b], out[a])
      BY <3>3, <2>9 DEF Past
    <3>5. a < b \/ b < a
      BY <3>3
    <3> QED BY <3>3, <3>4, <3>5, <2>8
  <2>10. DOMAIN spans = 1..n
    BY <2>7
  <2> QED BY <2>7, <2>9, <2>10 DEF StatementsStandAlone
<1>2. FileInv => src \in Seq(Byte)
  BY DEF FileInv
<1> QED BY <1>1, <1>2, FileStart, FileStep, PTL DEF FileSpec

-----------------------------------------------------------------------------
(* The lexer against a reader of one byte at a time.                       *)

LEMMA Between ==
  ASSUME NEW a \in Nat, NEW b \in Nat, NEW T, a \in T,
         \A k \in a + 1..b : k - 1 \in T => k \in T
  PROVE  a..b \subseteq T
<1> DEFINE U == {k \in Nat : k >= a /\ k <= b => k \in T}
<1>1. 0 \in U
  OBVIOUS
<1>2. ASSUME NEW k \in U
      PROVE  k + 1 \in U
  <2>1. k \in Nat /\ (k + 1) - 1 = k
    OBVIOUS
  <2>2. CASE k + 1 = a
    BY <2>1, <2>2
  <2>3. CASE k + 1 # a
    <3>1. k + 1 >= a /\ k + 1 <= b => k \in T /\ k + 1 \in a + 1..b
      BY <2>1, <2>3
    <3> QED BY <2>1, <3>1
  <2> QED BY <2>2, <2>3
<1>3. Nat \subseteq U
  <2> HIDE DEF U
  <2> QED BY <1>1, <1>2, NatAll
<1> QED BY <1>3

Modes ==
  {"Code", "Directive", "LineComment", "BlockOpens", "BlockBegun", "BlockStar", "Block",
   "BlockEnds", "Str", "StrEnds", "Escape"}

\* The reader at byte i of s, in code, and after it was in another state.
Starts(s, i) ==
  CASE At(s, i) = "#" /\ AtLineStart(s, i) -> "Directive"
    [] At(s, i) = "/" /\ i + 1 < Len(s) /\ At(s, i + 1) = "/" -> "LineComment"
    [] At(s, i) = "/" /\ i + 1 < Len(s) /\ At(s, i + 1) = "*" -> "BlockOpens"
    [] At(s, i) = Quote -> "Str"
    [] OTHER -> "Code"

ReadsAs(s, i, was) ==
  LET b == IF i = 0 THEN "x" ELSE At(s, i - 1)
      Continued == i > 1 /\ At(s, i - 2) = Backslash
  IN  CASE was = "Code" -> Starts(s, i)
        [] was = "Directive" /\ b = "n" /\ ~Continued -> Starts(s, i)
        [] was = "LineComment" /\ At(s, i) = "n" /\ b # Backslash -> "Code"
        [] was = "BlockOpens" -> "BlockBegun"
        [] was = "BlockBegun" /\ At(s, i) = "*" -> "BlockStar"
        [] was = "BlockBegun" /\ At(s, i) # "*" -> "Block"
        [] was = "Block" /\ At(s, i) = "*" -> "BlockStar"
        [] was = "BlockStar" /\ At(s, i) = "/" -> "BlockEnds"
        [] was = "BlockStar" /\ At(s, i) \notin {"*", "/"} -> "Block"
        [] was = "BlockEnds" -> Starts(s, i)
        [] was = "Str" /\ At(s, i) = Quote -> "StrEnds"
        [] was = "Str" /\ At(s, i) = Backslash -> "Escape"
        [] was = "Escape" -> "Str"
        [] was = "StrEnds" -> Starts(s, i)
        [] OTHER -> was

LEMMA Marks == Quote # Backslash /\ "/" # Quote /\ "#" # Quote
BY DEF Quote, Backslash

LEMMA StartsIn == \A s : \A i : Starts(s, i) \in Modes
<1> SUFFICES ASSUME NEW s, NEW i
             PROVE  Starts(s, i) \in Modes
  OBVIOUS
<1>1. Starts(s, i) \in {"Directive", "LineComment", "BlockOpens", "Str", "Code"}
  BY Marks DEF Starts
<1> QED BY <1>1 DEF Modes

LEMMA ReadsLines ==
  ASSUME NEW s, NEW i \in Nat \ {0}
  PROVE  /\ ReadsAs(s, i, "Code") = Starts(s, i)
         /\ ReadsAs(s, i, "Directive") =
              IF At(s, i - 1) = "n" /\ ~(i > 1 /\ At(s, i - 2) = Backslash)
              THEN Starts(s, i) ELSE "Directive"
         /\ ReadsAs(s, i, "LineComment") =
              IF At(s, i) = "n" /\ At(s, i - 1) # Backslash THEN "Code" ELSE "LineComment"
<1>1. ReadsAs(s, i, "Code") = Starts(s, i)
  BY DEF ReadsAs
<1>2. ReadsAs(s, i, "Directive") =
        IF At(s, i - 1) = "n" /\ ~(i > 1 /\ At(s, i - 2) = Backslash)
        THEN Starts(s, i) ELSE "Directive"
  BY DEF ReadsAs
<1>3. ReadsAs(s, i, "LineComment") =
        IF At(s, i) = "n" /\ At(s, i - 1) # Backslash THEN "Code" ELSE "LineComment"
  BY DEF ReadsAs
<1> QED BY <1>1, <1>2, <1>3

LEMMA ReadsBlocks ==
  ASSUME NEW s, NEW i \in Nat \ {0}
  PROVE  /\ ReadsAs(s, i, "BlockOpens") = "BlockBegun"
         /\ ReadsAs(s, i, "BlockBegun") = IF At(s, i) = "*" THEN "BlockStar" ELSE "Block"
         /\ ReadsAs(s, i, "Block") = IF At(s, i) = "*" THEN "BlockStar" ELSE "Block"
         /\ ReadsAs(s, i, "BlockStar") =
              IF At(s, i) = "*" THEN "BlockStar"
              ELSE IF At(s, i) = "/" THEN "BlockEnds" ELSE "Block"
         /\ ReadsAs(s, i, "BlockEnds") = Starts(s, i)
<1>1. ReadsAs(s, i, "BlockOpens") = "BlockBegun"
  BY DEF ReadsAs
<1>2. ReadsAs(s, i, "BlockBegun") = IF At(s, i) = "*" THEN "BlockStar" ELSE "Block"
  BY DEF ReadsAs
<1>3. ReadsAs(s, i, "Block") = IF At(s, i) = "*" THEN "BlockStar" ELSE "Block"
  BY DEF ReadsAs
<1>4. ReadsAs(s, i, "BlockStar") =
        IF At(s, i) = "*" THEN "BlockStar"
        ELSE IF At(s, i) = "/" THEN "BlockEnds" ELSE "Block"
  BY DEF ReadsAs
<1>5. ReadsAs(s, i, "BlockEnds") = Starts(s, i)
  BY DEF ReadsAs
<1> QED BY <1>1, <1>2, <1>3, <1>4, <1>5

LEMMA ReadsLiterals ==
  ASSUME NEW s, NEW i \in Nat \ {0}
  PROVE  /\ ReadsAs(s, i, "Str") = IF At(s, i) = Quote THEN "StrEnds"
                                   ELSE IF At(s, i) = Backslash THEN "Escape" ELSE "Str"
         /\ ReadsAs(s, i, "Escape") = "Str"
         /\ ReadsAs(s, i, "StrEnds") = Starts(s, i)
<1>1. ReadsAs(s, i, "Str") = IF At(s, i) = Quote THEN "StrEnds"
                             ELSE IF At(s, i) = Backslash THEN "Escape" ELSE "Str"
  BY Marks DEF ReadsAs
<1>2. ReadsAs(s, i, "Escape") = "Str"
  BY DEF ReadsAs
<1>3. ReadsAs(s, i, "StrEnds") = Starts(s, i)
  BY DEF ReadsAs
<1> QED BY <1>1, <1>2, <1>3

LEMMA ReadsIn ==
  ASSUME NEW s, NEW i \in Nat \ {0}, NEW was \in Modes
  PROVE  ReadsAs(s, i, was) \in Modes
<1>1. CASE was \in {"Code", "Directive", "LineComment"}
  <2>1. ReadsAs(s, i, was) \in {Starts(s, i), "Directive", "LineComment", "Code"}
    BY <1>1, ReadsLines
  <2> QED BY <2>1, StartsIn DEF Modes
<1>2. CASE was \in {"BlockOpens", "BlockBegun", "Block", "BlockStar", "BlockEnds"}
  <2>1. ReadsAs(s, i, was) \in {Starts(s, i), "BlockBegun", "Block", "BlockStar", "BlockEnds"}
    BY <1>2, ReadsBlocks
  <2> QED BY <2>1, StartsIn DEF Modes
<1>3. CASE was \in {"Str", "Escape", "StrEnds"}
  <2>1. ReadsAs(s, i, was) \in {Starts(s, i), "Str", "Escape", "StrEnds"}
    BY <1>3, ReadsLiterals
  <2> QED BY <2>1, StartsIn DEF Modes
<1> QED BY <1>1, <1>2, <1>3 DEF Modes

\* How mode goes through s.
Read(mode, s) == \A i \in 1..Len(s) - 1 : mode[i] = ReadsAs(s, i, mode[i - 1])

\* The line starts as the reader keeps track of them.
LEMMA LineStartsOn ==
  ASSUME NEW s \in Seq(Byte), NEW i \in 1..Len(s)
  PROVE  AtLineStart(s, i) <=> At(s, i - 1) = "n" \/ (AtLineStart(s, i - 1) /\ At(s, i - 1) \in White)
<1>1. i \in Nat /\ i - 1 \in 0..i - 1
  OBVIOUS
<1>2. ASSUME AtLineStart(s, i), At(s, i - 1) # "n"
      PROVE  AtLineStart(s, i - 1) /\ At(s, i - 1) \in White
  <2>1. \A j \in 0..i - 1 : At(s, j) \in White \/ \E k \in j..i - 1 : At(s, k) = "n"
    BY <1>2 DEF AtLineStart
  <2>2. At(s, i - 1) \in White
    <3>1. \A k \in i - 1..i - 1 : k = i - 1
      BY <1>1
    <3> QED BY <2>1, <3>1, <1>1, <1>2
  <2>3. ASSUME NEW j \in 0..(i - 1) - 1, At(s, j) \notin White
        PROVE  \E k \in j..(i - 1) - 1 : At(s, k) = "n"
    <3>1. PICK k \in j..i - 1 : At(s, k) = "n"
      BY <2>1, <2>3, <1>1
    <3>2. k # i - 1
      BY <3>1, <1>2
    <3>3. k \in j..(i - 1) - 1
      BY <3>2, <1>1
    <3> QED BY <3>1, <3>3
  <2> QED BY <2>2, <2>3 DEF AtLineStart
<1>3. ASSUME At(s, i - 1) = "n"
      PROVE  AtLineStart(s, i)
  <2>1. \A j \in 0..i - 1 : i - 1 \in j..i - 1
    BY <1>1
  <2> QED BY <2>1, <1>3 DEF AtLineStart
<1>4. ASSUME AtLineStart(s, i - 1), At(s, i - 1) \in White
      PROVE  AtLineStart(s, i)
  <2>1. ASSUME NEW j \in 0..i - 1, At(s, j) \notin White
        PROVE  \E k \in j..i - 1 : At(s, k) = "n"
    <3>1. j \in 0..(i - 1) - 1
      BY <2>1, <1>1, <1>4
    <3>2. PICK k \in j..(i - 1) - 1 : At(s, k) = "n"
      BY <3>1, <2>1, <1>4 DEF AtLineStart
    <3>3. k \in j..i - 1
      BY <1>1
    <3> QED BY <3>2, <3>3
  <2> QED BY <2>1 DEF AtLineStart
<1> QED BY <1>2, <1>3, <1>4

\* What Reading is.
LEMMA ReadingBy ==
  ASSUME src \in Seq(Byte), Len(src) > 0
  PROVE  Read(Reading, src) /\ Reading[0] = Starts(src, 0)
<1> DEFINE n == Len(src)
           Begun(f, i) == \/ i = 0 \/ At(src, i - 1) = "n"
                          \/ f[i - 1] /\ At(src, i - 1) \in White
           fresh == CHOOSE f : f = [i \in 0..n |-> Begun(f, i)]
           IsNext(i, b) == i + 1 < n /\ At(src, i + 1) = b
           FromCode(i) ==
             CASE At(src, i) = "#" /\ fresh[i] -> "Directive"
               [] At(src, i) = "/" /\ IsNext(i, "/") -> "LineComment"
               [] At(src, i) = "/" /\ IsNext(i, "*") -> "BlockOpens"
               [] At(src, i) = Quote -> "Str"
               [] OTHER -> "Code"
           Rhs(f, i) ==
             LET was == IF i = 0 THEN "Code" ELSE f[i - 1]
                 b == IF i = 0 THEN "x" ELSE At(src, i - 1)
                 Continued == i > 1 /\ At(src, i - 2) = Backslash
             IN  CASE was = "Code" -> FromCode(i)
                   [] was = "Directive" /\ b = "n" /\ ~Continued -> FromCode(i)
                   [] was = "LineComment" /\ At(src, i) = "n" /\ b # Backslash -> "Code"
                   [] was = "BlockOpens" -> "BlockBegun"
                   [] was = "BlockBegun" /\ At(src, i) = "*" -> "BlockStar"
                   [] was = "BlockBegun" /\ At(src, i) # "*" -> "Block"
                   [] was = "Block" /\ At(src, i) = "*" -> "BlockStar"
                   [] was = "BlockStar" /\ At(src, i) = "/" -> "BlockEnds"
                   [] was = "BlockStar" /\ At(src, i) \notin {"*", "/"} -> "Block"
                   [] was = "BlockEnds" -> FromCode(i)
                   [] was = "Str" /\ At(src, i) = Quote -> "StrEnds"
                   [] was = "Str" /\ At(src, i) = Backslash -> "Escape"
                   [] was = "Escape" -> "Str"
                   [] was = "StrEnds" -> FromCode(i)
                   [] OTHER -> was
           mode == CHOOSE f : f = [i \in 0..n - 1 |-> Rhs(f, i)]
<1>1. Reading = mode
  BY DEF Reading
<1>2. n \in Nat /\ n > 0
  OBVIOUS
<1> HIDE DEF fresh, n
<1>3. \A i \in 0..n : fresh[i] <=> AtLineStart(src, i)
  <2>1. AtLineStart(src, 0)
    BY DEF AtLineStart
  <2>2. \A i \in 1..n : AtLineStart(src, i)
                        <=> At(src, i - 1) = "n" \/ (AtLineStart(src, i - 1) /\ At(src, i - 1) \in White)
    BY LineStartsOn DEF n
  <2>3. \E f : f = [i \in 0..n |-> Begun(f, i)]
    <3> DEFINE g == [i \in 0..n |-> AtLineStart(src, i)]
    <3>1. ASSUME NEW i \in 0..n
          PROVE  AtLineStart(src, i) = Begun(g, i)
      <4>1. CASE i = 0
        BY <4>1, <2>1
      <4>2. CASE i # 0
        <5>1. i \in 1..n /\ i - 1 \in 0..n
          BY <4>2, <1>2
        <5>2. g[i - 1] = AtLineStart(src, i - 1)
          BY <5>1
        <5>3. AtLineStart(src, i)
                <=> At(src, i - 1) = "n" \/ (AtLineStart(src, i - 1) /\ At(src, i - 1) \in White)
          BY <5>1, <2>2
        <5>4. AtLineStart(src, i) \in BOOLEAN
          BY DEF AtLineStart
        <5> HIDE DEF g
        <5> QED BY <4>2, <5>2, <5>3, <5>4
      <4> QED BY <4>1, <4>2
    <3>2. g = [i \in 0..n |-> Begun(g, i)]
      BY <3>1
    <3> QED BY <3>2
  <2>4. fresh = [i \in 0..n |-> Begun(fresh, i)]
    BY <2>3 DEF fresh
  <2>5. \A i \in 0..n : fresh[i] = Begun(fresh, i)
    BY <2>4
  <2> DEFINE T == {i \in 0..n : fresh[i] <=> AtLineStart(src, i)}
  <2>6. 0 \in T
    <3>1. 0 \in 0..n
      BY <1>2
    <3>2. fresh[0] = TRUE
      BY <3>1, <2>5
    <3> QED BY <3>1, <3>2, <2>1
  <2>7. ASSUME NEW k \in 1..n, k - 1 \in T
        PROVE  k \in T
    <3>1. k \in 0..n /\ k # 0
      BY <1>2
    <3>2. fresh[k] = Begun(fresh, k)
      BY <3>1, <2>5
    <3>3. fresh[k - 1] <=> AtLineStart(src, k - 1)
      BY <2>7
    <3> QED BY <3>1, <3>2, <3>3, <2>2
  <2> HIDE DEF T
  <2>8. 0..n \subseteq T
    BY <1>2, <2>6, <2>7, OnAll
  <2> QED BY <2>8 DEF T
<1>4. \A i \in 0..n - 1 : FromCode(i) = Starts(src, i)
  <2> TAKE i \in 0..n - 1
  <2>1. i \in 0..n
    BY <1>2
  <2>2. fresh[i] <=> AtLineStart(src, i)
    BY <2>1, <1>3
  <2>3. Len(src) = n
    BY DEF n
  <2> QED BY <2>2, <2>3, Marks DEF Starts
<1> HIDE DEF FromCode
<1>5. \A f : Rhs(f, 0) = Starts(src, 0)
  <2>1. \A f : Rhs(f, 0) = FromCode(0)
    OBVIOUS
  <2> QED BY <2>1, <1>2, <1>4
<1>6. ASSUME NEW f, NEW i \in 1..n - 1
      PROVE  Rhs(f, i) = ReadsAs(src, i, f[i - 1])
  <2>1. i # 0 /\ FromCode(i) = Starts(src, i)
    BY <1>2, <1>4
  <2> QED BY <2>1 DEF ReadsAs
<1> HIDE DEF Rhs, mode
<1>7. \E f : f = [i \in 0..n - 1 |-> Rhs(f, i)]
  <2>1. PICK m \in Nat : m = n - 1
    BY <1>2
  <2>2. PICK first \in Modes : first = Starts(src, 0)
    BY StartsIn
  <2> DEFINE G == [i \in 1..m |-> [x \in Modes |-> ReadsAs(src, i, x)]]
  <2>3. \A i \in 1..m : \A x \in Modes : G[i][x] = ReadsAs(src, i, x) /\ G[i][x] \in Modes
    BY ReadsIn
  <2> HIDE DEF G
  <2>4. StaysIn(Modes, 1..m, G)
    BY <2>3 DEF StaysIn
  <2>5. PICK f \in [0..m -> Modes] : FollowsOn(f, first, m, G)
    BY <2>4, Forward
  <2>6. ASSUME NEW i \in 0..m
        PROVE  f[i] = Rhs(f, i)
    <3>1. CASE i = 0
      BY <3>1, <2>2, <2>5, <1>5 DEF FollowsOn
    <3>2. CASE i # 0
      <4>1. i \in 1..m /\ i - 1 \in 0..m /\ i \in 1..n - 1
        BY <3>2, <2>1
      <4>2. f[i - 1] \in Modes /\ f[i] = G[i][f[i - 1]]
        BY <4>1, <2>5 DEF FollowsOn
      <4>3. f[i] = ReadsAs(src, i, f[i - 1])
        BY <4>1, <4>2, <2>3
      <4> QED BY <4>1, <4>3, <1>6
    <3> QED BY <3>1, <3>2
  <2>7. f = [i \in 0..n - 1 |-> Rhs(f, i)]
    BY <2>1, <2>6
  <2> QED BY <2>7
<1>8. mode = [i \in 0..n - 1 |-> Rhs(mode, i)]
  BY <1>7 DEF mode
<1>9. \A i \in 0..n - 1 : mode[i] = Rhs(mode, i)
  BY <1>8
<1>10. mode[0] = Starts(src, 0)
  BY <1>2, <1>5, <1>9
<1>11. \A i \in 1..n - 1 : mode[i] = ReadsAs(src, i, mode[i - 1])
  <2> TAKE i \in 1..n - 1
  <2>1. i \in 0..n - 1
    BY <1>2
  <2> QED BY <2>1, <1>6, <1>9
<1> QED BY <1>1, <1>10, <1>11 DEF Read, n

\* No byte of a region from i to e but its first is read in code, and the one
\* after it is read from code.
Passed(mode, s, i, e) ==
  /\ \A j \in i + 1..e - 1 : mode[j] # "Code"
  /\ e < Len(s) => mode[e] = Starts(s, e)

LEMMA LineEndAt ==
  ASSUME NEW s \in Seq(Byte), NEW i \in 0..Len(s) - 1
  PROVE  /\ LineEnd(s, i) < Len(s) =>
              At(s, LineEnd(s, i)) = "n"
              /\ (LineEnd(s, i) = 0 \/ At(s, LineEnd(s, i) - 1) # Backslash)
         /\ \A j \in i..LineEnd(s, i) - 1 :
              ~(At(s, j) = "n" /\ (j = 0 \/ At(s, j - 1) # Backslash))
<1> DEFINE Ends(j) == At(s, j) = "n" /\ (j = 0 \/ At(s, j - 1) # Backslash)
           S == {j \in i..Len(s) - 1 : Ends(j)}
<1>1. LineEnd(s, i) = LeastOr(S, Len(s))
  BY DEF LineEnd
<1>2. PICK n \in Nat : n = Len(s)
  OBVIOUS
<1>3. PICK e : e = LineEnd(s, i) /\ e \in i..n
  BY <1>2, LineEndOf
<1> HIDE DEF Ends
<1>4. S \subseteq Nat
  BY <1>2
<1>5. CASE S = {}
  <2>1. e = n
    BY <1>1, <1>2, <1>3, <1>5, LeastOrNone
  <2>2. \A j \in i..n - 1 : ~Ends(j)
    BY <1>2, <1>5
  <2> QED BY <2>1, <2>2, <1>2, <1>3 DEF Ends
<1>6. CASE S # {}
  <2>1. PICK f : f = LeastOr(S, Len(s)) /\ f \in S /\ \A y \in S : f <= y
    <3> HIDE DEF S
    <3> QED BY <1>4, <1>6, LeastOrSome
  <2>2. e \in S /\ \A y \in S : e <= y
    BY <2>1, <1>1, <1>3
  <2>3. Ends(e)
    BY <2>2
  <2>4. ASSUME NEW j \in i..e - 1
        PROVE  ~Ends(j)
    <3>1. j \in i..Len(s) - 1 /\ ~(e <= j)
      BY <1>2, <1>3
    <3> QED BY <3>1, <2>2
  <2> QED BY <2>3, <2>4, <1>3 DEF Ends
<1> QED BY <1>5, <1>6

LEMMA DirectivePassed ==
  ASSUME NEW s \in Seq(Byte), NEW i \in 0..Len(s) - 1, NEW mode, Read(mode, s),
         mode[i] = "Directive"
  PROVE  Passed(mode, s, i, Least({LineEnd(s, i) + 1, Len(s)}))
<1>1. PICK n \in Nat : n = Len(s)
  OBVIOUS
<1>2. PICK e : e = LineEnd(s, i) /\ e \in i..n
  BY <1>1, LineEndOf
<1>3. e < n => At(s, e) = "n" /\ (e = 0 \/ At(s, e - 1) # Backslash)
  BY <1>1, <1>2, LineEndAt
<1>4. \A j \in i..e - 1 : ~(At(s, j) = "n" /\ (j = 0 \/ At(s, j - 1) # Backslash))
  BY <1>2, LineEndAt
<1>5. \A j \in 1..n - 1 : mode[j] = ReadsAs(s, j, mode[j - 1])
  BY <1>1 DEF Read
<1>6. PICK f : f = Least({e + 1, n}) /\ f = (IF e < n THEN e + 1 ELSE n)
  <2>1. {e + 1, n} \subseteq Nat /\ {e + 1, n} # {}
    BY <1>2
  <2>2. PICK f : f = Least({e + 1, n})
    OBVIOUS
  <2>3. f \in {e + 1, n} /\ f <= e + 1 /\ f <= n
    <3>1. f \in {e + 1, n} /\ \A y \in {e + 1, n} : f <= y
      BY <2>1, <2>2, LeastOf
    <3> QED BY <3>1
  <2>4. f = (IF e < n THEN e + 1 ELSE n)
    BY <2>3, <1>2
  <2> QED BY <2>2, <2>4
<1> DEFINE T == {j \in 0..n - 1 : mode[j] = "Directive"}
<1>7. ASSUME NEW j \in i + 1..f - 1, j - 1 \in T
      PROVE  j \in T
  <2>1. j \in 1..n - 1 /\ j - 1 \in i..e - 1 /\ j \in Nat \ {0} /\ j \in 0..n - 1
    BY <1>1, <1>2, <1>6
  <2>2. mode[j] = ReadsAs(s, j, "Directive")
    BY <2>1, <1>5, <1>7
  <2>3. ~(At(s, j - 1) = "n" /\ (j - 1 = 0 \/ At(s, (j - 1) - 1) # Backslash))
    BY <2>1, <1>4
  <2>4. ~(At(s, j - 1) = "n" /\ ~(j > 1 /\ At(s, j - 2) = Backslash))
    <3>1. (j - 1 = 0 <=> ~(j > 1)) /\ (j - 1) - 1 = j - 2
      BY <2>1
    <3> QED BY <3>1, <2>3
  <2>5. mode[j] = "Directive"
    BY <2>1, <2>2, <2>4, ReadsLines
  <2> QED BY <2>1, <2>5
<1>8. i \in T /\ i \in Nat /\ f - 1 \in Nat
  BY <1>1, <1>2, <1>6
<1>9. i..f - 1 \subseteq T
  <2> HIDE DEF T
  <2>1. PICK b \in Nat : b = f - 1
    BY <1>8
  <2> QED BY <2>1, <1>7, <1>8, Between
<1>10. \A j \in i + 1..f - 1 : mode[j] # "Code"
  <2> TAKE j \in i + 1..f - 1
  <2>1. j \in i..f - 1
    BY <1>8
  <2> QED BY <2>1, <1>9
<1>11. f < n => mode[f] = Starts(s, f)
  <2> SUFFICES ASSUME f < n
               PROVE  mode[f] = Starts(s, f)
    OBVIOUS
  <2>1. f = e + 1 /\ f \in 1..n - 1 /\ f \in Nat \ {0} /\ f - 1 = e /\ e < n /\ e \in i..f - 1
    BY <1>1, <1>2, <1>6
  <2>2. mode[f] = ReadsAs(s, f, "Directive")
    BY <2>1, <1>5, <1>9
  <2>3. (f > 1 <=> e # 0) /\ f - 2 = e - 1
    BY <2>1, <1>2
  <2>4. At(s, f - 1) = "n" /\ ~(f > 1 /\ At(s, f - 2) = Backslash)
    BY <2>1, <2>3, <1>3
  <2> QED BY <2>1, <2>2, <2>4, ReadsLines
<1> QED BY <1>1, <1>2, <1>6, <1>10, <1>11 DEF Passed

LEMMA LinePassed ==
  ASSUME NEW s \in Seq(Byte), NEW i \in 0..Len(s) - 1, NEW mode, Read(mode, s),
         mode[i] = "LineComment", At(s, i) = "/"
  PROVE  Passed(mode, s, i, LineEnd(s, i))
<1>1. PICK n \in Nat : n = Len(s)
  OBVIOUS
<1>2. PICK e : e = LineEnd(s, i) /\ e \in i + 1..n
  <2>1. LineEnd(s, i) \in i..Len(s) /\ LineEnd(s, i) > i
    BY LineEndOf
  <2> QED BY <2>1, <1>1
<1>3. e < n => At(s, e) = "n" /\ (e = 0 \/ At(s, e - 1) # Backslash)
  BY <1>1, <1>2, LineEndAt
<1>4. \A j \in i..e - 1 : ~(At(s, j) = "n" /\ (j = 0 \/ At(s, j - 1) # Backslash))
  BY <1>2, LineEndAt
<1>5. \A j \in 1..n - 1 : mode[j] = ReadsAs(s, j, mode[j - 1])
  BY <1>1 DEF Read
<1> DEFINE T == {j \in 0..n - 1 : mode[j] = "LineComment"}
<1>7. ASSUME NEW j \in i + 1..e - 1, j - 1 \in T
      PROVE  j \in T
  <2>1. j \in 1..n - 1 /\ j \in i..e - 1 /\ j \in Nat \ {0} /\ j \in 0..n - 1 /\ j # 0
    BY <1>1, <1>2
  <2>2. mode[j] = ReadsAs(s, j, "LineComment")
    BY <2>1, <1>5, <1>7
  <2>3. ~(At(s, j) = "n" /\ At(s, j - 1) # Backslash)
    BY <2>1, <1>4
  <2>4. mode[j] = "LineComment"
    BY <2>1, <2>2, <2>3, ReadsLines
  <2> QED BY <2>1, <2>4
<1>8. i \in T /\ i \in Nat /\ e - 1 \in Nat
  BY <1>1, <1>2
<1>9. i..e - 1 \subseteq T
  <2> HIDE DEF T
  <2>1. PICK b \in Nat : b = e - 1
    BY <1>8
  <2> QED BY <2>1, <1>7, <1>8, Between
<1>10. \A j \in i + 1..e - 1 : mode[j] # "Code"
  <2> TAKE j \in i + 1..e - 1
  <2>1. j \in i..e - 1
    BY <1>8
  <2> QED BY <2>1, <1>9
<1>11. e < n => mode[e] = Starts(s, e)
  <2> SUFFICES ASSUME e < n
               PROVE  mode[e] = Starts(s, e)
    OBVIOUS
  <2>1. e \in 1..n - 1 /\ e \in Nat \ {0} /\ e - 1 \in i..e - 1 /\ e # 0
    BY <1>1, <1>2
  <2>2. mode[e] = ReadsAs(s, e, "LineComment")
    BY <2>1, <1>5, <1>9
  <2>3. At(s, e) = "n" /\ At(s, e - 1) # Backslash
    BY <2>1, <1>3
  <2>4. mode[e] = "Code"
    BY <2>1, <2>2, <2>3, ReadsLines
  <2>5. "n" # Quote
    BY DEF Quote
  <2>6. Starts(s, e) = "Code"
    BY <2>3, <2>5 DEF Starts
  <2> QED BY <2>4, <2>6
<1> QED BY <1>1, <1>2, <1>10, <1>11 DEF Passed

LEMMA BlockPassed ==
  ASSUME NEW s \in Seq(Byte), NEW i \in 0..Len(s) - 1, i + 1 < Len(s), NEW mode, Read(mode, s),
         mode[i] = "BlockOpens"
  PROVE  Passed(mode, s, i, BlockEnd(s, i))
<1> DEFINE Ends(j) == At(s, j) = "*" /\ At(s, j + 1) = "/"
           S == {j \in i + 2..Len(s) - 2 : Ends(j)}
<1>1. PICK n \in Nat : n = Len(s)
  OBVIOUS
<1>2. BlockEnd(s, i) = LeastOr(S, Len(s) - 2) + 2
  BY DEF BlockEnd
<1> HIDE DEF Ends
<1>3. S \subseteq Nat
  OBVIOUS
<1>4. PICK m \in i + 1..n - 1 :
        /\ \A j \in i + 2..m - 1 : ~Ends(j)
        /\ \/ S = {} /\ m = n - 1
           \/ S # {} /\ m = LeastOr(S, Len(s) - 2) /\ m \in i + 2..n - 2 /\ Ends(m)
  <2>1. CASE S = {}
    <3>1. n - 1 \in i + 1..n - 1
      BY <1>1
    <3>2. ASSUME NEW j \in i + 2..(n - 1) - 1
          PROVE  ~Ends(j)
      <4>1. j \in i + 2..Len(s) - 2
        BY <1>1
      <4> QED BY <4>1, <2>1
    <3> QED BY <2>1, <3>1, <3>2
  <2>2. CASE S # {}
    <3>1. PICK f : f = LeastOr(S, Len(s) - 2) /\ f \in S /\ \A y \in S : f <= y
      <4> HIDE DEF S
      <4> QED BY <2>2, <1>3, LeastOrSome
    <3>2. f \in i + 2..n - 2 /\ Ends(f) /\ f \in i + 1..n - 1
      BY <3>1, <1>1
    <3>3. ASSUME NEW j \in i + 2..f - 1
          PROVE  ~Ends(j)
      <4>1. j \in i + 2..Len(s) - 2 /\ ~(f <= j)
        BY <3>2, <1>1
      <4> QED BY <4>1, <3>1
    <3> QED BY <2>2, <3>1, <3>2, <3>3
  <2> QED BY <2>1, <2>2
<1> HIDE DEF S
<1>5. \A j \in 1..n - 1 : mode[j] = ReadsAs(s, j, mode[j - 1])
  BY <1>1 DEF Read
<1>6. mode[i + 1] = "BlockBegun"
  <2>1. i + 1 \in 1..n - 1 /\ i + 1 \in Nat \ {0} /\ (i + 1) - 1 = i
    BY <1>1
  <2>2. mode[i + 1] = ReadsAs(s, i + 1, "BlockOpens")
    BY <2>1, <1>5
  <2> QED BY <2>1, <2>2, ReadsBlocks
<1> DEFINE T == {j \in 0..n - 1 : \/ j = i + 1 /\ mode[j] = "BlockBegun"
                                  \/ j > i + 1 /\ mode[j] = "Block" /\ At(s, j) # "*"
                                  \/ j > i + 1 /\ mode[j] = "BlockStar" /\ At(s, j) = "*"}
<1>7. ASSUME NEW j \in (i + 1) + 1..m, j - 1 \in T
      PROVE  j \in T
  <2>1. j \in 1..n - 1 /\ j \in Nat \ {0} /\ j \in 0..n - 1 /\ j > i + 1
    BY <1>1
  <2>2. mode[j] = ReadsAs(s, j, mode[j - 1])
    BY <2>1, <1>5
  <2>3. CASE mode[j - 1] = "BlockBegun" \/ mode[j - 1] = "Block"
    <3>1. mode[j] = IF At(s, j) = "*" THEN "BlockStar" ELSE "Block"
      BY <2>1, <2>2, <2>3, ReadsBlocks
    <3> QED BY <2>1, <3>1
  <2>4. CASE mode[j - 1] = "BlockStar" /\ At(s, j - 1) = "*" /\ j - 1 > i + 1
    <3>1. j - 1 \in i + 2..m - 1 /\ (j - 1) + 1 = j
      BY <2>1, <2>4
    <3>2. At(s, j) # "/"
      BY <3>1, <2>4, <1>4 DEF Ends
    <3>3. mode[j] = IF At(s, j) = "*" THEN "BlockStar" ELSE "Block"
      BY <2>1, <2>2, <2>4, <3>2, ReadsBlocks
    <3> QED BY <2>1, <3>3
  <2> QED BY <2>3, <2>4, <1>7
<1>8. i + 1 \in T /\ i + 1 \in Nat /\ m \in Nat
  BY <1>1, <1>6
<1>9. i + 1..m \subseteq T
  <2>1. PICK a \in Nat : a = i + 1
    BY <1>8
  <2> HIDE DEF T
  <2> QED BY <2>1, <1>7, <1>8, Between
<1>10. \A j \in i + 1..m : mode[j] # "Code"
  BY <1>9
<1>11. CASE S = {} /\ m = n - 1
  <2>1. BlockEnd(s, i) = n
    BY <1>1, <1>2, <1>11, LeastOrNone
  <2> QED BY <2>1, <1>1, <1>10, <1>11 DEF Passed
<1>12. CASE m = LeastOr(S, Len(s) - 2) /\ m \in i + 2..n - 2 /\ Ends(m)
  <2>1. BlockEnd(s, i) = m + 2
    BY <1>2, <1>12
  <2>2. m \in i + 1..m /\ m + 1 \in 1..n - 1 /\ m + 1 \in Nat \ {0} /\ (m + 1) - 1 = m /\ m > i + 1
    BY <1>1, <1>12
  <2>3. mode[m] = "BlockStar" /\ At(s, m + 1) = "/"
    BY <2>2, <1>9, <1>12 DEF Ends
  <2>4. mode[m + 1] = "BlockEnds"
    <3>1. mode[m + 1] = ReadsAs(s, m + 1, "BlockStar")
      BY <2>2, <2>3, <1>5
    <3> QED BY <2>2, <2>3, <3>1, ReadsBlocks
  <2>5. m + 2 < n => mode[m + 2] = Starts(s, m + 2)
    <3> SUFFICES ASSUME m + 2 < n
                 PROVE  mode[m + 2] = Starts(s, m + 2)
      OBVIOUS
    <3>1. m + 2 \in 1..n - 1 /\ m + 2 \in Nat \ {0} /\ (m + 2) - 1 = m + 1
      BY <2>2
    <3>2. mode[m + 2] = ReadsAs(s, m + 2, "BlockEnds")
      BY <2>4, <3>1, <1>5
    <3> QED BY <3>1, <3>2, ReadsBlocks
  <2>6. ASSUME NEW j \in i + 1..(m + 2) - 1
        PROVE  mode[j] # "Code"
    <3>1. j \in i + 1..m \/ j = m + 1
      BY <2>2
    <3> QED BY <3>1, <2>4, <1>10
  <2> QED BY <2>1, <2>5, <2>6, <1>1 DEF Passed
<1> QED BY <1>4, <1>11, <1>12

LEMMA LiteralPassed ==
  ASSUME NEW s \in Seq(Byte), NEW i \in 0..Len(s) - 1, NEW mode, Read(mode, s),
         mode[i] = "Str"
  PROVE  Passed(mode, s, i, LiteralEnd(s, i))
<1>1. PICK n \in Nat : n = Len(s)
  OBVIOUS
<1>2. PICK end : LiteralWalk(end, s) /\ LiteralEnd(s, i) = end[i + 1]
  BY LiteralEndBy
<1>3. \A j \in 0..n + 1 : end[j] \in (IF j >= n THEN n ELSE j)..n
  BY <1>1, <1>2 DEF LiteralWalk
<1>4. \A j \in 0..n - 1 : end[j] = IF At(s, j) = Quote THEN j + 1
                                   ELSE end[j + (IF At(s, j) = Backslash THEN 2 ELSE 1)]
  <2> TAKE j \in 0..n - 1
  <2>1. j \in 0..Len(s) + 1 /\ j < Len(s)
    BY <1>1
  <2> QED BY <2>1, <1>2 DEF LiteralWalk
<1>5. \A j \in 1..n - 1 : mode[j] = ReadsAs(s, j, mode[j - 1])
  BY <1>1 DEF Read
<1> DEFINE Good(j) == /\ \A k \in j..end[j] - 1 : mode[k] # "Code"
                      /\ end[j] < n => mode[end[j]] = Starts(s, end[j])
           T == {j \in Nat : j > 0 /\ j <= n /\ mode[j - 1] = "Str" => Good(j)}
<1>6. PICK m \in Nat : m = n + 1
  OBVIOUS
<1>7. m \in T
  BY <1>6
<1>8. ASSUME NEW j \in 0..m - 1, \A k \in j + 1..m : k \in T
      PROVE  j \in T
  <2> SUFFICES ASSUME j > 0, j <= n, mode[j - 1] = "Str"
               PROVE  Good(j)
    BY <1>6
  <2>1. CASE j = n
    <3>1. end[j] = n
      BY <2>1, <1>3
    <3> QED BY <2>1, <3>1
  <2>2. CASE j # n
    <3>1. j \in 1..n - 1 /\ j \in 0..n - 1 /\ j \in Nat \ {0} /\ (j + 1) - 1 = j
          /\ (j + 2) - 1 = j + 1 /\ j + 1 \in Nat \ {0}
      BY <2>2
    <3>2. mode[j] = IF At(s, j) = Quote THEN "StrEnds"
                    ELSE IF At(s, j) = Backslash THEN "Escape" ELSE "Str"
      <4>1. mode[j] = ReadsAs(s, j, "Str")
        BY <3>1, <1>5
      <4> QED BY <4>1, <3>1, ReadsLiterals
    <3>3. CASE At(s, j) = Quote
      <4>1. end[j] = j + 1 /\ mode[j] = "StrEnds"
        BY <3>1, <3>2, <3>3, <1>4
      <4>2. j + 1 < n => mode[j + 1] = Starts(s, j + 1)
        <5> SUFFICES ASSUME j + 1 < n
                     PROVE  mode[j + 1] = Starts(s, j + 1)
          OBVIOUS
        <5>1. mode[j + 1] = ReadsAs(s, j + 1, "StrEnds")
          <6>1. j + 1 \in 1..n - 1
            BY <3>1
          <6> QED BY <6>1, <4>1, <3>1, <1>5
        <5> QED BY <5>1, <3>1, ReadsLiterals
      <4>3. \A k \in j..(j + 1) - 1 : k = j
        BY <3>1
      <4> QED BY <4>1, <4>2, <4>3
    <3>4. CASE At(s, j) # Quote /\ At(s, j) = Backslash
      <4>1. end[j] = end[j + 2] /\ mode[j] = "Escape"
        BY <3>1, <3>2, <3>4, <1>4
      <4>2. CASE j + 1 = n
        <5>1. end[j + 2] = n
          BY <4>2, <1>3
        <5>2. \A k \in j..n - 1 : k = j
          BY <4>2, <3>1
        <5> QED BY <4>1, <5>1, <5>2
      <4>3. CASE j + 1 < n
        <5>1. mode[j + 1] = "Str"
          <6>1. mode[j + 1] = ReadsAs(s, j + 1, "Escape")
            <7>1. j + 1 \in 1..n - 1
              BY <3>1, <4>3
            <7> QED BY <7>1, <4>1, <3>1, <1>5
          <6> QED BY <6>1, <3>1, ReadsLiterals
        <5>2. j + 2 \in T /\ j + 2 > 0 /\ j + 2 <= n
          BY <4>3, <3>1, <1>6, <1>8
        <5>3. Good(j + 2)
          BY <5>1, <5>2, <3>1
        <5>4. ASSUME NEW k \in j..end[j] - 1
              PROVE  mode[k] # "Code"
          <6>1. k = j \/ k = j + 1 \/ k \in j + 2..end[j + 2] - 1
            <7>1. end[j + 2] \in Int
              BY <5>2, <1>3
            <7> QED BY <7>1, <4>1, <3>1
          <6> QED BY <6>1, <4>1, <5>1, <5>3
        <5>5. end[j] < n => mode[end[j]] = Starts(s, end[j])
          BY <4>1, <5>3
        <5> QED BY <5>4, <5>5
      <4> QED BY <4>2, <4>3, <3>1
    <3>5. CASE At(s, j) # Quote /\ At(s, j) # Backslash
      <4>1. end[j] = end[j + 1] /\ mode[j] = "Str"
        BY <3>1, <3>2, <3>5, <1>4
      <4>2. j + 1 \in T /\ j + 1 > 0 /\ j + 1 <= n
        BY <3>1, <1>6, <1>8
      <4>3. Good(j + 1)
        BY <4>1, <4>2, <3>1
      <4>4. ASSUME NEW k \in j..end[j] - 1
            PROVE  mode[k] # "Code"
        <5>1. k = j \/ k \in j + 1..end[j + 1] - 1
          <6>1. end[j + 1] \in Int
            BY <4>2, <1>3
          <6> QED BY <6>1, <4>1, <3>1
        <5> QED BY <5>1, <4>1, <4>3
      <4>5. end[j] < n => mode[end[j]] = Starts(s, end[j])
        BY <4>1, <4>3
      <4> QED BY <4>4, <4>5
    <3> QED BY <3>3, <3>4, <3>5
  <2> QED BY <2>1, <2>2
<1>9. i + 1 \in T
  <2> HIDE DEF T
  <2>1. 0..m \subseteq T
    BY <1>7, <1>8, BackAll
  <2>2. i + 1 \in 0..m
    BY <1>1, <1>6
  <2> QED BY <2>1, <2>2
<1>10. i + 1 > 0 /\ i + 1 <= n /\ (i + 1) - 1 = i
  BY <1>1
<1>11. Good(i + 1)
  BY <1>9, <1>10
<1> QED BY <1>1, <1>2, <1>11 DEF Passed

\* Whatever region begins where the reader is in code, it ends where the reader is
\* in code again, and is code itself just when the reader says so.
LEMMA RegionRead ==
  ASSUME NEW s \in Seq(Byte), NEW i \in 0..Len(s) - 1, NEW mode, Read(mode, s),
         mode[i] = Starts(s, i)
  PROVE  /\ Passed(mode, s, i, Opens(s, i).end)
         /\ Opens(s, i).kind = "Code" <=> mode[i] = "Code"
<1> DEFINE Near == IF i + 1 < Len(s) THEN At(s, i + 1) ELSE "x"
           Region(kind, end) == [kind |-> kind, start |-> i, end |-> end]
           Directive == At(s, i) = "#" /\ AtLineStart(s, i)
           Line == At(s, i) = "/" /\ Near = "/"
           Block == At(s, i) = "/" /\ Near = "*"
           Str == At(s, i) = Quote
<1>1. Opens(s, i) =
        CASE Directive -> Region("Directive", Least({LineEnd(s, i) + 1, Len(s)}))
          [] Line -> Region("LineComment", LineEnd(s, i))
          [] Block -> Region("BlockComment", BlockEnd(s, i))
          [] Str -> Region("Str", LiteralEnd(s, i))
          [] OTHER -> Region("Code", i + 1)
  BY DEF Opens
<1>2. Line <=> At(s, i) = "/" /\ i + 1 < Len(s) /\ At(s, i + 1) = "/"
  OBVIOUS
<1>3. Block <=> At(s, i) = "/" /\ i + 1 < Len(s) /\ At(s, i + 1) = "*"
  OBVIOUS
<1>4. Line => At(s, i) = "/"
  OBVIOUS
<1>5. mode[i] = CASE Directive -> "Directive"
                  [] At(s, i) = "/" /\ i + 1 < Len(s) /\ At(s, i + 1) = "/" -> "LineComment"
                  [] At(s, i) = "/" /\ i + 1 < Len(s) /\ At(s, i + 1) = "*" -> "BlockOpens"
                  [] Str -> "Str"
                  [] OTHER -> "Code"
  BY DEF Starts
<1>6. /\ Directive => ~Line /\ ~Block /\ ~Str
      /\ Line => ~Block /\ ~Str
      /\ Block => ~Str
  BY Marks
<1>7. \A k, e : Region(k, e).kind = k /\ Region(k, e).end = e
  OBVIOUS
<1>8. Block => i + 1 < Len(s)
  BY <1>3
<1>9. mode[i] = IF Directive THEN "Directive" ELSE IF Line THEN "LineComment"
                ELSE IF Block THEN "BlockOpens" ELSE IF Str THEN "Str" ELSE "Code"
  BY <1>2, <1>3, <1>5, <1>6
<1> HIDE DEF Near, Region, Directive, Line, Block, Str
<1>10. CASE Directive
  <2>1. Opens(s, i) = Region("Directive", Least({LineEnd(s, i) + 1, Len(s)}))
    BY <1>1, <1>6, <1>10
  <2>2. mode[i] = "Directive"
    BY <1>9, <1>10
  <2>3. Passed(mode, s, i, Least({LineEnd(s, i) + 1, Len(s)}))
    BY <2>2, DirectivePassed
  <2> QED BY <2>1, <2>2, <2>3, <1>7
<1>11. CASE ~Directive /\ Line
  <2>1. Opens(s, i) = Region("LineComment", LineEnd(s, i))
    BY <1>1, <1>6, <1>11
  <2>2. mode[i] = "LineComment"
    BY <1>9, <1>11
  <2>3. Passed(mode, s, i, LineEnd(s, i))
    BY <2>2, <1>4, <1>11, LinePassed
  <2> QED BY <2>1, <2>2, <2>3, <1>7
<1>12. CASE ~Directive /\ ~Line /\ Block
  <2>1. Opens(s, i) = Region("BlockComment", BlockEnd(s, i))
    BY <1>1, <1>6, <1>12
  <2>2. mode[i] = "BlockOpens"
    BY <1>9, <1>12
  <2>3. Passed(mode, s, i, BlockEnd(s, i))
    BY <2>2, <1>8, <1>12, BlockPassed
  <2> QED BY <2>1, <2>2, <2>3, <1>7
<1>13. CASE ~Directive /\ ~Line /\ ~Block /\ Str
  <2>1. Opens(s, i) = Region("Str", LiteralEnd(s, i))
    BY <1>1, <1>6, <1>13
  <2>2. mode[i] = "Str"
    BY <1>9, <1>13
  <2>3. Passed(mode, s, i, LiteralEnd(s, i))
    BY <2>2, LiteralPassed
  <2> QED BY <2>1, <2>2, <2>3, <1>7
<1>14. CASE ~Directive /\ ~Line /\ ~Block /\ ~Str
  <2>1. Opens(s, i) = Region("Code", i + 1)
    BY <1>1, <1>14
  <2>2. mode[i] = "Code"
    BY <1>9, <1>14
  <2>3. Passed(mode, s, i, i + 1)
    <3>1. i + 1 < Len(s) => mode[i + 1] = Starts(s, i + 1)
      <4> SUFFICES ASSUME i + 1 < Len(s)
                   PROVE  mode[i + 1] = Starts(s, i + 1)
        OBVIOUS
      <4>1. i + 1 \in 1..Len(s) - 1 /\ i + 1 \in Nat \ {0} /\ (i + 1) - 1 = i
        OBVIOUS
      <4>2. mode[i + 1] = ReadsAs(s, i + 1, "Code")
        BY <2>2, <4>1 DEF Read
      <4> QED BY <4>1, <4>2, ReadsLines
    <3>2. \A j \in i + 1..(i + 1) - 1 : FALSE
      OBVIOUS
    <3> QED BY <3>1, <3>2 DEF Passed
  <2> QED BY <2>1, <2>2, <2>3, <1>7
<1> QED BY <1>10, <1>11, <1>12, <1>13, <1>14

\* Where the regions of code begin.
CodeOf(x) == {x[k].start : k \in {k \in DOMAIN x : x[k].kind = "Code"}}

LEMMA CodeOfMore ==
  ASSUME NEW o \in Regions, NEW x \in Seq(Regions)
  PROVE  CodeOf(<<o>> \o x) = (IF o.kind = "Code" THEN {o.start} ELSE {}) \union CodeOf(x)
<1>1. PICK m \in Nat : m = Len(x)
  OBVIOUS
<1>2. PICK u \in Seq(Regions) : u = <<o>> /\ Len(u) = 1 /\ u[1] = o
  <2>1. <<o>> \in Seq(Regions) /\ Len(<<o>>) = 1
    OBVIOUS
  <2> QED BY <2>1
<1>3. PICK y \in Seq(Regions) : /\ y = u \o x /\ Len(y) = m + 1
                                /\ \A k \in 1..m + 1 : y[k] = IF k <= 1 THEN o ELSE x[k - 1]
  <2>1. /\ u \o x \in Seq(Regions) /\ Len(u \o x) = Len(u) + Len(x)
        /\ \A k \in 1..Len(u) + Len(x) : (u \o x)[k] = IF k <= Len(u) THEN u[k] ELSE x[k - Len(u)]
    BY ConcatProperties
  <2>2. \A k \in 1..m + 1 : (u \o x)[k] = IF k <= 1 THEN o ELSE x[k - 1]
    <3> TAKE k \in 1..m + 1
    <3>1. k \in 1..Len(u) + Len(x) /\ (k <= 1 => k = 1)
      BY <1>1, <1>2
    <3> QED BY <2>1, <3>1, <1>2
  <2>3. Len(u \o x) = m + 1
    BY <2>1, <1>1, <1>2
  <2> QED BY <2>1, <2>2, <2>3
<1>4. DOMAIN y = 1..m + 1 /\ DOMAIN x = 1..m
  BY <1>1, <1>3
<1>5. y[1] = o /\ \A k \in 1..m : k + 1 \in 1..m + 1 /\ y[k + 1] = x[k]
  <2>1. 1 \in 1..m + 1
    OBVIOUS
  <2>2. ASSUME NEW k \in 1..m
        PROVE  k + 1 \in 1..m + 1 /\ y[k + 1] = x[k]
    <3>1. k + 1 \in 1..m + 1 /\ ~(k + 1 <= 1) /\ (k + 1) - 1 = k
      OBVIOUS
    <3> QED BY <3>1, <1>3
  <2> QED BY <2>1, <2>2, <1>3
<1>6. ASSUME NEW a \in CodeOf(y)
      PROVE  a \in (IF o.kind = "Code" THEN {o.start} ELSE {}) \union CodeOf(x)
  <2>1. PICK k \in 1..m + 1 : y[k].kind = "Code" /\ a = y[k].start
    BY <1>4 DEF CodeOf
  <2>2. CASE k = 1
    BY <2>1, <2>2, <1>5
  <2>3. CASE k # 1
    <3>1. PICK h \in 1..m : h = k - 1 /\ h + 1 = k
      BY <2>3
    <3>2. y[k] = x[h]
      BY <3>1, <1>5
    <3> QED BY <2>1, <3>2, <1>4 DEF CodeOf
  <2> QED BY <2>2, <2>3
<1>7. ASSUME NEW a \in (IF o.kind = "Code" THEN {o.start} ELSE {}) \union CodeOf(x)
      PROVE  a \in CodeOf(y)
  <2>1. CASE o.kind = "Code" /\ a = o.start
    <3>1. 1 \in DOMAIN y /\ y[1].kind = "Code" /\ a = y[1].start
      BY <2>1, <1>4, <1>5
    <3> QED BY <3>1 DEF CodeOf
  <2>2. CASE a \in CodeOf(x)
    <3>1. PICK k \in 1..m : x[k].kind = "Code" /\ a = x[k].start
      BY <2>2, <1>4 DEF CodeOf
    <3>2. k + 1 \in DOMAIN y /\ y[k + 1].kind = "Code" /\ a = y[k + 1].start
      BY <3>1, <1>4, <1>5
    <3> QED BY <3>2 DEF CodeOf
  <2> QED BY <2>1, <2>2, <1>7
<1> QED BY <1>2, <1>3, <1>6, <1>7

\* The lexer's code is the reader's.
LEMMA LexRead ==
  ASSUME NEW s \in Seq(Byte), Len(s) > 0, NEW mode, Read(mode, s), mode[0] = Starts(s, 0)
  PROVE  CodeOf(lex(s)) = {i \in 0..Len(s) - 1 : mode[i] = "Code"}
<1>1. PICK n \in Nat : n = Len(s)
  OBVIOUS
<1>2. PICK from : /\ lex(s) = from[0] /\ LexWalk(from, s)
                  /\ \A i \in 0..Len(s) : from[i] \in Seq(Regions)
  BY LexBy
<1>3. from[n] = <<>>
      /\ \A i \in 0..n - 1 : from[i] = <<Opens(s, i)>> \o from[Opens(s, i).end]
  BY <1>1, <1>2 DEF LexWalk
<1> DEFINE T == {i \in 0..n : i = n \/ mode[i] = Starts(s, i)
                               => CodeOf(from[i]) = {j \in i..n - 1 : mode[j] = "Code"}}
<1>4. n \in T
  <2>1. CodeOf(<<>>) = {}
    BY DEF CodeOf
  <2>2. {j \in n..n - 1 : mode[j] = "Code"} = {} /\ n \in 0..n
    OBVIOUS
  <2> QED BY <2>1, <2>2, <1>3
<1>5. ASSUME NEW i \in 0..n - 1, \A j \in i + 1..n : j \in T
      PROVE  i \in T
  <2> SUFFICES ASSUME mode[i] = Starts(s, i)
               PROVE  CodeOf(from[i]) = {j \in i..n - 1 : mode[j] = "Code"}
    OBVIOUS
  <2>1. i \in 0..Len(s) - 1
    BY <1>1
  <2>2. PICK o \in Regions : o = Opens(s, i) /\ o.start = i /\ o.end \in i + 1..n
    BY <2>1, <1>1, OpensWithin
  <2>3. PICK e \in i + 1..n : e = o.end
    BY <2>2
  <2>4. Passed(mode, s, i, e) /\ (o.kind = "Code" <=> mode[i] = "Code")
    BY <2>1, <2>2, <2>3, RegionRead
  <2>5. PICK x \in Seq(Regions) : x = from[e]
    BY <2>3, <1>1, <1>2
  <2>6. from[i] = <<o>> \o x
    BY <2>2, <2>3, <2>5, <1>3
  <2>7. CodeOf(x) = {j \in e..n - 1 : mode[j] = "Code"}
    <3>1. e \in T
      BY <1>5
    <3>2. e = n \/ mode[e] = Starts(s, e)
      BY <2>3, <2>4, <1>1 DEF Passed
    <3> QED BY <3>1, <3>2, <2>5
  <2>8. CodeOf(from[i]) = (IF o.kind = "Code" THEN {i} ELSE {}) \union CodeOf(x)
    BY <2>2, <2>6, CodeOfMore
  <2>9. \A j \in i + 1..e - 1 : mode[j] # "Code"
    BY <2>4 DEF Passed
  <2>10. ASSUME NEW j
         PROVE  j \in CodeOf(from[i]) <=> j \in i..n - 1 /\ mode[j] = "Code"
    <3>1. j \in CodeOf(from[i]) <=> (j = i /\ mode[i] = "Code") \/ (j \in e..n - 1 /\ mode[j] = "Code")
      BY <2>4, <2>7, <2>8
    <3>2. j \in i..n - 1 <=> j = i \/ j \in i + 1..e - 1 \/ j \in e..n - 1
      BY <2>3
    <3> QED BY <3>1, <3>2, <2>9
  <2> QED BY <2>10
<1>6. 0 \in T
  <2> HIDE DEF T
  <2>1. 0..n \subseteq T
    BY <1>4, <1>5, BackAll
  <2> QED BY <2>1
<1> QED BY <1>1, <1>2, <1>6

\* However the bytes of a file fall, the lexer takes for code the bytes that a
\* reader of one byte at a time is in code at, and no other.
THEOREM CodeIsCodeHolds == FileSpec => []CodeIsCode
<1>1. ASSUME src \in Seq(Byte)
      PROVE  CodeIsCode
  <2>1. CASE Len(src) > 0
    <3>1. Read(Reading, src) /\ Reading[0] = Starts(src, 0)
      BY <1>1, <2>1, ReadingBy
    <3>2. CodeOf(lex(src)) = {i \in 0..Len(src) - 1 : Reading[i] = "Code"}
      BY <1>1, <2>1, <3>1, LexRead
    <3> QED BY <3>2 DEF CodeIsCode, CodeOf
  <2>2. CASE Len(src) = 0
    <3>1. lex(src) = <<>>
      <4>1. PICK from : lex(src) = from[0] /\ LexWalk(from, src)
        BY <1>1, LexBy
      <4> QED BY <4>1, <2>2 DEF LexWalk
    <3>2. {i \in 0..Len(src) - 1 : Reading[i] = "Code"} = {}
      BY <2>2
    <3>3. CodeOf(<<>>) = {}
      BY DEF CodeOf
    <3> QED BY <3>1, <3>2, <3>3 DEF CodeIsCode, CodeOf
  <2>3. Len(src) \in Nat
    BY <1>1
  <2> QED BY <2>1, <2>2, <2>3
<1>2. FileInv => src \in Seq(Byte)
  BY DEF FileInv
<1> QED BY <1>1, <1>2, FileStart, FileStep, PTL DEF FileSpec

=============================================================================
