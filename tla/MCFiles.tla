------------------------------- MODULE MCFiles -------------------------------
(* An instance for TLC of five parts that do not touch each other: what a    *)
(* small model writes as its calls, the calls of a turn's tasks on a file    *)
(* and on what they remember of it, the nodes of a C file it edits, the      *)
(* sockets of the page it is watched on, and the journal it is listed from.  *)
(* A behaviour is one of the five.                                           *)
(*                                                                           *)
(* Two tasks and two names of one file; files typed byte by byte, and from   *)
(* whole statements; one user, and one repository to select; the tools of    *)
(* MCGuide; three turns, two of one user and one of another.                 *)
EXTENDS TurnMemory, CFile, WebClient, MCGuide, TurnJournal, TLC

CONSTANTS
  t1, t2, path, dotted, file, v1, v2, lib, ann

MCRepo == {lib}
MCUser == {ann}

MCTask == {t1, t2}
MCPath == {path, dotted}
MCFileOf == [p \in MCPath |-> file]
MCContents == {v1, v2}

MCInk(text) == InkOf(text)
MCPieces ==
  [bytes |-> {<<c>> : c \in Byte \ {"s", "_", "x"}},
   code |-> {<<"x", ";">>, <<"{", "x", ";">>, <<"{">>, <<"}">>, <<"/", "/", "n">>, <<"#", "n">>}]
MCMaxEdits == [bytes |-> 4, code |-> 4]

MCUserOf(t) == IF t = "d" THEN "bob" ELSE "ann"

VARIABLE part

Symmetry ==
  Permutations(MCTask) \union Permutations(MCContents)

-----------------------------------------------------------------------------
FilesInit ==
  /\ part \in {"call", "calls", "nodes", "page", "turns"}
  /\ GuideInit /\ (part # "call" => generated = << >> /\ ~fast)
  /\ Init /\ (part # "calls" => \A f \in File : disk[f] = Absent)
  /\ FileInit /\ (part # "nodes" => alphabet = "code")
  /\ WebInit /\ (part # "page" => authOn)
  /\ JournalInit

FilesNext ==
  \/ part = "call" /\ UNCHANGED <<part, vars, fileVars, webVars, journalVars>>
       /\ \/ FastForward
          \/ \E token \in Vocabulary : Generate(token)
  \/ part = "calls" /\ UNCHANGED <<part, guideVars, fileVars, webVars, journalVars>>
       /\ \E t \in Task : Step(t)
  \/ part = "nodes" /\ UNCHANGED <<part, guideVars, vars, webVars, journalVars>> /\ FileNext
  \/ part = "page" /\ UNCHANGED <<part, guideVars, vars, fileVars, journalVars>> /\ WebNext
  \/ part = "turns" /\ UNCHANGED <<part, guideVars, vars, fileVars, webVars>> /\ JournalNext

FilesSpec == FilesInit /\ [][FilesNext]_<<part, guideVars, vars, fileVars, webVars, journalVars>>
=============================================================================
