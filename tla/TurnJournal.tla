---------------------------- MODULE TurnJournal ----------------------------
(***************************************************************************)
(* The turns a client is shown: those a session runs now, and the last     *)
(* ones the repository's journal holds for its user (daemon.rs ListTurns   *)
(* and TurnEnd, session.rs journal_append and journal_tail).               *)
(*                                                                         *)
(* The journal is one file for all users of the repository.  writeln! to   *)
(* an unbuffered file writes a record in pieces, here its head and its     *)
(* tail with the line's end; each piece is appended whole, and the pieces  *)
(* of two turns that end together may alternate.  A line that does not     *)
(* parse is skipped.                                                       *)
(***************************************************************************)
EXTENDS Integers, Sequences, FiniteSets, Functions

CONSTANTS
  JTurn,      \* the turns
  JUser,      \* their users, each with one session
  UserOf(_),  \* the user of a turn
  TAIL,       \* journal records that are looked at
  SHOWN,      \* records of its own that a user is shown
  MaxLists,   \* bound: listings
  MaxFalls    \* bound: deaths of the daemon

ASSUME ListAssumption == TAIL \in Nat /\ SHOWN \in Nat

VARIABLES
  turns,    \* the turns registered in their sessions
  journal,  \* the pieces of the journal: <<turn, "head" or "tail">>
  course,   \* how far each turn is
  listing,  \* what each session's listing is doing
  counts,   \* how much of each bound is used
  spoiled,  \* history: turns whose records met another append or a cut one
  cut,      \* history: does the journal end in a record cut short
  kept      \* history: the turns whose appends went through, in order

journalVars == <<turns, journal, course, listing, counts, spoiled, cut, kept>>

JournalInit ==
  /\ turns = {}
  /\ journal = <<>>
  /\ course = [t \in JTurn |-> "new"]
  /\ listing = [u \in JUser |-> [pc |-> "idle"]]
  /\ counts = [lists |-> 0, falls |-> 0]
  /\ spoiled = {}
  /\ cut = FALSE
  /\ kept = <<>>

Move(t, from, to) ==
  /\ course[t] = from
  /\ course' = [course EXCEPT ![t] = to]

Appending == {t \in JTurn : course[t] = "appending"}

-----------------------------------------------------------------------------
\* A prompt registers its turn before anything of it runs.
Register(t) ==
  /\ Move(t, "new", "running")
  /\ turns' = turns \union {t}
  /\ UNCHANGED <<journal, listing, counts, spoiled, cut, kept>>

\* Bug: the turn is unregistered before its record is written.
BeginUnregistered(t) ==
  /\ Move(t, "running", "appending")
  /\ journal' = Append(journal, <<t, "head">>)
  /\ turns' = turns \ {t}
  /\ spoiled' = spoiled \union (IF Appending # {} \/ cut THEN {t} \union Appending ELSE {})
  /\ cut' = FALSE
  /\ UNCHANGED <<listing, counts, kept>>

\* The turn's record, whatever came of it, is begun.
BeginAppend(t) ==
  /\ Move(t, "running", "appending")
  /\ journal' = Append(journal, <<t, "head">>)
  /\ spoiled' = spoiled \union (IF Appending # {} \/ cut THEN {t} \union Appending ELSE {})
  /\ cut' = FALSE
  /\ UNCHANGED <<turns, listing, counts, kept>>

FinishAppend(t) ==
  /\ Move(t, "appending", "appended")
  /\ journal' = Append(journal, <<t, "tail">>)
  /\ kept' = Append(kept, t)
  /\ UNCHANGED <<turns, listing, counts, spoiled, cut>>

\* The journal cannot be written, or the turn panics: it leaves no record.
LeaveNoRecord(t) ==
  /\ Move(t, "running", "appended")
  /\ UNCHANGED <<turns, journal, listing, counts, spoiled, cut, kept>>

\* TurnEnd is dropped on every exit.
Unregister(t) ==
  /\ Move(t, "appended", "ended")
  /\ turns' = turns \ {t}
  /\ UNCHANGED <<journal, listing, counts, spoiled, cut, kept>>

\* The daemon dies, perhaps in the middle of a record.
Fall ==
  /\ counts.falls < MaxFalls
  /\ counts' = [counts EXCEPT !.falls = @ + 1]
  /\ turns' = {}
  /\ course' = [t \in JTurn |-> IF course[t] = "new" THEN "new" ELSE "ended"]
  /\ listing' = [u \in JUser |-> [pc |-> "idle"]]
  /\ cut' = (cut \/ Appending # {})
  /\ spoiled' = spoiled \union Appending
  /\ UNCHANGED <<journal, kept>>

-----------------------------------------------------------------------------
\* Where the lines that parse end: a head and its tail, and nothing else
\* between the ends of two lines.
Lines ==
  LET Ends(i) == i = 0 \/ journal[i][2] = "tail"
  IN  {i \in DOMAIN journal \ {1} :
         /\ journal[i - 1] = <<journal[i][1], "head">>
         /\ journal[i][2] = "tail"
         /\ Ends(i - 2)}

\* journal_tail, and what of it a user is shown: of the last TAIL lines the
\* last SHOWN of the user's.
Shown(u) ==
  LET After(i) == {j \in Lines : j > i}
      Own(lines) == {i \in lines : UserOf(journal[i][1]) = u}
  IN  {journal[i][1] : i \in {i \in Own(Lines) :
         Cardinality(After(i)) < TAIL /\ Cardinality(Own(After(i))) < SHOWN}}

\* A listing copies the session's running turns first.
CopyRunning(u) ==
  /\ listing[u].pc # "journal"
  /\ counts.lists < MaxLists
  /\ counts' = [counts EXCEPT !.lists = @ + 1]
  /\ listing' = [listing EXCEPT ![u] =
       [pc |-> "journal",
        running |-> {t \in turns : UserOf(t) = u},
        begun |-> {t \in JTurn : UserOf(t) = u /\ course[t] # "new"}]]
  /\ UNCHANGED <<turns, journal, course, spoiled, cut, kept>>

\* Records that TAIL or SHOWN newer ones leave no room for.
Crowded(u) ==
  LET Later(i) == {kept[j] : j \in i + 1..Len(kept)}
  IN  {kept[i] : i \in {j \in DOMAIN kept :
         \/ Cardinality(Later(j)) >= TAIL
         \/ Cardinality({t \in Later(j) : UserOf(t) = u}) >= SHOWN}}

\* Turns that are over and whose record was never finished.
Unrecorded == {t \in JTurn : course[t] \in {"appended", "ended"}} \ Range(kept)

\* It then reads the journal, and is sent.
ReadJournal(u) ==
  LET l == listing[u]
  IN  /\ l.pc = "journal"
      /\ listing' = [listing EXCEPT ![u] =
           [pc |-> "sent",
            missed |-> l.begun \ (l.running \union Shown(u)),
            excused |-> spoiled \union Crowded(u) \union Unrecorded]]
      /\ UNCHANGED <<turns, journal, course, counts, spoiled, cut, kept>>

JournalNext ==
  \/ \E t \in JTurn : Register(t)
  \/ \E t \in JTurn : BeginAppend(t)
  \/ \E t \in JTurn : FinishAppend(t)
  \/ \E t \in JTurn : LeaveNoRecord(t)
  \/ \E t \in JTurn : Unregister(t)
  \/ \E u \in JUser : CopyRunning(u)
  \/ \E u \in JUser : ReadJournal(u)
  \/ Fall

JournalSpec == JournalInit /\ [][JournalNext]_journalVars

-----------------------------------------------------------------------------
\* A listing misses no turn that began before it, although turns end, and
\* leave the one place for the other, while it looks at both: except those that
\* newer ones crowd out, that left no whole record, or whose record met another
\* turn's in the file or one that a dying daemon cut short.
EveryTurnIsListed ==
  \A u \in JUser : listing[u].pc = "sent" => listing[u].missed \subseteq listing[u].excused
=============================================================================
