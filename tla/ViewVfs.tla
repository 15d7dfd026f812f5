-------------------------------- MODULE ViewVfs --------------------------------
(***************************************************************************)
(* A turn's view of the repository (view.rs, ViewVfs): the changes the     *)
(* turn made, laid over the tree of the commit it works from, and the      *)
(* commit made of them at its end.                                         *)
(*                                                                         *)
(* Callers are the file tools and the shells behind the FUSE mount, on     *)
(* any thread.  A change takes the lock of changes once, but chmod, touch  *)
(* and rename look, read contents and change under a lock each: op is      *)
(* what a caller found so far.                                             *)
(***************************************************************************)
EXTENDS Integers, Sequences

CONSTANTS
  Caller,    \* threads in the view at one time
  Component, \* names of files and directories
  MaxDepth,  \* bound: names in a path
  Bytes,     \* what a file may hold
  Bases,     \* the trees of the commits a view may be opened on
  Ignored,   \* the paths .gitignore excludes
  MaxOps     \* bound: operations of the turn

VARIABLES
  baseTree, \* the base commit's tree
  changes,  \* what the view holds for the paths the turn changed
  op,       \* the operation each caller is in the middle of
  ops,      \* operations begun, of MaxOps
  torn      \* history: some operation took effect on what had changed since it looked

overlayVars == <<baseTree, changes, op, ops, torn>>

-----------------------------------------------------------------------------
TreePath == UNION {[1..n -> Component] : n \in 1..MaxDepth}

Nothing == [kind |-> "absent"]
Directory == [kind |-> "dir"]
Link == [kind |-> "link"]
FileEntry(c, x) == [kind |-> "file", data |-> c, exec |-> x]
FileNode == {FileEntry(c, x) : c \in Bytes, x \in BOOLEAN}

\* A base entry may also be a submodule; a change may also be that a path is
\* gone, or there is none.
Submodule == [kind |-> "submodule"]
Gone == [kind |-> "gone"]
Unchanged == [kind |-> "unchanged"]

Node == FileNode \union {Directory, Link}
BaseEntry == Node \union {Submodule, Nothing}
Change == Node \union {Gone, Unchanged}

Within(p, q) == Len(q) <= Len(p) /\ SubSeq(p, 1, Len(q)) = q

Ancestors(p) == {SubSeq(p, 1, i) : i \in 1..Len(p) - 1}

\* A submodule is shown as a directory.
AsShown(entry) == IF entry = Submodule THEN Directory ELSE entry

Over(entry, change) ==
  CASE change = Unchanged -> AsShown(entry)
    [] change = Gone -> Nothing
    [] OTHER -> change

\* view_of.
View(p) == Over(baseTree[p], changes[p])

tree == [p \in TreePath |-> View(p)]

\* writable: nothing at or inside a submodule of the base.
Writable(p) == \A q \in Ancestors(p) \union {p} : baseTree[q] # Submodule

\* names_in is empty.
NoNames(p) == \A q \in TreePath : Len(q) = Len(p) + 1 /\ Within(q, p) => View(q) = Nothing

\* ensure_parents looks upwards as far as the first ancestor that is there.
Missing(p) ==
  {q \in Ancestors(p) :
     \A r \in Ancestors(p) : Len(q) <= Len(r) => View(r) = Nothing}

ParentsFit(p) ==
  \A q \in Ancestors(p) :
    View(q) # Nothing /\ (\A r \in Ancestors(p) : Len(q) < Len(r) => View(r) = Nothing)
      => View(q) = Directory

Idle == [kind |-> "none"]

\* A move, or a chmod or touch of one path, has looked at from: found holds what
\* it saw there, by suffix, and unread the suffixes of files it has yet to read.
Suffix == {<<>>} \union UNION {[1..n -> Component] : n \in 1..MaxDepth - 1}

OpState ==
  [kind : {"move", "set"}, from : TreePath, to : TreePath,
   found : UNION {[D -> Node] : D \in SUBSET Suffix}, unread : SUBSET Suffix,
   overtaken : BOOLEAN]

\* An operation looked at what it may change, and every path it found has a
\* place at both ends.
Underway(o) ==
  /\ Writable(o.from) /\ Writable(o.to)
  /\ o.kind = "move" => ~Within(o.to, o.from)
  /\ <<>> \in DOMAIN o.found
  /\ \A s \in DOMAIN o.found : o.from \o s \in TreePath /\ o.to \o s \in TreePath
  /\ \A s \in o.unread : s \in DOMAIN o.found /\ o.found[s] \in FileNode

ViewTypeOK ==
  /\ baseTree \in [TreePath -> BaseEntry]
  /\ changes \in [TreePath -> Change]
  /\ op \in [Caller -> OpState \union {Idle}]
  /\ \A t \in Caller : op[t] # Idle => Underway(op[t])
  /\ ops \in 0..MaxOps
  /\ torn \in BOOLEAN

ViewInit ==
  /\ baseTree \in Bases
  /\ changes = [p \in TreePath |-> Unchanged]
  /\ op = [t \in Caller |-> Idle]
  /\ ops = 0
  /\ torn = FALSE

-----------------------------------------------------------------------------
\* The paths whose change means that an operation no longer sees what it saw.
Watched(o) ==
  {p \in TreePath : Within(p, o.from) \/ Within(p, o.to) \/ p \in Ancestors(o.to)}

\* The caller's operation is over; those of others may have been overtaken by
\* what it did.
Finish(t) ==
  op' = [u \in Caller |->
           IF u = t \/ op[u] = Idle THEN Idle
           ELSE [op[u] EXCEPT !.overtaken =
                   @ \/ \E p \in Watched(op[u]) : Over(baseTree[p], changes'[p]) # View(p)]]

Begin(t) ==
  /\ op[t] = Idle
  /\ ops < MaxOps
  /\ ops' = ops + 1

\* The change of p, with the directories it needs recorded as changes too.
Insert(p, change) ==
  changes' = [q \in TreePath |->
                IF q = p THEN change
                ELSE IF q \in Missing(p) THEN Directory
                ELSE changes[q]]

-----------------------------------------------------------------------------
(* Operations under one lock. *)

WriteFile(t, p, c) ==
  /\ Begin(t)
  /\ Writable(p)
  /\ View(p) # Directory
  /\ ParentsFit(p)
  /\ Insert(p, FileEntry(c, View(p) \in FileNode /\ View(p).exec))
  /\ Finish(t)
  /\ UNCHANGED <<baseTree, torn>>

\* mkdir and symlink.
Make(t, p, node) ==
  /\ Begin(t)
  /\ Writable(p)
  /\ View(p) = Nothing
  /\ ParentsFit(p)
  /\ Insert(p, node)
  /\ Finish(t)
  /\ UNCHANGED <<baseTree, torn>>

\* Faulty: the emptiness of a directory is judged by the turn's changes alone.
RemoveUnlisted(t, p) ==
  /\ Begin(t)
  /\ Writable(p)
  /\ View(p) # Nothing
  /\ \A q \in TreePath \ {p} : Within(q, p) => changes[q] \in {Gone, Unchanged}
  /\ changes' = [changes EXCEPT ![p] = Gone]
  /\ Finish(t)
  /\ UNCHANGED <<baseTree, torn>>

\* remove_now.
Remove(t, p) ==
  /\ Begin(t)
  /\ Writable(p)
  /\ View(p) # Nothing
  /\ NoNames(p)
  /\ changes' = [changes EXCEPT ![p] = Gone]
  /\ Finish(t)
  /\ UNCHANGED <<baseTree, torn>>

-----------------------------------------------------------------------------
(* Operations that look, read and change. *)

Hold(t, o) == op' = [op EXCEPT ![t] = o]

\* set_executable_now.
Chmod(t, p, x) ==
  /\ Begin(t)
  /\ Writable(p)
  /\ View(p) \in FileNode
  /\ Hold(t, [kind |-> "set", from |-> p, to |-> p,
              found |-> [s \in {<<>>} |-> [View(p) EXCEPT !.exec = x]],
              unread |-> {}, overtaken |-> FALSE])
  /\ UNCHANGED <<baseTree, changes, torn>>

\* Faulty: whether there is anything is not looked at.
TouchBlindly(t, p) ==
  /\ Begin(t)
  /\ Writable(p)
  /\ Hold(t, [kind |-> "set", from |-> p, to |-> p,
              found |-> [s \in {<<>>} |-> View(p)],
              unread |-> IF View(p) \in FileNode THEN {<<>>} ELSE {}, overtaken |-> FALSE])
  /\ UNCHANGED <<baseTree, changes, torn>>

\* touch looks at the path; what a link is touched as, read_now refuses.
Touch(t, p) ==
  /\ Begin(t)
  /\ Writable(p)
  /\ View(p) \in FileNode \union {Directory}
  /\ Hold(t, [kind |-> "set", from |-> p, to |-> p,
              found |-> [s \in {<<>>} |-> View(p)],
              unread |-> IF View(p) = Directory THEN {} ELSE {<<>>}, overtaken |-> FALSE])
  /\ UNCHANGED <<baseTree, changes, torn>>

\* rename_now lists all that is at or under from.
BeginRename(t, from, to) ==
  LET found == {s \in Suffix : from \o s \in TreePath /\ View(from \o s) # Nothing}
  IN  /\ Begin(t)
      /\ Writable(from) /\ Writable(to)
      /\ View(from) # Nothing
      /\ ~Within(to, from)
      /\ View(to) = Directory => NoNames(to)
      /\ \A s \in found : to \o s \in TreePath \* bound
      /\ Hold(t, [kind |-> "move", from |-> from, to |-> to,
                  found |-> [s \in found |-> View(from \o s)],
                  unread |-> {s \in found : View(from \o s) \in FileNode},
                  overtaken |-> FALSE])
      /\ UNCHANGED <<baseTree, changes, torn>>

\* read_now of a file found.  What is no longer a file ends the operation.
Read(t, s) ==
  LET v == View(op[t].from \o s)
  IN  /\ IF v \in FileNode
           THEN Hold(t, [op[t] EXCEPT !.found[s].data = v.data, !.unread = @ \ {s}])
           ELSE Hold(t, Idle)
      /\ UNCHANGED <<baseTree, changes, ops, torn>>

\* The change of chmod or touch.
Set(t) ==
  /\ op[t].kind = "set"
  /\ op[t].unread = {}
  /\ changes' = [changes EXCEPT ![op[t].from] = op[t].found[<<>>]]
  /\ Finish(t)
  /\ torn' = (torn \/ op[t].overtaken)
  /\ UNCHANGED <<baseTree, ops>>

\* What becomes of a path that was moved away.
Left(p) == IF baseTree[p] = Nothing THEN Unchanged ELSE Gone

\* Faulty: what was moved away is only dropped from the changes.
MoveForgetting(t) ==
  LET o == op[t]
      to == {o.to \o s : s \in DOMAIN o.found}
      from == {o.from \o s : s \in DOMAIN o.found}
  IN  /\ o.kind = "move"
      /\ o.unread = {}
      /\ ParentsFit(o.to)
      /\ changes' = [p \in TreePath |->
                       IF p \in from THEN Unchanged
                       ELSE IF p \in to THEN o.found[SubSeq(p, Len(o.to) + 1, Len(p))]
                       ELSE IF p \in Missing(o.to) THEN Directory
                       ELSE changes[p]]
      /\ Finish(t)
      /\ torn' = (torn \/ o.overtaken)
      /\ UNCHANGED <<baseTree, ops>>

\* rename_now's own change: the directories to needs, all that was found under
\* its new path, and then nothing at its old one.
Move(t) ==
  LET o == op[t]
      to == {o.to \o s : s \in DOMAIN o.found}
      from == {o.from \o s : s \in DOMAIN o.found}
  IN  /\ o.kind = "move"
      /\ o.unread = {}
      /\ ParentsFit(o.to)
      /\ changes' = [p \in TreePath |->
                       IF p \in from THEN Left(p)
                       ELSE IF p \in to THEN o.found[SubSeq(p, Len(o.to) + 1, Len(p))]
                       ELSE IF p \in Missing(o.to) THEN Directory
                       ELSE changes[p]]
      /\ Finish(t)
      /\ torn' = (torn \/ o.overtaken)
      /\ UNCHANGED <<baseTree, ops>>

\* ensure_parents refuses: an ancestor has become a file.
MoveFails(t) ==
  /\ op[t].kind = "move"
  /\ op[t].unread = {}
  /\ ~ParentsFit(op[t].to)
  /\ Hold(t, Idle)
  /\ UNCHANGED <<baseTree, changes, ops, torn>>

-----------------------------------------------------------------------------
CallerStep(t) ==
  \/ \E p \in TreePath :
       \/ \E c \in Bytes : WriteFile(t, p, c)
       \/ \E node \in {Directory, Link} : Make(t, p, node)
       \/ Remove(t, p)
       \/ \E x \in BOOLEAN : Chmod(t, p, x)
       \/ Touch(t, p)
       \/ \E q \in TreePath : BeginRename(t, p, q)
  \/ op[t] # Idle /\ \E s \in op[t].unread : Read(t, s)
  \/ Set(t)
  \/ Move(t)
  \/ MoveFails(t)

ViewNext == \E t \in Caller : CallerStep(t)

ViewSpec == ViewInit /\ [][ViewNext]_overlayVars

-----------------------------------------------------------------------------
(* The commit. *)

InIndex(n) == n \in FileNode \union {Link, Submodule}

\* What update-index is told to add: the new files that are ignored are not.
Added(p) ==
  /\ changes[p] \in FileNode \union {Link}
  /\ ~(p \in Ignored /\ changes[p] \in FileNode /\ baseTree[p] = Nothing)

\* Faulty: a link that is gone is not.
RemovedFile(p) == changes[p] = Gone /\ baseTree[p] \in FileNode

\* What it is told to remove: a base file that is gone.
Removed(p) == changes[p] = Gone /\ baseTree[p] \in FileNode \union {Link}

Clash(p, q) == p # q /\ (Within(p, q) \/ Within(q, p))

\* What the commit has at p: an entry takes the place of those that are a
\* directory where it is a file, or a file where it needs a directory.
Committed(p) ==
  IF Added(p)
    THEN IF \E q \in TreePath \ {p} : Added(q) /\ Within(q, p) THEN Nothing ELSE changes[p]
    ELSE IF InIndex(baseTree[p]) /\ ~Removed(p) /\ \A q \in TreePath : Added(q) => ~Clash(p, q)
      THEN baseTree[p] ELSE Nothing

-----------------------------------------------------------------------------
(* Properties. *)

\* The tree a base is shown as, and what of it is read-only.
Opened(b) ==
  [tree |-> [p \in TreePath |-> AsShown(b[p])],
   sealed |-> {p \in TreePath : \E q \in TreePath : Within(p, q) /\ b[q] = Submodule}]

T == INSTANCE ViewTree WITH
  Initial <- {Opened(b) : b \in Bases}, sealed <- Opened(baseTree).sealed

\* What the constants have to be: a commit's tree is one, submodules included.
BasesAreTrees ==
  /\ MaxDepth \in Nat /\ MaxOps \in Nat
  /\ \A b \in Bases : b \in [TreePath -> BaseEntry] /\ T!IsTree(Opened(b).tree)

\* A step that takes effect on what another caller has changed since it looked.
OvertakenStep == \E t \in Caller : op[t] # Idle /\ op[t].overtaken /\ (Set(t) \/ Move(t))

\* A view reads as one tree: however changes, deletions and renames are layered
\* over the base, what it shows changes by one whole operation on a tree at a
\* time, except where a chmod, touch or rename was overtaken, and from what
\* such a step may leave that is no tree.
ReadsAsTree ==
  T!Init /\ [][UNCHANGED tree \/ T!Next \/ OvertakenStep \/ ~T!IsTree(tree)]_tree

\* Nothing is shown whose parent is not a directory, unless an operation was torn:
\* a listing leads to every file, and removing what is listed removes all.
NothingOrphaned == ~torn => T!IsTree(tree)

\* What a commit should hold of what the view shows: files, links and submodules.
Shown(p) ==
  IF baseTree[p] = Submodule /\ changes[p] = Unchanged THEN Submodule
  ELSE IF View(p) \in FileNode \union {Link} /\ (Added(p) \/ changes[p] = Unchanged) THEN View(p)
  ELSE Nothing

\* What the commit holds is what the view shows, path by path, without exception
\* (view.rs, commit).
CommitIsView == \A p \in TreePath : Committed(p) = Shown(p)

\* What the commit holds is what the view shows, path by path, but for new
\* files that are ignored, as long as no directory has taken the place of a base
\* file and no submodule was moved.
CommitKeepsFiles ==
  ~torn => \A p \in TreePath :
    \/ Committed(p) = Shown(p)
    \/ InIndex(baseTree[p]) /\ View(p) = Directory
    \/ baseTree[p] = Submodule /\ changes[p] = Gone
===============================================================================
