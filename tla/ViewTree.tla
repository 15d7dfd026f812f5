------------------------------- MODULE ViewTree -------------------------------
(***************************************************************************)
(* What a turn's view promises: one tree of files, directories and links,  *)
(* changed by one operation at a time.  ViewVfs implements it.             *)
(***************************************************************************)
EXTENDS Integers, Sequences

CONSTANTS
  Component, \* what a directory's entries may be called
  MaxDepth,  \* bound: names in a path
  Bytes,     \* what a file may hold
  Initial    \* the trees a view may start with, each with its sealed paths

VARIABLES
  tree,     \* what is at each path
  sealed    \* the paths no operation may name: submodules and what is in them

-----------------------------------------------------------------------------
\* The root is not among the paths: it is always there.
TreePath == UNION {[1..n -> Component] : n \in 1..MaxDepth}

Nothing == [kind |-> "absent"]
Dir == [kind |-> "dir"]
Link == [kind |-> "link"]
FileEntry(c, x) == [kind |-> "file", data |-> c, exec |-> x]

FileNode == {FileEntry(c, x) : c \in Bytes, x \in BOOLEAN}
Node == FileNode \union {Dir, Link}

\* p is q or below it.
Within(p, q) == Len(q) <= Len(p) /\ SubSeq(p, 1, Len(q)) = q

Ancestors(p) == {SubSeq(p, 1, i) : i \in 1..Len(p) - 1}

IsTree(tr) ==
  \A p \in TreePath : tr[p] # Nothing => \A q \in Ancestors(p) : tr[q] = Dir

HasRoom(p) == \A q \in Ancestors(p) : tree[q] \in {Nothing, Dir}

IsEmpty(p) == \A q \in TreePath \ {p} : Within(q, p) => tree[q] = Nothing

\* The tree with the nodes of put over it, and with the directories p needs.
With(put, p) ==
  [q \in TreePath |->
     IF q \in DOMAIN put THEN put[q]
     ELSE IF q \in Ancestors(p) THEN Dir
     ELSE tree[q]]

-----------------------------------------------------------------------------
Init == [tree |-> tree, sealed |-> sealed] \in Initial

Write(p, c) ==
  /\ tree[p] # Dir
  /\ HasRoom(p)
  /\ LET exec == tree[p] \in FileNode /\ tree[p].exec
     IN  tree' = With([q \in {p} |-> FileEntry(c, exec)], p)

\* A new directory or link.
Make(p, node) ==
  /\ tree[p] = Nothing
  /\ HasRoom(p)
  /\ tree' = With([q \in {p} |-> node], p)

Remove(p) ==
  /\ tree[p] # Nothing
  /\ IsEmpty(p)
  /\ tree' = [tree EXCEPT ![p] = Nothing]

SetExecutable(p, x) ==
  /\ tree[p] \in FileNode
  /\ tree' = [tree EXCEPT ![p].exec = x]

\* All that is at or under from goes to the same place under to.
Move(from, to) ==
  LET moved == {q \in TreePath : Within(q, from) /\ tree[q] # Nothing}
      At(s, q) == s \o SubSeq(q, Len(from) + 1, Len(q))
      targets == {At(to, q) : q \in moved}
  IN  /\ tree[from] # Nothing
      /\ ~Within(to, from)
      /\ tree[to] = Dir => IsEmpty(to)
      /\ HasRoom(to)
      /\ targets \subseteq TreePath
      /\ tree' = With([q \in targets \union moved |->
                         IF q \in targets
                           THEN tree[from \o SubSeq(q, Len(to) + 1, Len(q))]
                           ELSE Nothing], to)

Next ==
  /\ \E p \in TreePath \ sealed :
       \/ \E c \in Bytes : Write(p, c)
       \/ \E node \in {Dir, Link} : Make(p, node)
       \/ Remove(p)
       \/ \E x \in BOOLEAN : SetExecutable(p, x)
       \/ \E q \in TreePath \ sealed : Move(p, q)
  /\ UNCHANGED sealed

Spec == Init /\ [][Next]_<<tree, sealed>>
===============================================================================
