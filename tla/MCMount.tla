------------------------------- MODULE MCMount -------------------------------
(* An instance for TLC of three parts of what stands between a turn and its  *)
(* files that do not touch each other: the mount's buffered writes, the      *)
(* build directories, and the view that lays its changes over a commit; a    *)
(* behaviour is one of the three.  Two calls on two files with two handles;  *)
(* two turns, one source of two contents; two callers in views of two      *)
(* trees, a directory with a file beside a file, and a directory with a      *)
(* submodule and a link.                                                     *)
EXTENDS FuseWrites, WarmBuild, ViewVfs, TLC

CONSTANTS t1, t2, lib, old, new, one, two, draft, final, shell, tool

MCTurn == {t1, t2}
MCFile == {lib}
MCContent == {old, new}

Symmetry ==
  UNION {Permutations(S) : S \in {Call, Name, MCTurn, MCContent, {shell, tool}}}

BaseOf(entries) ==
  [p \in UNION {[1..n -> {one, two}] : n \in 1..2} |->
     IF p \in DOMAIN entries THEN entries[p] ELSE [kind |-> "absent"]]
Plain ==
  LET Draft == [kind |-> "file", data |-> draft, exec |-> FALSE]
  IN  BaseOf(<<one>> :> [kind |-> "dir"] @@ <<one, one>> :> Draft @@ <<two>> :> Draft)
Mixed ==
  BaseOf(<<one>> :> [kind |-> "dir"] @@ <<one, one>> :> [kind |-> "submodule"]
           @@ <<one, two>> :> [kind |-> "link"])

MCCaller == {shell, tool}
MCComponent == {one, two}
MCBytes == {draft, final}
MCBases == {Plain, Mixed}
MCIgnored == {<<two, two>>}

ASSUME BasesAssumption == BasesAreTrees

VARIABLE part

MountInit ==
  /\ part \in {"writes", "builds", "view"}
  /\ FuseInit /\ (part # "writes" => stored = [f \in Name |-> Nowhere])
  /\ Init
  /\ ViewInit /\ (part # "view" => baseTree = Plain)

Writing == part = "writes" /\ UNCHANGED <<part, vars, overlayVars>>
Building == part = "builds" /\ UNCHANGED <<part, fuseVars, overlayVars>>

MountNext ==
  \/ \E p \in Name, truncate \in BOOLEAN : Open(p, truncate) /\ Writing
  \/ \E c \in Call, p \in Name : BeginCreate(c, p) /\ Writing
  \/ \E c \in Call : EndCreate(c) /\ Writing
  \/ \E c \in Call, h \in Handle, i \in 1..Extent : WriteBuffered(c, h, i) /\ Writing
  \/ \E c \in Call, h \in Handle, i \in 1..Extent : ReadForWrite(c, h, i) /\ Writing
  \/ \E c \in Call : InsertAndWrite(c) /\ Writing
  \/ \E c \in Call, h \in Handle : Flush(c, h) /\ Writing
  \/ \E c \in Call, h \in Handle : Release(c, h) /\ Writing
  \/ \E c \in Call, written \in BOOLEAN : Store(c, written) /\ Writing
  \/ \E c \in Call, h \in Handle, size \in 0..Extent : TruncateBuffer(c, h, size) /\ Writing
  \/ \E c \in Call, p \in Name, size \in 0..Extent : ReadForTruncate(c, p, size) /\ Writing
  \/ \E c \in Call : StoreTruncated(c) /\ Writing
  \/ \E c \in Call, p \in Name, q \in Name : Rename(c, p, q) /\ Writing
  \/ \E c \in Call : Retarget(c) /\ Writing
  \/ \E c \in Call, p \in Name : Unlink(c, p) /\ Writing
  \/ \E f \in File, c \in Content : Commit(f, c) /\ Building
  \/ Crash /\ Building
  \/ Restart /\ Building
  \/ \E t \in Turn : Sweep(t) /\ Building
  \/ \E t \in Turn : TurnStep(t) /\ Building
  \/ part = "view" /\ UNCHANGED <<part, fuseVars, vars>>
       /\ \E t \in Caller : CallerStep(t)

MountSpec == MountInit /\ [][MountNext]_<<part, fuseVars, vars, overlayVars>>
=============================================================================
