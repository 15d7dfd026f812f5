------------------------------- MODULE WarmBuild ------------------------------
(***************************************************************************)
(* The build directories of turns that work in views (view.rs, TurnView):  *)
(* a turn takes over the repository's warm directory by a rename, marks    *)
(* dirty in its view what the build in it may not have compiled, and hands *)
(* the directory on when it ends; a record of it lets the next daemon      *)
(* remove what a dead one left.                                            *)
(*                                                                         *)
(* A Dir is a directory whatever its path, named for the turn that made    *)
(* it; at says where it is.  Cargo recompiles a file whose time is newer   *)
(* than what it last compiled from it, or that has no output: newer holds  *)
(* a turn's files of such a time.  A dirty file is newer from the start    *)
(* (opened_ns), one the turn writes from its write on, every other file    *)
(* reports one fixed old time and is not.                                  *)
(***************************************************************************)
EXTENDS Integers, FiniteSets

CONSTANTS
  Turn,       \* turns of one repository that work in a view
  File,       \* source files
  Content,    \* what a file may hold
  None,       \* no directory, no content, no manifest
  MaxCommits, \* bound: commits made to the repository
  MaxCrashes  \* bound: deaths of the daemon

ASSUME NoneAssumption == None \notin Turn \union Content \union {"warm"}
ASSUME WarmAssumption == "warm" \notin Turn
ASSUME BoundsAssumption == MaxCommits \in Nat /\ MaxCrashes \in Nat

VARIABLES
  head,     \* what HEAD's commit holds
  commits,  \* commits made, of MaxCommits
  crashes,  \* deaths, of MaxCrashes
  up,       \* whether the daemon serves
  phase,    \* where each turn is
  base,     \* what the commit holds that a turn's view is of
  view,     \* what its view holds
  changed,  \* the files its view changed
  newer,    \* the files newer than what was compiled from them
  dir,      \* its build directory
  removing, \* the directory its hand-over is removing
  at,       \* where each directory is: "warm", a turn's own path, or None
  built,    \* what each directory's output was compiled from
  manifest, \* its .corrode-warm.json
  skipped   \* history: files handed on with output older than they were

repoVars == <<head, commits, crashes, up>>
viewVars == <<base, view, changed, newer>>
dirVars == <<at, built, manifest, skipped>>
vars == <<repoVars, phase, viewVars, dir, removing, dirVars>>

-----------------------------------------------------------------------------
Dir == Turn

Tree == [File -> Content]

Manifest == [base : Tree, changed : SUBSET File]

NothingBuilt == [f \in File |-> None]

\* A turn starts (idle to running), ends (running to done), or is left by a
\* start that fails or a daemon that dies.  The record exists in Recorded.
Starting == {"taken", "marked"}
HandingOver == {"removing", "renaming", "handed"}
Recorded == {"running", "dead"} \union HandingOver
Phases == {"idle", "done", "abandoned"} \union Starting \union Recorded

WarmDirs == {d \in Dir : at[d] = "warm"}

TypeOK ==
  /\ head \in Tree
  /\ commits \in 0..MaxCommits
  /\ crashes \in 0..MaxCrashes
  /\ up \in BOOLEAN
  /\ phase \in [Turn -> Phases]
  /\ base \in [Turn -> Tree \union {None}] /\ view \in [Turn -> Tree \union {None}]
  /\ changed \in [Turn -> SUBSET File] /\ newer \in [Turn -> SUBSET File]
  /\ dir \in [Turn -> Dir \union {None}]
  /\ removing \in [Turn -> Dir \union {None}]
  /\ at \in [Dir -> Turn \union {"warm", None}]
  /\ built \in [Dir -> [File -> Content \union {None}]]
  /\ manifest \in [Dir -> Manifest \union {None}]
  /\ skipped \in [Dir -> SUBSET File]
  /\ \A d, e \in WarmDirs : d = e

Init ==
  /\ head \in Tree
  /\ commits = 0
  /\ crashes = 0
  /\ up = TRUE
  /\ phase = [t \in Turn |-> "idle"]
  /\ base = [t \in Turn |-> None] /\ view = base
  /\ changed = [t \in Turn |-> {}] /\ newer = changed
  /\ dir = [t \in Turn |-> None] /\ removing = dir
  /\ at = [d \in Dir |-> None]
  /\ built = [d \in Dir |-> NothingBuilt]
  /\ manifest = [d \in Dir |-> None]
  /\ skipped = [d \in Dir |-> {}]

-----------------------------------------------------------------------------
(* What several steps do. *)

\* The views of the turns in T are dropped.
Close(T) ==
  /\ base' = [t \in Turn |-> IF t \in T THEN None ELSE base[t]]
  /\ view' = [t \in Turn |-> IF t \in T THEN None ELSE view[t]]
  /\ changed' = [t \in Turn |-> IF t \in T THEN {} ELSE changed[t]]
  /\ newer' = [t \in Turn |-> IF t \in T THEN {} ELSE newer[t]]

\* What is in the directories of D is removed.
Emptied(D) ==
  /\ built' = [d \in Dir |-> IF d \in D THEN NothingBuilt ELSE built[d]]
  /\ manifest' = [d \in Dir |-> IF d \in D THEN None ELSE manifest[d]]
  /\ skipped' = [d \in Dir |-> IF d \in D THEN {} ELSE skipped[d]]

\* The directory at a turn's own path is removed with all that is in it.
Discard(t) ==
  /\ at' = [d \in Dir |-> IF at[d] = t THEN None ELSE at[d]]
  /\ Emptied({d \in Dir : at[d] = t})

-----------------------------------------------------------------------------
(* The repository and the daemon. *)

\* Someone commits or promotes a turn's commit.
Commit(f, c) ==
  /\ commits < MaxCommits
  /\ commits' = commits + 1
  /\ head' = [head EXCEPT ![f] = c]
  /\ UNCHANGED <<crashes, up, phase, viewVars, dir, removing, dirVars>>

Crash ==
  /\ up
  /\ crashes < MaxCrashes
  /\ crashes' = crashes + 1
  /\ up' = FALSE
  /\ phase' = [t \in Turn |->
                 CASE phase[t] \in Recorded -> "dead"
                   [] phase[t] \in Starting -> "abandoned"
                   [] OTHER -> phase[t]]
  /\ dir' = [t \in Turn |-> None] /\ removing' = dir'
  /\ Close(Turn)
  /\ UNCHANGED <<head, commits, dirVars>>

\* sweep_stale_views: a record whose daemon is gone.
Sweep(t) ==
  /\ ~up
  /\ phase[t] = "dead"
  /\ Discard(t)
  /\ phase' = [phase EXCEPT ![t] = "done"]
  /\ UNCHANGED <<repoVars, viewVars, dir, removing>>

\* The next daemon serves once it has swept.
Restart ==
  /\ ~up
  /\ \A t \in Turn : phase[t] # "dead"
  /\ up' = TRUE
  /\ UNCHANGED <<head, commits, crashes, phase, viewVars, dir, removing, dirVars>>

-----------------------------------------------------------------------------
(* TurnView::start. *)

\* The view is opened on HEAD, and take_warm renames the warm directory to the
\* turn's path, or makes a new one there.  One step: between the two another turn
\* would have to build, commit, unmount and hand over for opened_ns to be too old.
Take(t) ==
  /\ up
  /\ phase[t] = "idle"
  /\ base' = [base EXCEPT ![t] = head]
  /\ view' = [view EXCEPT ![t] = head]
  /\ \/ \E d \in WarmDirs :
          /\ dir' = [dir EXCEPT ![t] = d]
          /\ at' = [at EXCEPT ![d] = t]
          /\ phase' = [phase EXCEPT ![t] = "taken"]
     \/ /\ WarmDirs = {}
        /\ dir' = [dir EXCEPT ![t] = t]
        /\ at' = [at EXCEPT ![t] = t]
        /\ phase' = [phase EXCEPT ![t] = "marked"]
  /\ UNCHANGED <<repoVars, changed, newer, removing, built, manifest, skipped>>

\* Faulty: what changed between the two bases is left out.
DirtyAfterChanges(m, t) == m.changed

\* take_warm: what the last turn changed, and what differs between the bases.
DirtyAfter(m, t) == m.changed \union {f \in File : m.base[f] # base[t][f]}

\* take_warm reads the manifest that came with the directory and marks dirty,
\* or starts cold if it is missing or its base is no longer in the repository.
MarkDirty(t) ==
  LET m == manifest[dir[t]]
  IN  /\ phase[t] = "taken"
      /\ phase' = [phase EXCEPT ![t] = "marked"]
      /\ \/ /\ m # None
            /\ newer' = [newer EXCEPT ![t] = DirtyAfter(m, t)]
            /\ UNCHANGED <<built, manifest, skipped>>
         \/ Emptied({dir[t]}) /\ UNCHANGED newer
      /\ UNCHANGED <<repoVars, base, view, changed, dir, removing, at>>

\* Linking the worktree or writing the record fails: an early return.
StartFails(t) ==
  /\ phase[t] = "marked"
  /\ phase' = [phase EXCEPT ![t] = "abandoned"]
  /\ dir' = [dir EXCEPT ![t] = None]
  /\ Close({t})
  /\ UNCHANGED <<repoVars, removing, dirVars>>

\* The record is written and the view mounted.
Record(t) ==
  /\ phase[t] = "marked"
  /\ phase' = [phase EXCEPT ![t] = "running"]
  /\ UNCHANGED <<repoVars, viewVars, dir, removing, dirVars>>

\* The mount fails: the record is taken down at once.
MountFails(t) ==
  /\ phase[t] = "marked"
  /\ Discard(t)
  /\ phase' = [phase EXCEPT ![t] = "done"]
  /\ dir' = [dir EXCEPT ![t] = None]
  /\ Close({t})
  /\ UNCHANGED <<repoVars, removing>>

-----------------------------------------------------------------------------
(* The turn at work. *)

Write(t, f, c) ==
  /\ phase[t] = "running"
  /\ view' = [view EXCEPT ![t][f] = c]
  /\ changed' = [changed EXCEPT ![t] = @ \union {f}]
  /\ newer' = [newer EXCEPT ![t] = @ \union {f}]
  /\ UNCHANGED <<repoVars, phase, base, dir, removing, dirVars>>

Recompiled(t, S) ==
  {f \in S : f \in newer[t] \/ built[dir[t]][f] = None}

\* A command builds what S goes into.
Build(t, S) ==
  LET now == Recompiled(t, S)
      d == dir[t]
  IN  /\ phase[t] = "running"
      /\ built' = [built EXCEPT ![d] = [f \in File |-> IF f \in now THEN view[t][f] ELSE @[f]]]
      /\ newer' = [newer EXCEPT ![t] = @ \ now]
      /\ skipped' = [skipped EXCEPT ![d] = @ \ now]
      /\ UNCHANGED <<repoVars, phase, base, view, changed, dir, removing, at, manifest>>

-----------------------------------------------------------------------------
(* TurnView::finish and hand_over_warm, on the blocking pool. *)

\* The manifest is written, then the warm directory there is opened to be removed.
PutManifest(t) ==
  /\ phase[t] = "running"
  /\ manifest' = [manifest EXCEPT ![dir[t]] = [base |-> base[t], changed |-> changed[t]]]
  /\ skipped' = [skipped EXCEPT ![dir[t]] = @ \union (newer[t] \ changed[t])]
  /\ \/ \E d \in WarmDirs :
          /\ removing' = [removing EXCEPT ![t] = d]
          /\ phase' = [phase EXCEPT ![t] = "removing"]
     \/ /\ WarmDirs = {}
        /\ phase' = [phase EXCEPT ![t] = "renaming"]
        /\ UNCHANGED removing
  /\ Close({t})
  /\ UNCHANGED <<repoVars, dir, at, built>>

\* The removal follows the open directory, not its path: it goes on in a
\* directory another turn has taken meanwhile.
RemoveOutput(t, f) ==
  /\ phase[t] = "removing"
  /\ built[removing[t]][f] # None
  /\ built' = [built EXCEPT ![removing[t]][f] = None]
  /\ UNCHANGED <<repoVars, phase, viewVars, dir, removing, at, manifest, skipped>>

RemoveManifest(t) ==
  /\ phase[t] = "removing"
  /\ manifest[removing[t]] # None
  /\ manifest' = [manifest EXCEPT ![removing[t]] = None]
  /\ UNCHANGED <<repoVars, phase, viewVars, dir, removing, at, built, skipped>>

IsEmpty(d) == built[d] = NothingBuilt /\ manifest[d] = None

\* The removal ends, all done or at an error, and with it an empty directory at
\* the warm path.
EndRemoval(t) ==
  /\ phase[t] = "removing"
  /\ at' = [d \in Dir |-> IF at[d] = "warm" /\ IsEmpty(d) THEN None ELSE at[d]]
  /\ removing' = [removing EXCEPT ![t] = None]
  /\ phase' = [phase EXCEPT ![t] = "renaming"]
  /\ UNCHANGED <<repoVars, viewVars, dir, built, manifest, skipped>>

\* Faulty: the target is left when another turn's build is there.
HandOverOrLeave(t) ==
  /\ phase[t] = "renaming"
  /\ at' = IF \A d \in WarmDirs : IsEmpty(d)
             THEN [d \in Dir |-> IF d = dir[t] THEN "warm"
                                 ELSE IF d \in WarmDirs THEN None ELSE at[d]]
             ELSE at
  /\ phase' = [phase EXCEPT ![t] = "handed"]
  /\ dir' = [dir EXCEPT ![t] = None]
  /\ UNCHANGED <<repoVars, viewVars, removing, built, manifest, skipped>>

\* Faulty: what is at the warm path is not looked at.
HandOverOnTop(t) ==
  /\ phase[t] = "renaming"
  /\ at' = [at EXCEPT ![dir[t]] = "warm"]
  /\ phase' = [phase EXCEPT ![t] = "handed"]
  /\ dir' = [dir EXCEPT ![t] = None]
  /\ UNCHANGED <<repoVars, viewVars, removing, built, manifest, skipped>>

\* The turn's directory is renamed over nothing or an empty directory, or else
\* removed.
HandOver(t) ==
  /\ phase[t] = "renaming"
  /\ \/ /\ \A d \in WarmDirs : IsEmpty(d)
        /\ at' = [d \in Dir |-> IF d = dir[t] THEN "warm"
                                ELSE IF d \in WarmDirs THEN None ELSE at[d]]
        /\ UNCHANGED <<built, manifest, skipped>>
     \/ /\ \E d \in WarmDirs : ~IsEmpty(d)
        /\ Discard(t)
  /\ dir' = [dir EXCEPT ![t] = None]
  /\ phase' = [phase EXCEPT ![t] = "handed"]
  /\ UNCHANGED <<repoVars, viewVars, removing>>

\* The record goes last.
RemoveRecord(t) ==
  /\ phase[t] = "handed"
  /\ phase' = [phase EXCEPT ![t] = "done"]
  /\ UNCHANGED <<repoVars, viewVars, dir, removing, dirVars>>

-----------------------------------------------------------------------------
TurnStep(t) ==
  \/ Take(t)
  \/ MarkDirty(t)
  \/ StartFails(t)
  \/ Record(t)
  \/ MountFails(t)
  \/ \E f \in File, c \in Content : Write(t, f, c)
  \/ \E S \in SUBSET File \ {{}} : Build(t, S)
  \/ PutManifest(t)
  \/ \E f \in File : RemoveOutput(t, f)
  \/ RemoveManifest(t)
  \/ EndRemoval(t)
  \/ HandOver(t)
  \/ RemoveRecord(t)

Next ==
  \/ \E f \in File, c \in Content : Commit(f, c)
  \/ Crash
  \/ Restart
  \/ \E t \in Turn : Sweep(t) \/ TurnStep(t)

Spec == Init /\ [][Next]_vars

-----------------------------------------------------------------------------
(* Properties. *)

\* What a build in turn t would use of f's old output.
Reused(t, f) ==
  phase[t] = "running" /\ built[dir[t]][f] # None /\ f \notin newer[t]

\* take_warm's doc: every file that may differ from what the carried build
\* compiled is dirty.  Output a build reuses was compiled from what the view holds.
BuildIsCurrent ==
  \A t \in Turn, f \in File : Reused(t, f) => built[dir[t]][f] = view[t][f]

\* It is, whatever turns race to take, remove and hand over directories, commits
\* move HEAD and daemons die, except for a file that some turn inherited dirty and
\* handed on without having built it.
CurrentUnlessSkipped ==
  \A t \in Turn, f \in File :
    Reused(t, f) => built[dir[t]][f] = view[t][f] \/ f \in skipped[dir[t]]

\* A directory that is not warm is a starting or recorded turn's, so that the turn
\* or a sweep will hand it on or remove it, unless its turn never got as far as
\* writing a record.
NothingLeaks ==
  \A d \in Dir :
    at[d] \in Turn => phase[at[d]] \in Starting \union Recorded \union {"abandoned"}
===============================================================================
